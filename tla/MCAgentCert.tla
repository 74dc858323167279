----------------------------- MODULE MCAgentCert -----------------------------
(***************************************************************************)
(* Instances of AgentCert: one row, one client at a time.                  *)
(***************************************************************************)
EXTENDS AgentCert
==============================================================================
