----------------------------- MODULE MCDispatch -----------------------------
(* Instances of Dispatch: a few requests to one agent, as model values. *)
EXTENDS Dispatch
==============================================================================
