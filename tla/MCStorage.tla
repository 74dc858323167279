------------------------------ MODULE MCStorage ------------------------------
(***************************************************************************)
(* An instance of Storage: the backups u1 and u2 have one name and minute, *)
(* as those of a database "shop" here and a database "shop" on an agent.   *)
(***************************************************************************)
EXTENDS Storage

MCUploads == {"u1", "u2"}
MCDb == [u \in MCUploads |-> "shop"]
MCFile == [u \in MCUploads |-> "0905"]
==============================================================================
