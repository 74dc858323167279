------------------------------ MODULE RunLedger ------------------------------
(***************************************************************************)
(* What the "Nhat ky" (log) page promises about backup requests, with no   *)
(* queue, consumer, agent or crash in sight.  A request enters the log at  *)
(* most once, either as "running" when it is enqueued or, for a request    *)
(* that was enqueued without a row, directly with its outcome.  A running  *)
(* entry settles once; "success" is only ever written for a request whose  *)
(* backup has reached its storage destination.  Clearing the log removes   *)
(* every entry, and a removed entry never comes back.                      *)
(*                                                                         *)
(* The queue delivers at least once, not exactly once.  A request that was *)
(* repeated may settle again or, enqueued without a row, enter the log     *)
(* once more; it still never shows a success that is not stored, and a     *)
(* settled entry never runs again.                                         *)
(*                                                                         *)
(* Pipeline implements this specification (see Pipeline!Ledger).           *)
(***************************************************************************)

CONSTANT Jobs

VARIABLES
  log,       \* the visible entries: a function from a subset of Jobs to sets of statuses
  entered,   \* requests that have ever had an entry
  stored,    \* requests whose backup file is at its storage destination
  repeated   \* requests that were delivered a second time

vars == <<log, entered, stored, repeated>>

Outcome == {"success", "error"}

Shown == DOMAIN log

Write(j, statuses) ==
  log' = [k \in Shown \cup {j} |-> IF k = j THEN statuses ELSE log[k]]

\* A success entry needs the backup to be stored; an error entry needs nothing.
Justified(j, status) == status = "success" => j \in stored

Init ==
  /\ log = [j \in {} |-> {}]
  /\ entered = {}
  /\ stored = {}
  /\ repeated = {}

Enqueue(j) ==
  /\ j \notin entered
  /\ entered' = entered \cup {j}
  /\ Write(j, {"running"})
  /\ UNCHANGED <<stored, repeated>>

Repeat(j) ==
  /\ repeated' = repeated \cup {j}
  /\ UNCHANGED <<log, entered, stored>>

Store(j) ==
  /\ stored' = stored \cup {j}
  /\ UNCHANGED <<log, entered, repeated>>

Settle(j, status) ==
  /\ j \in Shown
  /\ log[j] = {"running"} \/ j \in repeated
  /\ Justified(j, status)
  /\ Write(j, {status})
  /\ UNCHANGED <<entered, stored, repeated>>

RecordFinished(j, status) ==
  /\ j \notin entered \/ j \in repeated
  /\ Justified(j, status)
  /\ entered' = entered \cup {j}
  /\ Write(j, {status} \cup IF j \in Shown THEN log[j] ELSE {})
  /\ UNCHANGED <<stored, repeated>>

Clear ==
  /\ log' = [j \in {} |-> {}]
  /\ UNCHANGED <<entered, stored, repeated>>

Next ==
  \/ \E j \in Jobs : Enqueue(j) \/ Repeat(j) \/ Store(j)
  \/ \E j \in Jobs, status \in Outcome : Settle(j, status) \/ RecordFinished(j, status)
  \/ Clear

Spec == Init /\ [][Next]_vars
==============================================================================
