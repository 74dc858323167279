----------------------------- MODULE MCScheduler -----------------------------
(***************************************************************************)
(* Instances of Scheduler: databases a and b, a's own schedule o1 and the  *)
(* times s1 and s2 of a group with both databases.  The clock shows 09:05  *)
(* in three periods of day 0, the last after it was put back, and in two   *)
(* periods of day 1.                                                       *)
(***************************************************************************)
EXTENDS Scheduler

MCDbs == {"a", "b"}
MCOwn == {"o1"}
MCShared == {"s1", "s2"}
MCMembers == [t \in MCOwn \cup MCShared |-> IF t = "o1" THEN {"a"} ELSE {"a", "b"}]
MCTimeOfDay == [t \in MCOwn \cup MCShared |-> IF t = "s2" THEN "09:06" ELSE "09:05"]

MCHhmm == [p \in Periods |-> CASE p \in {2, 6} -> "09:06" [] OTHER -> "09:05"]
MCCalm == {4, 5}
MCDay == [p \in Periods |-> IF p <= 3 THEN 0 ELSE 1]
==============================================================================
