\* Two requests, a queue of one, a restart, and time enough for the sweep.
SPECIFICATION FairSpec
CONSTANTS
  Requests = {q1, q2}
  Capacity = 1
  Retention = 3
  MaxTime = 6
  MaxRestarts = 1
  MaxWait = 1
  Timeout = 1
CHECK_DEADLOCK FALSE
INVARIANTS KnownUntilDone PendingIsHeld AwaitedIsKept OutcomeIsTrue
PROPERTIES AcceptedRuns
