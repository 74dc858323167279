\* A push is retried: a local job comes to the list twice, and a remote one runs beside both.
\* Agents fail as they please, and so does os.Remove.
SPECIFICATION FairSpec
CONSTANTS
  Jobs = {l1, l2, r1}
  RemoteJobs = {r1}
  AdHocJobs = {}
  Copies = {l2}
  Original <- OriginalOf
  Faults = {"agent", "retry", "remove"}
INVARIANTS
  ReturnedIsRecorded
  LocalJobsAreSerial
  OneRowPerRequest
PROPERTIES
  OutcomeIsFinal
  RunningSettles
