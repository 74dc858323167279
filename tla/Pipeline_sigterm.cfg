\* SIGTERM and nothing else going wrong.
SPECIFICATION Spec
CONSTANTS
  Jobs = {l1, r1}
  RemoteJobs = {r1}
  AdHocJobs = {}
  Copies = {}
  Original <- OriginalOf
  Faults = {"sigterm"}
INVARIANTS
  ExitFinishesInFlight
