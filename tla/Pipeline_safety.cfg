\* A local request and an agent's; every fault but a retried push and a failing os.Remove.
SPECIFICATION Spec
CONSTANTS
  Jobs = {l1, r1}
  RemoteJobs = {r1}
  AdHocJobs = {}
  Copies = {}
  Original <- OriginalOf
  Faults = {"registry", "redis", "agent", "sigterm", "crash"}
INVARIANTS
  TypeOK
  SuccessIsStored
  RunIdIsOwn
  NoUseAfterClose
  FileListAgreesWithLog
  StartTimeIsReported
  OneRowPerRequest
  OnlyFailuresLeaveFiles
PROPERTIES
  Ledger
