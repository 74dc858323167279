SPECIFICATION Spec
CONSTANTS
  Uploads <- MCUploads
  AgentUploads = {"u2"}
  Downloads = {"d1"}
  Edits = {"e1"}
  Accounts = {"a1", "a2"}
  Buckets = {"b1", "b2"}
  Prefixes = {"p"}
  Db <- MCDb
  File <- MCFile
  MaxTargets = 2
CHECK_DEADLOCK FALSE
INVARIANTS DownloadIsOwn
