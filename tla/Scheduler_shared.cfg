SPECIFICATION Spec
CONSTANTS
  Dbs <- MCDbs
  OwnTriggers <- MCOwn
  SharedTriggers <- MCShared
  Members <- MCMembers
  TimeOfDay <- MCTimeOfDay
  Horizon = 6
  Hhmm <- MCHhmm
  Day <- MCDay
  MaxFailures = 1
  MaxSlips = 0
  Calm <- Periods
CHECK_DEADLOCK FALSE
INVARIANTS SharedFiredOnTime
