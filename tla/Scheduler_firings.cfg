SPECIFICATION Spec
CONSTANTS
  Dbs <- MCDbs
  OwnTriggers <- MCOwn
  SharedTriggers <- MCShared
  Members <- MCMembers
  TimeOfDay <- MCTimeOfDay
  Horizon = 6
  Hhmm <- MCHhmm
  Day <- MCDay
  MaxFailures = 2
  MaxSlips = 1
  Calm <- MCCalm
CHECK_DEADLOCK FALSE
INVARIANTS TypeOK FiringsBounded MarkedMeansPushed OwnFiredOnTime
