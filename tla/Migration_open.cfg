\* The admin server, the scheduler and the consumer on any earlier file, with a crash.
SPECIFICATION FairSpec
CONSTANTS
  Procs = {p1, p2, p3}
  Triples = {t1, t2}
  MaxEdits = 2
  MaxCrashes = 1
CHECK_DEADLOCK FALSE
INVARIANTS OpenedIsCurrent TimesMovedOnce NoOrphanSchedules
PROPERTIES SchedulesSurvive AllOpen
