CONSTANTS
  MAX_TASKS = 6
  MainPrio = 100
  Daemons = 1
  IntruderPrio = 50
  Intruders = 1
  SleepUnit = 1
  VforkFullErrno = "EPERM"
SPECIFICATION Spec
INVARIANTS TypeOK SuiteVerdict NoOverrun
PROPERTIES SuiteEnds
CHECK_DEADLOCK FALSE
