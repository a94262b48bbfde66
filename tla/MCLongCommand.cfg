\* Requests below, between and above the levels; a wiggle every second cycle.
SPECIFICATION CommandSpec
CONSTANTS
  Requests = {0, 2, 5, 8, 13}
  Level <- MCLevel
  Step <- MCStep
  Cap = 11
  Wiggle = 2
  CMD_COUNT = 4
  NearCycles = 3
INVARIANT OneAtATime
PROPERTIES RisesByStep NearNeverPullsTwice
