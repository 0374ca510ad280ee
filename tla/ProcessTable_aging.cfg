\* Three processes; MaxTicks is 5 times the largest priority.
SPECIFICATION ProcSpec
CONSTANTS
  Pids <- ThreeProcs
  FirstPid <- First
  Priorities = {0, 1}
  MaxTicks = 5
PROPERTIES AgingReachesFront
