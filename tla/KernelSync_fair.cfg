\* Three processes and two binary semaphores; no tick counts.
SPECIFICATION SyncSpec
CONSTANTS
  Procs <- ThreeProcs
  Pids <- ThreeProcs
  FirstPid <- First
  Priorities = {5}
  MaxTicks = 0
  Sems = {s1, s2}
  NoHolder <- Nobody
  InitValues = {1}
  MaxValue = 1
  MaxWaiting = 3
INVARIANTS UnitsConserved BlockedIsParked
PROPERTIES WaitingEnds DeadlockLasts
