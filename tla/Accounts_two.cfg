SPECIFICATION Spec
CONSTANTS
  u1 = u1
  u2 = u2
  r1 = r1
  r2 = r2
  Users <- MCUsers
  Requests <- MCRequests
  Nobody = Nobody
  Pids <- MCPids
  FirstPid = 1000
  SimPids <- MCSimPids
  FirstSimPid = 1001
  Priorities = {5}
  MaxTicks = 0
  MaxRestarts = 1
CONSTRAINT FewFaults
SYMMETRY MCSymmetry
INVARIANTS
  AccTypeOK
  AccountsKept
  PidsDistinct
  ProcessesOwned
