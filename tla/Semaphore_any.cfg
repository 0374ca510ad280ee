\* Every sequence of calls, by callers that follow no rule.
SPECIFICATION DetSpec
CONSTANTS
  Procs <- ThreeProcs
  Sems = {s1, s2}
  NoHolder <- Nobody
  InitValues <- Inits
  MaxValue = 2
  MaxWaiting = 2
SYMMETRY Symmetric
INVARIANTS SemTypeOK SemConsistent DetectorExact
PROPERTIES NoOvertaking
