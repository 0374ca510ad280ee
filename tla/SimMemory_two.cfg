SPECIFICATION SimSpec
CONSTANTS
  t1 = t1
  t2 = t2
  c1 = c1
  c2 = c2
  Threads <- MCThreads
  Pages <- MCPages
  Contents <- MCContents
  None = None
  RamCap = 1
SYMMETRY MCSymmetry
INVARIANTS
  SimTypeOK
  OverfullHasCause
  LostOnlyByException
PROPERTY
  SequentialStore
