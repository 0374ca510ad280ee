\* Two clients on two pages and one frame.
SPECIFICATION KMSpec
CONSTANTS
  Pages <- TwoPages
  Contents = {c1, c2, Empty}
  None = None
  Empty = Empty
  RamFrames = 1
  Policies = {"LRU"}
  MaxFreq = 3
  MaxQueue = 4
  Threads = {t1, t2}
  Pids = {1000}
SYMMETRY Symmetric
INVARIANTS KMTypeOK CopiesCoherent WaitingHasFault
