\* A server whose policy never changes, without FIFO.
SPECIFICATION FixedSpec
CONSTANTS
  Pages <- MCPages
  Contents = {c1, c2}
  None = None
  RamFrames = 3
  Policies = {"LRU", "CLOCK", "LFU"}
  MaxFreq = 2
  MaxQueue = 4
INVARIANTS RamBounded
PROPERTIES LruEvictsOldest CacheSpec
