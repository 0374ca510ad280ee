\* Every policy, with runtime switching; a negative page id among others.
SPECIFICATION Spec
CONSTANTS
  Pages <- SignedPages
  Contents = {c1}
  None = None
  RamFrames = 3
  Policies = {"LRU", "FIFO", "CLOCK", "LFU"}
  MaxFreq = 2
  MaxQueue = 4
INVARIANTS TableOK ListsCoverRing
PROPERTIES OverflowHasCause ClockSecondChance
