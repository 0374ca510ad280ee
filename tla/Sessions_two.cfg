SPECIFICATION Spec
CONSTANTS
  u1 = u1
  u2 = u2
  t1 = t1
  t2 = t2
  r1 = r1
  r2 = r2
  Users <- MCUsers
  Tabs <- MCTabs
  Slots <- MCSlots
  NoOne = NoOne
  MaxChats = 3
  MaxDeletes = 2
SYMMETRY Symmetry
INVARIANTS
  SessTypeOK
  IsolatedUnlessCarried
  DeletedStaysDeleted
  SavedIsShown
CONSTRAINTS Unmixed FewChats
