\* Two memories, one of them a checkpoint, one slot, one fault and two chores.
SPECIFICATION FairSpec
CONSTANTS
  Memory = {m1, m2}
  Checkpoint = {m1}
  a = a
  b = b
  Name = {a, b}
  Text <- Texts
  Alike <- Spellings
  Slots = 1
  None = None
  MaxEntities = 4
  MaxChores = 2
  MaxFaults = 1
INVARIANTS
  OneEntityPerName
  
  
PROPERTIES
  ExtractionEnds
CHECK_DEADLOCK FALSE
