\* Two overlapping searches of one owner over three memories, one of which may be deleted.
SPECIFICATION EpochSpec
CONSTANTS
  Search = {s1, s2}
  MaxMemories = 3
  MaxDeleted = 1
  Weight <- LastIsHeaviest
  Filters <- AllOrEven
  MaxResults = {3}
  MinAppendix = 2
  None = None
SYMMETRY Symmetry

  
PROPERTIES
  OrderIsStable
  CompiledEntriesAreKept
CHECK_DEADLOCK FALSE
