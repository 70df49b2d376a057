\* Two overlapping calls, profiles of the user and of one project.
SPECIFICATION Spec
CONSTANTS
  Fact = {f1, f2}
  Scope = {None, p1}
  Client = {c1, c2}
  None = None
  MaxSynopses = 3
  MaxPins = 2
SYMMETRY Symmetry
INVARIANTS
  
  FreshSynopsisIsComplete
CHECK_DEADLOCK FALSE
