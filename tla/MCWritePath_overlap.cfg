\* Two overlapping calls of two users on one project, one secret and one plain content.
SPECIFICATION Spec
CONSTANTS
  Project = {p1}
  User = {u1, u2}
  Client = {c1, c2}
  None = None
  Content = {1, 2}
  Secret = {2}
  Place = {None, p1}
  Settings <- LaxOrOff
  MaxRules = 4
  MaxCalls = 3
SYMMETRY Symmetry
INVARIANTS
  InviteOnlyHolds
  
  DuplicatesComeFromOverlaps
  OutsidersWriteNothing
CHECK_DEADLOCK FALSE
