\* Two extraction runs and one janitor (rollback, delete or edit) on a thread of two messages.
SPECIFICATION Spec
CONSTANTS
  Worker = {w1, w2}
  Janitor = {j1}
  Fact = {f1}
  None = None
  MaxMessages = 2
  MaxRuns = 2
  MaxEdits = 1
  MaxChores = 1
  WindowSize = 2
  TurnRange <- Again
SYMMETRY Symmetry
INVARIANTS
  NothingIsSkipped
  TwinsComeFromOverlaps
  MemoriesHaveSources
  UndoneRunsAreGone
  
CHECK_DEADLOCK FALSE
