\* Two overlapping requests with content in S3 and in chunks, branches copied under new versions, rows removed at any time.
SPECIFICATION Spec
CONSTANTS
  NodeId = {1, 2, 3, 4}
  Client = {c1, c2}
  None = None
  Contents <- LargeOnly
  Workload = {"branch", "metadata", "hard_delete"}
SYMMETRY Symmetry
INVARIANTS
  ChainWellFormed
PROPERTIES
  HistoryIsKept
CHECK_DEADLOCK FALSE
