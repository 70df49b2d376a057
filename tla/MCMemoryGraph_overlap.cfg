\* Edges are created while the rows they name are updated, deleted and removed.
SPECIFICATION GraphSpec
CONSTANTS
  NodeId = {1, 2, 3, 4}
  Client = {c1, c2}
  None = None
  EdgeId = {e1, e2}
  Contents <- InlineOnly
  Workload = {"hard_delete"}
SYMMETRY Symmetry
INVARIANTS
  OneActiveEdgePerPair
  EdgesHaveEnds
CHECK_DEADLOCK FALSE
