\* One request at a time, memories without branches: the store implements MemoryLedger.
SPECIFICATION Spec
CONSTANTS
  NodeId = {1, 2, 3, 4}
  Client = {c1}
  None = None
  Contents <- StoredOnly
  Workload = {"metadata", "quarantine", "hard_delete", "crash"}
INVARIANTS
  AtMostOneCurrent
  DeletionIsFinal
  NoDanglingRef
PROPERTIES
  KeepsLedger
CHECK_DEADLOCK FALSE
