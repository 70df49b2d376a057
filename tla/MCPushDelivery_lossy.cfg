\* Two push loops, two broadcasts, a server that may die and a Valkey that may fail.
SPECIFICATION FairSpec
CONSTANTS
  Conn = {c1, c2}
  Session = {1, 2}
  Message = {1, 2}
  None = None
  MaxAttempts = 2
  Faults = {"crash", "outage", "reregister", "unbind"}
INVARIANTS
  AtMostOnce
  FirstAttemptsInOrder
  NothingVanishes
PROPERTIES
  EveryPushIsSettled
CHECK_DEADLOCK FALSE
