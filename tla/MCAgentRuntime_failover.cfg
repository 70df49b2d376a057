\* Two instances, a poison item and a malformed one, and two stops or deaths.
SPECIFICATION FairRuntime
CONSTANTS
  Instance = {a, b}
  None = None
  TTL = 2
  SlowCalls = FALSE
  Item = {1, 2, 3}
  Poison = {1}
  Malformed = {3}
  MaxStops = 2
INVARIANTS
  LeasesAreExclusive
  ItemsAreHandledOnce
PROPERTIES
  DeadLeaderIsReplaced
  GoodItemsAreServed
CHECK_DEADLOCK FALSE
