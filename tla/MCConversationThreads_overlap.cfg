\* Two requests overlap on two threads, one of which may be held, and two messages, with
\* forks, cascades and crashes; no crash cuts the two commits of a delete apart.
SPECIFICATION Spec
CONSTANTS
  Thread = {t1, t2}
  Message = {1, 2}
  Client = {c1, c2}
  None = None
  Removals = {"retention", "admin"}
  Holdable = {t1}
  Workload = {"fork", "cascade", "crash"}
SYMMETRY Symmetry
INVARIANTS
  NumberedWithoutGaps
  RemovedThreadsAreLogged
  
CHECK_DEADLOCK FALSE
