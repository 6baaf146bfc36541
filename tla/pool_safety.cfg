CONSTANTS
  t1 = t1
  t2 = t2
  p1 = p1
  p2 = p2
  s1 = s1
  NoTask = NoTask
  Tasks = {t1, t2}
  Posters = {p1, p2}
  Stoppers = {s1}
  Conds = {"READ"}
  TimedWait = TRUE
SPECIFICATION Spec
SYMMETRY Symmetry
INVARIANTS TypeOK SingleOwner NothingAfterEnd EndNotLost NoSleepOnWork OwnershipInv WakeInv
PROPERTY ImplementsPromise
