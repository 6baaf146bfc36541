CONSTANTS
  t1 = t1
  t2 = t2
  p1 = p1
  s1 = s1
  NoTask = NoTask
  Tasks = {t1, t2}
  Posters = {p1}
  Stoppers = {s1}
  Conds = {"READ"}
  TimedWait = FALSE
SPECIFICATION FairSpec
PROPERTIES EventsServed EndServed ImplementsFairPromise StopServed
