\* Two timers on wheels of three and two slots; the tick wraps at two turns of both.
SPECIFICATION Spec
CONSTANTS
  t1 = t1
  t2 = t2
  Timers <- TwoTimers
  TV1 = 3
  TV2 = 2
  TickMod = 12
  Intervals <- Edges
SYMMETRY Symmetric
INVARIANTS TypeOK InOwnSlot
PROPERTIES KeepsDeadlines
