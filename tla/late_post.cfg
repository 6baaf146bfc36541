CONSTANTS
  n1 = n1
  n2 = n2
  Ctrl = Ctrl
  Nodes = {n1}
  Conds = {"READ", "WRITE", "ERROR"}
  Failing <- Anywhere
  MaxData = 0
CHECK_DEADLOCK FALSE
SPECIFICATION Spec
INVARIANT NoUseAfterDestroy
