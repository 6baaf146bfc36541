CONSTANTS
  n1 = n1
  n2 = n2
  Ctrl = Ctrl
  Nodes = {n1}
  Conds = {"READ", "WRITE", "ERROR"}
  Failing <- Polling
  MaxData = 2
CHECK_DEADLOCK FALSE
SPECIFICATION OneFairSpec
PROPERTIES CloseCompletes DataSent
