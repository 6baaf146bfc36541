CONSTANTS
  n1 = n1
  n2 = n2
  Ctrl = Ctrl
  Nodes = {n1, n2}
  Conds = {"READ", "WRITE", "ERROR"}
  Failing <- Player
  MaxData = 2
CHECK_DEADLOCK FALSE
SPECIFICATION Spec
CONSTRAINT PublisherAndPlayer
INVARIANTS TypeOK MailHasBell EndedIsUnreferenced NothingLeftBehind
PROPERTIES ImplementsClose
