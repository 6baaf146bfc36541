CONSTANTS
  p1 = p1
  b1 = b1
  b2 = b2
  Pub = Pub
  NoBody = NoBody
  Players = {p1}
  Bodies = {b1, b2}
  Chunks <- TwoChunks
  SendMax = 4
  VecMax = 3
  Replied = {p1}
  Closing = {Pub, p1}
  MaxBytes = 5
CHECK_DEADLOCK FALSE
SPECIFICATION Spec
INVARIANTS TypeOK RefsCountHolders BytesInOrder
