\* Three chunk streams, one of them of two streams; long and wrapping times; chunk sizes 1 and 2.
SPECIFICATION Spec
CONSTANTS
  Messages <- Media
  None = None
  HeaderSize <- Sizes
  SigSize = 1
  ExtSize = 2
  ExtMark = 2
  TimeMod = 4
  MinChunk = 1
  MaxDue = 1
  MaxWire = 0
INVARIANTS TypeOK InStep HeadersAgree
PROPERTIES DeliveredAsSent
CHECK_DEADLOCK FALSE
