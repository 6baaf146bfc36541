\* A unit that plays a stream is asked to play another one, and is stopped.
SPECIFICATION Spec
CONSTANTS
  c1 = c1
  c2 = c2
  s1 = s1
  s2 = s2
  Clients <- OneClient
  Streams <- TwoStreams
  MaxSid = 1
  NoStream = NoStream
  Nobody = Nobody
  Commands <- Leaving
  Kinds <- OneFrame
  MaxMoves = 1
  MaxRelays = 1
  MaxVersion = 0
INVARIANTS StoppedIsNotPlayedTo
CHECK_DEADLOCK FALSE
