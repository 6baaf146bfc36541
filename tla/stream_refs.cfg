\* Two connections with one unit each, two streams, every command.
SPECIFICATION Spec
CONSTANTS
  c1 = c1
  c2 = c2
  s1 = s1
  s2 = s2
  Clients <- TwoClients
  Streams <- TwoStreams
  MaxSid = 1
  NoStream = NoStream
  Nobody = Nobody
  Commands <- AllCommands
  Kinds <- PlainFrames
  MaxMoves = 2
  MaxRelays = 2
  MaxVersion = 0
SYMMETRY Symmetric
INVARIANTS TypeOK StreamsNamePublishers StreamsNamePlayers UnitsAreNamed
  ClosedIsForgotten SkipsToKeyFrame
PROPERTIES NoRelayAfterClose
CHECK_DEADLOCK FALSE
