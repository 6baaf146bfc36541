\* Sequence headers and meta data: players that stay, publishers that come and go.
\* HeaderFirst says nothing once a unit has changed streams, so none does here.
SPECIFICATION Spec
CONSTANTS
  c1 = c1
  c2 = c2
  s1 = s1
  s2 = s2
  Clients <- TwoClients
  Streams <- OneStream
  MaxSid = 1
  NoStream = NoStream
  Nobody = Nobody
  Commands <- Steady
  Kinds <- HeadedFrames
  MaxMoves = 0
  MaxRelays = 4
  MaxVersion = 3
SYMMETRY SymmetricClients
INVARIANTS HeaderFirst
CHECK_DEADLOCK FALSE
