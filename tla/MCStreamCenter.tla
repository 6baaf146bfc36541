--------------------------- MODULE MCStreamCenter ---------------------------
\* Instances of StreamCenter for TLC.
EXTENDS StreamCenter, TLC

CONSTANTS c1, c2, s1, s2

TwoClients == {c1, c2}
OneClient == {c1}
TwoStreams == {s1, s2}
OneStream == {s1}
Symmetric == Permutations(TwoClients) \cup Permutations(TwoStreams)
SymmetricClients == Permutations(TwoClients)

AllCommands == {"connect", "createStream", "play", "publish", "pause",
                "FCUnpublish", "releaseStream", "deleteStream", "bad"}
Steady == {"connect", "createStream", "play", "publish", "releaseStream"}
Leaving == {"connect", "createStream", "play", "publish", "deleteStream"}
PlainFrames == {"KEY_FRAME", "DATA"}
OneFrame == {"DATA"}
HeadedFrames == {"VIDEO_SEQ", "META_INFO", "DATA"}
=============================================================================
