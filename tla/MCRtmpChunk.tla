---------------------------- MODULE MCRtmpChunk ----------------------------
\* Instances of RtmpChunk for TLC.
EXTENDS RtmpChunk, TLC

Sizes == [fmt \in 0..2 |-> IF fmt = 0 THEN 2 ELSE 1]

Frames(types, sids, sizes, epochs) ==
  [type : types, sid : sids, size : sizes, epoch : epochs, arg : {0}]

\* The commands of two streams on one chunk stream, with messages of another kind,
\* and the chunk size.
Media ==
  Frames({"INVOKE"}, {1, 2}, {2}, {0, 2})
  \cup Frames({"AUDIO"}, {1}, {0, 2}, {1})
  \cup {[type |-> "CHUNK_SIZE", sid |-> 0, size |-> 1, epoch |-> 0, arg |-> n] : n \in {2}}
=============================================================================
