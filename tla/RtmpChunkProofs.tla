--------------------------- MODULE RtmpChunkProofs ---------------------------
(***************************************************************************)
(* Proofs about the chunks and compressed headers of RtmpChunk, for any    *)
(* messages, sizes and times.  The header this program chooses is one the  *)
(* protocol allows, and the reader restores from any such header, and the  *)
(* last one it has kept, the message it was made for.                      *)
(*                                                                         *)
(* That both ends stay in step rests on one invariant, AgreeInv: the       *)
(* reader, as it stands, can read all that is on the wire, and would then  *)
(* be in a state the writer counts on.  The steps of the reader take the   *)
(* first part of this run, those of the writers add to its end.            *)
(***************************************************************************)
EXTENDS RtmpChunk, SequenceTheorems, TLAPS

\* Differences of times come back to the time, across the wrap.
LEMMA Wrap ==
  ASSUME NEW a \in Times, NEW b \in Times
  PROVE  /\ (a - b) % TimeMod \in Times
         /\ a >= b => (a - b) % TimeMod = a - b
         /\ (b + ((a - b) % TimeMod)) % TimeMod = a
<1>1. TimeMod \in Nat \ {0} /\ a \in Nat /\ b \in Nat /\ a < TimeMod /\ b < TimeMod
  BY ChunkAssumption DEF Times
<1>2. ASSUME NEW x \in Times PROVE x % TimeMod = x /\ (x + TimeMod) % TimeMod = x
  BY <1>1 DEF Times
<1>3. ASSUME a >= b PROVE a - b \in Times /\ b + (a - b) = a
  BY <1>1, <1>3 DEF Times
<1>4. ASSUME a < b
      PROVE  (a - b) % TimeMod = a - b + TimeMod /\ b + (a - b + TimeMod) = a + TimeMod
  BY <1>1, <1>4
<1>5. ASSUME a < b PROVE a - b + TimeMod \in Times
  BY <1>1, <1>5 DEF Times
<1> QED BY <1>1, <1>2, <1>3, <1>4, <1>5

\* What is said of the last message of a chunk stream.
Said(p) == p.epoch \in Times

(* adjustHeader leaves out only what the last header says, as a peer must. *)
THEOREM OurHeaderAllowed ==
  ASSUME NEW m \in Messages, NEW p, p = None \/ Said(p)
  PROVE  AdjustHeader(m, p) \in Allowed(m, p)
<1>1. m.epoch \in Times
  BY ChunkAssumption DEF Times
<1>2. CASE p = None \/ m.sid # p.sid \/ m.epoch < p.epoch
  BY <1>1, <1>2 DEF AdjustHeader, Allowed, Header, Times, LARGE, MEDIUM, SMALL, MINIMUM
<1>3. CASE ~ (p = None \/ m.sid # p.sid \/ m.epoch < p.epoch)
  <2> DEFINE ts == m.epoch - p.epoch
  <2>1. p # None /\ m.sid = p.sid /\ m.epoch >= p.epoch /\ p.epoch \in Times
    BY <1>1, <1>3 DEF Said, Times
  <2>2. ts \in Times /\ ts = (m.epoch - p.epoch) % TimeMod
    BY <1>1, <2>1, Wrap DEF Times
  <2> HIDE DEF ts
  <2>3. AdjustHeader(m, p) =
          IF m.size # p.size \/ m.type # p.type THEN Header(MEDIUM, ts)
          ELSE IF ts = p.ts THEN Header(MINIMUM, ts) ELSE Header(SMALL, ts)
    BY <1>3 DEF AdjustHeader, ts
  <2> QED BY <2>1, <2>2, <2>3
          DEF Allowed, Header, Times, LARGE, MEDIUM, SMALL, MINIMUM
<1> QED BY <1>2, <1>3

(* parseHdr restores the epoch of a message from any header allowed after  *)
(* the last one it has kept, and what the header leaves out is as it was.  *)
THEOREM HeaderUnderstood ==
  ASSUME NEW m \in Messages, NEW c, Said(last[c]), NEW h \in Allowed(m, last[c])
  PROVE  /\ Epoch(c, h.fmt, h.ts) = m.epoch
         /\ h.fmt # LARGE => last[c].sid = m.sid
         /\ h.fmt \in {SMALL, MINIMUM} => last[c].size = m.size /\ last[c].type = m.type
         /\ h.fmt = MINIMUM => Repeated(last[c]) =
              [epoch |-> m.epoch, ts |-> h.ts, sid |-> m.sid, size |-> m.size,
               type |-> m.type, arg |-> 0]
<1>1. m.epoch \in Times /\ last[c].epoch \in Times
  BY ChunkAssumption DEF Times, Said
<1>2. /\ h.fmt = LARGE => h.ts = m.epoch
      /\ h.fmt # LARGE => /\ m.sid = last[c].sid
                          /\ h.ts = (m.epoch - last[c].epoch) % TimeMod
      /\ h.fmt \in {SMALL, MINIMUM} => m.size = last[c].size /\ m.type = last[c].type
      /\ h.fmt = MINIMUM => h.ts = last[c].ts
  BY DEF Allowed
<1>3. h.fmt # LARGE => (last[c].epoch + h.ts) % TimeMod = m.epoch
  BY <1>1, <1>2, Wrap
<1>4. MINIMUM # LARGE
  BY DEF MINIMUM, LARGE
<1> QED BY <1>2, <1>3, <1>4 DEF Epoch, Repeated

-----------------------------------------------------------------------------
\* This program is a peer like any other until it leaves a message out: what
\* the runs find of a peer's messages, they find of its own.
OursConforms ==
  [][\A m \in Messages : StartOurs(m) /\ Cid(m) \notin skewed => StartPeers(m)]_vars

\* The last headers written have times in range.
OutOK == /\ out = [c \in Cids |-> out[c]]
         /\ \A c \in Cids : out[c] = None \/ Said(out[c])

\* A header that is chosen is remembered with the time of its message.
LEMMA OutKept ==
  ASSUME OutOK, NEW m \in Messages, NEW ts,
         out' = [out EXCEPT ![Cid(m)] = Prev(m, ts)]
  PROVE  OutOK'
<1>1. Said(Prev(m, ts)) /\ Cid(m) \in Cids
  BY ChunkAssumption DEF Prev, Said, Times, Cids
<1> QED BY <1>1 DEF OutOK

\* Every step keeps the times in range.
LEMMA OutNext == OutOK /\ [Next]_vars => OutOK'
<1> SUFFICES ASSUME OutOK, [Next]_vars PROVE OutOK'
  OBVIOUS
<1>1. CASE UNCHANGED out
  BY <1>1 DEF OutOK
<1>2. ASSUME NEW m \in Messages, NEW h, Start(m, h) PROVE OutOK'
  BY <1>2, OutKept DEF Start
<1>3. ASSUME NEW m \in Messages, StartPeers(m) \/ StartOurs(m) PROVE OutOK'
  BY <1>2, <1>3 DEF StartPeers, StartOurs
<1>4. ASSUME NEW m \in Messages, SkipOurs(m) PROVE OutOK'
  BY <1>4, OutKept DEF SkipOurs, OutOK
<1>5. ASSUME NEW c \in Cids, SendChunk(c) PROVE UNCHANGED out
  BY <1>5 DEF SendChunk
<1>6. ASSUME Read PROVE UNCHANGED out
  BY <1>6 DEF Read, ReadC0, ReadC1, ReadC2, ReadBasic, ReadHeader, ReadExtTime,
              ReadChunk, FillSome, Filled, writer
<1>7. CASE UNCHANGED vars
  BY <1>1, <1>7 DEF vars, writer
<1> QED BY <1>1, <1>3, <1>4, <1>5, <1>6, <1>7 DEF Next

\* Whatever this program sends is what a peer could send.
THEOREM OursConform == Spec => OursConforms
<1>1. Init => OutOK
  BY DEF Init, OutOK
<1>2. OutOK /\ [Next]_vars =>
        [\A m \in Messages : StartOurs(m) /\ Cid(m) \notin skewed => StartPeers(m)]_vars
  <2> SUFFICES ASSUME OutOK, NEW m \in Messages, StartOurs(m), Cid(m) \notin skewed
               PROVE  StartPeers(m)
    OBVIOUS
  <2>1. out[Cid(m)] = None \/ Said(out[Cid(m)])
    BY DEF OutOK, Cids
  <2>2. AdjustHeader(m, out[Cid(m)]) \in Allowed(m, out[Cid(m)])
    BY <2>1, OurHeaderAllowed
  <2> QED BY <2>2 DEF StartOurs, StartPeers
<1> QED BY <1>1, <1>2, OutNext, PTL DEF Spec, OursConforms

-----------------------------------------------------------------------------
(* Types.                                                                  *)

\* The parts a writer puts on the wire.
Parts ==
  [kind : {"C0", "C1", "C2"}, len : Nat]
  \cup [kind : {"BASIC"}, len : Nat, fmt : Formats, cid : Cids]
  \cup [kind : {"HEADER"}, len : Nat, ts : Times, size : Nat, type : Types, sid : Sids]
  \cup [kind : {"EXT_TIME"}, len : Nat, ts : Times]
  \cup [kind : {"CHUNK"}, len : Nat, off : Nat, arg : Nat]

WriterOK ==
  /\ OutOK /\ chunkOut \in Nat \ {0} /\ wire \in Seq(Parts)
  /\ cur = [c \in Cids |-> cur[c]]
  /\ \A c \in Cids : cur[c] = None \/ (cur[c] \in Curs /\ cur[c].off <= cur[c].msg.size)

PkgsOK ==
  /\ pkg \in [Cids -> Pkgs \cup {None}] /\ rd \in [Cids -> Nat]
  /\ last \in [Cids -> Lasts] /\ chunkIn \in Nat \ {0}
  /\ \A c \in Cids : IF pkg[c] = None THEN rd[c] = 0 ELSE rd[c] <= pkg[c].size

\* What is being read, and what is known of its message by then.
ChnOK ==
  /\ chn \in [stat : Stats, cid : Cids \cup {None}, fmt : Formats, upto : Nat, size : Nat]
  /\ chn.upto <= chn.size /\ (chn.stat = "C0" => chn.size = 1)
  /\ chn.stat \in {"HEADER", "EXT_TIME", "CHUNK"} => chn.cid \in Cids
  /\ chn.stat \in {"EXT_TIME", "CHUNK"} => pkg[chn.cid] \in Pkgs
  /\ chn.stat = "CHUNK" => /\ chn.size \in 1 .. chunkIn
                           /\ rd[chn.cid] + chn.size <= pkg[chn.cid].size

ChunkInv == WriterOK /\ PkgsOK /\ ChnOK

\* The invariant gives the types.
LEMMA ChunkTypes == ChunkInv => TypeOK
<1> SUFFICES ASSUME ChunkInv PROVE TypeOK
  OBVIOUS
<1>1. /\ chn.stat \in Stats /\ chn.cid \in Cids \cup {None} /\ chn.upto \in 0 .. chn.size
      /\ chn.stat = "CHUNK" => chn.size \in 1 .. chunkIn
  BY DEF ChunkInv, ChnOK
<1>2. ASSUME NEW c \in Cids
      PROVE  /\ pkg[c] = None => rd[c] = 0
             /\ pkg[c] # None => rd[c] \in 0 .. pkg[c].size
             /\ last[c].epoch \in Times
  <2>1. pkg[c] \in Pkgs \cup {None} /\ rd[c] \in Nat /\ last[c] \in Lasts
    BY DEF ChunkInv, PkgsOK
  <2>2. pkg[c] # None => pkg[c].size \in Nat
    BY <2>1 DEF Pkgs
  <2> QED BY <2>1, <2>2 DEF ChunkInv, PkgsOK, Lasts
<1> QED BY <1>1, <1>2 DEF TypeOK

\* It holds at the start.
LEMMA ChunkInit == Init => ChunkInv
<1> SUFFICES ASSUME Init PROVE ChunkInv
  OBVIOUS
<1>1. WriterOK
  <2>1. \A k \in {"C0", "C1", "C2"}, n \in Nat : Part(k, n) \in Parts
    BY DEF Part, Parts
  <2>2. wire \in Seq(Parts)
    BY <2>1, ChunkAssumption DEF Init
  <2> QED BY <2>2, ChunkAssumption DEF Init, WriterOK, OutOK
<1>2. PkgsOK
  BY ChunkAssumption DEF Init, PkgsOK, Lasts, Times, Sids, Types
<1>3. ChnOK
  BY DEF Init, ChnOK, Reading, Stats, Formats, LARGE, MINIMUM
<1> QED BY <1>1, <1>2, <1>3 DEF ChunkInv

\* A message is begun by this program or by a peer.
LEMMA StartTypes ==
  ASSUME ChunkInv, NEW m \in Messages, NEW h \in Allowed(m, out[Cid(m)]), Start(m, h)
  PROVE  ChunkInv'
<1>1. OutOK' /\ Cid(m) \in Cids
  BY OutKept DEF ChunkInv, WriterOK, Start, Cids
<1>2. [msg |-> m, hdr |-> h, off |-> 0] \in Curs /\ 0 <= m.size
  BY ChunkAssumption DEF Curs, Allowed, Formats, LARGE, MEDIUM, SMALL, MINIMUM
<1>3. cur' = [cur EXCEPT ![Cid(m)] = [msg |-> m, hdr |-> h, off |-> 0]]
      /\ UNCHANGED <<chunkOut, wire, reader>>
  BY DEF Start
<1>4. WriterOK'
  BY <1>1, <1>2, <1>3 DEF ChunkInv, WriterOK
<1>5. PkgsOK' /\ ChnOK'
  BY <1>3 DEF ChunkInv, PkgsOK, ChnOK, reader
<1> QED BY <1>4, <1>5 DEF ChunkInv

\* A chunk is written.
LEMMA SendTypes ==
  ASSUME ChunkInv, NEW c \in Cids, SendChunk(c)
  PROVE  ChunkInv'
<1> DEFINE m    == cur[c].msg
           off  == cur[c].off
           len  == Least(m.size - off, chunkOut)
           head == IF off = 0 THEN BuildHeader(c, m, cur[c].hdr)
                   ELSE <<[kind |-> "BASIC", len |-> 1, fmt |-> MINIMUM, cid |-> c]>>
           data == [kind |-> "CHUNK", len |-> len, off |-> off, arg |-> m.arg]
           done == off + len = m.size
<1>1. /\ wire' = wire \o head \o (IF len > 0 THEN <<data>> ELSE <<>>)
      /\ cur' = [cur EXCEPT ![c] = IF done THEN None ELSE [@ EXCEPT !.off = off + len]]
      /\ chunkOut' = IF done /\ m.arg # 0 THEN m.arg ELSE chunkOut
      /\ UNCHANGED <<out, reader>>
  BY DEF SendChunk
<1>2. cur[c] \in Curs /\ off <= m.size
  BY DEF ChunkInv, WriterOK, SendChunk
<1>3. /\ m \in Messages /\ m.size \in Nat /\ m.arg \in Nat /\ off \in Nat
      /\ cur[c].hdr.fmt \in Formats /\ cur[c].hdr.ts \in Times
      /\ m.type \in Types /\ m.sid \in Sids
  BY <1>2, ChunkAssumption DEF Curs, Types, Sids
<1>4. len \in Nat /\ off + len <= m.size
  BY <1>2, <1>3 DEF ChunkInv, WriterOK, Least
<1>5. head \in Seq(Parts)
  <2> DEFINE h  == cur[c].hdr
             hd == [kind |-> "HEADER", len |-> HeaderSize[h.fmt], ts |-> Least(h.ts, ExtMark),
                    size |-> m.size, type |-> m.type, sid |-> m.sid]
             ex == [kind |-> "EXT_TIME", len |-> ExtSize, ts |-> h.ts]
             bs(f) == [kind |-> "BASIC", len |-> 1, fmt |-> f, cid |-> c]
  <2>1. \A f \in Formats : bs(f) \in Parts
    BY DEF Parts
  <2>2. ex \in Parts
    BY <1>3, ChunkAssumption DEF Parts
  <2>3. h.fmt # MINIMUM => hd \in Parts
    <3>1. Least(h.ts, ExtMark) \in Times
      BY <1>3, ChunkAssumption DEF Least, Times
    <3>2. h.fmt # MINIMUM => HeaderSize[h.fmt] \in Nat
      BY <1>3, ChunkAssumption DEF Formats, LARGE, MINIMUM
    <3> QED BY <1>3, <3>1, <3>2 DEF Parts
  <2>4. head = IF off = 0
               THEN <<bs(h.fmt)>> \o (IF h.fmt # MINIMUM THEN <<hd>> ELSE <<>>)
                      \o (IF h.fmt # MINIMUM /\ h.ts >= ExtMark THEN <<ex>> ELSE <<>>)
               ELSE <<bs(MINIMUM)>>
    BY DEF BuildHeader
  <2>5. MINIMUM \in Formats /\ h.fmt \in Formats
    BY <1>3 DEF Formats, LARGE, MINIMUM
  <2> HIDE DEF head, hd, ex, bs, h
  <2>6. /\ <<bs(h.fmt)>> \in Seq(Parts) /\ <<bs(MINIMUM)>> \in Seq(Parts)
        /\ (IF h.fmt # MINIMUM THEN <<hd>> ELSE <<>>) \in Seq(Parts)
        /\ (IF h.fmt # MINIMUM /\ h.ts >= ExtMark THEN <<ex>> ELSE <<>>) \in Seq(Parts)
    BY <2>1, <2>2, <2>3, <2>5
  <2> QED BY <2>4, <2>6
<1>6. (IF len > 0 THEN <<data>> ELSE <<>>) \in Seq(Parts)
  <2>1. data \in Parts
    BY <1>3, <1>4 DEF Parts
  <2> HIDE DEF data, len
  <2> QED BY <2>1
<1>7. IF done THEN TRUE ELSE [cur[c] EXCEPT !.off = off + len] \in Curs
  BY <1>2, <1>3, <1>4 DEF Curs
<1>8. WriterOK'
  <2> DEFINE new == IF done THEN None ELSE [cur[c] EXCEPT !.off = off + len]
  <2>1. new = None \/ (new \in Curs /\ new.off <= new.msg.size)
    BY <1>2, <1>4, <1>7 DEF Curs
  <2>2. cur' = [cur EXCEPT ![c] = new]
    BY <1>1
  <2>3. chunkOut' \in Nat \ {0}
    BY <1>1, <1>3 DEF ChunkInv, WriterOK
  <2> HIDE DEF new, head, data, len, done, off, m
  <2>4. wire' \in Seq(Parts)
    BY <1>1, <1>5, <1>6 DEF ChunkInv, WriterOK
  <2> QED BY <1>1, <2>1, <2>2, <2>3, <2>4 DEF ChunkInv, WriterOK, OutOK
<1>9. PkgsOK' /\ ChnOK'
  BY <1>1 DEF ChunkInv, PkgsOK, ChnOK, reader
<1> QED BY <1>8, <1>9 DEF ChunkInv

\* What the reader leaves alone.
LEMMA WriterKept ==
  ASSUME ChunkInv, UNCHANGED writer, wire' \in Seq(Parts)
  PROVE  WriterOK'
BY DEF ChunkInv, WriterOK, OutOK, writer

\* The next part.
LEMMA HeadTypes ==
  ASSUME ChunkInv, NEW n, Has(n)
  PROVE  /\ Head(wire) \in Parts /\ Tail(wire) \in Seq(Parts)
         /\ Head(wire).kind = chn.stat /\ n <= Head(wire).len
BY DEF ChunkInv, WriterOK, Has

\* A part of a message has been read.
LEMMA EndTypes ==
  ASSUME PkgsOK, NEW c \in Cids, NEW p \in Pkgs, NEW total \in Nat, total <= p.size,
         EndChunk(c, p, total)
  PROVE  PkgsOK' /\ ChnOK'
<1>1. /\ p.epoch \in Times /\ p.ts \in Times /\ p.sid \in Sids /\ p.size \in Nat
      /\ p.type \in Types /\ p.arg \in Nat /\ p # None
  BY ChunkAssumption DEF Pkgs
<1>2. ChnOK'
  BY DEF EndChunk, ChnOK, Reading, Stats, Formats, LARGE, MINIMUM
<1>3. CASE total = p.size
  <2>1. Prev(p, p.ts) \in Lasts
    BY <1>1 DEF Prev, Lasts
  <2>2. /\ last' = [last EXCEPT ![c] = Prev(p, p.ts)]
        /\ pkg' = [pkg EXCEPT ![c] = None] /\ rd' = [rd EXCEPT ![c] = 0]
        /\ chunkIn' = IF p.arg # 0 THEN p.arg ELSE chunkIn
    BY <1>3 DEF EndChunk
  <2>3. chunkIn' \in Nat \ {0}
    BY <1>1, <2>2 DEF PkgsOK
  <2> QED BY <1>2, <2>1, <2>2, <2>3 DEF PkgsOK
<1>4. CASE total # p.size
  BY <1>1, <1>2, <1>4 DEF EndChunk, PkgsOK
<1> QED BY <1>3, <1>4

\* A chunk of a message is expected.
LEMMA BegTypes ==
  ASSUME PkgsOK, ChnOK, NEW c \in Cids, NEW p \in Pkgs, NEW n \in Nat, n <= p.size,
         BegChunk(c, p, n)
  PROVE  PkgsOK' /\ ChnOK'
<1>1. p.size \in Nat /\ p # None
  BY ChunkAssumption DEF Pkgs
<1>2. CASE n < p.size
  <2> DEFINE len == Least(p.size - n, chunkIn)
  <2>1. /\ chn' = Reading("CHUNK", c, chn.fmt, len)
        /\ pkg' = [pkg EXCEPT ![c] = p] /\ rd' = [rd EXCEPT ![c] = n]
        /\ UNCHANGED <<last, chunkIn>>
    BY <1>1, <1>2 DEF BegChunk
  <2>2. len \in 1 .. chunkIn /\ n + len <= p.size
    BY <1>1, <1>2 DEF Least, PkgsOK
  <2> HIDE DEF len
  <2>3. PkgsOK'
    BY <1>1, <2>1 DEF PkgsOK
  <2>4. pkg'[c] = p /\ rd'[c] = n
    BY <2>1 DEF PkgsOK
  <2>5. ChnOK'
    BY <2>1, <2>2, <2>4 DEF PkgsOK, ChnOK, Reading, Stats
  <2> QED BY <2>3, <2>5
<1>3. CASE n >= p.size
  BY <1>1, <1>3, EndTypes DEF BegChunk
<1> QED BY <1>1, <1>2, <1>3

\* What is kept of the last message makes a new one.
LEMMA RepeatedTypes == \A p \in Lasts : Repeated(p) \in Pkgs
<1>1. \A x, y \in Times : (x + y) % TimeMod \in Times
  BY ChunkAssumption DEF Times
<1> QED BY <1>1 DEF Lasts, Pkgs, Repeated

\* Every step of the reader keeps the types.
LEMMA ReadTypes == ChunkInv /\ Read => ChunkInv'
<1> SUFFICES ASSUME ChunkInv, Read PROVE ChunkInv'
  OBVIOUS
<1>0. PkgsOK /\ ChnOK /\ wire \in Seq(Parts)
  BY DEF ChunkInv, WriterOK
<1>1. ASSUME NEW stat, Filled(stat) PROVE WriterOK'
  BY <1>1, WriterKept, HeadTypes DEF Filled
<1>2. CASE ReadC0 \/ ReadC1 \/ ReadC2
  <2>1. WriterOK'
    BY <1>1, <1>2 DEF ReadC0, ReadC1, ReadC2
  <2>2. PkgsOK'
    BY <1>0, <1>2 DEF PkgsOK, ReadC0, ReadC1, ReadC2
  <2>3. ChnOK'
    <3>1. CASE ReadC0
      <4>1. /\ chn' = [chn EXCEPT !.stat = "C1", !.upto = 1, !.size = 1 + SigSize]
            /\ UNCHANGED <<pkg, rd, chunkIn>>
        BY <1>0, <3>1 DEF ChnOK, ReadC0, Filled
      <4>2. 1 + SigSize \in Nat /\ 1 <= 1 + SigSize
        BY ChunkAssumption
      <4> QED BY <1>0, <4>1, <4>2 DEF ChnOK, Stats
    <3>2. CASE ReadC1 \/ ReadC2
      BY <1>0, <3>2, ChunkAssumption
      DEF ChnOK, ReadC1, ReadC2, Reading, Stats, Formats, LARGE, MINIMUM
    <3> QED BY <1>2, <3>1, <3>2
  <2> QED BY <2>1, <2>2, <2>3 DEF ChunkInv
<1>3. CASE ReadBasic
  <2> DEFINE fmt == Head(wire).fmt
             c   == Head(wire).cid
  <2>1. /\ Head(wire) \in Parts /\ Head(wire).kind = "BASIC" /\ wire' \in Seq(Parts)
    BY <1>3, HeadTypes DEF ReadBasic
  <2>2. fmt \in Formats /\ c \in Cids
    BY <2>1 DEF Parts
  <2>3. WriterOK'
    BY <1>3, <2>1, WriterKept DEF ReadBasic
  <2>4. \/ /\ fmt # MINIMUM
           /\ chn' = Reading("HEADER", c, fmt, HeaderSize[fmt])
           /\ UNCHANGED <<last, pkg, rd, chunkIn>>
        \/ pkg[c] = None /\ BegChunk(c, Repeated(last[c]), 0)
        \/ pkg[c] # None /\ BegChunk(c, pkg[c], rd[c])
    BY <1>3 DEF ReadBasic
  <2> HIDE DEF fmt, c
  <2>5. CASE /\ fmt # MINIMUM
             /\ chn' = Reading("HEADER", c, fmt, HeaderSize[fmt])
             /\ UNCHANGED <<last, pkg, rd, chunkIn>>
    <3>1. HeaderSize[fmt] \in Nat
      BY <2>2, <2>5, ChunkAssumption DEF Formats, LARGE, MINIMUM
    <3>2. PkgsOK' /\ ChnOK'
      BY <1>0, <2>2, <2>5, <3>1 DEF PkgsOK, ChnOK, Reading, Stats
    <3> QED BY <2>3, <3>2 DEF ChunkInv
  <2>6. CASE pkg[c] = None /\ BegChunk(c, Repeated(last[c]), 0)
    <3>1. Repeated(last[c]) \in Pkgs
      BY <1>0, <2>2, RepeatedTypes DEF PkgsOK
    <3>2. 0 <= Repeated(last[c]).size
      BY <3>1 DEF Pkgs
    <3> QED BY <1>0, <2>2, <2>3, <2>6, <3>1, <3>2, BegTypes DEF ChunkInv
  <2>7. CASE pkg[c] # None /\ BegChunk(c, pkg[c], rd[c])
    <3>1. pkg[c] \in Pkgs /\ rd[c] \in Nat /\ rd[c] <= pkg[c].size
      BY <1>0, <2>2, <2>7 DEF PkgsOK
    <3> QED BY <1>0, <2>2, <2>3, <2>7, <3>1, BegTypes DEF ChunkInv
  <2> QED BY <2>4, <2>5, <2>6, <2>7
<1>4. CASE ReadHeader
  <2> DEFINE h == Head(wire)
             c == chn.cid
             p == [epoch |-> Epoch(c, chn.fmt, h.ts), ts |-> h.ts,
                   sid  |-> IF chn.fmt = LARGE THEN h.sid ELSE last[c].sid,
                   size |-> IF chn.fmt # SMALL THEN h.size ELSE last[c].size,
                   type |-> IF chn.fmt # SMALL THEN h.type ELSE last[c].type,
                   arg  |-> 0]
  <2>1. WriterOK' /\ h \in Parts /\ h.kind = "HEADER"
    BY <1>1, <1>4, HeadTypes DEF ReadHeader, Filled
  <2>2. /\ h.ts \in Times /\ h.size \in Nat /\ h.type \in Types /\ h.sid \in Sids
        /\ c \in Cids /\ last[c] \in Lasts
    BY <1>0, <1>4, <2>1 DEF Parts, ChnOK, PkgsOK, ReadHeader, Filled
  <2>3. \/ BegChunk(c, p, 0)
        \/ /\ chn' = Reading("EXT_TIME", c, chn.fmt, ExtSize)
           /\ pkg' = [pkg EXCEPT ![c] = p] /\ rd' = [rd EXCEPT ![c] = 0]
           /\ UNCHANGED <<last, chunkIn>>
    BY <1>4 DEF ReadHeader
  <2>4. Epoch(c, chn.fmt, h.ts) \in Times
    BY <2>2, ChunkAssumption DEF Epoch, Times, Lasts
  <2>5. p \in Pkgs /\ p.size \in Nat /\ p # None
    <3>1. p \in Pkgs
      BY <2>2, <2>4 DEF Lasts, Pkgs
    <3> QED BY <3>1, ChunkAssumption DEF Pkgs
  <2> HIDE DEF c, p, h
  <2>6. CASE BegChunk(c, p, 0)
    BY <1>0, <2>1, <2>2, <2>5, <2>6, BegTypes DEF ChunkInv
  <2>7. CASE /\ chn' = Reading("EXT_TIME", c, chn.fmt, ExtSize)
             /\ pkg' = [pkg EXCEPT ![c] = p] /\ rd' = [rd EXCEPT ![c] = 0]
             /\ UNCHANGED <<last, chunkIn>>
    <3>1. PkgsOK' /\ pkg'[c] = p
      BY <1>0, <2>2, <2>5, <2>7 DEF PkgsOK
    <3>2. ChnOK'
      BY <1>0, <2>2, <2>5, <2>7, <3>1, ChunkAssumption DEF ChnOK, Reading, Stats
    <3> QED BY <2>1, <3>1, <3>2 DEF ChunkInv
  <2> QED BY <2>3, <2>6, <2>7
<1>5. CASE ReadExtTime
  <2> DEFINE ts == Head(wire).ts
             c  == chn.cid
             p  == [pkg[c] EXCEPT !.ts = ts, !.epoch = Epoch(c, chn.fmt, ts)]
  <2>1. WriterOK' /\ Head(wire) \in Parts /\ Head(wire).kind = "EXT_TIME"
    BY <1>1, <1>5, HeadTypes DEF ReadExtTime, Filled
  <2>2. ts \in Times /\ c \in Cids /\ last[c] \in Lasts /\ pkg[c] \in Pkgs
    BY <1>0, <1>5, <2>1 DEF Parts, ChnOK, PkgsOK, ReadExtTime, Filled
  <2>3. Epoch(c, chn.fmt, ts) \in Times
    BY <2>2, ChunkAssumption DEF Epoch, Times, Lasts
  <2>4. pkg[c] # None /\ rd[c] \in Nat /\ rd[c] <= pkg[c].size
    BY <1>0, <2>2, ChunkAssumption DEF PkgsOK
  <2>5. p \in Pkgs /\ rd[c] <= p.size
    BY <2>2, <2>3, <2>4 DEF Pkgs
  <2>6. BegChunk(c, p, rd[c])
    BY <1>5 DEF ReadExtTime
  <2> HIDE DEF c, p, ts
  <2> QED BY <1>0, <2>1, <2>2, <2>4, <2>5, <2>6, BegTypes DEF ChunkInv
<1>6. CASE ReadChunk
  <2> DEFINE c == chn.cid
             p == [pkg[c] EXCEPT !.arg = Head(wire).arg]
  <2>1. WriterOK' /\ Head(wire) \in Parts /\ Head(wire).kind = "CHUNK"
    BY <1>1, <1>6, HeadTypes DEF ReadChunk, Filled
  <2>2. /\ Head(wire).arg \in Nat /\ c \in Cids /\ pkg[c] \in Pkgs
        /\ chn.size \in Nat /\ rd[c] + chn.size <= pkg[c].size /\ rd[c] \in Nat
    BY <1>0, <1>6, <2>1 DEF Parts, ChnOK, PkgsOK, ReadChunk, Filled
  <2>3. p \in Pkgs /\ rd[c] + chn.size <= p.size /\ rd[c] + chn.size \in Nat
    BY <2>2 DEF Pkgs
  <2>4. EndChunk(c, p, rd[c] + chn.size)
    BY <1>6 DEF ReadChunk
  <2> HIDE DEF c, p
  <2> QED BY <1>0, <2>1, <2>2, <2>3, <2>4, EndTypes DEF ChunkInv
<1>7. ASSUME NEW n \in 1 .. (Need - 1), FillSome(n) PROVE ChunkInv'
  <2>1. /\ Head(wire) \in Parts /\ Tail(wire) \in Seq(Parts) /\ n <= Head(wire).len
    BY <1>7, HeadTypes DEF FillSome
  <2>2. [Head(wire) EXCEPT !.len = @ - n] \in Parts
    <3>1. Head(wire).len \in Nat /\ Head(wire).len - n \in Nat
      BY <2>1, <1>7, <1>0 DEF Parts, Need, ChnOK
    <3> QED BY <2>1, <3>1 DEF Parts
  <2>3. wire' \in Seq(Parts)
    BY <1>7, <2>1, <2>2 DEF FillSome
  <2>4. WriterOK'
    BY <1>7, <2>3, WriterKept DEF FillSome
  <2>5. PkgsOK' /\ ChnOK'
    <3>1. n \in Nat /\ chn.upto + n \in Nat /\ chn.upto + n <= chn.size
      BY <1>0, <1>7 DEF ChnOK, FillSome, Need
    <3>2. /\ chn' = [chn EXCEPT !.upto = chn.upto + n]
          /\ UNCHANGED <<pkg, rd, last, chunkIn>>
      BY <1>7 DEF FillSome
    <3>3. PkgsOK'
      BY <1>0, <3>2 DEF PkgsOK
    <3>4. ChnOK'
      BY <1>0, <3>1, <3>2 DEF ChnOK
    <3> QED BY <3>3, <3>4
  <2> QED BY <2>4, <2>5 DEF ChunkInv
<1> QED BY <1>2, <1>3, <1>4, <1>5, <1>6, <1>7 DEF Read

\* Every step keeps the invariant.
LEMMA ChunkNext == ChunkInv /\ [Next]_vars => ChunkInv'
<1> SUFFICES ASSUME ChunkInv, [Next]_vars PROVE ChunkInv'
  OBVIOUS
<1>1. CASE UNCHANGED vars
  BY <1>1 DEF vars, writer, reader, ChunkInv, WriterOK, OutOK, PkgsOK, ChnOK
<1>2. ASSUME NEW m \in Messages, StartPeers(m) \/ StartOurs(m) PROVE ChunkInv'
  <2>1. out[Cid(m)] = None \/ Said(out[Cid(m)])
    BY DEF ChunkInv, WriterOK, OutOK, Cids
  <2>2. AdjustHeader(m, out[Cid(m)]) \in Allowed(m, out[Cid(m)])
    BY <2>1, OurHeaderAllowed
  <2> QED BY <1>2, <2>2, StartTypes DEF StartPeers, StartOurs
<1>3. ASSUME NEW m \in Messages, SkipOurs(m) PROVE ChunkInv'
  <2>1. OutOK'
    BY <1>3, OutKept DEF SkipOurs, OutOK, ChunkInv, WriterOK
  <2> QED BY <1>3, <2>1 DEF SkipOurs, reader, ChunkInv, WriterOK, PkgsOK, ChnOK
<1> QED BY <1>1, <1>2, <1>3, SendTypes, ReadTypes DEF Next

\* Types, and no more than a chunk and no more than the rest of a message is
\* ever expected, whatever headers and chunk sizes the peers use.
THEOREM TypeCorrect == Spec => []TypeOK
BY ChunkInit, ChunkNext, ChunkTypes, PTL DEF Spec

-----------------------------------------------------------------------------
(* What a state of the reader holds, and how a part changes it.            *)

Chns == [stat : Stats, cid : Cids \cup {None}, fmt : Formats, upto : Nat, size : Nat]

ReaderStates ==
  [chn : Chns,
   last : [Cids -> Lasts], pkg : [Cids -> Pkgs \cup {None}], rd : [Cids -> Nat],
   chunkIn : Nat, due : [Cids -> Seq(Messages)]]

Now == [chn |-> chn, last |-> last, pkg |-> pkg, rd |-> rd, chunkIn |-> chunkIn,
        due |-> due]

\* A turn of the reader: it moves on (move), keeps a part of the message p of
\* which it has n bytes (keep), or receives p (end).
Turns(does, ch, c, p, n) == [does |-> does, chn |-> ch, cid |-> c, p |-> p, n |-> n]
Move(ch) == Turns("move", ch, None, None, 0)

EndTurn(c, p, total) ==
  Turns(IF total = p.size THEN "end" ELSE "keep", Reading("BASIC", None, LARGE, 0),
        c, p, total)

BegTurn(s, c, p, n) ==
  IF n < p.size
  THEN Turns("keep", Reading("CHUNK", c, s.chn.fmt, Least(p.size - n, s.chunkIn)), c, p, n)
  ELSE EndTurn(c, p, n)

EpochOf(s, ts) ==
  IF s.chn.fmt = LARGE THEN ts ELSE (s.last[s.chn.cid].epoch + ts) % TimeMod

\* The message a header begins.
Begun(s, h) ==
  LET l == s.last[s.chn.cid]
  IN  [epoch |-> EpochOf(s, h.ts), ts |-> h.ts,
       sid   |-> IF s.chn.fmt = LARGE THEN h.sid ELSE l.sid,
       size  |-> IF s.chn.fmt # SMALL THEN h.size ELSE l.size,
       type  |-> IF s.chn.fmt # SMALL THEN h.type ELSE l.type,
       arg   |-> 0]

BasicTurn(s, b) ==
  IF b.fmt # MINIMUM THEN Move(Reading("HEADER", b.cid, b.fmt, HeaderSize[b.fmt]))
  ELSE IF s.pkg[b.cid] = None THEN BegTurn(s, b.cid, Repeated(s.last[b.cid]), 0)
  ELSE BegTurn(s, b.cid, s.pkg[b.cid], s.rd[b.cid])

HeaderTurn(s, h) ==
  IF h.ts # ExtMark THEN BegTurn(s, s.chn.cid, Begun(s, h), 0)
  ELSE Turns("keep", Reading("EXT_TIME", s.chn.cid, s.chn.fmt, ExtSize), s.chn.cid,
             Begun(s, h), 0)

ExtTurn(s, e) ==
  BegTurn(s, s.chn.cid,
          [s.pkg[s.chn.cid] EXCEPT !.ts = e.ts, !.epoch = EpochOf(s, e.ts)],
          s.rd[s.chn.cid])

ChunkTurn(s, d) ==
  EndTurn(s.chn.cid, [s.pkg[s.chn.cid] EXCEPT !.arg = d.arg],
          s.rd[s.chn.cid] + s.chn.size)

Turn(s, part) ==
  CASE part.kind = "C0" ->
         Move([s.chn EXCEPT !.stat = "C1", !.upto = 1, !.size = @ + SigSize])
    [] part.kind = "C1"       -> Move(Reading("C2", None, LARGE, SigSize))
    [] part.kind = "C2"       -> Move(Reading("BASIC", None, LARGE, 0))
    [] part.kind = "BASIC"    -> BasicTurn(s, part)
    [] part.kind = "HEADER"   -> HeaderTurn(s, part)
    [] part.kind = "EXT_TIME" -> ExtTurn(s, part)
    [] part.kind = "CHUNK"    -> ChunkTurn(s, part)

Take(s, x) ==
  [chn     |-> x.chn,
   last    |-> IF x.does = "end" THEN [s.last EXCEPT ![x.cid] = Prev(x.p, x.p.ts)]
               ELSE s.last,
   pkg     |-> IF x.does = "move" THEN s.pkg
               ELSE [s.pkg EXCEPT ![x.cid] = IF x.does = "end" THEN None ELSE x.p],
   rd      |-> IF x.does = "move" THEN s.rd
               ELSE [s.rd EXCEPT ![x.cid] = IF x.does = "end" THEN 0 ELSE x.n],
   chunkIn |-> IF x.does = "end" /\ x.p.arg # 0 THEN x.p.arg ELSE s.chunkIn,
   due     |-> IF x.does = "end" THEN [s.due EXCEPT ![x.cid] = Tail(@)] ELSE s.due]

After(s, part) == Take(s, Turn(s, part))

\* What is received is the next message due, unless its chunk stream is in K.
Wanted(s, x, K) ==
  x.does = "end" =>
    /\ x.cid \in Cids /\ s.due[x.cid] # <<>>
    /\ x.cid \notin K =>
         LET m == Head(s.due[x.cid])
         IN  /\ Prev(x.p, x.p.ts) = Prev(m, x.p.ts)
             /\ m.arg # 0 => x.p.arg = m.arg

Fits(s, part, K) ==
  /\ part \in Parts
  /\ part.kind = s.chn.stat
  /\ part.kind # "BASIC" => part.len = s.chn.size - s.chn.upto
  /\ part.kind = "CHUNK" => part.off = s.rd[s.chn.cid]
  /\ Wanted(s, Turn(s, part), K)

\* Of a chunk stream of which nothing is due nothing changes.
Quiet(s, t) ==
  \A c \in Cids : s.due[c] = <<>> => t.due[c] = <<>> /\ t.last[c] = s.last[c]

\* g are the states in which a reader takes the parts of w, from s to t.
IsRun(g, s, w, t, K) ==
  /\ Len(g) = Len(w) + 1 /\ g[1] = s /\ g[Len(w) + 1] = t
  /\ \A i \in 1 .. Len(w) : Fits(g[i], w[i], K) /\ g[i + 1] = After(g[i], w[i])
  /\ \A i, j \in 1 .. Len(w) + 1 : i <= j => Quiet(g[i], g[j])

Reads(s, w, t, K) == \E g \in Seq(ReaderStates) : IsRun(g, s, w, t, K)

-----------------------------------------------------------------------------
(* What the writer counts on when all that is on the wire has been read.   *)

Alike(p, q) == p.size = q.size /\ p.type = q.type /\ p.ts = q.ts

\* Nothing is being written on c.
Rested(f, c) ==
  /\ f.pkg[c] = None /\ f.due[c] = <<>>
  /\ IF c \in skewed
     THEN out[c] # None /\ (out[c].size = 0 \/ Alike(out[c], f.last[c]))
     ELSE out[c] = None \/ out[c] = f.last[c]

\* The header of m says enough after the last one l of a chunk stream c.
Enough(m, h, l, c) ==
  /\ h.fmt = LARGE => h.ts = m.epoch
  /\ h.fmt \in {SMALL, MINIMUM} => m.size = l.size /\ m.type = l.type
  /\ h.fmt = MINIMUM => h.ts = l.ts
  /\ c \notin skewed => h \in Allowed(m, l)

\* The reader has begun to read m.
Partly(m, h, p, c) ==
  /\ p # None /\ p.size = m.size /\ p.type = m.type /\ p.ts = h.ts /\ p.arg = m.arg
  /\ c \notin skewed => p.sid = m.sid /\ p.epoch = m.epoch

Busy(f, c) ==
  LET m == cur[c].msg
      h == cur[c].hdr
      off == cur[c].off
  IN  /\ f.due[c] = <<m>> /\ Cid(m) = c
      /\ out[c] = Prev(m, h.ts)
      /\ IF off = 0 THEN f.pkg[c] = None /\ Enough(m, h, f.last[c], c)
         ELSE off < m.size /\ f.rd[c] = off /\ Partly(m, h, f.pkg[c], c)

Synced(f) ==
  /\ f.chn.stat = "BASIC" /\ f.chunkIn = chunkOut
  /\ \A c \in Cids : /\ f.pkg[c] = None => f.rd[c] = 0
                     /\ IF cur[c] = None THEN Rested(f, c) ELSE Busy(f, c)

AgreeInv == \E f \in ReaderStates : Reads(Now, wire, f, skewed) /\ Synced(f)

-----------------------------------------------------------------------------
(* Runs of the reader.                                                     *)

\* Nothing changes from a state to itself, nor over two runs.
LEMMA QuietSteps ==
  ASSUME NEW s, NEW t, NEW u
  PROVE  /\ Quiet(s, s)
         /\ Quiet(s, t) /\ Quiet(t, u) => Quiet(s, u)
BY DEF Quiet

\* What is received was due.
LEMMA QuietAfter ==
  ASSUME NEW s \in ReaderStates, NEW part, NEW K, Fits(s, part, K)
  PROVE  Quiet(s, After(s, part))
<1> DEFINE x == Turn(s, part)
<1>1. Wanted(s, x, K)
  BY DEF Fits
<1> HIDE DEF x
<1>2. s.due \in [Cids -> Seq(Messages)] /\ s.last \in [Cids -> Lasts]
  BY DEF ReaderStates
<1>3. /\ Take(s, x).due = IF x.does = "end" THEN [s.due EXCEPT ![x.cid] = Tail(@)] ELSE s.due
      /\ Take(s, x).last = IF x.does = "end" THEN [s.last EXCEPT ![x.cid] = Prev(x.p, x.p.ts)]
                           ELSE s.last
  BY DEF Take
<1>4. Quiet(s, Take(s, x))
  BY <1>1, <1>2, <1>3 DEF Quiet, Wanted
<1> QED BY <1>4 DEF After, x

\* Nothing is read.
LEMMA ReadsNothing == ASSUME NEW s \in ReaderStates, NEW K PROVE Reads(s, <<>>, s, K)
<1>1. <<s>> \in Seq(ReaderStates) /\ Len(<<s>>) = 1 /\ <<s>>[1] = s
  OBVIOUS
<1>2. IsRun(<<s>>, s, <<>>, s, K)
  BY <1>1, QuietSteps DEF IsRun
<1> QED BY <1>1, <1>2 DEF Reads

\* One part more is read.
LEMMA ReadsOn ==
  ASSUME NEW s, NEW w \in Seq(Parts), NEW t, NEW K, Reads(s, w, t, K),
         NEW part \in Parts, Fits(t, part, K), After(t, part) \in ReaderStates
  PROVE  Reads(s, Append(w, part), After(t, part), K)
<1> DEFINE u == After(t, part)
           v == Append(w, part)
<1>1. PICK g \in Seq(ReaderStates) : IsRun(g, s, w, t, K)
  BY DEF Reads
<1> DEFINE n == Len(w)
           h == Append(g, u)
<1>2. /\ n \in Nat /\ Len(v) = n + 1 /\ v[n + 1] = part
      /\ \A i \in 1 .. n : v[i] = w[i]
  OBVIOUS
<1>3. /\ Len(g) = n + 1 /\ g[1] = s /\ g[n + 1] = t
      /\ \A i \in 1 .. n : Fits(g[i], w[i], K) /\ g[i + 1] = After(g[i], w[i])
      /\ \A i, j \in 1 .. n + 1 : i <= j => Quiet(g[i], g[j])
  BY <1>1 DEF IsRun
<1>4. Quiet(t, u)
  BY <1>2, <1>3, QuietAfter
<1>5. u \in ReaderStates
  OBVIOUS
<1>6. u = After(t, part)
  OBVIOUS
<1> HIDE DEF u, n, v
<1>7. /\ h \in Seq(ReaderStates) /\ Len(h) = n + 2 /\ h[n + 2] = u
      /\ \A i \in 1 .. n + 1 : h[i] = g[i]
  BY <1>2, <1>3, <1>5
<1> HIDE DEF h
<1>8. \A i \in 1 .. n + 1 : Fits(h[i], v[i], K) /\ h[i + 1] = After(h[i], v[i])
  <2> TAKE i \in 1 .. n + 1
  <2>1. CASE i = n + 1
    BY <1>2, <1>3, <1>6, <1>7, <2>1
  <2>2. CASE i # n + 1
    BY <1>2, <1>3, <1>7, <2>2
  <2> QED BY <2>1, <2>2
<1>9. \A i, j \in 1 .. n + 2 : i <= j => Quiet(h[i], h[j])
  <2> SUFFICES ASSUME NEW i \in 1 .. n + 2, NEW j \in 1 .. n + 2, i <= j
               PROVE  Quiet(h[i], h[j])
    OBVIOUS
  <2>1. CASE j # n + 2
    BY <1>2, <1>3, <1>7, <2>1
  <2>2. CASE j = n + 2 /\ i = n + 2
    BY <2>2, QuietSteps
  <2>3. CASE j = n + 2 /\ i # n + 2
    <3>1. Quiet(g[i], t) /\ h[i] = g[i] /\ h[j] = u
      BY <1>2, <1>3, <1>7, <2>3
    <3> QED BY <1>4, <3>1, QuietSteps
  <2> QED BY <2>1, <2>2, <2>3
<1>10. IsRun(h, s, v, u, K)
  BY <1>2, <1>3, <1>7, <1>8, <1>9 DEF IsRun
<1> QED BY <1>7, <1>10 DEF Reads, u, v

\* The first part is read.
LEMMA ReadsFirst ==
  ASSUME NEW s, NEW w \in Seq(Parts), w # <<>>, NEW t, NEW K, Reads(s, w, t, K)
  PROVE  /\ s \in ReaderStates /\ Fits(s, Head(w), K)
         /\ Reads(After(s, Head(w)), Tail(w), t, K)
<1>1. PICK g \in Seq(ReaderStates) : IsRun(g, s, w, t, K)
  BY DEF Reads
<1> DEFINE n == Len(w)
           h == Tail(g)
           v == Tail(w)
<1>2. /\ n \in Nat \ {0} /\ Len(v) = n - 1 /\ Head(w) = w[1]
      /\ \A i \in 1 .. n - 1 : v[i] = w[i + 1]
  OBVIOUS
<1>3. /\ Len(g) = n + 1 /\ g[1] = s /\ g[n + 1] = t
      /\ \A i \in 1 .. n : Fits(g[i], w[i], K) /\ g[i + 1] = After(g[i], w[i])
      /\ \A i, j \in 1 .. n + 1 : i <= j => Quiet(g[i], g[j])
  BY <1>1 DEF IsRun
<1> HIDE DEF n, v
<1>4. /\ s \in ReaderStates /\ Fits(s, Head(w), K) /\ g[2] = After(s, Head(w))
  BY <1>2, <1>3
<1>5. h \in Seq(ReaderStates) /\ Len(h) = n /\ \A i \in 1 .. n : h[i] = g[i + 1]
  BY <1>2, <1>3
<1> HIDE DEF h
<1>6. h[1] = After(s, Head(w)) /\ h[n] = t
  BY <1>2, <1>3, <1>4, <1>5
<1>7. \A i \in 1 .. n - 1 : Fits(h[i], v[i], K) /\ h[i + 1] = After(h[i], v[i])
  BY <1>2, <1>3, <1>5
<1>8. \A i, j \in 1 .. n : i <= j => Quiet(h[i], h[j])
  <2> TAKE i, j \in 1 .. n
  <2>1. h[i] = g[i + 1] /\ h[j] = g[j + 1]
    BY <1>5
  <2>2. i + 1 \in 1 .. n + 1 /\ j + 1 \in 1 .. n + 1 /\ (i <= j => i + 1 <= j + 1)
    BY <1>2
  <2> QED BY <1>3, <2>1, <2>2
<1>9. IsRun(h, After(s, Head(w)), v, t, K)
  BY <1>2, <1>5, <1>6, <1>7, <1>8 DEF IsRun
<1> QED BY <1>4, <1>5, <1>9 DEF Reads, v

\* The ends of a run are states, and what is due now is not less than then.
LEMMA ReadsEnds ==
  ASSUME NEW s, NEW w \in Seq(Parts), NEW t, NEW K, Reads(s, w, t, K)
  PROVE  s \in ReaderStates /\ t \in ReaderStates /\ Quiet(s, t)
<1>1. PICK g \in Seq(ReaderStates) : IsRun(g, s, w, t, K)
  BY DEF Reads
<1>2. Len(w) \in Nat
  OBVIOUS
<1> QED BY <1>1, <1>2 DEF IsRun

\* A part of the first part is read.
Filling(s, n)    == [s EXCEPT !.chn = [s.chn EXCEPT !.upto = @ + n]]
Shorter(part, n) == [part EXCEPT !.len = @ - n]

\* The fields of the parts.
LEMMA PartsKinds ==
  ASSUME NEW part \in Parts
  PROVE  /\ part.kind \in Stats /\ part.len \in Nat
         /\ \A n \in Nat : n <= part.len => Shorter(part, n) \in Parts
         /\ part.kind = "BASIC" => part.fmt \in Formats /\ part.cid \in Cids
         /\ part.kind \in {"HEADER", "EXT_TIME"} => part.ts \in Times
         /\ part.kind = "HEADER" =>
              part.size \in Nat /\ part.type \in Types /\ part.sid \in Sids
         /\ part.kind = "CHUNK" => part.off \in Nat /\ part.arg \in Nat
<1>1. CASE part \in [kind : {"C0", "C1", "C2"}, len : Nat]
  BY <1>1 DEF Parts, Stats, Shorter
<1>2. CASE part \in [kind : {"BASIC"}, len : Nat, fmt : Formats, cid : Cids]
  BY <1>2 DEF Parts, Stats, Shorter
<1>3. CASE part \in [kind : {"HEADER"}, len : Nat, ts : Times, size : Nat, type : Types, sid : Sids]
  BY <1>3 DEF Parts, Stats, Shorter
<1>4. CASE part \in [kind : {"EXT_TIME"}, len : Nat, ts : Times]
  BY <1>4 DEF Parts, Stats, Shorter
<1>5. CASE part \in [kind : {"CHUNK"}, len : Nat, off : Nat, arg : Nat]
  BY <1>5 DEF Parts, Stats, Shorter
<1> QED BY <1>1, <1>2, <1>3, <1>4, <1>5 DEF Parts

\* A piece of a part moves the reader on within it.
LEMMA FillingParts ==
  ASSUME NEW s \in ReaderStates, NEW n \in Nat
  PROVE  LET r == Filling(s, n) IN
         /\ r \in ReaderStates
         /\ r.last = s.last /\ r.pkg = s.pkg /\ r.rd = s.rd /\ r.chunkIn = s.chunkIn
         /\ r.due = s.due
         /\ r.chn.stat = s.chn.stat /\ r.chn.cid = s.chn.cid /\ r.chn.fmt = s.chn.fmt
         /\ r.chn.size = s.chn.size /\ r.chn.upto = s.chn.upto + n
<1> DEFINE ch == [s.chn EXCEPT !.upto = @ + n]
<1>1. s.chn \in Chns
  BY DEF ReaderStates
<1>2. /\ ch \in Chns
      /\ ch.stat = s.chn.stat /\ ch.cid = s.chn.cid /\ ch.fmt = s.chn.fmt
      /\ ch.size = s.chn.size /\ ch.upto = s.chn.upto + n
  BY <1>1 DEF Chns
<1> HIDE DEF ch
<1>3. s = [chn |-> s.chn, last |-> s.last, pkg |-> s.pkg, rd |-> s.rd,
           chunkIn |-> s.chunkIn, due |-> s.due]
  BY DEF ReaderStates
<1>4. Filling(s, n) = [chn |-> ch, last |-> s.last, pkg |-> s.pkg, rd |-> s.rd,
                       chunkIn |-> s.chunkIn, due |-> s.due]
  <2>1. Filling(s, n) = [s EXCEPT !.chn = ch]
    BY DEF Filling, ch
  <2> QED BY <1>3, <2>1
<1>5. /\ s.last \in [Cids -> Lasts] /\ s.pkg \in [Cids -> Pkgs \cup {None}]
      /\ s.rd \in [Cids -> Nat] /\ s.chunkIn \in Nat /\ s.due \in [Cids -> Seq(Messages)]
  BY DEF ReaderStates
<1>6. Filling(s, n) \in ReaderStates
  BY <1>2, <1>4, <1>5 DEF ReaderStates
<1> QED BY <1>2, <1>4, <1>6

\* The rest of a part says what the part says.
LEMMA ShorterParts ==
  ASSUME NEW part \in Parts, NEW n \in Nat
  PROVE  LET q == Shorter(part, n) IN
         /\ q.kind = part.kind /\ q.len = part.len - n
         /\ part.kind = "BASIC" => q.fmt = part.fmt /\ q.cid = part.cid
         /\ part.kind \in {"HEADER", "EXT_TIME"} => q.ts = part.ts
         /\ part.kind = "HEADER" =>
              q.size = part.size /\ q.type = part.type /\ q.sid = part.sid
         /\ part.kind = "CHUNK" => q.off = part.off /\ q.arg = part.arg
<1>1. CASE part \in [kind : {"C0", "C1", "C2"}, len : Nat]
  BY <1>1 DEF Shorter
<1>2. CASE part \in [kind : {"BASIC"}, len : Nat, fmt : Formats, cid : Cids]
  BY <1>2 DEF Shorter
<1>3. CASE part \in [kind : {"HEADER"}, len : Nat, ts : Times, size : Nat, type : Types, sid : Sids]
  BY <1>3 DEF Shorter
<1>4. CASE part \in [kind : {"EXT_TIME"}, len : Nat, ts : Times]
  BY <1>4 DEF Shorter
<1>5. CASE part \in [kind : {"CHUNK"}, len : Nat, off : Nat, arg : Nat]
  BY <1>5 DEF Shorter
<1> QED BY <1>1, <1>2, <1>3, <1>4, <1>5 DEF Parts

\* It makes no difference in how many pieces a part is read.
LEMMA FillingTurn ==
  ASSUME NEW s \in ReaderStates, NEW part \in Parts, NEW n \in Nat
  PROVE  Turn(Filling(s, n), Shorter(part, n)) = Turn(s, part)
<1> DEFINE r == Filling(s, n)
           q == Shorter(part, n)
<1> SUFFICES Turn(r, q) = Turn(s, part)
  OBVIOUS
<1>1. /\ r.last = s.last /\ r.pkg = s.pkg /\ r.rd = s.rd /\ r.chunkIn = s.chunkIn
      /\ r.chn.cid = s.chn.cid /\ r.chn.fmt = s.chn.fmt /\ r.chn.size = s.chn.size
      /\ r \in ReaderStates
  BY FillingParts
<1>2. [r.chn EXCEPT !.stat = "C1", !.upto = 1, !.size = @ + SigSize]
        = [s.chn EXCEPT !.stat = "C1", !.upto = 1, !.size = @ + SigSize]
  BY DEF Filling, ReaderStates
<1>3. q.kind = part.kind /\ part.kind \in Stats
  BY ShorterParts, PartsKinds
<1>4. /\ part.kind = "BASIC" => q.fmt = part.fmt /\ q.cid = part.cid
      /\ part.kind \in {"HEADER", "EXT_TIME"} => q.ts = part.ts
      /\ part.kind = "HEADER" => q.size = part.size /\ q.type = part.type /\ q.sid = part.sid
      /\ part.kind = "CHUNK" => q.off = part.off /\ q.arg = part.arg
  BY ShorterParts
<1> HIDE DEF r, q
<1>5. CASE part.kind \in {"C0", "C1", "C2"}
  BY <1>1, <1>2, <1>3, <1>5 DEF Turn
<1>6. CASE part.kind = "BASIC"
  BY <1>1, <1>3, <1>4, <1>6 DEF Turn, BasicTurn, BegTurn
<1>7. CASE part.kind = "HEADER"
  <2>1. Begun(r, q) = Begun(s, part)
    BY <1>1, <1>4, <1>7 DEF Begun, EpochOf
  <2> QED BY <1>1, <1>3, <1>4, <1>7, <2>1 DEF Turn, HeaderTurn, BegTurn
<1>8. CASE part.kind = "EXT_TIME"
  <2>1. EpochOf(r, q.ts) = EpochOf(s, part.ts) /\ q.ts = part.ts
    BY <1>1, <1>4, <1>8 DEF EpochOf
  <2>2. ExtTurn(r, q) = ExtTurn(s, part)
    BY <1>1, <2>1 DEF ExtTurn, BegTurn
  <2> QED BY <1>3, <1>8, <2>2 DEF Turn
<1>9. CASE part.kind = "CHUNK"
  BY <1>1, <1>3, <1>4, <1>9 DEF Turn, ChunkTurn
<1> QED BY <1>3, <1>5, <1>6, <1>7, <1>8, <1>9 DEF Stats

\* The rest of a part is taken as the part would have been.
LEMMA FillingFits ==
  ASSUME NEW s \in ReaderStates, NEW part \in Parts, NEW n \in Nat, n <= part.len, NEW K,
         Fits(s, part, K)
  PROVE  /\ Fits(Filling(s, n), Shorter(part, n), K)
         /\ After(Filling(s, n), Shorter(part, n)) = After(s, part)
<1> DEFINE r == Filling(s, n)
           q == Shorter(part, n)
           x == Turn(s, part)
<1>1. /\ r.last = s.last /\ r.pkg = s.pkg /\ r.rd = s.rd /\ r.chunkIn = s.chunkIn
      /\ r.due = s.due /\ r.chn.cid = s.chn.cid /\ r.chn.stat = s.chn.stat
      /\ r.chn.size = s.chn.size /\ r.chn.upto = s.chn.upto + n
  BY FillingParts
<1>2. /\ q \in Parts /\ q.kind = part.kind /\ q.len = part.len - n
      /\ part.kind = "CHUNK" => q.off = part.off
  BY ShorterParts, PartsKinds
<1>3. Turn(r, q) = x
  BY FillingTurn
<1>4. s.chn.size \in Nat /\ s.chn.upto \in Nat /\ part.len \in Nat
  BY PartsKinds DEF ReaderStates, Chns
<1> HIDE DEF r, q, x
<1>5. Wanted(r, x, K) <=> Wanted(s, x, K)
  BY <1>1 DEF Wanted
<1>6. Fits(r, q, K)
  BY <1>1, <1>2, <1>3, <1>4, <1>5 DEF Fits, x
<1>7. Take(r, x) = Take(s, x)
  BY <1>1 DEF Take
<1> QED BY <1>3, <1>6, <1>7 DEF After, r, q, x

\* After a piece of the first part the rest is read to the same end.
LEMMA ReadsPartly ==
  ASSUME NEW s, NEW w \in Seq(Parts), w # <<>>, NEW t, NEW K, Reads(s, w, t, K),
         NEW n \in Nat, n <= Head(w).len
  PROVE  /\ <<Shorter(Head(w), n)>> \o Tail(w) \in Seq(Parts)
         /\ Reads(Filling(s, n), <<Shorter(Head(w), n)>> \o Tail(w), t, K)
<1> DEFINE r == Filling(s, n)
           q == Shorter(Head(w), n)
           v == <<q>> \o Tail(w)
           k == Len(w)
<1>1. PICK g \in Seq(ReaderStates) : IsRun(g, s, w, t, K)
  BY DEF Reads
<1>2. k \in Nat \ {0} /\ Head(w) = w[1] /\ w[1] \in Parts
  OBVIOUS
<1>3. /\ Len(g) = k + 1 /\ g[1] = s /\ g[k + 1] = t
      /\ \A i \in 1 .. k : Fits(g[i], w[i], K) /\ g[i + 1] = After(g[i], w[i])
      /\ \A i, j \in 1 .. k + 1 : i <= j => Quiet(g[i], g[j])
  BY <1>1 DEF IsRun
<1>4. s \in ReaderStates /\ Fits(s, w[1], K) /\ g[2] = After(s, w[1])
  BY <1>2, <1>3
<1>5. r \in ReaderStates /\ r.due = s.due /\ r.last = s.last
  BY <1>4, FillingParts
<1>6. q \in Parts
  BY <1>2, PartsKinds
<1>7. Fits(r, q, K) /\ After(r, q) = g[2]
  BY <1>2, <1>4, FillingFits
<1> HIDE DEF r, q
<1>8. /\ v \in Seq(Parts) /\ Len(v) = k /\ v[1] = q /\ \A i \in 2 .. k : v[i] = w[i]
  BY <1>2, <1>6
<1> DEFINE h == [g EXCEPT ![1] = r]
<1>9. /\ h \in Seq(ReaderStates) /\ Len(h) = k + 1 /\ h[1] = r
      /\ \A i \in 2 .. k + 1 : h[i] = g[i]
  BY <1>2, <1>3, <1>5
<1> HIDE DEF h, v, k
<1>10. \A i \in 1 .. k : Fits(h[i], v[i], K) /\ h[i + 1] = After(h[i], v[i])
  <2> TAKE i \in 1 .. k
  <2>1. CASE i = 1
    BY <1>2, <1>7, <1>8, <1>9, <2>1
  <2>2. CASE i # 1
    BY <1>2, <1>3, <1>8, <1>9, <2>2
  <2> QED BY <2>1, <2>2
<1>11. \A i, j \in 1 .. k + 1 : i <= j => Quiet(h[i], h[j])
  <2> SUFFICES ASSUME NEW i \in 1 .. k + 1, NEW j \in 1 .. k + 1, i <= j
               PROVE  Quiet(h[i], h[j])
    OBVIOUS
  <2>1. Quiet(g[i], g[j])
    BY <1>3
  <2>2. /\ h[i].due = g[i].due /\ h[i].last = g[i].last
        /\ h[j].due = g[j].due /\ h[j].last = g[j].last
    BY <1>2, <1>3, <1>5, <1>9
  <2> QED BY <2>1, <2>2 DEF Quiet
<1>12. h[k + 1] = t
  BY <1>2, <1>3, <1>9
<1>13. IsRun(h, r, v, t, K)
  BY <1>8, <1>9, <1>10, <1>11, <1>12 DEF IsRun
<1> QED BY <1>8, <1>9, <1>13 DEF Reads, r, q, v

\* One message more is due.
More(s, m) == [s EXCEPT !.due = [s.due EXCEPT ![Cid(m)] = Append(s.due[Cid(m)], m)]]

\* A message more is due.
LEMMA MoreParts ==
  ASSUME NEW s \in ReaderStates, NEW m \in Messages
  PROVE  LET r == More(s, m) IN
         /\ r \in ReaderStates
         /\ r.chn = s.chn /\ r.last = s.last /\ r.pkg = s.pkg /\ r.rd = s.rd
         /\ r.chunkIn = s.chunkIn
         /\ r.due = [s.due EXCEPT ![Cid(m)] = Append(s.due[Cid(m)], m)]
         /\ r.due \in [Cids -> Seq(Messages)]
         /\ \A c \in Cids : r.due[c] = IF c = Cid(m) THEN Append(s.due[c], m) ELSE s.due[c]
<1> DEFINE d == [s.due EXCEPT ![Cid(m)] = Append(s.due[Cid(m)], m)]
<1>1. s = [chn |-> s.chn, last |-> s.last, pkg |-> s.pkg, rd |-> s.rd,
           chunkIn |-> s.chunkIn, due |-> s.due]
  BY DEF ReaderStates
<1>2. s.due \in [Cids -> Seq(Messages)] /\ Cid(m) \in Cids
  BY DEF ReaderStates, Cids
<1>3. /\ d \in [Cids -> Seq(Messages)]
      /\ \A c \in Cids : d[c] = IF c = Cid(m) THEN Append(s.due[c], m) ELSE s.due[c]
  BY <1>2
<1> HIDE DEF d
<1>4. More(s, m) = [s EXCEPT !.due = d]
  BY DEF More, d
<1>5. More(s, m) = [chn |-> s.chn, last |-> s.last, pkg |-> s.pkg, rd |-> s.rd,
                    chunkIn |-> s.chunkIn, due |-> d]
  BY <1>1, <1>4
<1>6. More(s, m) \in ReaderStates
  BY <1>3, <1>5 DEF ReaderStates
<1> QED BY <1>3, <1>5, <1>6 DEF d

\* What is due makes no difference to the turn of the reader.
LEMMA SameTurn ==
  ASSUME NEW s, NEW r, NEW part \in Parts,
         r.chn = s.chn, r.last = s.last, r.pkg = s.pkg, r.rd = s.rd, r.chunkIn = s.chunkIn
  PROVE  Turn(r, part) = Turn(s, part)
<1>1. part.kind \in Stats
  BY PartsKinds
<1>2. \A c, p, n : BegTurn(r, c, p, n) = BegTurn(s, c, p, n)
  BY DEF BegTurn
<1>3. \A ts : EpochOf(r, ts) = EpochOf(s, ts)
  BY DEF EpochOf
<1>4. BasicTurn(r, part) = BasicTurn(s, part)
  BY <1>2 DEF BasicTurn
<1>5. HeaderTurn(r, part) = HeaderTurn(s, part)
  BY <1>2, <1>3 DEF HeaderTurn, Begun
<1>6. ExtTurn(r, part) = ExtTurn(s, part)
  BY <1>2, <1>3 DEF ExtTurn
<1>7. ChunkTurn(r, part) = ChunkTurn(s, part)
  BY DEF ChunkTurn
<1> QED BY <1>1, <1>4, <1>5, <1>6, <1>7 DEF Turn, Stats

\* A message that is added is the last.
LEMMA AppendParts ==
  ASSUME NEW m \in Messages, NEW q \in Seq(Messages)
  PROVE  /\ Append(q, m) \in Seq(Messages) /\ Append(q, m) # <<>>
         /\ q # <<>> => /\ Head(Append(q, m)) = Head(q)
                        /\ Tail(Append(q, m)) = Append(Tail(q), m)
<1>1. /\ Append(q, m) \in Seq(Messages) /\ Len(Append(q, m)) = Len(q) + 1
      /\ Len(q) \in Nat /\ Append(q, m) # <<>>
  OBVIOUS
<1>2. ASSUME q # <<>> PROVE Head(Append(q, m)) = Head(q)
  BY <1>2
<1>3. ASSUME q # <<>> PROVE Tail(Append(q, m)) = Append(Tail(q), m)
  <2>1. /\ Tail(q) \in Seq(Messages) /\ Len(Tail(q)) = Len(q) - 1 /\ Len(q) > 0
        /\ Tail(Append(q, m)) \in Seq(Messages)
        /\ Append(Tail(q), m) \in Seq(Messages)
        /\ Len(Tail(Append(q, m))) = Len(q) /\ Len(Append(Tail(q), m)) = Len(q)
    BY <1>1, <1>3
  <2>2. \A i \in 1 .. Len(q) : Tail(Append(q, m))[i] = Append(Tail(q), m)[i]
    <3>1. \A i \in 1 .. Len(q) : Tail(Append(q, m))[i] = Append(q, m)[i + 1]
      BY <1>1, <2>1, HeadTailProperties
    <3>2. \A i \in 1 .. Len(q) - 1 : Append(Tail(q), m)[i] = q[i + 1]
      BY <1>1, <1>3, <2>1
    <3>3. Append(Tail(q), m)[Len(q)] = m
      BY <1>1, <1>3, <2>1
    <3>4. \A i \in 1 .. Len(q) - 1 : Append(q, m)[i + 1] = q[i + 1]
      BY <1>1
    <3>5. Append(q, m)[Len(q) + 1] = m
      BY <1>1
    <3> QED BY <1>1, <3>1, <3>2, <3>3, <3>4, <3>5
  <2> QED BY <2>1, <2>2, SeqEqual
<1> QED BY <1>1, <1>2, <1>3

\* The chunk streams of which anything may be received, when m is due too.
MoreFree(s, m, K, L) == L = K \/ (s.due[Cid(m)] = <<>> /\ L = K \ {Cid(m)})

\* A part is taken the same way when a message more is due.
LEMMA MoreFits ==
  ASSUME NEW s \in ReaderStates, NEW m \in Messages, NEW part, NEW K, NEW L,
         Fits(s, part, K), MoreFree(s, m, K, L)
  PROVE  /\ Fits(More(s, m), part, L)
         /\ After(s, part) \in ReaderStates =>
              After(More(s, m), part) = More(After(s, part), m)
<1> DEFINE r == More(s, m)
           x == Turn(s, part)
           c == Cid(m)
<1>1. /\ r.chn = s.chn /\ r.last = s.last /\ r.pkg = s.pkg /\ r.rd = s.rd
      /\ r.chunkIn = s.chunkIn /\ c \in Cids
      /\ s.due \in [Cids -> Seq(Messages)]
      /\ r.due = [s.due EXCEPT ![c] = Append(s.due[c], m)]
      /\ r.due \in [Cids -> Seq(Messages)]
      /\ \A d \in Cids : r.due[d] = IF d = c THEN Append(s.due[d], m) ELSE s.due[d]
  BY MoreParts DEF ReaderStates, Cids
<1>2. Turn(r, part) = x
  BY <1>1, SameTurn DEF Fits
<1>3. Wanted(s, x, K) /\ part \in Parts
  BY DEF Fits
<1> HIDE DEF x, c
<1> HIDE DEF r
<1>4. ASSUME x.does = "end"
      PROVE  /\ x.cid \in Cids /\ s.due[x.cid] # <<>> /\ r.due[x.cid] # <<>>
             /\ Head(r.due[x.cid]) = Head(s.due[x.cid])
             /\ Tail(r.due[x.cid]) =
                  IF x.cid = c THEN Append(Tail(s.due[c]), m) ELSE Tail(s.due[x.cid])
  <2>1. x.cid \in Cids /\ s.due[x.cid] # <<>> /\ s.due[x.cid] \in Seq(Messages)
    BY <1>1, <1>3, <1>4 DEF Wanted
  <2>2. CASE x.cid = c
    BY <1>1, <2>1, <2>2, AppendParts
  <2>3. CASE x.cid # c
    BY <1>1, <2>1, <2>3
  <2> QED BY <2>1, <2>2, <2>3
<1>5. Wanted(r, x, L)
  BY <1>3, <1>4 DEF Wanted, MoreFree, c
<1>6. Fits(r, part, L)
  BY <1>1, <1>2, <1>5 DEF Fits, x
<1>7. ASSUME After(s, part) \in ReaderStates PROVE After(r, part) = More(After(s, part), m)
  <2> DEFINE a == After(s, part)
             b == After(r, part)
  <2>1. a = Take(s, x) /\ b = Take(r, x)
    BY <1>2 DEF After, x
  <2>2. /\ b.chn = a.chn /\ b.last = a.last /\ b.pkg = a.pkg /\ b.rd = a.rd
        /\ b.chunkIn = a.chunkIn
    BY <1>1, <2>1 DEF Take
  <2>3. /\ a.due = IF x.does = "end" THEN [s.due EXCEPT ![x.cid] = Tail(@)] ELSE s.due
        /\ b.due = IF x.does = "end" THEN [r.due EXCEPT ![x.cid] = Tail(@)] ELSE r.due
        /\ b = [chn |-> b.chn, last |-> b.last, pkg |-> b.pkg, rd |-> b.rd,
                chunkIn |-> b.chunkIn, due |-> b.due]
    BY <2>1 DEF Take
  <2>4. b.due = [a.due EXCEPT ![c] = Append(a.due[c], m)]
    <3>1. CASE x.does # "end"
      BY <1>1, <2>3, <3>1
    <3>2. CASE x.does = "end"
      <4>1. /\ b.due \in [Cids -> Seq(Messages)] /\ a.due \in [Cids -> Seq(Messages)]
            /\ \A d \in Cids : b.due[d] = IF d = x.cid THEN Tail(r.due[d]) ELSE r.due[d]
            /\ \A d \in Cids : a.due[d] = IF d = x.cid THEN Tail(s.due[d]) ELSE s.due[d]
        <5>1. /\ x.cid \in Cids
              /\ Tail(s.due[x.cid]) \in Seq(Messages) /\ Tail(r.due[x.cid]) \in Seq(Messages)
          BY <1>1, <1>4, <3>2
        <5>2. /\ a.due = [s.due EXCEPT ![x.cid] = Tail(s.due[x.cid])]
              /\ b.due = [r.due EXCEPT ![x.cid] = Tail(r.due[x.cid])]
          BY <2>3, <3>2
        <5>3. s.due \in [Cids -> Seq(Messages)] /\ r.due \in [Cids -> Seq(Messages)]
          BY <1>1
        <5> HIDE DEF a, b
        <5> QED BY <5>1, <5>2, <5>3
      <4>2. \A d \in Cids : b.due[d] = [a.due EXCEPT ![c] = Append(a.due[c], m)][d]
        BY <1>1, <1>4, <3>2, <4>1
      <4> QED BY <1>1, <4>1, <4>2
    <3> QED BY <3>1, <3>2
  <2> HIDE DEF a, b
  <2>5. More(a, m) = [chn |-> a.chn, last |-> a.last, pkg |-> a.pkg, rd |-> a.rd,
                      chunkIn |-> a.chunkIn, due |-> [a.due EXCEPT ![c] = Append(a.due[c], m)]]
    <3>1. More(a, m) \in ReaderStates /\ a \in ReaderStates
      BY <1>7, MoreParts DEF a
    <3> DEFINE y == More(a, m)
    <3>2. /\ y.chn = a.chn /\ y.last = a.last /\ y.pkg = a.pkg /\ y.rd = a.rd
          /\ y.chunkIn = a.chunkIn /\ y.due = [a.due EXCEPT ![c] = Append(a.due[c], m)]
      BY <3>1, MoreParts DEF c
    <3>3. y = [chn |-> y.chn, last |-> y.last, pkg |-> y.pkg, rd |-> y.rd,
               chunkIn |-> y.chunkIn, due |-> y.due]
      BY <3>1 DEF ReaderStates
    <3> HIDE DEF y
    <3>4. y = [chn |-> a.chn, last |-> a.last, pkg |-> a.pkg, rd |-> a.rd,
               chunkIn |-> a.chunkIn, due |-> [a.due EXCEPT ![c] = Append(a.due[c], m)]]
      BY <3>2, <3>3
    <3> QED BY <3>4 DEF y
  <2> QED BY <2>2, <2>3, <2>4, <2>5 DEF a, b
<1> QED BY <1>6, <1>7 DEF r

\* The run goes on as before when a message more is due at its start.
LEMMA ReadsMore ==
  ASSUME NEW s, NEW w \in Seq(Parts), NEW t, NEW K, NEW L, Reads(s, w, t, K),
         NEW m \in Messages, MoreFree(s, m, K, L)
  PROVE  Reads(More(s, m), w, More(t, m), L)
<1> DEFINE k == Len(w)
<1>1. PICK g \in Seq(ReaderStates) : IsRun(g, s, w, t, K)
  BY DEF Reads
<1>2. k \in Nat /\ \A i \in 1 .. k : w[i] \in Parts
  OBVIOUS
<1>3. /\ Len(g) = k + 1 /\ g[1] = s /\ g[k + 1] = t
      /\ \A i \in 1 .. k : Fits(g[i], w[i], K) /\ g[i + 1] = After(g[i], w[i])
      /\ \A i, j \in 1 .. k + 1 : i <= j => Quiet(g[i], g[j])
  BY <1>1 DEF IsRun
<1> HIDE DEF k
<1>4. \A i \in 1 .. k + 1 : g[i] \in ReaderStates
  BY <1>2, <1>3
<1> DEFINE h == [i \in 1 .. k + 1 |-> More(g[i], m)]
<1>5. \A i \in 1 .. k + 1 : h[i] = More(g[i], m) /\ h[i] \in ReaderStates
  BY <1>4, MoreParts
<1>6. h \in Seq(ReaderStates) /\ Len(h) = k + 1
  BY <1>2, <1>5
<1> HIDE DEF h
<1>7. \A i \in 1 .. k + 1 : MoreFree(g[i], m, K, L)
  <2> TAKE i \in 1 .. k + 1
  <2>1. Quiet(s, g[i]) /\ Cid(m) \in Cids
    BY <1>2, <1>3 DEF Cids
  <2> QED BY <2>1 DEF Quiet, MoreFree
<1>8. \A i \in 1 .. k : Fits(h[i], w[i], L) /\ h[i + 1] = After(h[i], w[i])
  <2> TAKE i \in 1 .. k
  <2>1. /\ g[i] \in ReaderStates /\ MoreFree(g[i], m, K, L)
        /\ Fits(g[i], w[i], K) /\ g[i + 1] = After(g[i], w[i]) /\ g[i + 1] \in ReaderStates
        /\ h[i] = More(g[i], m) /\ h[i + 1] = More(g[i + 1], m)
    BY <1>2, <1>3, <1>4, <1>5, <1>7
  <2> QED BY <2>1, MoreFits
<1>9. \A i, j \in 1 .. k + 1 : i <= j => Quiet(h[i], h[j])
  <2> SUFFICES ASSUME NEW i \in 1 .. k + 1, NEW j \in 1 .. k + 1, i <= j
               PROVE  Quiet(h[i], h[j])
    OBVIOUS
  <2>1. /\ g[i] \in ReaderStates /\ g[j] \in ReaderStates /\ Quiet(g[i], g[j])
        /\ h[i] = More(g[i], m) /\ h[j] = More(g[j], m)
    BY <1>3, <1>4, <1>5
  <2>2. /\ h[i].last = g[i].last /\ h[j].last = g[j].last
        /\ \A c \in Cids : h[i].due[c] = IF c = Cid(m) THEN Append(g[i].due[c], m) ELSE g[i].due[c]
        /\ \A c \in Cids : h[j].due[c] = IF c = Cid(m) THEN Append(g[j].due[c], m) ELSE g[j].due[c]
    <3> DEFINE a == g[i]
               b == g[j]
    <3>1. a \in ReaderStates /\ b \in ReaderStates
      BY <2>1
    <3> HIDE DEF a, b
    <3>2. /\ More(a, m).last = a.last
          /\ \A c \in Cids : More(a, m).due[c] = IF c = Cid(m) THEN Append(a.due[c], m) ELSE a.due[c]
      BY <3>1, MoreParts
    <3>3. /\ More(b, m).last = b.last
          /\ \A c \in Cids : More(b, m).due[c] = IF c = Cid(m) THEN Append(b.due[c], m) ELSE b.due[c]
      BY <3>1, MoreParts
    <3> QED BY <2>1, <3>2, <3>3 DEF a, b
  <2>3. \A c \in Cids : g[i].due[c] \in Seq(Messages)
    BY <2>1 DEF ReaderStates
  <2>4. \A c \in Cids : Append(g[i].due[c], m) # <<>>
    BY <2>3, AppendParts
  <2> QED BY <2>1, <2>2, <2>4 DEF Quiet
<1>10. h[1] = More(s, m) /\ h[k + 1] = More(t, m)
  BY <1>2, <1>3, <1>5
<1>11. IsRun(h, More(s, m), w, More(t, m), L)
  BY <1>6, <1>8, <1>9, <1>10 DEF IsRun, k
<1> QED BY <1>6, <1>11 DEF Reads

\* The less is asked, the more fits.
LEMMA ReadsAnyhow ==
  ASSUME NEW s, NEW w \in Seq(Parts), NEW t, NEW K, NEW L, K \subseteq L, Reads(s, w, t, K)
  PROVE  Reads(s, w, t, L)
<1>1. \A r, part : Fits(r, part, K) => Fits(r, part, L)
  BY DEF Fits, Wanted
<1> QED BY <1>1 DEF Reads, IsRun

-----------------------------------------------------------------------------
(* The steps of the reader are its turns.                                  *)

\* What the reader holds now.
LEMMA NowParts ==
  /\ Now.chn = chn /\ Now.last = last /\ Now.pkg = pkg /\ Now.rd = rd
  /\ Now.chunkIn = chunkIn /\ Now.due = due
BY DEF Now

\* The steps of the reader are its turns.
LEMMA MoveStep ==
  ASSUME NEW ch, chn' = ch, UNCHANGED <<last, pkg, rd, chunkIn, due>>
  PROVE  Now' = Take(Now, Move(ch))
BY DEF Now, Take, Move, Turns

\* Of EndChunk.
LEMMA EndStep ==
  ASSUME NEW c, NEW p, NEW total, EndChunk(c, p, total)
  PROVE  Now' = Take(Now, EndTurn(c, p, total))
<1>1. CASE total = p.size
  BY <1>1 DEF EndChunk, EndTurn, Turns, Take, Now
<1>2. CASE total # p.size
  BY <1>2 DEF EndChunk, EndTurn, Turns, Take, Now
<1> QED BY <1>1, <1>2

\* Of BegChunk.
LEMMA BegStep ==
  ASSUME NEW c, NEW p, p.size \in Nat, NEW n \in Nat, BegChunk(c, p, n)
  PROVE  Now' = Take(Now, BegTurn(Now, c, p, n))
<1>1. CASE n < p.size
  BY <1>1 DEF BegChunk, BegTurn, Turns, Take, Now
<1>2. CASE n >= p.size
  <2>1. EndChunk(c, p, n) /\ ~ (n < p.size)
    BY <1>2 DEF BegChunk
  <2> QED BY <2>1, EndStep DEF BegTurn
<1> QED BY <1>1, <1>2

\* A step that reads the whole of what is expected.
ReadPart ==
  ReadC0 \/ ReadC1 \/ ReadC2 \/ ReadBasic \/ ReadHeader \/ ReadExtTime \/ ReadChunk

\* The reader takes the first part that is on the wire.
LEMMA ReadStep ==
  ASSUME ChunkInv, ReadPart
  PROVE  /\ wire # <<>> /\ wire' = Tail(wire) /\ UNCHANGED <<writer, skewed>>
         /\ Now' = After(Now, Head(wire))
<1> DEFINE part == Head(wire)
<1>0. /\ wire # <<>> /\ wire' = Tail(wire) /\ UNCHANGED <<writer, skewed>>
      /\ part.kind = chn.stat
  BY DEF ReadPart, ReadC0, ReadC1, ReadC2, ReadBasic, ReadHeader, ReadExtTime, ReadChunk,
         Filled, Has
<1>1. PkgsOK /\ ChnOK /\ part \in Parts
  BY <1>0 DEF ChunkInv, WriterOK
<1>2. /\ part.kind = "BASIC" => part.fmt \in Formats /\ part.cid \in Cids
      /\ part.kind = "HEADER" => part.size \in Nat
  BY <1>1, PartsKinds
<1> SUFFICES Now' = Take(Now, Turn(Now, part))
  BY <1>0 DEF After
<1> HIDE DEF part
<1>3. CASE ReadC0
  <2>1. part.kind = "C0"
    BY <1>0, <1>3 DEF ReadC0, Filled
  <2> QED BY <1>3, <2>1, MoveStep DEF ReadC0, Turn, Now
<1>4. CASE ReadC1
  <2>1. part.kind = "C1"
    BY <1>0, <1>4 DEF ReadC1, Filled
  <2> QED BY <1>4, <2>1, MoveStep DEF ReadC1, Turn
<1>5. CASE ReadC2
  <2>1. part.kind = "C2"
    BY <1>0, <1>5 DEF ReadC2, Filled
  <2> QED BY <1>5, <2>1, MoveStep DEF ReadC2, Turn
<1>6. CASE ReadBasic
  <2> DEFINE fmt == part.fmt
             c   == part.cid
  <2>1. part.kind = "BASIC" /\ c \in Cids
    BY <1>0, <1>2, <1>6 DEF ReadBasic
  <2>2. Turn(Now, part) = BasicTurn(Now, part)
    BY <2>1 DEF Turn
  <2>3. \/ /\ fmt # MINIMUM
           /\ chn' = Reading("HEADER", c, fmt, HeaderSize[fmt])
           /\ UNCHANGED <<last, pkg, rd, chunkIn, due>>
        \/ fmt = MINIMUM /\ pkg[c] = None /\ BegChunk(c, Repeated(last[c]), 0)
        \/ fmt = MINIMUM /\ pkg[c] # None /\ BegChunk(c, pkg[c], rd[c])
    BY <1>6 DEF ReadBasic, part
  <2>4. /\ Repeated(last[c]).size \in Nat /\ rd[c] \in Nat
        /\ pkg[c] # None => pkg[c].size \in Nat
    BY <1>1, <2>1 DEF PkgsOK, Repeated, Lasts, Pkgs
  <2> HIDE DEF fmt, c
  <2>5. CASE fmt # MINIMUM
    BY <2>2, <2>3, <2>5, MoveStep DEF BasicTurn, fmt, c
  <2>6. CASE fmt = MINIMUM /\ pkg[c] = None
    <3>1. Now' = Take(Now, BegTurn(Now, c, Repeated(last[c]), 0))
      BY <2>3, <2>4, <2>6, BegStep
    <3> QED BY <2>2, <2>6, <3>1, NowParts DEF BasicTurn, fmt, c
  <2>7. CASE fmt = MINIMUM /\ pkg[c] # None
    <3>1. Now' = Take(Now, BegTurn(Now, c, pkg[c], rd[c]))
      BY <2>3, <2>4, <2>7, BegStep
    <3> QED BY <2>2, <2>7, <3>1, NowParts DEF BasicTurn, fmt, c
  <2> QED BY <2>5, <2>6, <2>7
<1>7. CASE ReadHeader
  <2> DEFINE c == chn.cid
             p == Begun(Now, part)
  <2>1. part.kind = "HEADER" /\ c \in Cids
    BY <1>0, <1>1, <1>7 DEF ReadHeader, Filled, ChnOK
  <2>2. Turn(Now, part) = HeaderTurn(Now, part)
    BY <2>1 DEF Turn
  <2>3. p = [epoch |-> Epoch(c, chn.fmt, part.ts), ts |-> part.ts,
             sid   |-> IF chn.fmt = LARGE THEN part.sid ELSE last[c].sid,
             size  |-> IF chn.fmt # SMALL THEN part.size ELSE last[c].size,
             type  |-> IF chn.fmt # SMALL THEN part.type ELSE last[c].type,
             arg   |-> 0]
    BY NowParts DEF Begun, Epoch, EpochOf
  <2>4. p.size \in Nat
    BY <1>1, <1>2, <2>1, <2>3 DEF PkgsOK, Lasts
  <2> HIDE DEF p
  <2>5. \/ part.ts # ExtMark /\ BegChunk(c, p, 0)
        \/ /\ part.ts = ExtMark
           /\ chn' = Reading("EXT_TIME", c, chn.fmt, ExtSize)
           /\ pkg' = [pkg EXCEPT ![c] = p]
           /\ rd' = [rd EXCEPT ![c] = 0]
           /\ UNCHANGED <<last, chunkIn, due>>
    BY <1>7, <2>3 DEF ReadHeader, part
  <2>6. CASE part.ts # ExtMark
    <3>1. Now' = Take(Now, BegTurn(Now, c, p, 0))
      BY <2>4, <2>5, <2>6, BegStep
    <3> QED BY <2>2, <2>6, <3>1, NowParts DEF HeaderTurn, p
  <2>7. CASE part.ts = ExtMark
    <3>1. Now' = Take(Now, Turns("keep", Reading("EXT_TIME", c, chn.fmt, ExtSize), c, p, 0))
      BY <2>5, <2>7 DEF Now, Take, Turns
    <3> QED BY <2>2, <2>7, <3>1, NowParts DEF HeaderTurn, p
  <2> QED BY <2>6, <2>7
<1>8. CASE ReadExtTime
  <2> DEFINE c == chn.cid
             p == [pkg[c] EXCEPT !.ts = part.ts, !.epoch = Epoch(c, chn.fmt, part.ts)]
  <2>1. part.kind = "EXT_TIME" /\ c \in Cids /\ pkg[c] \in Pkgs
    BY <1>0, <1>1, <1>8 DEF ReadExtTime, Filled, ChnOK
  <2>2. p.size \in Nat /\ rd[c] \in Nat
    BY <1>1, <2>1 DEF Pkgs, PkgsOK
  <2>3. BegChunk(c, p, rd[c])
    BY <1>8 DEF ReadExtTime, part
  <2>4. p = [Now.pkg[c] EXCEPT !.ts = part.ts, !.epoch = EpochOf(Now, part.ts)]
    BY NowParts DEF Epoch, EpochOf
  <2> HIDE DEF p
  <2>5. Now' = Take(Now, BegTurn(Now, c, p, rd[c]))
    BY <2>2, <2>3, BegStep
  <2>6. Turn(Now, part) = ExtTurn(Now, part)
    BY <2>1 DEF Turn
  <2> QED BY <2>4, <2>5, <2>6, NowParts DEF ExtTurn
<1>9. CASE ReadChunk
  <2> DEFINE c == chn.cid
             p == [pkg[c] EXCEPT !.arg = part.arg]
  <2>1. part.kind = "CHUNK"
    BY <1>0, <1>9 DEF ReadChunk, Filled
  <2>2. EndChunk(c, p, rd[c] + chn.size)
    BY <1>9 DEF ReadChunk, part
  <2>3. Now' = Take(Now, EndTurn(c, p, rd[c] + chn.size))
    BY <2>2, EndStep
  <2>4. Turn(Now, part) = ChunkTurn(Now, part)
    BY <2>1 DEF Turn
  <2> QED BY <2>3, <2>4, NowParts DEF ChunkTurn
<1> QED BY <1>3, <1>4, <1>5, <1>6, <1>7, <1>8, <1>9 DEF ReadPart

\* The writer is at rest.
LEMMA SyncedKept ==
  ASSUME NEW f, Synced(f), UNCHANGED <<writer, skewed>>
  PROVE  Synced(f)'
<1>1. out' = out /\ cur' = cur /\ chunkOut' = chunkOut /\ skewed' = skewed
  BY DEF writer
<1>2. \A c : Rested(f, c)' <=> Rested(f, c)
  BY <1>1 DEF Rested
<1>3. \A c : Busy(f, c)' <=> Busy(f, c)
  BY <1>1 DEF Busy, Enough, Partly
<1> QED BY <1>1, <1>2, <1>3 DEF Synced

\* The reader gets on with its run.
LEMMA AgreeRead == ChunkInv /\ AgreeInv /\ Read => AgreeInv'
<1> SUFFICES ASSUME ChunkInv, AgreeInv, Read PROVE AgreeInv'
  OBVIOUS
<1>1. PICK f \in ReaderStates : Reads(Now, wire, f, skewed) /\ Synced(f)
  BY DEF AgreeInv
<1>2. wire \in Seq(Parts)
  BY DEF ChunkInv, WriterOK
<1>3. CASE ReadPart
  <2>1. Reads(Now, wire, f, skewed)'
    <3>1. Reads(After(Now, Head(wire)), Tail(wire), f, skewed)
      BY <1>1, <1>2, <1>3, ReadStep, ReadsFirst
    <3>2. Now' = After(Now, Head(wire)) /\ wire' = Tail(wire) /\ skewed' = skewed
      BY <1>3, ReadStep
    <3> QED BY <3>1, <3>2
  <2>2. Synced(f)'
    BY <1>1, <1>3, ReadStep, SyncedKept
  <2> QED BY <2>1, <2>2 DEF AgreeInv
<1>4. ASSUME NEW n \in 1 .. Need - 1, FillSome(n) PROVE AgreeInv'
  <2>1. /\ wire # <<>> /\ n <= Head(wire).len /\ Head(wire).kind = chn.stat
        /\ wire' = <<[Head(wire) EXCEPT !.len = @ - n]>> \o Tail(wire)
        /\ chn' = [chn EXCEPT !.upto = @ + n]
        /\ UNCHANGED <<writer, last, pkg, rd, chunkIn, due, skewed>>
    BY <1>4 DEF FillSome, Has
  <2>2. Now' = Filling(Now, n)
    BY <2>1 DEF Filling, Now
  <2>3. wire' = <<Shorter(Head(wire), n)>> \o Tail(wire)
    BY <2>1 DEF Shorter
  <2>4. n \in Nat
    BY DEF Need, ChunkInv, ChnOK
  <2>5. Reads(Filling(Now, n), <<Shorter(Head(wire), n)>> \o Tail(wire), f, skewed)
    BY <1>1, <1>2, <2>1, <2>4, ReadsPartly
  <2>6. Reads(Now, wire, f, skewed)'
    BY <2>1, <2>2, <2>3, <2>5
  <2>7. Synced(f)'
    BY <1>1, <2>1, SyncedKept
  <2> QED BY <2>6, <2>7 DEF AgreeInv
<1> QED BY <1>3, <1>4 DEF Read, ReadPart

-----------------------------------------------------------------------------
(* What each kind of turn leaves.                                          *)

\* What is expected next.
LEMMA ReadingParts ==
  ASSUME NEW stat \in Stats, NEW c \in Cids \cup {None}, NEW fmt \in Formats, NEW n \in Nat
  PROVE  LET r == Reading(stat, c, fmt, n) IN
         /\ r \in Chns /\ r.stat = stat /\ r.cid = c /\ r.fmt = fmt /\ r.size = n
         /\ r.upto = 0
BY DEF Reading, Chns

\* The reader moves on.
LEMMA TakeMove ==
  ASSUME NEW e \in ReaderStates, NEW ch \in Chns
  PROVE  LET t == Take(e, Move(ch)) IN
         /\ t \in ReaderStates /\ t.chn = ch /\ t.last = e.last /\ t.pkg = e.pkg
         /\ t.rd = e.rd /\ t.chunkIn = e.chunkIn /\ t.due = e.due
BY DEF ReaderStates, Take, Move, Turns, Chns

\* The reader keeps what it has of a message.
LEMMA TakeKeep ==
  ASSUME NEW e \in ReaderStates, NEW ch \in Chns, NEW c \in Cids, NEW q \in Pkgs, NEW n \in Nat
  PROVE  LET t == Take(e, Turns("keep", ch, c, q, n)) IN
         /\ t \in ReaderStates /\ t.chn = ch /\ t.last = e.last
         /\ t.pkg = [e.pkg EXCEPT ![c] = q] /\ t.rd = [e.rd EXCEPT ![c] = n]
         /\ t.chunkIn = e.chunkIn /\ t.due = e.due
<1> DEFINE t == Take(e, Turns("keep", ch, c, q, n))
<1>1. /\ t.chn = ch /\ t.last = e.last
      /\ t.pkg = [e.pkg EXCEPT ![c] = q] /\ t.rd = [e.rd EXCEPT ![c] = n]
      /\ t.chunkIn = e.chunkIn /\ t.due = e.due
      /\ t = [chn |-> t.chn, last |-> t.last, pkg |-> t.pkg, rd |-> t.rd,
              chunkIn |-> t.chunkIn, due |-> t.due]
  BY DEF Take, Turns
<1> HIDE DEF t
<1>2. t.pkg \in [Cids -> Pkgs \cup {None}] /\ t.rd \in [Cids -> Nat]
  BY <1>1 DEF ReaderStates
<1>3. t \in ReaderStates
  BY <1>1, <1>2 DEF ReaderStates, Chns
<1> QED BY <1>1, <1>3 DEF t

\* The state t is e after q is received on c.
Ended(t, e, ch, c, q) ==
  /\ t \in ReaderStates /\ t.chn = ch
  /\ t.last = [e.last EXCEPT ![c] = Prev(q, q.ts)]
  /\ t.pkg = [e.pkg EXCEPT ![c] = None] /\ t.rd = [e.rd EXCEPT ![c] = 0]
  /\ t.chunkIn = (IF q.arg # 0 THEN q.arg ELSE e.chunkIn)
  /\ t.due = [e.due EXCEPT ![c] = <<>>]

\* The reader receives a message.
LEMMA TakeEnd ==
  ASSUME NEW e \in ReaderStates, NEW ch \in Chns, NEW c \in Cids, NEW q \in Pkgs, NEW n,
         NEW m \in Messages, e.due[c] = <<m>>
  PROVE  Ended(Take(e, Turns("end", ch, c, q, n)), e, ch, c, q)
<1> DEFINE t == Take(e, Turns("end", ch, c, q, n))
<1>0. Tail(e.due[c]) = <<>>
  OBVIOUS
<1>1. /\ t.chn = ch /\ t.last = [e.last EXCEPT ![c] = Prev(q, q.ts)]
      /\ t.pkg = [e.pkg EXCEPT ![c] = None] /\ t.rd = [e.rd EXCEPT ![c] = 0]
      /\ t.chunkIn = (IF q.arg # 0 THEN q.arg ELSE e.chunkIn)
      /\ t.due = [e.due EXCEPT ![c] = Tail(e.due[c])]
      /\ t = [chn |-> t.chn, last |-> t.last, pkg |-> t.pkg, rd |-> t.rd,
              chunkIn |-> t.chunkIn, due |-> t.due]
  BY DEF Take, Turns
<1> HIDE DEF t
<1>2. /\ Prev(q, q.ts) \in Lasts /\ q.arg \in Nat
  BY DEF Pkgs, Prev, Lasts
<1>3. /\ t.pkg \in [Cids -> Pkgs \cup {None}] /\ t.rd \in [Cids -> Nat]
      /\ t.last \in [Cids -> Lasts] /\ t.due \in [Cids -> Seq(Messages)]
      /\ t.chunkIn \in Nat
  BY <1>0, <1>1, <1>2 DEF ReaderStates
<1>4. t \in ReaderStates
  BY <1>1, <1>3 DEF ReaderStates, Chns
<1> QED BY <1>0, <1>1, <1>4 DEF t, Ended

-----------------------------------------------------------------------------
(* The steps of the writers.                                               *)

\* At the start the handshake is on the wire, and nothing more.
LEMMA AgreeInit == Init => AgreeInv
<1> SUFFICES ASSUME Init PROVE AgreeInv
  OBVIOUS
<1> DEFINE b0 == Part("C0", 1)
           b1 == Part("C1", SigSize)
           b2 == Part("C2", SigSize)
           e0 == Now
           c1 == [chn EXCEPT !.stat = "C1", !.upto = 1, !.size = chn.size + SigSize]
           c2 == Reading("C2", None, LARGE, SigSize)
           c3 == Reading("BASIC", None, LARGE, 0)
           e1 == Take(e0, Move(c1))
           e2 == Take(e1, Move(c2))
           e3 == Take(e2, Move(c3))
<1>1. /\ b0 \in Parts /\ b0.kind = "C0" /\ b0.len = 1
      /\ b1 \in Parts /\ b1.kind = "C1" /\ b1.len = SigSize
      /\ b2 \in Parts /\ b2.kind = "C2" /\ b2.len = SigSize
      /\ SigSize \in Nat
  BY ChunkAssumption DEF Part, Parts
<1>2. ChunkInv /\ wire = <<b0, b1, b2>>
  BY ChunkInit DEF Init
<1>3. /\ chn = Reading("C0", None, LARGE, 1) /\ due = [c \in Cids |-> <<>>]
      /\ pkg = [c \in Cids |-> None] /\ rd = [c \in Cids |-> 0] /\ chunkIn = MinChunk
      /\ cur = [c \in Cids |-> None] /\ out = [c \in Cids |-> None] /\ chunkOut = MinChunk
      /\ skewed = {}
  BY DEF Init
<1>4. e0 \in ReaderStates /\ e0.chn = chn
  BY <1>2, <1>3 DEF Now, ChunkInv, PkgsOK, ChnOK, ReaderStates, Chns
<1>5. /\ c1 \in Chns /\ c2 \in Chns /\ c3 \in Chns
      /\ c1.stat = "C1" /\ c1.size = 1 + SigSize /\ c1.upto = 1
      /\ c2.stat = "C2" /\ c2.size = SigSize /\ c2.upto = 0
      /\ c3.stat = "BASIC"
      /\ chn.stat = "C0" /\ chn.size = 1 /\ chn.upto = 0
  <2>1. /\ chn \in Chns /\ chn.stat = "C0" /\ chn.size = 1 /\ chn.upto = 0
    BY <1>2, <1>3 DEF Reading, ChunkInv, ChnOK, Chns
  <2>2. 1 + SigSize \in Nat /\ LARGE \in Formats /\ {"C0", "C1", "C2", "BASIC"} \subseteq Stats
    BY <1>1 DEF Stats, Formats, LARGE
  <2>3. c1 \in Chns /\ c1.stat = "C1" /\ c1.size = 1 + SigSize /\ c1.upto = 1
    BY <2>1, <2>2 DEF Chns
  <2>4. /\ c2 \in Chns /\ c3 \in Chns /\ c2.stat = "C2" /\ c2.size = SigSize /\ c2.upto = 0
        /\ c3.stat = "BASIC"
    BY <1>1, <2>2 DEF Chns, Reading
  <2> QED BY <2>1, <2>3, <2>4
<1> HIDE DEF e0, c1, c2, c3, b0, b1, b2
<1> HIDE DEF e1, e2, e3
<1>5a. /\ e1 \in ReaderStates /\ e1.chn = c1 /\ e1.last = e0.last /\ e1.pkg = e0.pkg
       /\ e1.rd = e0.rd /\ e1.chunkIn = e0.chunkIn /\ e1.due = e0.due
  BY <1>4, <1>5, TakeMove DEF e1
<1>5b. /\ e2 \in ReaderStates /\ e2.chn = c2 /\ e2.last = e1.last /\ e2.pkg = e1.pkg
       /\ e2.rd = e1.rd /\ e2.chunkIn = e1.chunkIn /\ e2.due = e1.due
  BY <1>5, <1>5a, TakeMove DEF e2
<1>5c. /\ e3 \in ReaderStates /\ e3.chn = c3 /\ e3.last = e2.last /\ e3.pkg = e2.pkg
       /\ e3.rd = e2.rd /\ e3.chunkIn = e2.chunkIn /\ e3.due = e2.due
  BY <1>5, <1>5b, TakeMove DEF e3
<1>6. e1 \in ReaderStates /\ e2 \in ReaderStates /\ e3 \in ReaderStates
  BY <1>5a, <1>5b, <1>5c
<1>7. /\ e1.chn = c1 /\ e2.chn = c2 /\ e3.chn = c3
      /\ e3.pkg = e0.pkg /\ e3.rd = e0.rd /\ e3.chunkIn = e0.chunkIn
      /\ e3.due = e0.due /\ e3.last = e0.last
  BY <1>5a, <1>5b, <1>5c
<1>8. Turn(e0, b0) = Move(c1) /\ Turn(e1, b1) = Move(c2) /\ Turn(e2, b2) = Move(c3)
  BY <1>1, <1>4, <1>5 DEF Turn, c1, c2, c3
<1>9. \A s, ch, K : Wanted(s, Move(ch), K)
  BY DEF Wanted, Move, Turns
<1>10. Fits(e0, b0, skewed) /\ Fits(e1, b1, skewed) /\ Fits(e2, b2, skewed)
  BY <1>1, <1>4, <1>5, <1>7, <1>8, <1>9 DEF Fits
<1>11. After(e0, b0) = e1 /\ After(e1, b1) = e2 /\ After(e2, b2) = e3
  BY <1>8 DEF After, e1, e2, e3
<1>12. /\ <<>> \in Seq(Parts) /\ Append(<<>>, b0) \in Seq(Parts)
       /\ Append(Append(<<>>, b0), b1) \in Seq(Parts)
       /\ wire = Append(Append(Append(<<>>, b0), b1), b2)
  BY <1>1, <1>2
<1>13. Reads(e0, <<>>, e0, skewed)
  BY <1>4, ReadsNothing
<1>14. Reads(e0, Append(<<>>, b0), e1, skewed)
  BY <1>1, <1>6, <1>10, <1>11, <1>12, <1>13, ReadsOn
<1>15. Reads(e0, Append(Append(<<>>, b0), b1), e2, skewed)
  BY <1>1, <1>6, <1>10, <1>11, <1>12, <1>14, ReadsOn
<1>16. Reads(e0, wire, e3, skewed)
  BY <1>1, <1>6, <1>10, <1>11, <1>12, <1>15, ReadsOn
<1>17. Synced(e3)
  BY <1>3, <1>5, <1>7 DEF Synced, Rested, e0, Now
<1> QED BY <1>6, <1>16, <1>17 DEF AgreeInv, e0

\* What is kept of a message is not NULL.
LEMMA PrevLast ==
  ASSUME NEW m \in Messages, NEW ts \in Times
  PROVE  Prev(m, ts) \in Lasts /\ Prev(m, ts) # None /\ Cid(m) \in Cids
BY ChunkAssumption DEF Prev, Lasts, Sids, Types, Cids

\* A header begins a message after which the others of its kind are short.
LEMMA AgreeStart ==
  ASSUME ChunkInv, AgreeInv, NEW m \in Messages, NEW h \in Allowed(m, out[Cid(m)]),
         Start(m, h), Cid(m) \in skewed => m.size > 0
  PROVE  AgreeInv'
<1> DEFINE c == Cid(m)
           j == [msg |-> m, hdr |-> h, off |-> 0]
<1>1. PICK f \in ReaderStates : Reads(Now, wire, f, skewed) /\ Synced(f)
  BY DEF AgreeInv
<1>2. /\ cur[c] = None /\ c \in Cids
      /\ out' = [out EXCEPT ![c] = Prev(m, h.ts)]
      /\ cur' = [cur EXCEPT ![c] = j]
      /\ due' = [due EXCEPT ![c] = Append(@, m)]
      /\ skewed' = IF h.fmt = LARGE /\ due[c] = <<>> THEN skewed \ {c} ELSE skewed
      /\ UNCHANGED <<chunkOut, wire, reader>>
  BY DEF Start, Cids
<1>3. /\ wire \in Seq(Parts) /\ cur = [d \in Cids |-> cur[d]] /\ out = [d \in Cids |-> out[d]]
  BY DEF ChunkInv, WriterOK, OutOK
<1>4. /\ h.fmt \in Formats /\ h.ts \in Times
      /\ h.fmt = LARGE => h.ts = m.epoch
      /\ h.fmt # LARGE => out[c] # None
      /\ h.fmt \in {SMALL, MINIMUM} => m.size = out[c].size /\ m.type = out[c].type
      /\ h.fmt = MINIMUM => h.ts = out[c].ts
      /\ h \in [fmt : {LARGE, MEDIUM, SMALL, MINIMUM}, ts : Times]
  BY DEF Allowed, Formats, LARGE, MEDIUM, SMALL, MINIMUM
<1>5. j \in Curs /\ j # None /\ j.msg = m /\ j.hdr = h /\ j.off = 0
  BY <1>4, ChunkAssumption DEF Curs, Formats, LARGE, MEDIUM, SMALL, MINIMUM
<1>6. Prev(m, h.ts) # None
  BY <1>4, PrevLast
<1>7. Rested(f, c)
  BY <1>1, <1>2 DEF Synced
<1> DEFINE e == More(f, m)
<1>8. Now' = More(Now, m)
  <2> DEFINE x == More(Now, m)
  <2>1. /\ due' = [due EXCEPT ![Cid(m)] = Append(due[Cid(m)], m)]
        /\ chn' = chn /\ last' = last /\ pkg' = pkg /\ rd' = rd /\ chunkIn' = chunkIn
    BY <1>2 DEF reader
  <2>2. Now \in ReaderStates
    BY <1>1, <1>3, ReadsEnds
  <2>3. /\ x \in ReaderStates /\ x.chn = chn' /\ x.last = last' /\ x.pkg = pkg'
        /\ x.rd = rd' /\ x.chunkIn = chunkIn' /\ x.due = due'
    BY <2>1, <2>2, MoreParts, NowParts
  <2> HIDE DEF x
  <2>4. x = [chn |-> x.chn, last |-> x.last, pkg |-> x.pkg, rd |-> x.rd,
             chunkIn |-> x.chunkIn, due |-> x.due]
    BY <2>3 DEF ReaderStates
  <2>5. x = Now'
    BY <2>3, <2>4 DEF Now
  <2> QED BY <2>5 DEF x
<1>9. Reads(Now, wire, f, skewed)
  BY <1>1
<1>10. MoreFree(Now, m, skewed, skewed')
  BY <1>2, NowParts DEF MoreFree
<1>11. Reads(Now', wire', e, skewed')
  BY <1>2, <1>3, <1>8, <1>9, <1>10, ReadsMore
<1>12. /\ e \in ReaderStates /\ e.chn = f.chn /\ e.last = f.last /\ e.pkg = f.pkg
       /\ e.rd = f.rd /\ e.chunkIn = f.chunkIn
       /\ \A d \in Cids : e.due[d] = IF d = c THEN Append(f.due[d], m) ELSE f.due[d]
  BY MoreParts
<1> HIDE DEF e, c, j
<1>13. ASSUME NEW d \in Cids, d # c
       PROVE  /\ e.pkg[d] = None => e.rd[d] = 0
              /\ IF cur'[d] = None THEN Rested(e, d)' ELSE Busy(e, d)'
  <2>1. /\ cur'[d] = cur[d] /\ out'[d] = out[d] /\ (d \in skewed' <=> d \in skewed)
        /\ e.due[d] = f.due[d]
    BY <1>2, <1>3, <1>12, <1>13
  <2>2. Rested(e, d)' <=> Rested(f, d)
    BY <1>12, <2>1 DEF Rested
  <2>3. Busy(e, d)' <=> Busy(f, d)
    BY <1>12, <2>1 DEF Busy, Enough, Partly
  <2> QED BY <1>1, <1>12, <2>1, <2>2, <2>3 DEF Synced
<1>14. cur'[c] = j /\ out'[c] = Prev(m, h.ts)
  BY <1>2, <1>3
<1>15. Enough(m, h, e.last[c], c)'
  <2>1. CASE c \notin skewed
    <3>1. out[c] = None \/ out[c] = f.last[c]
      BY <1>7, <2>1 DEF Rested
    <3>2. h \in Allowed(m, f.last[c])
      <4>1. CASE out[c] = None
        BY <1>4, <4>1 DEF Allowed, LARGE, SMALL, MINIMUM
      <4>2. CASE out[c] = f.last[c]
        BY <4>2 DEF c
      <4> QED BY <3>1, <4>1, <4>2
    <3> QED BY <1>4, <1>12, <3>1, <3>2 DEF Enough, LARGE, MEDIUM, SMALL, MINIMUM
  <2>2. CASE c \in skewed
    <3>1. m.size > 0 /\ m.size \in Nat
      BY <2>2, ChunkAssumption DEF c
    <3>2. out[c] # None /\ (out[c].size = 0 \/ Alike(out[c], f.last[c]))
      BY <1>7, <2>2 DEF Rested
    <3>3. /\ h.fmt \in {SMALL, MINIMUM} => m.size = f.last[c].size /\ m.type = f.last[c].type
          /\ h.fmt = MINIMUM => h.ts = f.last[c].ts
      BY <1>4, <3>1, <3>2 DEF Alike
    <3>4. c \notin skewed' => h.fmt = LARGE
      BY <1>2, <2>2
    <3>5. c \notin skewed' => h \in Allowed(m, f.last[c])
      BY <1>4, <3>4 DEF Allowed, LARGE, SMALL, MINIMUM
    <3> QED BY <1>4, <1>12, <3>3, <3>5 DEF Enough
  <2> QED BY <2>1, <2>2
<1>16. Busy(e, c)'
  <2>1. f.pkg[c] = None /\ f.due[c] = <<>>
    BY <1>7 DEF Rested
  <2>2. e.due[c] = <<m>>
    <3>1. e.due[c] = Append(f.due[c], m)
      BY <1>2, <1>12
    <3> QED BY <2>1, <3>1
  <2> QED BY <1>5, <1>12, <1>14, <1>15, <2>1, <2>2 DEF Busy, c
<1>17. Synced(e)'
  <2>1. e.pkg[c] = None => e.rd[c] = 0
    BY <1>1, <1>2, <1>12 DEF Synced
  <2>2. e.chn.stat = "BASIC" /\ e.chunkIn = chunkOut'
    BY <1>1, <1>2, <1>12 DEF Synced
  <2> QED BY <1>5, <1>13, <1>14, <1>16, <2>1, <2>2 DEF Synced
<1> QED BY <1>11, <1>12, <1>17 DEF AgreeInv

\* A message that is left out makes its chunk stream skewed.
LEMMA AgreeSkip == \A m \in Messages : ChunkInv /\ AgreeInv /\ SkipOurs(m) => AgreeInv'
<1> SUFFICES ASSUME ChunkInv, AgreeInv, NEW m \in Messages, SkipOurs(m) PROVE AgreeInv'
  OBVIOUS
<1> DEFINE c  == Cid(m)
           ts == AdjustHeader(m, out[c]).ts
<1>1. PICK f \in ReaderStates : Reads(Now, wire, f, skewed) /\ Synced(f)
  BY DEF AgreeInv
<1>2. /\ cur[c] = None /\ m.size = 0 /\ c \in Cids
      /\ out' = [out EXCEPT ![c] = Prev(m, ts)] /\ skewed' = skewed \cup {c}
      /\ UNCHANGED <<cur, chunkOut, wire, reader, due>>
  BY DEF SkipOurs, Cids
<1>3. /\ wire \in Seq(Parts) /\ out = [d \in Cids |-> out[d]]
      /\ out[c] = None \/ Said(out[c])
  BY <1>2 DEF ChunkInv, WriterOK, OutOK
<1>4. ts \in Times
  <2>1. AdjustHeader(m, out[c]) \in Allowed(m, out[c])
    BY <1>3, OurHeaderAllowed
  <2> QED BY <2>1 DEF Allowed
<1> HIDE DEF c, ts
<1>5. Prev(m, ts) # None /\ Prev(m, ts).size = 0
  BY <1>2, <1>4, PrevLast DEF Prev
<1>6. Reads(Now, wire, f, skewed)'
  <2>1. Reads(Now, wire, f, skewed \cup {c})
    BY <1>1, <1>3, ReadsAnyhow
  <2>2. Now' = Now
    BY <1>2 DEF Now, reader
  <2> QED BY <1>2, <2>1, <2>2
<1>7. ASSUME NEW d \in Cids
      PROVE  IF cur'[d] = None THEN Rested(f, d)' ELSE Busy(f, d)'
  <2>1. IF cur[d] = None THEN Rested(f, d) ELSE Busy(f, d)
    BY <1>1 DEF Synced
  <2>2. CASE d # c
    <3>1. /\ cur'[d] = cur[d] /\ out'[d] = out[d] /\ (d \in skewed' <=> d \in skewed)
      BY <1>2, <1>3, <2>2
    <3>2. (Rested(f, d)' <=> Rested(f, d)) /\ (Busy(f, d)' <=> Busy(f, d))
      BY <3>1 DEF Rested, Busy, Enough, Partly
    <3> QED BY <2>1, <3>1, <3>2
  <2>3. CASE d = c
    BY <1>2, <1>3, <1>5, <2>1, <2>3 DEF Rested
  <2> QED BY <2>2, <2>3
<1>8. Synced(f)'
  BY <1>1, <1>2, <1>7 DEF Synced
<1> QED BY <1>6, <1>8 DEF AgreeInv

-----------------------------------------------------------------------------
(* A chunk is written, which the reader will find where it expects it.     *)

Msg(c) == cur[c].msg
Hdr(c) == cur[c].hdr
Off(c) == cur[c].off
Upto(c) == Off(c) + Least(Msg(c).size - Off(c), chunkOut)

\* The part is the one a reader in the state s expects.
Meets(s, part) ==
  /\ part \in Parts
  /\ part.kind = s.chn.stat
  /\ part.kind # "BASIC" => part.len = s.chn.size - s.chn.upto
  /\ part.kind = "CHUNK" => part.off = s.rd[s.chn.cid]

\* The states differ in what is being read, and in c.
Near(e, f, c) ==
  /\ e.last = f.last /\ e.due = f.due /\ e.chunkIn = f.chunkIn
  /\ \A d \in Cids \ {c} : e.pkg[d] = f.pkg[d] /\ e.rd[d] = f.rd[d]

\* What the reader knows of the message being written on c.
Good(q, c) ==
  /\ q \in Pkgs /\ q.size = Msg(c).size /\ q.type = Msg(c).type /\ q.ts = Hdr(c).ts
  /\ c \notin skewed => q.sid = Msg(c).sid /\ q.epoch = Msg(c).epoch

\* What SendChunk does but for the wire.
LEMMA SendFacts ==
  ASSUME ChunkInv, NEW c \in Cids, SendChunk(c)
  PROVE  /\ Msg(c) \in Messages /\ Msg(c).size \in Nat /\ Msg(c).arg \in Nat
         /\ Msg(c).arg # 0 => Msg(c).size > 0
         /\ Msg(c).epoch \in Times /\ Msg(c).sid \in Sids /\ Msg(c).type \in Types
         /\ Hdr(c).fmt \in Formats /\ Hdr(c).ts \in Times
         /\ Off(c) \in Nat /\ Off(c) <= Msg(c).size
         /\ Upto(c) \in Nat /\ Upto(c) <= Msg(c).size
         /\ Off(c) < Msg(c).size => Off(c) < Upto(c)
         /\ cur[c] # None /\ cur[c] \in Curs
         /\ \A d \in Cids \ {c} : cur'[d] = cur[d]
         /\ cur'[c] = IF Upto(c) = Msg(c).size THEN None ELSE [cur[c] EXCEPT !.off = Upto(c)]
         /\ chunkOut' = (IF Upto(c) = Msg(c).size /\ Msg(c).arg # 0 THEN Msg(c).arg
                         ELSE chunkOut)
         /\ UNCHANGED <<out, reader, due, skewed>>
<1>1. /\ cur[c] # None /\ cur[c] \in Curs /\ Off(c) <= Msg(c).size
      /\ chunkOut \in Nat \ {0} /\ cur = [d \in Cids |-> cur[d]]
  BY DEF ChunkInv, WriterOK, SendChunk, Off, Msg
<1>2. Msg(c) \in Messages /\ Off(c) \in Nat /\ Hdr(c).fmt \in Formats /\ Hdr(c).ts \in Times
  BY <1>1 DEF Curs, Msg, Off, Hdr
<1>3. /\ Msg(c).size \in Nat /\ Msg(c).arg \in Nat /\ (Msg(c).arg # 0 => Msg(c).size > 0)
      /\ Msg(c).epoch \in Times /\ Msg(c).sid \in Sids /\ Msg(c).type \in Types
  BY <1>2, ChunkAssumption DEF Sids, Types
<1>4. /\ Upto(c) \in Nat /\ Upto(c) <= Msg(c).size
      /\ Off(c) < Msg(c).size => Off(c) < Upto(c)
  BY <1>1, <1>2, <1>3 DEF Upto, Least
<1>5. /\ cur' = [cur EXCEPT ![c] = IF Upto(c) = Msg(c).size THEN None
                                    ELSE [cur[c] EXCEPT !.off = Upto(c)]]
      /\ chunkOut' = (IF Upto(c) = Msg(c).size /\ Msg(c).arg # 0 THEN Msg(c).arg
                      ELSE chunkOut)
      /\ UNCHANGED <<out, reader, due, skewed>>
  BY DEF SendChunk, Upto, Msg, Off
<1>6. /\ \A d \in Cids \ {c} : cur'[d] = cur[d]
      /\ cur'[c] = IF Upto(c) = Msg(c).size THEN None ELSE [cur[c] EXCEPT !.off = Upto(c)]
  BY <1>1, <1>5
<1> QED BY <1>1, <1>2, <1>3, <1>4, <1>5, <1>6

\* What the writer counts on of the message it is writing.
LEMMA SendBusy ==
  ASSUME ChunkInv, NEW c \in Cids, SendChunk(c), NEW f \in ReaderStates, Synced(f)
  PROVE  /\ f.due[c] = <<Msg(c)>> /\ Cid(Msg(c)) = c
         /\ out[c] = Prev(Msg(c), Hdr(c).ts) /\ out[c] # None
         /\ f.chn.stat = "BASIC" /\ f.chunkIn = chunkOut
         /\ Off(c) = 0 => /\ f.pkg[c] = None /\ f.rd[c] = 0
                          /\ Enough(Msg(c), Hdr(c), f.last[c], c)
         /\ Off(c) # 0 => /\ Off(c) < Msg(c).size /\ f.rd[c] = Off(c)
                          /\ Partly(Msg(c), Hdr(c), f.pkg[c], c)
<1>1. cur[c] # None /\ Msg(c) \in Messages /\ Hdr(c).ts \in Times
  BY SendFacts
<1>2. Busy(f, c) /\ f.chn.stat = "BASIC" /\ f.chunkIn = chunkOut
      /\ (f.pkg[c] = None => f.rd[c] = 0)
  BY <1>1 DEF Synced
<1>3. Prev(Msg(c), Hdr(c).ts) # None
  BY <1>1, PrevLast
<1> QED BY <1>2, <1>3 DEF Busy, Msg, Hdr, Off

\* The other chunk streams are as they were.
LEMMA SendSynced ==
  ASSUME ChunkInv, NEW c \in Cids, SendChunk(c), NEW f \in ReaderStates, Synced(f),
         NEW g, g.chn.stat = "BASIC", g.chunkIn = chunkOut',
         \A d \in Cids \ {c} : /\ g.last[d] = f.last[d] /\ g.due[d] = f.due[d]
                               /\ g.pkg[d] = f.pkg[d] /\ g.rd[d] = f.rd[d],
         g.pkg[c] = None => g.rd[c] = 0,
         IF cur'[c] = None THEN Rested(g, c)' ELSE Busy(g, c)'
  PROVE  Synced(g)'
<1>1. ASSUME NEW d \in Cids, d # c
      PROVE  /\ g.pkg[d] = None => g.rd[d] = 0
             /\ IF cur'[d] = None THEN Rested(g, d)' ELSE Busy(g, d)'
  <2>1. /\ cur'[d] = cur[d] /\ out' = out /\ skewed' = skewed
        /\ g.last[d] = f.last[d] /\ g.due[d] = f.due[d]
        /\ g.pkg[d] = f.pkg[d] /\ g.rd[d] = f.rd[d]
    BY <1>1, SendFacts
  <2>2. (Rested(g, d)' <=> Rested(f, d)) /\ (Busy(g, d)' <=> Busy(f, d))
    BY <2>1 DEF Rested, Busy, Enough, Partly
  <2> QED BY <2>1, <2>2 DEF Synced
<1> QED BY <1>1 DEF Synced

\* The message is received.
LEMMA SendEnds ==
  ASSUME ChunkInv, NEW c \in Cids, SendChunk(c), NEW f \in ReaderStates, Synced(f),
         NEW e \in ReaderStates, Near(e, f, c),
         NEW w \in Seq(Parts), Reads(Now, w, e, skewed),
         NEW part, Meets(e, part), NEW q, Good(q, c), q.arg = Msg(c).arg, NEW n,
         Turn(e, part) = Turns("end", Reading("BASIC", None, LARGE, 0), c, q, n),
         Upto(c) = Msg(c).size
  PROVE  \E g \in ReaderStates : Reads(Now, Append(w, part), g, skewed) /\ Synced(g)'
<1> DEFINE m  == Msg(c)
           ch == Reading("BASIC", None, LARGE, 0)
           x  == Turns("end", ch, c, q, n)
           g  == Take(e, x)
<1>1. /\ m \in Messages /\ m.arg \in Nat /\ cur'[c] = None /\ out' = out /\ skewed' = skewed
      /\ chunkOut' = (IF m.arg # 0 THEN m.arg ELSE chunkOut)
  BY SendFacts
<1>2. /\ f.due[c] = <<m>> /\ out[c] = Prev(m, Hdr(c).ts) /\ out[c] # None
      /\ f.chunkIn = chunkOut
  BY SendBusy
<1>3. /\ q \in Pkgs /\ q.size = m.size /\ q.type = m.type /\ q.ts = Hdr(c).ts
      /\ c \notin skewed => q.sid = m.sid /\ q.epoch = m.epoch
  BY DEF Good
<1>4. /\ e.last = f.last /\ e.due = f.due /\ e.chunkIn = f.chunkIn
      /\ \A d \in Cids \ {c} : e.pkg[d] = f.pkg[d] /\ e.rd[d] = f.rd[d]
      /\ f.last \in [Cids -> Lasts] /\ f.due \in [Cids -> Seq(Messages)]
      /\ e.pkg \in [Cids -> Pkgs \cup {None}] /\ e.rd \in [Cids -> Nat]
  BY DEF Near, ReaderStates
<1>5. ch \in Chns /\ ch.stat = "BASIC"
  BY DEF Reading, Chns, Stats, Formats, LARGE
<1> HIDE DEF m, ch
<1>5a. e.due[c] = <<m>>
  BY <1>2, <1>4
<1>5b. e.due[c] # <<>>
  BY <1>5a
<1>6. Head(e.due[c]) = m /\ Tail(e.due[c]) = <<>>
  BY <1>5a
<1>5c. q \in Pkgs
  BY <1>3
<1>5d. Ended(g, e, ch, c, q)
  BY <1>1, <1>5, <1>5a, <1>5c, TakeEnd
<1> HIDE DEF g
<1>7. /\ g \in ReaderStates /\ g.chn = ch
      /\ g.last = [e.last EXCEPT ![c] = Prev(q, q.ts)]
      /\ g.pkg = [e.pkg EXCEPT ![c] = None] /\ g.rd = [e.rd EXCEPT ![c] = 0]
      /\ g.chunkIn = (IF q.arg # 0 THEN q.arg ELSE e.chunkIn)
      /\ g.due = [e.due EXCEPT ![c] = <<>>]
  BY <1>5d DEF Ended
<1>8. x.does = "end" /\ x.cid = c /\ x.p = q
  BY DEF Turns
<1>9. c \notin skewed => Prev(q, q.ts) = Prev(m, q.ts)
  BY <1>3 DEF Prev
<1>10. q.arg = m.arg
  BY DEF m
<1>11. Turn(e, part) = x
  BY DEF ch
<1> HIDE DEF x
<1>12. Wanted(e, x, skewed)
  BY <1>6, <1>5b, <1>8, <1>9, <1>10 DEF Wanted
<1>13. Fits(e, part, skewed) /\ After(e, part) = g
  BY <1>11, <1>12 DEF Fits, Meets, After, g
<1>14. Reads(Now, Append(w, part), g, skewed)
  BY <1>7, <1>13, ReadsOn DEF Meets
<1>15. /\ g.pkg[c] = None /\ g.rd[c] = 0 /\ g.due[c] = <<>> /\ g.last[c] = Prev(q, q.ts)
       /\ g.chunkIn = chunkOut'
       /\ \A d \in Cids \ {c} : /\ g.last[d] = f.last[d] /\ g.due[d] = f.due[d]
                                /\ g.pkg[d] = f.pkg[d] /\ g.rd[d] = f.rd[d]
  BY <1>1, <1>2, <1>4, <1>6, <1>7, <1>10
<1>16. Rested(g, c)'
  <2>1. c \notin skewed => g.last[c] = out[c]
    BY <1>2, <1>3, <1>9, <1>15
  <2>2. Alike(out[c], g.last[c])
    BY <1>2, <1>3, <1>15 DEF Alike, Prev
  <2> QED BY <1>1, <1>2, <1>15, <2>1, <2>2 DEF Rested
<1>17. Synced(g)'
  BY <1>1, <1>5, <1>7, <1>15, <1>16, SendSynced
<1> QED BY <1>7, <1>14, <1>17

\* More of the message is read, and it will go on from there.
LEMMA SendKeeps ==
  ASSUME ChunkInv, NEW c \in Cids, SendChunk(c), NEW f \in ReaderStates, Synced(f),
         NEW e \in ReaderStates, Near(e, f, c),
         NEW w \in Seq(Parts), Reads(Now, w, e, skewed),
         NEW part, Meets(e, part), NEW q, Good(q, c), q.arg = Msg(c).arg,
         NEW n, n = Upto(c),
         Turn(e, part) = Turns("keep", Reading("BASIC", None, LARGE, 0), c, q, n),
         Off(c) < Upto(c), Upto(c) # Msg(c).size
  PROVE  \E g \in ReaderStates : Reads(Now, Append(w, part), g, skewed) /\ Synced(g)'
<1> DEFINE m  == Msg(c)
           ch == Reading("BASIC", None, LARGE, 0)
           x  == Turns("keep", ch, c, q, n)
           g  == Take(e, x)
<1>1. /\ m.size \in Nat /\ n \in Nat /\ n # 0 /\ n < m.size
      /\ cur[c] \in Curs /\ cur'[c] = [cur[c] EXCEPT !.off = n]
      /\ out' = out /\ skewed' = skewed /\ chunkOut' = chunkOut
  BY SendFacts
<1>2. f.due[c] = <<m>> /\ Cid(m) = c /\ out[c] = Prev(m, Hdr(c).ts) /\ f.chunkIn = chunkOut
  BY SendBusy
<1>3. /\ q \in Pkgs /\ q.size = m.size /\ q.type = m.type /\ q.ts = Hdr(c).ts
      /\ c \notin skewed => q.sid = m.sid /\ q.epoch = m.epoch
  BY DEF Good
<1>4. /\ e.last = f.last /\ e.due = f.due /\ e.chunkIn = f.chunkIn
      /\ \A d \in Cids \ {c} : e.pkg[d] = f.pkg[d] /\ e.rd[d] = f.rd[d]
      /\ e.pkg \in [Cids -> Pkgs \cup {None}] /\ e.rd \in [Cids -> Nat]
  BY DEF Near, ReaderStates
<1>5. ch \in Chns /\ ch.stat = "BASIC"
  BY DEF Reading, Chns, Stats, Formats, LARGE
<1>6. /\ cur'[c] \in Curs /\ cur'[c] # None
      /\ cur'[c].msg = m /\ cur'[c].hdr = Hdr(c) /\ cur'[c].off = n
  <2> DEFINE j == [cur[c] EXCEPT !.off = n]
  <2>1. j \in Curs /\ j.msg = m /\ j.hdr = Hdr(c) /\ j.off = n
    BY <1>1 DEF Curs, Msg, Hdr
  <2> QED BY <1>1, <2>1, ChunkAssumption
<1>7. q.arg = m.arg /\ q # None
  BY <1>3, ChunkAssumption
<1>8. Turn(e, part) = x
  OBVIOUS
<1> HIDE DEF m, ch
<1>9. /\ g \in ReaderStates /\ g.chn = ch /\ g.last = e.last
      /\ g.pkg = [e.pkg EXCEPT ![c] = q] /\ g.rd = [e.rd EXCEPT ![c] = n]
      /\ g.chunkIn = e.chunkIn /\ g.due = e.due
  BY <1>1, <1>3, <1>5, TakeKeep
<1>10. x.does = "keep"
  BY DEF Turns
<1> HIDE DEF x
<1>11. Fits(e, part, skewed) /\ After(e, part) = g
  BY <1>8, <1>10 DEF Fits, Meets, After, Wanted
<1> HIDE DEF g
<1>12. Reads(Now, Append(w, part), g, skewed)
  BY <1>9, <1>11, ReadsOn DEF Meets
<1>13. /\ g.pkg[c] = q /\ g.rd[c] = n /\ g.chunkIn = chunkOut' /\ g.due[c] = <<m>>
       /\ \A d \in Cids \ {c} : /\ g.last[d] = f.last[d] /\ g.due[d] = f.due[d]
                                /\ g.pkg[d] = f.pkg[d] /\ g.rd[d] = f.rd[d]
  BY <1>1, <1>2, <1>4, <1>9
<1>14. Partly(m, Hdr(c), q, c)
  BY <1>3, <1>7 DEF Partly
<1>16. Busy(g, c)'
  BY <1>1, <1>2, <1>6, <1>13, <1>14 DEF Busy, Partly
<1>17. Synced(g)'
  BY <1>5, <1>6, <1>7, <1>9, <1>13, <1>16, SendSynced
<1> QED BY <1>9, <1>12, <1>17

DataPart(c) ==
  [kind |-> "CHUNK", len |-> Least(Msg(c).size - Off(c), chunkOut), off |-> Off(c),
   arg |-> Msg(c).arg]

\* The payload after the part with which the chunk begins.
LEMMA SendTail ==
  ASSUME ChunkInv, NEW c \in Cids, SendChunk(c), NEW f \in ReaderStates, Synced(f),
         NEW e \in ReaderStates, Near(e, f, c),
         NEW w \in Seq(Parts), Reads(Now, w, e, skewed),
         NEW part, Meets(e, part), NEW q, Good(q, c),
         q.arg = (IF Off(c) = 0 THEN 0 ELSE Msg(c).arg),
         NEW off, off = Off(c), Turn(e, part) = BegTurn(e, c, q, off)
  PROVE  \E g \in ReaderStates :
           /\ Reads(Now, Append(w, part)
                           \o (IF Off(c) < Upto(c) THEN <<DataPart(c)>> ELSE <<>>), g, skewed)
           /\ Synced(g)'
<1> DEFINE v  == Append(w, part)
           ch == Reading("BASIC", None, LARGE, 0)
<1>1. /\ Msg(c).size \in Nat /\ Msg(c).arg \in Nat /\ (Msg(c).arg # 0 => Msg(c).size > 0)
      /\ off \in Nat /\ off <= Msg(c).size /\ Upto(c) \in Nat /\ Upto(c) <= Msg(c).size
      /\ off < Msg(c).size => off < Upto(c)
  BY SendFacts
<1>2. q \in Pkgs /\ q.size = Msg(c).size
  BY DEF Good
<1>3. v \in Seq(Parts)
  BY DEF Meets
<1>4. chunkOut \in Nat \ {0} /\ f.chunkIn = chunkOut /\ e.chunkIn = chunkOut
  BY SendBusy DEF ChunkInv, WriterOK, Near
<1> HIDE DEF v
<1>5. CASE off = Msg(c).size
  <2>1. off = 0 /\ Upto(c) = Msg(c).size /\ ~ Off(c) < Upto(c) /\ q.arg = Msg(c).arg
    <3>1. Off(c) # 0 => Off(c) < Msg(c).size
      BY SendBusy
    <3> QED BY <1>1, <1>5, <3>1
  <2>2. Turn(e, part) = Turns("end", ch, c, q, off)
    BY <1>1, <1>2, <1>5 DEF BegTurn, EndTurn
  <2>3. \E g \in ReaderStates : Reads(Now, v, g, skewed) /\ Synced(g)'
    BY <2>1, <2>2, SendEnds DEF v
  <2>4. v \o <<>> = v
    BY <1>3
  <2> QED BY <2>1, <2>3, <2>4 DEF v
<1>6. CASE off < Msg(c).size
  <2>1. \E n, d, a, len : /\ n = Upto(c) /\ d = DataPart(c) /\ a = Msg(c).arg
                          /\ len = Least(Msg(c).size - Off(c), chunkOut)
    OBVIOUS
  <2>2. PICK n, d, a, len : /\ n = Upto(c) /\ d = DataPart(c) /\ a = Msg(c).arg
                            /\ len = Least(Msg(c).size - Off(c), chunkOut)
    BY <2>1
  <2>3. /\ n \in Nat /\ off < n /\ n = off + len /\ len \in Nat /\ a \in Nat
        /\ len = Least(q.size - off, e.chunkIn)
    BY <1>1, <1>2, <1>4, <1>6, <2>2 DEF Upto, Least
  <2>4. d \in Parts /\ d.kind = "CHUNK" /\ d.len = len /\ d.off = off /\ d.arg = a
    <3>1. d = [kind |-> "CHUNK", len |-> len, off |-> off, arg |-> a]
      BY <2>2 DEF DataPart
    <3> QED BY <1>1, <2>3, <3>1 DEF Parts
  <2> DEFINE k  == Reading("CHUNK", c, e.chn.fmt, len)
             x  == Turns("keep", k, c, q, off)
             e2 == Take(e, x)
             q2 == [q EXCEPT !.arg = a]
  <2>5. k \in Chns /\ k.stat = "CHUNK" /\ k.cid = c /\ k.size = len /\ k.upto = 0
    BY <2>3 DEF ReaderStates, Reading, Chns, Stats
  <2>6. Turn(e, part) = x
    BY <1>1, <1>2, <1>6, <2>3 DEF BegTurn
  <2>7. x.does = "keep"
    BY DEF Turns
  <2> HIDE DEF k
  <2>8. /\ e2 \in ReaderStates /\ e2.chn = k /\ e2.last = e.last
        /\ e2.pkg = [e.pkg EXCEPT ![c] = q] /\ e2.rd = [e.rd EXCEPT ![c] = off]
        /\ e2.chunkIn = e.chunkIn /\ e2.due = e.due
    BY <1>1, <1>2, <2>5, TakeKeep
  <2> HIDE DEF x
  <2>9. Fits(e, part, skewed) /\ After(e, part) = e2
    BY <2>6, <2>7 DEF Fits, Meets, After, Wanted
  <2> HIDE DEF e2
  <2>10. Reads(Now, v, e2, skewed)
    BY <2>8, <2>9, ReadsOn DEF Meets, v
  <2>11. e2.pkg[c] = q /\ e2.rd[c] = off /\ Near(e2, f, c)
    BY <2>8 DEF Near, ReaderStates
  <2>12. Meets(e2, d)
    BY <2>3, <2>4, <2>5, <2>8, <2>11 DEF Meets
  <2>13. q2.arg = a /\ q2.size = q.size /\ Good(q2, c)
    BY <1>2, <2>3 DEF Good, Pkgs
  <2>14. Turn(e2, d) = Turns(IF n = q2.size THEN "end" ELSE "keep", ch, c, q2, n)
    BY <2>3, <2>4, <2>5, <2>8, <2>11 DEF Turn, ChunkTurn, EndTurn
  <2> HIDE DEF q2, ch
  <2>15. v \o <<d>> = Append(v, d)
    BY <1>3
  <2>16. \E g \in ReaderStates : Reads(Now, Append(v, d), g, skewed) /\ Synced(g)'
    <3>1. q2.arg = Msg(c).arg /\ q2.size = Msg(c).size
      BY <1>2, <2>2, <2>13
    <3>2. CASE n = Msg(c).size
      <4>1. Turn(e2, d) = Turns("end", Reading("BASIC", None, LARGE, 0), c, q2, n)
        BY <2>14, <3>1, <3>2 DEF ch
      <4>2. Upto(c) = Msg(c).size
        BY <2>2, <3>2
      <4> QED BY <1>3, <2>8, <2>10, <2>11, <2>12, <2>13, <3>1, <4>1, <4>2, SendEnds
    <3>3. CASE n # Msg(c).size
      <4>1. Turn(e2, d) = Turns("keep", Reading("BASIC", None, LARGE, 0), c, q2, n)
        BY <2>14, <3>1, <3>3 DEF ch
      <4>2. n = Upto(c) /\ Off(c) < Upto(c) /\ Upto(c) # Msg(c).size
        BY <2>2, <2>3, <3>3
      <4> QED BY <1>3, <2>8, <2>10, <2>11, <2>12, <2>13, <3>1, <4>1, <4>2, SendKeeps
    <3> QED BY <3>2, <3>3
  <2> QED BY <2>2, <2>3, <2>15, <2>16 DEF v
<1> QED BY <1>1, <1>5, <1>6

-----------------------------------------------------------------------------
(* The header.                                                             *)

\* What a header says of a message after the last one l.
Restored(l, m, h) ==
  [epoch |-> IF h.fmt = LARGE THEN h.ts ELSE (l.epoch + h.ts) % TimeMod, ts |-> h.ts,
   sid   |-> IF h.fmt = LARGE THEN m.sid ELSE l.sid,
   size  |-> IF h.fmt # SMALL THEN m.size ELSE l.size,
   type  |-> IF h.fmt # SMALL THEN m.type ELSE l.type,
   arg   |-> 0]

\* Times are kept in range.
LEMMA TimesAdd == \A x, y \in Times : (x + y) % TimeMod \in Times
BY ChunkAssumption DEF Times

\* It is the message, as far as the writer counts on that.
LEMMA RestoredGood ==
  ASSUME ChunkInv, NEW c \in Cids, SendChunk(c), NEW l \in Lasts,
         Enough(Msg(c), Hdr(c), l, c), Hdr(c).fmt # MINIMUM
  PROVE  Good(Restored(l, Msg(c), Hdr(c)), c) /\ Restored(l, Msg(c), Hdr(c)).arg = 0
<1> DEFINE m == Msg(c)
           h == Hdr(c)
           q == Restored(l, m, h)
<1>1. /\ m.size \in Nat /\ m.type \in Types /\ m.sid \in Sids /\ m.epoch \in Times
      /\ h.fmt \in Formats /\ h.ts \in Times
  BY SendFacts
<1>2. /\ l.epoch \in Times /\ l.sid \in Sids /\ l.size \in Nat /\ l.type \in Types
  BY DEF Lasts
<1>3. /\ h.fmt = LARGE => h.ts = m.epoch
      /\ h.fmt = SMALL => m.size = l.size /\ m.type = l.type
      /\ c \notin skewed => h \in Allowed(m, l)
  BY DEF Enough
<1>4. c \notin skewed /\ h.fmt # LARGE =>
        m.sid = l.sid /\ h.ts = (m.epoch - l.epoch) % TimeMod
  BY <1>3 DEF Allowed
<1>5. c \notin skewed /\ h.fmt # LARGE => (l.epoch + h.ts) % TimeMod = m.epoch
  BY <1>1, <1>2, <1>4, Wrap
<1>6. (l.epoch + h.ts) % TimeMod \in Times
  BY <1>1, <1>2, TimesAdd
<1> HIDE DEF m, h
<1>7. q \in Pkgs
  BY <1>1, <1>2, <1>6 DEF Restored, Pkgs
<1>8. /\ q.size = m.size /\ q.type = m.type /\ q.ts = h.ts /\ q.arg = 0
      /\ c \notin skewed => q.sid = m.sid /\ q.epoch = m.epoch
  BY <1>3, <1>4, <1>5 DEF Restored
<1> HIDE DEF q
<1>9. Good(q, c) /\ q.arg = 0
  BY <1>7, <1>8 DEF Good, m, h
<1> QED BY <1>9 DEF q, m, h

\* Nor is more needed when there is no header.
LEMMA RepeatedGood ==
  ASSUME ChunkInv, NEW c \in Cids, SendChunk(c), NEW l \in Lasts,
         Enough(Msg(c), Hdr(c), l, c), Hdr(c).fmt = MINIMUM
  PROVE  Good(Repeated(l), c) /\ Repeated(l).arg = 0
<1>1. Repeated(l) \in Pkgs
  BY RepeatedTypes
<1>2. /\ Msg(c).epoch \in Times /\ l.epoch \in Times
  BY SendFacts DEF Lasts
<1>3. /\ Msg(c).size = l.size /\ Msg(c).type = l.type /\ Hdr(c).ts = l.ts
      /\ c \notin skewed => Hdr(c) \in Allowed(Msg(c), l)
  BY DEF Enough
<1>4. c \notin skewed => /\ Msg(c).sid = l.sid
                         /\ Hdr(c).ts = (Msg(c).epoch - l.epoch) % TimeMod
  BY <1>3 DEF Allowed, LARGE, MINIMUM
<1>5. c \notin skewed => (l.epoch + l.ts) % TimeMod = Msg(c).epoch
  BY <1>2, <1>3, <1>4, Wrap
<1> QED BY <1>1, <1>3, <1>4, <1>5 DEF Good, Repeated

BasicPart(fmt, c) == [kind |-> "BASIC", len |-> 1, fmt |-> fmt, cid |-> c]
HeaderPart(m, h) ==
  [kind |-> "HEADER", len |-> HeaderSize[h.fmt], ts |-> Least(h.ts, ExtMark),
   size |-> m.size, type |-> m.type, sid |-> m.sid]
ExtPart(h) == [kind |-> "EXT_TIME", len |-> ExtSize, ts |-> h.ts]

\* What is put on the wire, part by part.
LEMMA SendWire ==
  ASSUME ChunkInv, NEW c \in Cids, SendChunk(c)
  PROVE  LET h    == Hdr(c)
             data == IF Off(c) < Upto(c) THEN <<DataPart(c)>> ELSE <<>>
             b    == BasicPart(IF Off(c) = 0 THEN h.fmt ELSE MINIMUM, c)
             w1   == Append(wire, b)
             w2   == Append(w1, HeaderPart(Msg(c), h))
         IN  wire' = (IF Off(c) # 0 \/ h.fmt = MINIMUM THEN w1
                      ELSE IF h.ts >= ExtMark THEN Append(w2, ExtPart(h)) ELSE w2) \o data
<1>1. PICK m, h, off, len, hp, ex, d, b, b3 :
        /\ m = Msg(c) /\ h = Hdr(c) /\ off = Off(c) /\ len = Least(m.size - off, chunkOut)
        /\ hp = HeaderPart(m, h) /\ ex = ExtPart(h) /\ d = DataPart(c)
        /\ b = BasicPart(h.fmt, c) /\ b3 = BasicPart(MINIMUM, c)
  OBVIOUS
<1>2. /\ off \in Nat /\ len \in Nat /\ (Off(c) < Upto(c) <=> len > 0)
      /\ h.ts \in Times /\ m \in Messages /\ m.type \in Types /\ m.sid \in Sids
      /\ m.size \in Nat /\ m.arg \in Nat /\ h.fmt \in Formats
  <2>1. /\ off \in Nat /\ h.ts \in Times /\ m \in Messages /\ off <= m.size
        /\ m.type \in Types /\ m.sid \in Sids /\ m.size \in Nat /\ m.arg \in Nat
        /\ h.fmt \in Formats
    BY <1>1, SendFacts
  <2>2. len \in Nat
    BY <1>1, <2>1 DEF Least, ChunkInv, WriterOK
  <2> QED BY <1>1, <2>1, <2>2 DEF Upto
<1>3. wire' = wire \o (IF off = 0 THEN BuildHeader(c, m, h) ELSE <<b3>>)
                   \o (IF len > 0 THEN <<d>> ELSE <<>>)
  BY <1>1 DEF SendChunk, Msg, Hdr, Off, DataPart, BasicPart
<1>4. BuildHeader(c, m, h) =
        <<b>> \o (IF h.fmt # MINIMUM THEN <<hp>> ELSE <<>>)
              \o (IF h.fmt # MINIMUM /\ h.ts >= ExtMark THEN <<ex>> ELSE <<>>)
  BY <1>1 DEF BuildHeader, BasicPart, HeaderPart, ExtPart
<1>5. /\ b \in Parts /\ b3 \in Parts /\ ex \in Parts
      /\ h.fmt # MINIMUM => hp \in Parts
      /\ wire \in Seq(Parts)
  <2>1. \A f \in Formats : BasicPart(f, c) \in Parts
    BY DEF BasicPart, Parts
  <2>2. b \in Parts /\ b3 \in Parts
    BY <1>1, <1>2, <2>1 DEF Formats, MINIMUM
  <2>3. ex \in Parts
    BY <1>1, <1>2, ChunkAssumption DEF ExtPart, Parts
  <2>4. h.fmt # MINIMUM => HeaderSize[h.fmt] \in Nat
    BY <1>2, ChunkAssumption DEF Formats, MINIMUM
  <2>5. Least(h.ts, ExtMark) \in Times
    BY <1>2, ChunkAssumption DEF Least, Times
  <2>6. h.fmt # MINIMUM => hp \in Parts
    BY <1>1, <1>2, <2>4, <2>5 DEF HeaderPart, Parts
  <2> QED BY <2>2, <2>3, <2>6 DEF ChunkInv, WriterOK
<1> DEFINE data == IF len > 0 THEN <<d>> ELSE <<>>
<1>6. wire' = (IF off # 0 THEN Append(wire, b3)
               ELSE IF h.fmt = MINIMUM THEN Append(wire, b)
               ELSE IF h.ts >= ExtMark THEN Append(Append(Append(wire, b), hp), ex)
               ELSE Append(Append(wire, b), hp)) \o data
  <2>1. CASE off # 0
    <3>1. wire \o <<b3>> = Append(wire, b3)
      BY <1>5
    <3> QED BY <1>3, <2>1, <3>1
  <2>2. CASE off = 0 /\ h.fmt = MINIMUM
    <3>1. (<<b>> \o <<>>) \o <<>> = <<b>>
      OBVIOUS
    <3>2. wire \o <<b>> = Append(wire, b)
      BY <1>5
    <3> QED BY <1>3, <1>4, <2>2, <3>1, <3>2
  <2>3. CASE off = 0 /\ h.fmt # MINIMUM /\ ~ h.ts >= ExtMark
    <3>1. wire \o ((<<b>> \o <<hp>>) \o <<>>) = Append(Append(wire, b), hp)
      BY <1>5, <2>3
    <3> QED BY <1>3, <1>4, <2>3, <3>1
  <2>4. CASE off = 0 /\ h.fmt # MINIMUM /\ h.ts >= ExtMark
    <3>1. wire \o ((<<b>> \o <<hp>>) \o <<ex>>) = Append(Append(Append(wire, b), hp), ex)
      <4>1. <<b>> \in Seq(Parts) /\ <<hp>> \in Seq(Parts) /\ <<ex>> \in Seq(Parts)
        BY <1>5, <2>4
      <4>2. /\ <<b>> \o <<hp>> \in Seq(Parts)
            /\ wire \o <<b>> \in Seq(Parts) /\ (wire \o <<b>>) \o <<hp>> \in Seq(Parts)
        BY <1>5, <4>1
      <4>3. wire \o ((<<b>> \o <<hp>>) \o <<ex>>) = ((wire \o <<b>>) \o <<hp>>) \o <<ex>>
        BY <1>5, <4>1, <4>2, ConcatAssociative
      <4>4. \A s \in Seq(Parts), y \in Parts : s \o <<y>> = Append(s, y)
        OBVIOUS
      <4> QED BY <1>5, <2>4, <4>2, <4>3, <4>4
    <3> QED BY <1>3, <1>4, <2>4, <3>1
  <2> QED BY <2>1, <2>2, <2>3, <2>4
<1>7. BasicPart(IF Off(c) = 0 THEN h.fmt ELSE MINIMUM, c) = IF off = 0 THEN b ELSE b3
  BY <1>1
<1> HIDE DEF data
<1>8. data = IF Off(c) < Upto(c) THEN <<DataPart(c)>> ELSE <<>>
  BY <1>1, <1>2 DEF data
<1> QED
  <2>1. CASE off # 0
    BY <1>1, <1>6, <1>8, <2>1
  <2>2. CASE off = 0
    BY <1>1, <1>6, <1>8, <2>2
  <2> QED BY <2>1, <2>2

\* A chunk with one part before the payload.
LEMMA SendShort ==
  ASSUME ChunkInv, NEW c \in Cids, SendChunk(c), NEW f \in ReaderStates, Synced(f),
         Reads(Now, wire, f, skewed), Off(c) # 0 \/ Hdr(c).fmt = MINIMUM
  PROVE  AgreeInv'
<1>1. PICK b, off : b = BasicPart(MINIMUM, c) /\ off = Off(c)
  OBVIOUS
<1>2. b \in Parts /\ b.kind = "BASIC" /\ b.fmt = MINIMUM /\ b.cid = c
  BY <1>1 DEF BasicPart, Parts, Formats, MINIMUM
<1>3. f.chn.stat = "BASIC" /\ f.last[c] \in Lasts /\ wire \in Seq(Parts)
  BY SendBusy DEF ReaderStates, ChunkInv, WriterOK
<1>4. Meets(f, b) /\ Near(f, f, c)
  BY <1>2, <1>3 DEF Meets, Near
<1>5. Turn(f, b) = BasicTurn(f, b)
  BY <1>2 DEF Turn
<1>6. \E q : /\ Good(q, c) /\ q.arg = (IF Off(c) = 0 THEN 0 ELSE Msg(c).arg)
             /\ Turn(f, b) = BegTurn(f, c, q, off)
  <2>1. CASE Off(c) # 0
    <3>1. f.rd[c] = Off(c) /\ Partly(Msg(c), Hdr(c), f.pkg[c], c)
      BY <2>1, SendBusy
    <3>2. f.pkg[c] # None /\ f.pkg[c] \in Pkgs /\ f.pkg[c].arg = Msg(c).arg
      BY <3>1 DEF Partly, ReaderStates
    <3>3. Good(f.pkg[c], c)
      BY <3>1, <3>2 DEF Good, Partly
    <3>4. Turn(f, b) = BegTurn(f, c, f.pkg[c], off)
      BY <1>1, <1>2, <1>5, <3>1, <3>2 DEF BasicTurn
    <3> QED BY <2>1, <3>2, <3>3, <3>4
  <2>2. CASE Off(c) = 0
    <3>1. f.pkg[c] = None /\ Enough(Msg(c), Hdr(c), f.last[c], c)
      BY <2>2, SendBusy
    <3>2. Good(Repeated(f.last[c]), c) /\ Repeated(f.last[c]).arg = 0
      BY <1>3, <2>2, <3>1, RepeatedGood
    <3>3. Turn(f, b) = BegTurn(f, c, Repeated(f.last[c]), off)
      BY <1>1, <1>2, <1>5, <2>2, <3>1 DEF BasicTurn
    <3> QED BY <2>2, <3>2, <3>3
  <2> QED BY <2>1, <2>2
<1>7. PICK q : /\ Good(q, c) /\ q.arg = (IF Off(c) = 0 THEN 0 ELSE Msg(c).arg)
               /\ Turn(f, b) = BegTurn(f, c, q, off)
  BY <1>6
<1>8. PICK g \in ReaderStates :
        /\ Reads(Now, Append(wire, b)
                        \o (IF Off(c) < Upto(c) THEN <<DataPart(c)>> ELSE <<>>), g, skewed)
        /\ Synced(g)'
  BY <1>1, <1>3, <1>4, <1>7, SendTail
<1>9. wire' = Append(wire, b) \o (IF Off(c) < Upto(c) THEN <<DataPart(c)>> ELSE <<>>)
  <2>1. BasicPart(IF Off(c) = 0 THEN Hdr(c).fmt ELSE MINIMUM, c) = b
    BY <1>1
  <2> QED BY <2>1, SendWire
<1>10. Now' = Now /\ skewed' = skewed
  BY SendFacts DEF Now, reader
<1> QED BY <1>8, <1>9, <1>10 DEF AgreeInv

\* A chunk with a header.
LEMMA SendLong ==
  ASSUME ChunkInv, NEW c \in Cids, SendChunk(c), NEW f \in ReaderStates, Synced(f),
         Reads(Now, wire, f, skewed), Off(c) = 0, Hdr(c).fmt # MINIMUM
  PROVE  AgreeInv'
<1>1. PICK m, h, b, hp, ex, off, data :
        /\ m = Msg(c) /\ h = Hdr(c) /\ b = BasicPart(h.fmt, c) /\ hp = HeaderPart(m, h)
        /\ ex = ExtPart(h) /\ off = Off(c)
        /\ data = IF Off(c) < Upto(c) THEN <<DataPart(c)>> ELSE <<>>
  OBVIOUS
<1>2. /\ m.size \in Nat /\ m.type \in Types /\ m.sid \in Sids
      /\ h.fmt \in Formats /\ h.ts \in Times /\ h.fmt # MINIMUM /\ HeaderSize[h.fmt] \in Nat
      /\ off = 0
  <2>1. /\ m.size \in Nat /\ m.type \in Types /\ m.sid \in Sids
        /\ h.fmt \in Formats /\ h.ts \in Times /\ h.fmt # MINIMUM
    BY <1>1, SendFacts
  <2>2. HeaderSize[h.fmt] \in Nat
    BY <2>1, ChunkAssumption DEF Formats, MINIMUM
  <2> QED BY <1>1, <2>1, <2>2
<1>3. b \in Parts /\ b.kind = "BASIC" /\ b.fmt = h.fmt /\ b.cid = c
  BY <1>1, <1>2 DEF BasicPart, Parts
<1>4. /\ hp \in Parts /\ hp.kind = "HEADER" /\ hp.len = HeaderSize[h.fmt]
      /\ hp.ts = Least(h.ts, ExtMark) /\ hp.ts \in Times
      /\ hp.size = m.size /\ hp.type = m.type /\ hp.sid = m.sid
  <2>1. Least(h.ts, ExtMark) \in Times
    BY <1>2, ChunkAssumption DEF Least, Times
  <2> QED BY <1>1, <1>2, <2>1 DEF HeaderPart, Parts
<1>5. ex \in Parts /\ ex.kind = "EXT_TIME" /\ ex.len = ExtSize /\ ex.ts = h.ts
  BY <1>1, <1>2, ChunkAssumption DEF ExtPart, Parts
<1>6. /\ f.chn.stat = "BASIC" /\ f.last[c] \in Lasts /\ wire \in Seq(Parts)
      /\ Enough(m, h, f.last[c], c)
  BY <1>1, SendBusy DEF ReaderStates, ChunkInv, WriterOK
<1> DEFINE l  == f.last[c]
           k1 == Reading("HEADER", c, h.fmt, HeaderSize[h.fmt])
           e1 == Take(f, Move(k1))
           w1 == Append(wire, b)
           w2 == Append(w1, hp)
           q  == Restored(l, m, h)
<1>7. /\ k1 \in Chns /\ k1.stat = "HEADER" /\ k1.cid = c /\ k1.fmt = h.fmt
      /\ k1.size = HeaderSize[h.fmt] /\ k1.upto = 0
  BY <1>2 DEF Reading, Chns, Stats
<1>8. Turn(f, b) = Move(k1)
  BY <1>2, <1>3 DEF Turn, BasicTurn
<1>9. Good(q, c) /\ q.arg = 0
  BY <1>1, <1>6, RestoredGood
<1>10. w1 \in Seq(Parts) /\ w2 \in Seq(Parts)
  BY <1>3, <1>4, <1>6
<1> HIDE DEF k1, w1, w2
<1>11. /\ e1 \in ReaderStates /\ e1.chn = k1 /\ e1.last = f.last /\ e1.pkg = f.pkg
       /\ e1.rd = f.rd /\ e1.chunkIn = f.chunkIn /\ e1.due = f.due
  BY <1>7, TakeMove
<1>12. Fits(f, b, skewed) /\ After(f, b) = e1
  BY <1>3, <1>6, <1>8 DEF Fits, After, Wanted, Move, Turns
<1> HIDE DEF e1
<1>13. Reads(Now, w1, e1, skewed)
  BY <1>3, <1>6, <1>11, <1>12, ReadsOn DEF w1
<1>14. Meets(e1, hp) /\ Near(e1, f, c)
  BY <1>2, <1>4, <1>7, <1>11 DEF Meets, Near
<1>15. Turn(e1, hp) = HeaderTurn(e1, hp)
  BY <1>4 DEF Turn
<1>16. \E g \in ReaderStates :
         /\ Reads(Now, (IF h.ts >= ExtMark THEN Append(w2, ex) ELSE w2) \o data, g, skewed)
         /\ Synced(g)'
  <2>1. CASE ~ h.ts >= ExtMark
    <3>1. hp.ts = h.ts /\ hp.ts # ExtMark
      BY <1>2, <1>4, <2>1, ChunkAssumption DEF Least, Times
    <3>2. Begun(e1, hp) = q
      BY <1>4, <1>7, <1>11, <3>1 DEF Begun, EpochOf, Restored
    <3>3. Turn(e1, hp) = BegTurn(e1, c, q, off)
      BY <1>2, <1>7, <1>11, <1>15, <3>1, <3>2 DEF HeaderTurn
    <3> HIDE DEF q
    <3>4. q.arg = (IF Off(c) = 0 THEN 0 ELSE Msg(c).arg)
      BY <1>9
    <3>5. \E g \in ReaderStates :
            /\ Reads(Now, Append(w1, hp)
                            \o (IF Off(c) < Upto(c) THEN <<DataPart(c)>> ELSE <<>>),
                     g, skewed)
            /\ Synced(g)'
      BY <1>1, <1>9, <1>10, <1>11, <1>13, <1>14, <3>3, <3>4, SendTail
    <3> QED BY <1>1, <2>1, <3>5 DEF w2
  <2>2. CASE h.ts >= ExtMark
    <3> DEFINE p  == Begun(e1, hp)
               k2 == Reading("EXT_TIME", c, h.fmt, ExtSize)
               x  == Turns("keep", k2, c, p, 0)
               e2 == Take(e1, x)
    <3>1. hp.ts = ExtMark
      BY <1>2, <1>4, <2>2, ChunkAssumption DEF Least, Times
    <3>2. Turn(e1, hp) = x
      BY <1>7, <1>11, <1>15, <3>1 DEF HeaderTurn
    <3>3. p \in Pkgs
      <4>1. /\ l.epoch \in Times /\ l.sid \in Sids /\ l.size \in Nat /\ l.type \in Types
        BY <1>6 DEF Lasts
      <4>2. (l.epoch + hp.ts) % TimeMod \in Times
        BY <1>4, <4>1, TimesAdd
      <4>3. p = [epoch |-> IF h.fmt = LARGE THEN hp.ts ELSE (l.epoch + hp.ts) % TimeMod,
                 ts |-> hp.ts,
                 sid   |-> IF h.fmt = LARGE THEN m.sid ELSE l.sid,
                 size  |-> IF h.fmt # SMALL THEN m.size ELSE l.size,
                 type  |-> IF h.fmt # SMALL THEN m.type ELSE l.type,
                 arg   |-> 0]
        BY <1>4, <1>7, <1>11 DEF Begun, EpochOf
      <4> HIDE DEF l, p
      <4> QED BY <1>2, <1>4, <4>1, <4>2, <4>3 DEF Pkgs
    <3>4. /\ k2 \in Chns /\ k2.stat = "EXT_TIME" /\ k2.cid = c /\ k2.fmt = h.fmt
          /\ k2.size = ExtSize /\ k2.upto = 0
      BY <1>2, ChunkAssumption DEF Reading, Chns, Stats
    <3> HIDE DEF k2, p
    <3>5. /\ e2 \in ReaderStates /\ e2.chn = k2 /\ e2.last = e1.last
          /\ e2.pkg = [e1.pkg EXCEPT ![c] = p] /\ e2.rd = [e1.rd EXCEPT ![c] = 0]
          /\ e2.chunkIn = e1.chunkIn /\ e2.due = e1.due
      BY <1>11, <3>3, <3>4, TakeKeep
    <3>6. x.does = "keep"
      BY DEF Turns
    <3> HIDE DEF x
    <3>7. Fits(e1, hp, skewed) /\ After(e1, hp) = e2
      BY <1>14, <3>2, <3>6 DEF Fits, Meets, After, Wanted
    <3> HIDE DEF e2
    <3>8. Reads(Now, w2, e2, skewed)
      BY <1>4, <1>10, <1>13, <3>5, <3>7, ReadsOn DEF w2
    <3>9. e2.pkg[c] = p /\ e2.rd[c] = 0 /\ e2.last = f.last
      BY <1>11, <3>5 DEF ReaderStates
    <3>10. Near(e2, f, c)
      BY <1>11, <3>5 DEF Near, ReaderStates
    <3>11. Meets(e2, ex)
      BY <1>5, <3>4, <3>5, ChunkAssumption DEF Meets
    <3>12. Turn(e2, ex) =
             BegTurn(e2, c, [p EXCEPT !.ts = h.ts, !.epoch = EpochOf(e2, h.ts)], off)
      BY <1>2, <1>5, <3>4, <3>5, <3>9 DEF Turn, ExtTurn
    <3>13. EpochOf(e2, h.ts) = IF h.fmt = LARGE THEN h.ts ELSE (l.epoch + h.ts) % TimeMod
      BY <3>4, <3>5, <3>9 DEF EpochOf
    <3>14. [p EXCEPT !.ts = h.ts, !.epoch = EpochOf(e2, h.ts)] = q
      <4>1. p.sid = q.sid /\ p.size = q.size /\ p.type = q.type /\ p.arg = q.arg
        BY <1>4, <1>7, <1>11 DEF p, Begun, Restored
      <4>2. q.ts = h.ts /\ q.epoch = EpochOf(e2, h.ts)
        BY <3>13 DEF Restored
      <4>3. q \in Pkgs
        BY <1>9 DEF Good
      <4> HIDE DEF q
      <4> QED BY <3>3, <4>1, <4>2, <4>3 DEF Pkgs
    <3> HIDE DEF q
    <3>15. q.arg = (IF Off(c) = 0 THEN 0 ELSE Msg(c).arg)
      BY <1>9
    <3>16. Turn(e2, ex) = BegTurn(e2, c, q, off)
      BY <3>12, <3>14
    <3>17. \E g \in ReaderStates :
             /\ Reads(Now, Append(w2, ex)
                             \o (IF Off(c) < Upto(c) THEN <<DataPart(c)>> ELSE <<>>),
                      g, skewed)
             /\ Synced(g)'
      BY <1>1, <1>9, <1>10, <3>5, <3>8, <3>10, <3>11, <3>15, <3>16, SendTail
    <3> QED BY <1>1, <2>2, <3>17
  <2> QED BY <2>1, <2>2
<1>17. wire' = (IF h.ts >= ExtMark THEN Append(w2, ex) ELSE w2) \o data
  <2>1. BasicPart(IF Off(c) = 0 THEN Hdr(c).fmt ELSE MINIMUM, c) = b
    BY <1>1
  <2> QED BY <1>1, <2>1, SendWire DEF w1, w2
<1>18. Now' = Now /\ skewed' = skewed
  BY SendFacts DEF Now, reader
<1> QED BY <1>16, <1>17, <1>18 DEF AgreeInv

\* A chunk is written.
LEMMA AgreeSend ==
  ASSUME ChunkInv, AgreeInv, NEW c \in Cids, SendChunk(c)
  PROVE  AgreeInv'
BY SendShort, SendLong DEF AgreeInv

-----------------------------------------------------------------------------
(* What follows.                                                           *)

ReadInv == ChunkInv /\ AgreeInv

\* The invariant holds at the start.
LEMMA ReadInit == Init => ReadInv
BY ChunkInit, AgreeInit DEF ReadInv

\* Every step keeps it.
LEMMA ReadNext == ReadInv /\ [Next]_vars => ReadInv'
<1> SUFFICES ASSUME ChunkInv, AgreeInv, [Next]_vars PROVE AgreeInv'
  BY ChunkNext DEF ReadInv
<1>1. CASE UNCHANGED vars
  <2>1. PICK f \in ReaderStates : Reads(Now, wire, f, skewed) /\ Synced(f)
    BY DEF AgreeInv
  <2>2. Synced(f)'
    BY <1>1, <2>1, SyncedKept DEF vars
  <2>3. Now' = Now /\ wire' = wire /\ skewed' = skewed
    BY <1>1 DEF vars, reader, Now
  <2> QED BY <2>1, <2>2, <2>3 DEF AgreeInv
<1>2. ASSUME NEW m \in Messages, StartPeers(m) \/ StartOurs(m) PROVE AgreeInv'
  <2>1. out[Cid(m)] = None \/ Said(out[Cid(m)])
    BY DEF ChunkInv, WriterOK, OutOK, Cids
  <2>2. AdjustHeader(m, out[Cid(m)]) \in Allowed(m, out[Cid(m)])
    BY <2>1, OurHeaderAllowed
  <2>3. CASE StartPeers(m)
    BY <2>3, AgreeStart DEF StartPeers
  <2>4. CASE StartOurs(m)
    BY <2>2, <2>4, AgreeStart DEF StartOurs
  <2> QED BY <1>2, <2>3, <2>4
<1> QED BY <1>1, <1>2, AgreeSkip, AgreeSend, AgreeRead DEF Next

\* The reader expects what comes next.
LEMMA ReadInStep == ReadInv => InStep
<1> SUFFICES ASSUME ReadInv, wire # <<>>
             PROVE  LET part == Head(wire)
                    IN  /\ part.kind = chn.stat
                        /\ part.kind # "BASIC" => part.len = Need
                        /\ part.kind = "CHUNK" => part.off = rd[chn.cid]
  BY DEF InStep
<1>1. PICK f \in ReaderStates : Reads(Now, wire, f, skewed) /\ Synced(f)
  BY DEF ReadInv, AgreeInv
<1>2. Fits(Now, Head(wire), skewed)
  BY <1>1, ReadsFirst DEF ReadInv, ChunkInv, WriterOK
<1> QED BY <1>2, NowParts DEF Fits, Need

\* The last headers are the same.
LEMMA ReadHeaders == ReadInv => HeadersAgree
<1> SUFFICES ASSUME ReadInv, NEW c \in Cids \ skewed, due[c] = <<>>
             PROVE  out[c] = None \/ out[c] = last[c]
  BY DEF HeadersAgree
<1>1. PICK f \in ReaderStates : Reads(Now, wire, f, skewed) /\ Synced(f)
  BY DEF ReadInv, AgreeInv
<1>2. Quiet(Now, f)
  BY <1>1, ReadsEnds DEF ReadInv, ChunkInv, WriterOK
<1>3. f.due[c] = <<>> /\ f.last[c] = last[c]
  BY <1>2, NowParts DEF Quiet
<1>4. cur[c] = None
  <2>1. cur[c] # None => f.due[c] = <<cur[c].msg>>
    BY <1>1 DEF Synced, Busy
  <2> QED BY <1>3, <2>1
<1> QED BY <1>1, <1>3, <1>4 DEF Synced, Rested

\* A message is received as it was sent.
LEMMA ReadDelivers ==
  ASSUME ReadInv, [Next]_vars, NEW c \in Cids \ skewed, Len(due'[c]) < Len(due[c])
  PROVE  LET m == Head(due[c])
         IN  /\ last'[c] = Prev(m, last'[c].ts)
             /\ m.arg # 0 => chunkIn' = m.arg
<1>1. PICK f \in ReaderStates : Reads(Now, wire, f, skewed) /\ Synced(f)
  BY DEF ReadInv, AgreeInv
<1>2. /\ wire \in Seq(Parts) /\ due \in [Cids -> Seq(Messages)] /\ last \in [Cids -> Lasts]
      /\ ChunkInv
  <2>1. Now \in ReaderStates /\ wire \in Seq(Parts)
    BY <1>1, ReadsEnds DEF ReadInv, ChunkInv, WriterOK
  <2> QED BY <2>1, NowParts DEF ReaderStates, ReadInv
<1>3. Len(due[c]) \in Nat /\ due'[c] # due[c]
  BY <1>2
<1>4. ~ UNCHANGED due
  BY <1>3
<1>5. ASSUME NEW m \in Messages, NEW h, Start(m, h) PROVE FALSE
  <2>1. due'[c] = IF c = Cid(m) THEN Append(due[c], m) ELSE due[c]
    BY <1>2, <1>5 DEF Start
  <2>2. Len(Append(due[c], m)) = Len(due[c]) + 1
    BY <1>2
  <2> QED BY <1>3, <2>1, <2>2
<1>6. ReadPart
  <2>1. ASSUME NEW m \in Messages, StartPeers(m) \/ StartOurs(m) \/ SkipOurs(m) PROVE FALSE
    BY <1>4, <1>5, <2>1 DEF StartPeers, StartOurs, SkipOurs
  <2>2. ASSUME NEW d \in Cids, SendChunk(d) PROVE FALSE
    BY <1>4, <2>2 DEF SendChunk
  <2>3. ASSUME NEW n \in 1 .. (Need - 1), FillSome(n) PROVE FALSE
    BY <1>4, <2>3 DEF FillSome
  <2>4. CASE UNCHANGED vars
    BY <1>4, <2>4 DEF vars
  <2> QED BY <2>1, <2>2, <2>3, <2>4 DEF Next, Read, ReadPart
<1> DEFINE x == Turn(Now, Head(wire))
<1>7. wire # <<>> /\ Now' = Take(Now, x)
  BY <1>2, <1>6, ReadStep DEF After
<1>8. Wanted(Now, x, skewed)
  BY <1>1, <1>2, <1>7, ReadsFirst DEF Fits
<1> HIDE DEF x
<1>9. /\ due' = IF x.does = "end" THEN [due EXCEPT ![x.cid] = Tail(due[x.cid])] ELSE due
      /\ last' = IF x.does = "end" THEN [last EXCEPT ![x.cid] = Prev(x.p, x.p.ts)] ELSE last
      /\ chunkIn' = IF x.does = "end" /\ x.p.arg # 0 THEN x.p.arg ELSE chunkIn
  <2>1. /\ Now'.due = due' /\ Now'.last = last' /\ Now'.chunkIn = chunkIn'
    BY DEF Now
  <2> QED BY <1>7, <2>1, NowParts DEF Take
<1>10. x.does = "end" /\ x.cid = c
  BY <1>2, <1>3, <1>9
<1> DEFINE m == Head(due[c])
<1>11. /\ Prev(x.p, x.p.ts) = Prev(m, x.p.ts)
       /\ m.arg # 0 => x.p.arg = m.arg
  BY <1>8, <1>10, NowParts DEF Wanted
<1>12. last'[c] = Prev(x.p, x.p.ts)
  BY <1>2, <1>9, <1>10
<1>13. last'[c].ts = x.p.ts
  BY <1>12 DEF Prev
<1> HIDE DEF m
<1>14. last'[c] = Prev(m, last'[c].ts)
  BY <1>11, <1>12, <1>13
<1>15. m.arg # 0 => chunkIn' = m.arg
  BY <1>9, <1>10, <1>11
<1> QED BY <1>14, <1>15 DEF m

(* What comes next on the wire is what the reader expects, of that length,  *)
(* and the payload goes on where it left off: however the writers choose    *)
(* their headers and sizes and let the chunks of their messages alternate,  *)
(* and wherever the pieces that are received end.                           *)
THEOREM ReaderInStep == Spec => []InStep
BY ReadInit, ReadNext, ReadInStep, PTL DEF Spec

(* Both ends keep the same last header of a chunk stream of which nothing   *)
(* is on its way.                                                           *)
THEOREM SameHeaders == Spec => []HeadersAgree
BY ReadInit, ReadNext, ReadHeaders, PTL DEF Spec

(* RtmpInput delivers the messages of a chunk stream in the order and as    *)
(* they were sent.                                                          *)
THEOREM AsSent == Spec => DeliveredAsSent
<1>1. ReadInv /\ [Next]_vars =>
        [\A c \in Cids \ skewed : Len(due'[c]) < Len(due[c]) =>
           LET m == Head(due[c])
           IN  /\ last'[c] = Prev(m, last'[c].ts)
               /\ m.arg # 0 => chunkIn' = m.arg]_vars
  BY ReadDelivers
<1> QED BY <1>1, ReadInit, ReadNext, PTL DEF Spec, DeliveredAsSent
=============================================================================
