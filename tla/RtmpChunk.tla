------------------------------ MODULE RtmpChunk ------------------------------
(***************************************************************************)
(* Messages are cut into chunks with compressed headers (adjustHeader,     *)
(* buildHeader, sendPkg and sendPayload of rtmpnode.cpp) and put together  *)
(* again, from pieces of any size, by RtmpInput (payloads/inputstream.cpp).*)
(*                                                                         *)
(* Both ends keep, for every chunk stream, the last header; what a header  *)
(* leaves out is taken from there, so the ends must agree on it.  The      *)
(* writer here is this program's, or a peer's that may use any header the  *)
(* protocol allows and lets the chunks of its messages alternate.  Each    *)
(* chunk stream has one writer at a time.                                  *)
(***************************************************************************)
EXTENDS Integers, Sequences

CONSTANTS
  Messages,    \* what the writers send
  None,        \* NULL
  HeaderSize,  \* RTMP_HEADER_SIZE_ARR, by format
  SigSize,     \* RTMP_SIG_SIZE
  ExtSize,     \* RTMP_EXT_TIMESTAMP_SIZE
  ExtMark,     \* RTMP_TIMESTAMP_EXT_MARK
  TimeMod,     \* 2^32, the range of an epoch
  MinChunk,    \* RTMP_MIN_CHUNK_SIZE
  MaxDue,      \* bound: messages of a chunk stream on their way
  MaxWire      \* bound: parts on the wire when a chunk is added

Times == 0 .. TimeMod - 1
Sids  == {m.sid : m \in Messages} \cup {0}
Types == {m.type : m \in Messages} \cup {None}

\* What is known of a message that is being read.
Pkgs == [epoch : Times, ts : Times, sid : Sids, size : Nat, type : Types, arg : Nat]

\* What is kept of the last message, and of one that is being written.
Formats == 0 .. 3
Lasts   == [epoch : Times, ts : Times, sid : Sids, size : Nat, type : Types]
Curs    == [msg : Messages, hdr : [fmt : Formats, ts : Times], off : Nat]

\* A message that sets the chunk size has a payload.
ASSUME ChunkAssumption ==
  /\ TimeMod \in Nat \ {0} /\ MinChunk \in Nat \ {0}
  /\ SigSize \in Nat /\ ExtSize \in Nat /\ ExtMark \in Nat
  /\ \A fmt \in 0 .. 2 : HeaderSize[fmt] \in Nat
  /\ \A m \in Messages : m.epoch \in Times /\ m.size \in Nat /\ m.arg \in Nat
  /\ \A m \in Messages : m.arg # 0 => m.size > 0
  /\ None \notin Pkgs \cup Lasts \cup Curs

LARGE == 0  MEDIUM == 1  SMALL == 2  MINIMUM == 3

\* The chunk stream of a message.
ToCid(type, sid) ==
  CASE type = "VIDEO" -> 2 * sid + 4
    [] type \in {"AUDIO", "META_INFO"} -> 2 * sid + 5
    [] type = "INVOKE" -> IF sid = 0 THEN 3 ELSE 4
    [] OTHER -> 2

Cid(m) == ToCid(m.type, m.sid)
Cids == {Cid(m) : m \in Messages}

VARIABLES
  out,       \* m_chnnOut: the last header written, or None
  cur,       \* the message being written on each chunk stream, or None
  chunkOut,  \* m_chunkSizeOut
  wire,      \* what is written and not yet read
  chn,       \* m_chn: the part that is being read
  last,      \* m_chnnIn: the last header read
  pkg,       \* m_pkg of each chunk stream: the message being read, or None
  rd,        \* m_rd_bytes
  chunkIn,   \* m_chunkSizeIn
  due,       \* history: the messages of a chunk stream on their way
  skewed     \* history: the chunk streams whose writer counts on a header that
             \* was never sent

writer == <<out, cur, chunkOut>>
reader == <<chn, last, pkg, rd, chunkIn>>
vars == <<writer, wire, reader, due, skewed>>

\* The smaller of two numbers.
Least(a, b) == IF a < b THEN a ELSE b

\* What a header says of a message m with the time field ts.
Prev(m, ts) ==
  [epoch |-> m.epoch, ts |-> ts, sid |-> m.sid, size |-> m.size, type |-> m.type]

Reading(stat, cid, fmt, size) ==
  [stat |-> stat, cid |-> cid, fmt |-> fmt, upto |-> 0, size |-> size]

\* A part of the stream of bytes: a field the reader reads at once.
Part(kind, len) == [kind |-> kind, len |-> len]

Init ==
  /\ out = [c \in Cids |-> None]
  /\ cur = [c \in Cids |-> None]
  /\ chunkOut = MinChunk
  /\ wire = <<Part("C0", 1), Part("C1", SigSize), Part("C2", SigSize)>>
  /\ chn = Reading("C0", None, LARGE, 1)
  /\ last = [c \in Cids |-> [epoch |-> 0, ts |-> 0, sid |-> 0, size |-> 0, type |-> None]]
  /\ pkg = [c \in Cids |-> None]
  /\ rd = [c \in Cids |-> 0]
  /\ chunkIn = MinChunk
  /\ due = [c \in Cids |-> <<>>]
  /\ skewed = {}

-----------------------------------------------------------------------------
(* Writing *)

Header(fmt, ts) == [fmt |-> fmt, ts |-> ts]

\* Mutant: the channel is compared but for the stream id.
AdjustSidless(m, p) ==
  IF p = None \/ m.epoch < p.epoch
  THEN Header(LARGE, m.epoch)
  ELSE LET ts == m.epoch - p.epoch
       IN  IF m.size # p.size \/ m.type # p.type THEN Header(MEDIUM, ts)
           ELSE IF ts = p.ts THEN Header(MINIMUM, ts) ELSE Header(SMALL, ts)

\* The header this program chooses after the header p.
AdjustHeader(m, p) ==
  IF p = None \/ m.sid # p.sid \/ m.epoch < p.epoch
  THEN Header(LARGE, m.epoch)
  ELSE LET ts == m.epoch - p.epoch
       IN  IF m.size # p.size \/ m.type # p.type THEN Header(MEDIUM, ts)
           ELSE IF ts = p.ts THEN Header(MINIMUM, ts) ELSE Header(SMALL, ts)

\* The headers the protocol allows after the header p: each leaves out only
\* what p says, the times being taken modulo their range.
Allowed(m, p) ==
  {h \in [fmt : {LARGE, MEDIUM, SMALL, MINIMUM}, ts : Times] :
     /\ h.fmt = LARGE => h.ts = m.epoch
     /\ h.fmt # LARGE =>
          p # None /\ m.sid = p.sid /\ h.ts = (m.epoch - p.epoch) % TimeMod
     /\ h.fmt \in {SMALL, MINIMUM} => m.size = p.size /\ m.type = p.type
     /\ h.fmt = MINIMUM => h.ts = p.ts}

\* A full header needs nothing of what was sent before.
Start(m, h) ==
  /\ cur[Cid(m)] = None
  /\ Len(due[Cid(m)]) < MaxDue
  /\ out' = [out EXCEPT ![Cid(m)] = Prev(m, h.ts)]
  /\ cur' = [cur EXCEPT ![Cid(m)] = [msg |-> m, hdr |-> h, off |-> 0]]
  /\ due' = [due EXCEPT ![Cid(m)] = Append(@, m)]
  /\ skewed' = IF h.fmt = LARGE /\ due[Cid(m)] = <<>> THEN skewed \ {Cid(m)} ELSE skewed
  /\ UNCHANGED <<chunkOut, wire, reader>>

\* A peer leaves no message out, so it does not follow on one that was.
StartPeers(m) ==
  /\ Cid(m) \notin skewed
  /\ \E h \in Allowed(m, out[Cid(m)]) : Start(m, h)

StartOurs(m) == m.size > 0 /\ Start(m, AdjustHeader(m, out[Cid(m)]))

\* Without a payload the loop of this program sends no chunk, so not even the
\* header that is in m_chnnOut by then.
SkipOurs(m) ==
  /\ m.size = 0
  /\ cur[Cid(m)] = None
  /\ out' = [out EXCEPT ![Cid(m)] = Prev(m, AdjustHeader(m, @).ts)]
  /\ skewed' = skewed \cup {Cid(m)}
  /\ UNCHANGED <<cur, chunkOut, wire, reader, due>>

\* Mutant: times up to and with the mark are written without the long field.
BuildShort(c, m, h) ==
  LET head == [kind |-> "HEADER", len |-> HeaderSize[h.fmt], ts |-> Least(h.ts, ExtMark),
               size |-> m.size, type |-> m.type, sid |-> m.sid]
      ext == [kind |-> "EXT_TIME", len |-> ExtSize, ts |-> h.ts]
  IN  <<[kind |-> "BASIC", len |-> 1, fmt |-> h.fmt, cid |-> c]>>
      \o (IF h.fmt # MINIMUM THEN <<head>> ELSE <<>>)
      \o (IF h.fmt # MINIMUM /\ h.ts > ExtMark THEN <<ext>> ELSE <<>>)

\* The header as it is sent.  All fields are in head, for the reader to take
\* those that its format has.
BuildHeader(c, m, h) ==
  LET head == [kind |-> "HEADER", len |-> HeaderSize[h.fmt], ts |-> Least(h.ts, ExtMark),
               size |-> m.size, type |-> m.type, sid |-> m.sid]
      ext == [kind |-> "EXT_TIME", len |-> ExtSize, ts |-> h.ts]
  IN  <<[kind |-> "BASIC", len |-> 1, fmt |-> h.fmt, cid |-> c]>>
      \o (IF h.fmt # MINIMUM THEN <<head>> ELSE <<>>)
      \o (IF h.fmt # MINIMUM /\ h.ts >= ExtMark THEN <<ext>> ELSE <<>>)

\* One turn of the loop; the new chunk size is used from the next message of
\* the writer and the next chunk of the others on.
SendChunk(c) ==
  /\ cur[c] # None
  /\ Len(wire) <= MaxWire
  /\ LET m == cur[c].msg
         off == cur[c].off
         len == Least(m.size - off, chunkOut)
         head == IF off = 0 THEN BuildHeader(c, m, cur[c].hdr)
                 ELSE <<[kind |-> "BASIC", len |-> 1, fmt |-> MINIMUM, cid |-> c]>>
         data == [kind |-> "CHUNK", len |-> len, off |-> off, arg |-> m.arg]
         done == off + len = m.size
     IN  /\ wire' = wire \o head \o (IF len > 0 THEN <<data>> ELSE <<>>)
         /\ cur' = [cur EXCEPT ![c] = IF done THEN None ELSE [@ EXCEPT !.off = off + len]]
         /\ chunkOut' = IF done /\ m.arg # 0 THEN m.arg ELSE chunkOut
  /\ UNCHANGED <<out, reader, due, skewed>>

-----------------------------------------------------------------------------
(* Reading *)

Need == chn.size - chn.upto

\* The next part is the one that is expected, and n bytes of it are there.
Has(n) == wire # <<>> /\ Head(wire).kind = chn.stat /\ n <= Head(wire).len

\* The piece that was received ends within the part: fill returns FALSE.
FillSome(n) ==
  /\ n < Need
  /\ Has(n)
  /\ wire' = <<[Head(wire) EXCEPT !.len = @ - n]>> \o Tail(wire)
  /\ chn' = [chn EXCEPT !.upto = @ + n]
  /\ UNCHANGED <<writer, last, pkg, rd, chunkIn, due, skewed>>

\* The rest of the part is there: fill returns TRUE.
Filled(stat) ==
  /\ chn.stat = stat
  /\ Has(Need)
  /\ wire' = Tail(wire)
  /\ UNCHANGED <<writer, skewed>>

\* The handshake, by a peer of the right version.
ReadC0 ==
  /\ Filled("C0")
  /\ chn' = [chn EXCEPT !.stat = "C1", !.upto = 1, !.size = @ + SigSize]
  /\ UNCHANGED <<last, pkg, rd, chunkIn, due>>

ReadC1 ==
  /\ Filled("C1")
  /\ chn' = Reading("C2", None, LARGE, SigSize)
  /\ UNCHANGED <<last, pkg, rd, chunkIn, due>>

ReadC2 ==
  /\ Filled("C2")
  /\ chn' = Reading("BASIC", None, LARGE, 0)
  /\ UNCHANGED <<last, pkg, rd, chunkIn, due>>

\* Mutant: the time of a message is not kept for the next header.
EndChunkTimeless(c, p, total) ==
  /\ chn' = Reading("BASIC", None, LARGE, 0)
  /\ \/ /\ total = p.size
        /\ last' = [last EXCEPT ![c] = Prev(p, last[c].ts)]
        /\ pkg' = [pkg EXCEPT ![c] = None]
        /\ rd' = [rd EXCEPT ![c] = 0]
        /\ due' = [due EXCEPT ![c] = Tail(@)]
        /\ chunkIn' = IF p.arg # 0 THEN p.arg ELSE chunkIn
     \/ /\ total # p.size
        /\ pkg' = [pkg EXCEPT ![c] = p]
        /\ rd' = [rd EXCEPT ![c] = total]
        /\ UNCHANGED <<last, due, chunkIn>>

\* total bytes of message p have been read.  A complete message is received;
\* one that sets the chunk size does so here, in the thread that reads.
EndChunk(c, p, total) ==
  /\ chn' = Reading("BASIC", None, LARGE, 0)
  /\ \/ /\ total = p.size
        /\ last' = [last EXCEPT ![c] = Prev(p, p.ts)]
        /\ pkg' = [pkg EXCEPT ![c] = None]
        /\ rd' = [rd EXCEPT ![c] = 0]
        /\ due' = [due EXCEPT ![c] = Tail(@)]
        /\ chunkIn' = IF p.arg # 0 THEN p.arg ELSE chunkIn
     \/ /\ total # p.size
        /\ pkg' = [pkg EXCEPT ![c] = p]
        /\ rd' = [rd EXCEPT ![c] = total]
        /\ UNCHANGED <<last, due, chunkIn>>

\* Mutant: the rest of the message is expected in one chunk.
BegWhole(c, p, n) ==
  \/ /\ n < p.size
     /\ chn' = Reading("CHUNK", c, chn.fmt, p.size - n)
     /\ pkg' = [pkg EXCEPT ![c] = p]
     /\ rd' = [rd EXCEPT ![c] = n]
     /\ UNCHANGED <<last, chunkIn, due>>
  \/ n >= p.size /\ EndChunk(c, p, n)

\* A chunk of message p, of which n bytes have been read, begins.
BegChunk(c, p, n) ==
  \/ /\ n < p.size
     /\ chn' = Reading("CHUNK", c, chn.fmt, Least(p.size - n, chunkIn))
     /\ pkg' = [pkg EXCEPT ![c] = p]
     /\ rd' = [rd EXCEPT ![c] = n]
     /\ UNCHANGED <<last, chunkIn, due>>
  \/ n >= p.size /\ EndChunk(c, p, n)

\* A message whose header was like the last one.
Repeated(p) ==
  [epoch |-> (p.epoch + p.ts) % TimeMod, ts |-> p.ts, sid |-> p.sid, size |-> p.size,
   type |-> p.type, arg |-> 0]

ReadBasic ==
  /\ chn.stat = "BASIC"
  /\ Has(1)
  /\ wire' = Tail(wire)
  /\ LET fmt == Head(wire).fmt
         c == Head(wire).cid
     IN  \/ /\ fmt # MINIMUM
            /\ chn' = Reading("HEADER", c, fmt, HeaderSize[fmt])
            /\ UNCHANGED <<last, pkg, rd, chunkIn, due>>
         \/ fmt = MINIMUM /\ pkg[c] = None /\ BegChunk(c, Repeated(last[c]), 0)
         \/ fmt = MINIMUM /\ pkg[c] # None /\ BegChunk(c, pkg[c], rd[c])
  /\ UNCHANGED <<writer, skewed>>

\* The epoch of a message with the time field ts.
Epoch(c, fmt, ts) == IF fmt = LARGE THEN ts ELSE (last[c].epoch + ts) % TimeMod

\* parseHdr: the fields the header has, and the last ones for the rest.
ReadHeader ==
  /\ Filled("HEADER")
  /\ LET h == Head(wire)
         c == chn.cid
         p == [epoch |-> Epoch(c, chn.fmt, h.ts),
               ts    |-> h.ts,
               sid   |-> IF chn.fmt = LARGE THEN h.sid ELSE last[c].sid,
               size  |-> IF chn.fmt # SMALL THEN h.size ELSE last[c].size,
               type  |-> IF chn.fmt # SMALL THEN h.type ELSE last[c].type,
               arg   |-> 0]
     IN  \/ h.ts # ExtMark /\ BegChunk(c, p, 0)
         \/ /\ h.ts = ExtMark
            /\ chn' = Reading("EXT_TIME", c, chn.fmt, ExtSize)
            /\ pkg' = [pkg EXCEPT ![c] = p]
            /\ rd' = [rd EXCEPT ![c] = 0]
            /\ UNCHANGED <<last, chunkIn, due>>

ReadExtTime ==
  /\ Filled("EXT_TIME")
  /\ LET ts == Head(wire).ts
         c == chn.cid
     IN  BegChunk(c, [pkg[c] EXCEPT !.ts = ts, !.epoch = Epoch(c, chn.fmt, ts)], rd[c])

ReadChunk ==
  /\ Filled("CHUNK")
  /\ LET c == chn.cid
     IN  EndChunk(c, [pkg[c] EXCEPT !.arg = Head(wire).arg], rd[c] + chn.size)

Read ==
  \/ ReadC0 \/ ReadC1 \/ ReadC2
  \/ ReadBasic \/ ReadHeader \/ ReadExtTime \/ ReadChunk
  \/ \E n \in 1..(Need - 1) : FillSome(n)

Next ==
  \/ \E m \in Messages : StartPeers(m) \/ StartOurs(m) \/ SkipOurs(m)
  \/ \E c \in Cids : SendChunk(c)
  \/ Read

Spec == Init /\ [][Next]_vars

-----------------------------------------------------------------------------
(* Properties *)

Stats == {"C0", "C1", "C2", "BASIC", "HEADER", "EXT_TIME", "CHUNK"}

\* The types of the variables.  No more than a chunk is expected at once, and a
\* message that is being read is not complete.
TypeOK ==
  /\ chn.stat \in Stats
  /\ chn.cid \in Cids \cup {None}
  /\ chn.stat = "CHUNK" => chn.size \in 1..chunkIn
  /\ chn.upto \in 0..chn.size
  /\ \A c \in Cids :
       /\ pkg[c] = None => rd[c] = 0
       /\ pkg[c] # None => rd[c] \in 0..pkg[c].size
       /\ last[c].epoch \in Times

\* The reader is in step with the writer: what comes next is what it expects, of
\* the length it expects, and the payload of the message where it left off.
InStep ==
  wire # <<>> =>
    LET part == Head(wire)
    IN  /\ part.kind = chn.stat
        /\ part.kind # "BASIC" => part.len = Need
        /\ part.kind = "CHUNK" => part.off = rd[chn.cid]

\* When nothing of a chunk stream is on its way both ends have the same header,
\* from which the next one will be made and understood, unless this program has
\* left out an empty message and no full header followed.
HeadersAgree ==
  \A c \in Cids \ skewed : due[c] = <<>> => out[c] = None \/ out[c] = last[c]

\* A message that is received is the next one that was sent on its chunk stream,
\* with the same type, stream, length and epoch; a new chunk size takes effect.
\* Only after an empty message that this program left out is it another.
DeliveredAsSent ==
  [][\A c \in Cids \ skewed : Len(due'[c]) < Len(due[c]) =>
       LET m == Head(due[c])
       IN  /\ last'[c] = Prev(m, last'[c].ts)
           /\ m.arg # 0 => chunkIn' = m.arg]_vars
=============================================================================
