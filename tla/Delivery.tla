------------------------------ MODULE Delivery ------------------------------
(***************************************************************************)
(* The way of a message body (Cache) through the server: the receiver of   *)
(* the publisher reads it, the dealer keeps it as a header of the stream   *)
(* and relays it to the players, cuts it into chunks for each of them, and *)
(* the senders write the chunks to the sockets.  The body is never copied: *)
(* every message (CacheHdr) in a queue counts as one reference, and the    *)
(* body is freed by whichever thread drops the last one.                   *)
(*                                                                         *)
(* Every step of a thread changes a count at most once, as the atomic      *)
(* instructions of CacheCenter do, and steps of the threads interleave;    *)
(* only cacheAvc, which drops one body and takes another, is one step.     *)
(* The bytes of a message are those that are left of it, by their number   *)
(* among all that were ever queued for the player.                         *)
(* One stream is modelled, with one kind of header.  How connections close *)
(* is NodeLife's matter, how they come to a stream StreamCenter's.         *)
(***************************************************************************)
EXTENDS Integers, SequencesExt

CONSTANTS
  Bodies,   \* the bodies that are read in a behaviour
  Pub,      \* the publishing connection
  Players,  \* the connections that may play the stream
  NoBody,   \* no body (NULL)
  Chunks,   \* the chunks of a message: records of the bytes of head and body
  SendMax,  \* the bytes (DEF_TCP_SEND_BUF_SIZE) and
  VecMax,   \* the pieces (DEF_VEC_SIZE) offered to a socket at once
  Replied,  \* bound: the players that are sent replies
  Closing,  \* bound: the connections that close
  MaxBytes  \* bound: joining players and replies stop at so many queued bytes

ASSUME DeliveryAssumption ==
  /\ Pub \notin Players /\ IsFiniteSet(Players)
  /\ NoBody \notin Bodies /\ "STOP" \notin Bodies
  /\ Chunks \in Seq([head : Nat, body : Nat])
  /\ Replied \subseteq Players /\ Closing \subseteq Players \cup {Pub}
  /\ SendMax \in Nat \ {0} /\ VecMax \in Nat \ {0} /\ MaxBytes \in Nat

Conns == Players \cup {Pub}

VARIABLES
  ref,      \* m_ref of the bodies
  freed,    \* history: the bodies freed
  partial,  \* the bodies the receiver reads (m_pkg of its ChnInput's)
  complete, \* the body it has dispatched and has yet to let go of
  avc,      \* m_avc_cache of the stream
  playing,  \* m_players of the stream
  dealq,    \* m_deal_que(_tmp): bodies, and the STOP of the director
  job,      \* what the message the dealer handles has left to do
  sendq,    \* m_snd_que(_tmp): messages with the bytes they have left
  owed,     \* maxlen of prune: bytes written that messages still stand for
  stopDeal, \* the connections with m_stop_deal
  closed,   \* the connections whose onClose has run
  gone,     \* the connections destroyed
  last,     \* history: the number of bytes queued for a player
  sent      \* history: the bytes its socket has taken, by their number

memory == <<ref, freed>>
input  == <<partial, complete>>
stream == <<avc, playing>>
ends   == <<stopDeal, closed, gone>>
output == <<sendq, last, sent>>
vars   == <<memory, input, stream, dealq, job, owed, ends, output>>

Init ==
  /\ ref = [b \in Bodies |-> 0] /\ freed = {}
  /\ partial = {} /\ complete = NoBody
  /\ avc = NoBody /\ playing = {}
  /\ dealq = [c \in Conns |-> <<>>] /\ job = <<>>
  /\ sendq = [p \in Players |-> <<>>] /\ owed = [p \in Players |-> 0]
  /\ stopDeal = {} /\ closed = {} /\ gone = {}
  /\ last = [p \in Players |-> 0] /\ sent = [p \in Players |-> <<>>]

-----------------------------------------------------------------------------
(* CacheCenter.                                                            *)

Ref(b) == ref' = [ref EXCEPT ![b] = @ + 1] /\ UNCHANGED freed

Del(b) ==
  /\ ref' = [ref EXCEPT ![b] = @ - 1]
  /\ freed' = IF ref[b] - 1 > 0 THEN freed ELSE freed \cup {b}

\* free of a message, which may refer to a body.
LetGo(x) ==
  \/ x \in Bodies /\ Del(x)
  \/ x \notin Bodies /\ UNCHANGED memory

-----------------------------------------------------------------------------
(* The receiver of the publisher.  It ends before the director has STOP    *)
(* queued for the dealer.                                                  *)

Reading == \A i \in DOMAIN dealq[Pub] : dealq[Pub][i] # "STOP"
             /\ Pub \notin closed

Unused(b) == ref[b] = 0 /\ b \notin freed

\* creatPkg on the first chunk of a message: alloc sets the count to one.
Begin(b) ==
  /\ Reading /\ complete = NoBody
  /\ Unused(b)
  /\ partial' = partial \cup {b}
  /\ Ref(b)
  /\ UNCHANGED <<complete, stream, dealq, job, owed, ends, output>>

\* recv: the message is dispatched, with a reference of its own.
Recv(b) ==
  /\ Reading /\ complete = NoBody
  /\ b \in partial
  /\ partial' = partial \ {b} /\ complete' = b
  /\ dealq' = [dealq EXCEPT ![Pub] = Append(@, b)]
  /\ Ref(b)
  /\ UNCHANGED <<stream, job, owed, ends, output>>

\* recv of a control message or of an unknown one takes no reference.
RecvCtrl(b) ==
  /\ Reading /\ complete = NoBody
  /\ b \in partial
  /\ partial' = partial \ {b} /\ complete' = b
  /\ UNCHANGED <<memory, stream, dealq, job, owed, ends, output>>

\* resetChnPkg.
ResetChnPkg ==
  /\ complete # NoBody
  /\ Del(complete)
  /\ complete' = NoBody
  /\ UNCHANGED <<partial, stream, dealq, job, owed, ends, output>>

-----------------------------------------------------------------------------
(* The dealer.  A job is the sequence of what its handler has left to do.  *)

Op(op, to, b, i) == [op |-> op, to |-> to, body |-> b, i |-> i]
Idle == job = <<>>
Doing(op) == ~ Idle /\ Head(job).op = op

\* sendPkg: one message for each chunk.
SendPkg(p, b) == [i \in DOMAIN Chunks |-> Op("send", p, b, i)]
Free(c, b)    == <<Op("free", c, b, 0)>>

\* StreamCenter::publish: one message for each player.
Relays(b) ==
  LET ps == SetToSeq(playing) IN [i \in DOMAIN ps |-> Op("relay", ps[i], b, 0)]

\* Mutant: the message is freed before what it is relayed by is queued.
PublishLate(c, b) ==
  \E header \in {<<>>, <<Op("cache", c, b, 0)>>} :
    job' = header \o Free(c, b) \o Relays(b)

\* publish: headers are kept, everything is relayed.
Publish(c, b) ==
  \E header \in {<<>>, <<Op("cache", c, b, 0)>>} :
    job' = header \o (Relays(b) \o Free(c, b))

\* play: a frame is sent, or left out while the player pauses.
Play(c, b) == \E out \in {<<>>, SendPkg(c, b)} : job' = out \o Free(c, b)

\* procMsg and dealFlvData: a player that has left meanwhile is in error.
Deal(c) ==
  LET b == Head(dealq[c]) IN
  /\ Idle /\ c \notin gone
  /\ dealq[c] # <<>> /\ b # "STOP"
  /\ dealq' = [dealq EXCEPT ![c] = Tail(@)]
  /\ IF c \in stopDeal THEN job' = Free(c, b) /\ UNCHANGED stopDeal
     ELSE \/ c = Pub /\ Publish(c, b) /\ UNCHANGED stopDeal
          \/ c \in playing /\ Play(c, b) /\ UNCHANGED stopDeal
          \/ c \notin playing \cup {Pub} /\ job' = Free(c, b)
               /\ stopDeal' = stopDeal \cup {c}
  /\ UNCHANGED <<memory, input, stream, owed, closed, gone, output>>

\* cacheAvc: the header kept so far is dropped.
CacheAvc(b) ==
  /\ avc' = b
  /\ IF avc = NoBody THEN Ref(b)
     ELSE /\ ref' = [ref EXCEPT ![avc] = @ - 1, ![b] = @ + 1]
          /\ freed' = IF ref[avc] - 1 > 0 THEN freed ELSE freed \cup {avc}

Cache ==
  /\ Doing("cache")
  /\ CacheAvc(Head(job).body)
  /\ job' = Tail(job)
  /\ UNCHANGED <<input, playing, dealq, owed, ends, output>>

\* unpublishFC: a notice is made, sent to each player and let go of, then the
\* headers of the stream are.
Unpublish(c, b) ==
  LET ps == SetToSeq(playing) IN
  /\ Idle /\ c \notin stopDeal
  /\ Unused(b) /\ Ref(b)
  /\ job' = [i \in DOMAIN ps |-> Op("notice", ps[i], b, 0)]
              \o (Free(c, b)
                    \o (IF avc = NoBody THEN <<>> ELSE <<Op("clear", c, avc, 0)>>))
  /\ UNCHANGED <<input, stream, dealq, owed, ends, output>>

\* sendInvoke.
Notice ==
  /\ Doing("notice")
  /\ job' = SendPkg(Head(job).to, Head(job).body) \o Tail(job)
  /\ UNCHANGED <<memory, input, stream, dealq, owed, ends, output>>

ClearAvc ==
  /\ Doing("clear")
  /\ Del(avc)
  /\ avc' = NoBody
  /\ job' = Tail(job)
  /\ UNCHANGED <<input, playing, dealq, owed, ends, output>>

\* recv of the player: a message with a reference of its own is dispatched.
Relay ==
  LET o == Head(job) IN
  /\ Doing("relay")
  /\ Ref(o.body)
  /\ dealq' = [dealq EXCEPT ![o.to] = Append(@, o.body)]
  /\ job' = Tail(job)
  /\ UNCHANGED <<input, stream, owed, ends, output>>

\* The next n bytes of player p, after the first k of them.
Bytes(p, k, n) == [i \in 1 .. n |-> last[p] + k + i]

Queue(p, h, n, b) ==
  /\ sendq' = [sendq EXCEPT ![p] =
       Append(@, [head |-> Bytes(p, 0, h), body |-> Bytes(p, h, n), cache |-> b])]
  /\ last' = [last EXCEPT ![p] = @ + h + n]
  /\ UNCHANGED sent

\* sendData: a chunk refers to the body it is a part of.
SendData ==
  LET o == Head(job) IN
  /\ Doing("send")
  /\ Ref(o.body)
  /\ Queue(o.to, Chunks[o.i].head, Chunks[o.i].body, o.body)
  /\ job' = Tail(job)
  /\ UNCHANGED <<input, stream, dealq, owed, ends>>

\* dealRtmp and procMsg free the message when its handler is done.
FreeMsg ==
  /\ Doing("free")
  /\ Del(Head(job).body)
  /\ job' = Tail(job)
  /\ UNCHANGED <<input, stream, dealq, owed, ends, output>>

\* dealPlay: the player is sent the header the stream has kept.
Join(p) ==
  /\ Idle /\ p \notin playing \cup stopDeal
  /\ last[p] < MaxBytes
  /\ playing' = playing \cup {p}
  /\ job' = IF avc = NoBody THEN <<>> ELSE SendPkg(p, avc)
  /\ UNCHANGED <<memory, input, avc, dealq, owed, ends, output>>

\* dealDelStream of a player.
Leave(p) ==
  /\ Idle /\ p \in playing \ stopDeal
  /\ playing' = playing \ {p}
  /\ UNCHANGED <<memory, input, avc, dealq, job, owed, ends, output>>

\* sendData2: replies are copied into the message; they refer to no body.
Reply(p) ==
  /\ p \in Replied \ closed
  /\ last[p] < MaxBytes
  /\ Queue(p, 1, 0, NoBody)
  /\ UNCHANGED <<memory, input, stream, dealq, job, owed, ends>>

\* The director has the STOP of a connection queued, its receiver at an end.
Stop(c) ==
  /\ c \in Closing \ closed /\ \A i \in DOMAIN dealq[c] : dealq[c][i] # "STOP"
  /\ c = Pub => complete = NoBody
  /\ dealq' = [dealq EXCEPT ![c] = Append(@, "STOP")]
  /\ UNCHANGED <<memory, input, stream, job, owed, ends, output>>

\* Mutant: the messages behind the STOP are still dealt with.
CloseDealing(c) ==
  /\ Idle /\ dealq[c] # <<>> /\ Head(dealq[c]) = "STOP"
  /\ dealq' = [dealq EXCEPT ![c] = Tail(@)]
  /\ closed' = closed \cup {c} /\ UNCHANGED stopDeal
  /\ playing' = playing \ {c}
  /\ UNCHANGED <<memory, input, avc, job, owed, gone, output>>

\* procStopCmd: closeRtmp takes the connection from the stream, which keeps
\* its headers.
Close(c) ==
  /\ Idle /\ dealq[c] # <<>> /\ Head(dealq[c]) = "STOP"
  /\ dealq' = [dealq EXCEPT ![c] = Tail(@)]
  /\ stopDeal' = stopDeal \cup {c} /\ closed' = closed \cup {c}
  /\ playing' = playing \ {c}
  /\ UNCHANGED <<memory, input, avc, job, owed, gone, output>>

-----------------------------------------------------------------------------
(* The senders.                                                            *)

\* sendQue: the pieces of the vector, cut at what is offered at once.
Piece(s)     == IF s = <<>> THEN <<>> ELSE <<s>>
Pieces(q)    == FlattenSeq([i \in DOMAIN q |-> Piece(q[i].head) \o Piece(q[i].body)])
Prefix(s, n) == SubSeq(s, 1, IF n < Len(s) THEN n ELSE Len(s))
Offered(q)   == Prefix(FlattenSeq(Prefix(Pieces(q), VecMax)), SendMax)

Drop(s, n) == SubSeq(s, n + 1, Len(s))
Size(m)    == Len(m.head) + Len(m.body)

\* writeMsg: the socket takes any number of the bytes it is offered.
Write(p) ==
  /\ p \notin gone /\ owed[p] = 0
  /\ \E n \in 1 .. Len(Offered(sendq[p])) :
       /\ sent' = [sent EXCEPT ![p] = @ \o Prefix(Offered(sendq[p]), n)]
       /\ owed' = [owed EXCEPT ![p] = n]
  /\ UNCHANGED <<memory, input, stream, dealq, job, ends, sendq, last>>

\* The first message has been sent, or a part of it is left, with which prune
\* ends.
Sent(p) ==
  /\ sendq' = [sendq EXCEPT ![p] = Tail(@)]
  /\ owed' = [owed EXCEPT ![p] = owed[p] - Size(Head(sendq[p]))]
  /\ LetGo(Head(sendq[p]).cache)

Remains(p, head, body) ==
  /\ sendq' = [sendq EXCEPT ![p] =
       <<[head |-> head, body |-> body, cache |-> Head(sendq[p]).cache]>>
         \o Tail(sendq[p])]
  /\ owed' = [owed EXCEPT ![p] = 0]
  /\ UNCHANGED memory

\* Mutant: what has been sent of a body is forgotten.
PruneHeads(p) ==
  LET m == Head(sendq[p]) IN
  /\ owed[p] > 0 /\ sendq[p] # <<>>
  /\ \/ Size(m) <= owed[p] /\ Sent(p)
     \/ owed[p] < Size(m) /\ Remains(p, Drop(m.head, owed[p]), m.body)
  /\ UNCHANGED <<input, stream, dealq, job, ends, last, sent>>

\* One turn of the loop of prune.
Prune(p) ==
  LET m == Head(sendq[p]) IN
  /\ owed[p] > 0 /\ sendq[p] # <<>>
  /\ \/ Size(m) <= owed[p] /\ Sent(p)
     \/ Len(m.head) <= owed[p] /\ owed[p] < Size(m)
          /\ Remains(p, <<>>, Drop(m.body, owed[p] - Len(m.head)))
     \/ owed[p] < Len(m.head) /\ Remains(p, Drop(m.head, owed[p]), m.body)
  /\ UNCHANGED <<input, stream, dealq, job, ends, last, sent>>

-----------------------------------------------------------------------------
(* The end of a connection.                                                *)

Destroy(c) ==
  /\ c \in closed \ gone
  /\ c \in Players => owed[c] = 0
  /\ \A i \in DOMAIN job : job[i].to # c
  /\ gone' = gone \cup {c}
  /\ UNCHANGED <<memory, input, stream, dealq, job, owed, stopDeal, closed, output>>

\* finishNode frees what is left in the queues to send ...
FreeSends(p) ==
  /\ p \in gone /\ sendq[p] # <<>>
  /\ LetGo(Head(sendq[p]).cache)
  /\ sendq' = [sendq EXCEPT ![p] = Tail(@)]
  /\ UNCHANGED <<input, stream, dealq, job, owed, ends, last, sent>>

\* ... and those to deal with, and finishRtmp messages read in part.
Freed(c) == c \in Players => sendq[c] = <<>>

FreeDeals(c) ==
  /\ c \in gone /\ Freed(c) /\ dealq[c] # <<>>
  /\ LetGo(Head(dealq[c]))
  /\ dealq' = [dealq EXCEPT ![c] = Tail(@)]
  /\ UNCHANGED <<input, stream, job, owed, ends, output>>

FreeInput(b) ==
  /\ Pub \in gone /\ dealq[Pub] = <<>>
  /\ b \in partial
  /\ Del(b)
  /\ partial' = partial \ {b}
  /\ UNCHANGED <<complete, stream, dealq, job, owed, ends, output>>

-----------------------------------------------------------------------------
Receiver == ResetChnPkg \/ \E b \in Bodies : Begin(b) \/ Recv(b) \/ RecvCtrl(b)

Dealer ==
  \/ Cache \/ ClearAvc \/ Relay \/ Notice \/ SendData \/ FreeMsg
  \/ \E c \in Conns : Deal(c) \/ Close(c) \/ \E b \in Bodies : Unpublish(c, b)
  \/ \E p \in Players : Join(p) \/ Leave(p)

Sender == \E p \in Players : Reply(p) \/ Write(p) \/ Prune(p)

Finish ==
  \/ \E p \in Players : FreeSends(p)
  \/ \E c \in Conns : Stop(c) \/ Destroy(c) \/ FreeDeals(c)
  \/ \E b \in Bodies : FreeInput(b)

Next == Receiver \/ Dealer \/ Sender \/ Finish

Spec == Init /\ [][Next]_vars

-----------------------------------------------------------------------------
(* Properties.                                                             *)

Ops == [op : {"cache", "clear", "relay", "notice", "send", "free"},
        to : Conns, body : Bodies, i : 0 .. Len(Chunks)]
Message == [head : Seq(Nat), body : Seq(Nat), cache : Bodies \cup {NoBody}]

(* Types of the variables; a connection is destroyed after it was closed,  *)
(* and closed only once its messages are no longer dealt with.             *)
TypeOK ==
  /\ ref \in [Bodies -> Nat] /\ freed \subseteq Bodies
  /\ partial \subseteq Bodies
  /\ complete \in Bodies \cup {NoBody} /\ avc \in Bodies \cup {NoBody}
  /\ playing \subseteq Players
  /\ dealq \in [Conns -> Seq(Bodies \cup {"STOP"})]
  /\ job \in Seq(Ops)
  /\ sendq \in [Players -> Seq(Message)] /\ owed \in [Players -> Nat]
  /\ gone \subseteq closed /\ closed \subseteq stopDeal /\ stopDeal \subseteq Conns
  /\ last \in [Players -> Nat] /\ sent \in [Players -> Seq(Nat)]

\* The places of b in the queues q, and in those of messages to send.
Places(q, b) ==
  UNION {{<<c, i>> : i \in {j \in DOMAIN q[c] : q[c][j] = b}} : c \in DOMAIN q}
Caches == [p \in Players |-> [i \in DOMAIN sendq[p] |-> sendq[p][i].cache]]

One(holds) == IF holds THEN 1 ELSE 0

\* The dealer still has the message to free.
Handling(b) == \E i \in DOMAIN job : job[i].op = "free" /\ job[i].body = b

\* Who holds a reference to b: the receiver, the stream, the message the
\* dealer handles, and the messages in queues.
Holders(b) ==
  Cardinality(Places(dealq, b)) + Cardinality(Places(Caches, b))
    + One(b \in partial) + One(b = complete) + One(b = avc) + One(Handling(b))

(* The count of a body is the number of those that hold it, and it is      *)
(* freed exactly when the last of them lets go: no queue, stream or thread *)
(* ever names freed memory, and no body outlives its last holder, however  *)
(* receiver, dealer and senders interleave and whatever was still queued   *)
(* when a connection was destroyed.                                        *)
RefsCountHolders ==
  \A b \in Bodies :
    /\ ref[b] = Holders(b)
    /\ b \in freed => Holders(b) = 0

\* The bytes left of the messages of a queue.
Rest(q) == FlattenSeq([i \in DOMAIN q |-> q[i].head \o q[i].body])

(* The bytes a socket has taken, with those still queued, are the bytes    *)
(* queued for the player in their order: none is lost, doubled or swapped, *)
(* wherever a write ends and whatever is queued while prune goes on.       *)
BytesInOrder ==
  \A p \in Players \ gone :
    sent[p] \o Drop(Rest(sendq[p]), owed[p]) = [i \in 1 .. last[p] |-> i]
=============================================================================
