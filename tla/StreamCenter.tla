---------------------------- MODULE StreamCenter ----------------------------
(***************************************************************************)
(* Streams, their publishers and their players (payloads/streamcenter.cpp) *)
(* and the commands that change them (payloads/invokepld.cpp).             *)
(*                                                                         *)
(* All of it runs in the dealer thread, one message at a time.  The deal   *)
(* queue of a connection holds the messages of its peer and the frames     *)
(* relayed to it, in order.  What the peer sent is not looked at before it *)
(* is handled, so only the relayed frames are kept in relays: a command    *)
(* handled now is one that was queued before them.                         *)
(*                                                                         *)
(* A stream names its publisher and its players by pointers, here by the   *)
(* connection and the sid of the unit.  Nobody checks that a unit which is *)
(* asked to play or publish does not do so already: m_ctx is overwritten,  *)
(* and the stream it named goes on naming the unit, even when it has been  *)
(* freed.  moved remembers such streams.  To follow the name of a freed    *)
(* unit is undefined; the outcome taken here is that the memory still      *)
(* holds the connection and the sid.                                       *)
(***************************************************************************)
EXTENDS Naturals, Sequences, FiniteSets

CONSTANTS
  Clients,     \* connections; the user id of a connection is its name
  Streams,     \* stream keys (application and name)
  MaxSid,      \* RTMP_MAX_SESS_CNT - 1, the number of units of a connection
  NoStream,    \* NULL, as m_ctx
  Nobody,      \* NULL, as m_publisher
  Commands,    \* the commands the peers use
  Kinds,       \* the kinds of frame the publishers send
  MaxMoves,    \* bound: streams left by units that take another role
  MaxRelays,   \* bound: frames waiting in the deal queues
  MaxVersion   \* bound: sequence headers and meta data sent

Sids == 1..MaxSid
Units == Clients \X Sids
AvcTypes == {"AUDIO", "VEDIO", "META_DATA"}
HeaderKinds == {"AUDIO_SEQ", "VIDEO_SEQ", "META_INFO"}
FrameKinds == HeaderKinds \cup {"KEY_FRAME", "DATA"}

ASSUME StreamAssumption ==
  /\ MaxSid \in Nat
  /\ NoStream \notin Streams
  /\ Nobody \notin Units
  /\ Kinds \subseteq FrameKinds

VARIABLES
  status,      \* m_status of a connection
  stopped,     \* m_stop_deal: a handler has failed, or the stop has come
  unit,        \* m_unit[sid] of every connection
  publisher,   \* m_publisher of every stream
  players,     \* m_players of every stream: the sid by user, 0 for none
  moved,       \* history: <<c, s>>: a unit of c left s by playing or publishing
               \* again, and s was not told
  avc,         \* m_avc_cache of every stream: the version of each header, 0 for NULL
  relays,      \* the frames in the deal queue of a connection
  versions,    \* history: versions given out so far
  made,        \* history: the headers the peer has published on a unit
  shown,       \* history: the headers a unit has been sent
  skipped      \* history: a unit has missed frames and had no key frame since

session == <<status, stopped>>
streams == <<publisher, players, moved>>
history == <<versions, made, shown, skipped>>
vars == <<session, unit, streams, avc, relays, history>>

NoUnit == [ctx |-> NoStream, auth |-> "NONE", blocked |-> FALSE, paused |-> FALSE]
NewUnit == [NoUnit EXCEPT !.auth = "NULL"]
NoHeaders == [t \in AvcTypes |-> 0]

Exists(u) == unit[u].auth # "NONE"
Active(u) == unit[u].auth \in {"PLAYER", "PUBLISHER"}

\* A frame: its kind, and the headers that were in force when it was sent.
Frame(k, ver) == [kind |-> k, ver |-> ver]
IsHeader(f) == f.kind \in HeaderKinds
AvcType(k) == CASE k = "AUDIO_SEQ" -> "AUDIO"
                [] k = "VIDEO_SEQ" -> "VEDIO"
                [] OTHER -> "META_DATA"

\* chkVideoKeyFrame tests the upper half of the first byte only, which is the
\* same for the sequence header of a video.
IsKey(f) == f.kind \in {"KEY_FRAME", "VIDEO_SEQ"}

\* The connections have shaken hands and no stream exists: a stream that has
\* not been created is the same as one nobody uses.
Init ==
  /\ status = [c \in Clients |-> "HANDSHAKE"]
  /\ stopped = [c \in Clients |-> FALSE]
  /\ unit = [u \in Units |-> NoUnit]
  /\ publisher = [s \in Streams |-> Nobody]
  /\ players = [s \in Streams |-> [c \in Clients |-> 0]]
  /\ moved = {}
  /\ avc = [s \in Streams |-> NoHeaders]
  /\ relays = [c \in Clients |-> <<>>]
  /\ versions = 0
  /\ made = [u \in Units |-> NoHeaders]
  /\ shown = [u \in Units |-> NoHeaders]
  /\ skipped = [u \in Units |-> FALSE]

-----------------------------------------------------------------------------
(* Operations of the stream center *)

\* A handler that fails makes the dealer ask for the close of the connection
\* and drop its messages from then on.  Its units stay until the stop comes.
Fail(c) == stopped' = [stopped EXCEPT ![c] = TRUE]

\* Unit u takes another role, whatever it has: its stream is not told.
Leaves(u) ==
  /\ moved' = moved \cup (IF Active(u) THEN {<<u[1], unit[u].ctx>>} ELSE {})
  /\ Cardinality(moved') <= MaxMoves

\* regPlayer on a stream where the user does not play yet, then the headers the
\* stream has kept.
RegPlayer(u, s) ==
  /\ players' = [players EXCEPT ![s][u[1]] = u[2]]
  /\ unit' = [unit EXCEPT ![u] = [@ EXCEPT !.ctx = s, !.auth = "PLAYER"]]
  /\ Leaves(u)
  /\ shown' = [shown EXCEPT ![u] =
                 [t \in AvcTypes |-> IF avc[s][t] # 0 THEN avc[s][t] ELSE @[t]]]

\* Mutant: m_ctx of the unit is not set.
RegNowhere(u, s) ==
  /\ publisher' = [publisher EXCEPT ![s] = u]
  /\ unit' = [unit EXCEPT ![u] = [@ EXCEPT !.auth = "PUBLISHER"]]
  /\ Leaves(u)

\* regPublisher on a stream that has none.
RegPublisher(u, s) ==
  /\ publisher' = [publisher EXCEPT ![s] = u]
  /\ unit' = [unit EXCEPT ![u] = [@ EXCEPT !.ctx = s, !.auth = "PUBLISHER"]]
  /\ Leaves(u)

\* Mutant: unregPlayer and unregPublisher do not tell the stream.
StopQuietly(U) ==
  /\ unit' = [u \in Units |-> IF u \in U THEN NoUnit ELSE unit[u]]
  /\ UNCHANGED streams

\* stopUnit for each unit of U that exists: unregPlayer or unregPublisher, as
\* m_oper_auth says and on the stream m_ctx names, then the unit is freed.
StopUnits(U) ==
  LET leaves(u, s, auth) == unit[u].auth = auth /\ unit[u].ctx = s
  IN  /\ unit' = [u \in Units |-> IF u \in U THEN NoUnit ELSE unit[u]]
      /\ UNCHANGED moved
      /\ publisher' = [s \in Streams |->
           IF \E u \in U : leaves(u, s, "PUBLISHER") THEN Nobody ELSE publisher[s]]
      /\ players' = [s \in Streams |-> [c \in Clients |->
           IF \E u \in U : u[1] = c /\ leaves(u, s, "PLAYER") THEN 0 ELSE players[s][c]]]

\* Mutant: the first header of a stream is kept instead of the last.
CacheFirst(s, f) ==
  avc' = IF IsHeader(f) /\ avc[s][AvcType(f.kind)] = 0
         THEN [avc EXCEPT ![s][AvcType(f.kind)] = f.ver[AvcType(f.kind)]] ELSE avc

\* cacheAvc: the last sequence header or meta data of each type is kept.
CacheAvc(s, f) ==
  avc' = IF IsHeader(f) THEN [avc EXCEPT ![s][AvcType(f.kind)] = f.ver[AvcType(f.kind)]]
                        ELSE avc

\* The deal queues q after a frame of stream s was given to all of its players.
Given(q, s, f) ==
  [d \in Clients |-> IF players[s][d] = 0 THEN q[d]
                     ELSE Append(q[d], [sid |-> players[s][d], from |-> s, frame |-> f])]

\* The places taken in the deal queues q.
Waiting(q) == UNION {{d} \X DOMAIN q[d] : d \in Clients}

-----------------------------------------------------------------------------
(* Frames *)

\* RtmpHandler::play: a player that pauses goes on until the next key frame,
\* and one that resumes starts again with one.  (A player that sends a header
\* has it back; shown takes no account of that.)
Sends(u, f) == IF IsKey(f) THEN ~unit[u].paused ELSE ~unit[u].blocked

Play(u, f, q) ==
  /\ unit[u].auth = "PLAYER"
  /\ unit' = [unit EXCEPT ![u].blocked = IF IsKey(f) THEN unit[u].paused ELSE @]
  /\ shown' = IF Sends(u, f) /\ IsHeader(f) /\ f.ver[AvcType(f.kind)] # 0
              THEN [shown EXCEPT ![u][AvcType(f.kind)] = f.ver[AvcType(f.kind)]]
              ELSE shown
  /\ skipped' = [skipped EXCEPT ![u] = ~Sends(u, f) \/ (@ /\ ~IsKey(f))]
  /\ relays' = q
  /\ UNCHANGED <<stopped, avc>>

\* RtmpHandler::publish
Publish(u, f, q) ==
  /\ unit[u].auth = "PUBLISHER"
  /\ CacheAvc(unit[u].ctx, f)
  /\ relays' = IF unit[u].blocked THEN q ELSE Given(q, unit[u].ctx, f)
  /\ Cardinality(Waiting(relays')) <= MaxRelays
  /\ UNCHANGED <<stopped, unit, shown, skipped>>

NoFlv(c, u, q) ==
  /\ ~Active(u)
  /\ Fail(c)
  /\ relays' = q
  /\ UNCHANGED <<unit, avc, shown, skipped>>

\* A frame, from the peer or relayed, meets whatever unit has its sid now.
DealFlvData(c, i, f, q) ==
  /\ \/ Play(<<c, i>>, f, q)
     \/ Publish(<<c, i>>, f, q)
     \/ NoFlv(c, <<c, i>>, q)
  /\ UNCHANGED <<status, streams>>

\* A frame of the peer.  A header it publishes is a new version.
DealFrame(c, i, k) ==
  LET u == <<c, i>>
      new == k \in HeaderKinds /\ unit[u].auth = "PUBLISHER"
      ver == IF new THEN [made[u] EXCEPT ![AvcType(k)] = versions + 1] ELSE made[u]
  IN  /\ ~stopped[c]
      /\ versions' = IF new THEN versions + 1 ELSE versions
      /\ versions' <= MaxVersion
      /\ made' = [made EXCEPT ![u] = ver]
      /\ DealFlvData(c, i, Frame(k, ver), relays)

\* A frame relayed to the connection; once dealing has stopped it is dropped.
DealRelay(c) ==
  /\ relays[c] # <<>>
  /\ UNCHANGED <<versions, made>>
  /\ LET r == Head(relays[c])
         q == [relays EXCEPT ![c] = Tail(@)]
     IN  \/ ~stopped[c] /\ DealFlvData(c, r.sid, r.frame, q)
         \/ /\ stopped[c]
            /\ relays' = q
            /\ UNCHANGED <<session, unit, streams, avc, shown, skipped>>

-----------------------------------------------------------------------------
(* Commands *)

Asks(c, cmd) == cmd \in Commands /\ ~stopped[c]

DealConn(c) ==
  /\ Asks(c, "connect")
  /\ \/ /\ status[c] = "HANDSHAKE"
        /\ status' = [status EXCEPT ![c] = "CONNECTED"]
        /\ UNCHANGED stopped
     \/ /\ status[c] # "HANDSHAKE"
        /\ Fail(c)
        /\ UNCHANGED status
  /\ UNCHANGED <<unit, streams, avc, relays, history>>

FreeSids(c) == {i \in Sids : ~Exists(<<c, i>>)}

\* The lowest free sid is taken.
DealCreatStream(c) ==
  /\ Asks(c, "createStream")
  /\ \/ /\ status[c] = "CONNECTED"
        /\ \E i \in FreeSids(c) :
             /\ \A j \in FreeSids(c) : i <= j
             /\ unit' = [unit EXCEPT ![<<c, i>>] = NewUnit]
             /\ made' = [made EXCEPT ![<<c, i>>] = NoHeaders]
             /\ shown' = [shown EXCEPT ![<<c, i>>] = NoHeaders]
             /\ skipped' = [skipped EXCEPT ![<<c, i>>] = FALSE]
        /\ UNCHANGED stopped
     \/ /\ status[c] # "CONNECTED" \/ FreeSids(c) = {}
        /\ Fail(c)
        /\ UNCHANGED <<unit, made, shown, skipped>>
  /\ UNCHANGED <<status, streams, avc, relays, versions>>

\* play, publish and pause with a sid that has no unit end the process: the log
\* of their failure reads the name of the unit through the null pointer.  The
\* behaviour stops there, so the unit exists in the steps below.  Nothing else
\* is asked of it: it may play or publish already (isAvcSid).

DealPlay(c, i, s) ==
  LET u == <<c, i>>
  IN  /\ Asks(c, "play")
      /\ Exists(u)
      /\ \/ players[s][c] = 0 /\ RegPlayer(u, s) /\ UNCHANGED stopped
         \/ players[s][c] # 0 /\ Fail(c) /\ UNCHANGED <<players, moved, unit, shown>>
      /\ UNCHANGED <<status, publisher, avc, relays, versions, made, skipped>>

\* Mutant: the stream may have a publisher already.
PublishOver(c, i, s) ==
  LET u == <<c, i>>
  IN  /\ Asks(c, "publish")
      /\ Exists(u)
      /\ RegPublisher(u, s)
      /\ UNCHANGED <<session, players, avc, relays, history>>

DealPublish(c, i, s) ==
  LET u == <<c, i>>
  IN  /\ Asks(c, "publish")
      /\ Exists(u)
      /\ \/ publisher[s] = Nobody /\ RegPublisher(u, s) /\ UNCHANGED stopped
         \/ publisher[s] # Nobody /\ Fail(c) /\ UNCHANGED <<publisher, moved, unit>>
      /\ UNCHANGED <<status, players, avc, relays, history>>

\* Mutant: resuming clears m_blocked at once instead of at the next key frame.
ResumeAtOnce(c, i, pause) ==
  LET u == <<c, i>>
  IN  /\ Asks(c, "pause")
      /\ Exists(u)
      /\ unit' = [unit EXCEPT ![u].paused = pause, ![u].blocked = pause /\ @]
      /\ UNCHANGED <<session, streams, avc, relays, history>>

DealPause(c, i, pause) ==
  LET u == <<c, i>>
  IN  /\ Asks(c, "pause")
      /\ Exists(u)
      /\ unit' = [unit EXCEPT ![u].paused = pause]
      /\ UNCHANGED <<session, streams, avc, relays, history>>

\* The players are told that the stream has ended, by whoever says so.
DealFCUnpublish(c, s) ==
  /\ Asks(c, "FCUnpublish")
  /\ avc' = [avc EXCEPT ![s] = NoHeaders]
  /\ UNCHANGED <<session, unit, streams, relays, history>>

\* Any peer may take a stream from its publisher: stopPublisher.
DealReleaseStream(c, s) ==
  /\ Asks(c, "releaseStream")
  /\ publisher[s] # Nobody
  /\ StopUnits({publisher[s]})
  /\ UNCHANGED <<session, avc, relays, history>>

DealDelStream(c, i) ==
  /\ Asks(c, "deleteStream")
  /\ Exists(<<c, i>>)
  /\ StopUnits({<<c, i>>})
  /\ UNCHANGED <<session, avc, relays, history>>

\* A command that cannot be decoded or lacks an argument it can do without in
\* the log of its failure.
DealBadInvoke(c) ==
  /\ Asks(c, "bad")
  /\ Fail(c)
  /\ UNCHANGED <<status, unit, streams, avc, relays, history>>

\* Mutant: closeRtmp misses the last unit.
CloseButLast(c) ==
  /\ status[c] # "CLOSED"
  /\ stopped' = [stopped EXCEPT ![c] = TRUE]
  /\ status' = [status EXCEPT ![c] = "CLOSED"]
  /\ StopUnits({c} \X (Sids \ {MaxSid}))
  /\ UNCHANGED <<avc, relays, history>>

\* The stop of the close protocol: procStopCmd and closeRtmp.
Close(c) ==
  /\ status[c] # "CLOSED"
  /\ stopped' = [stopped EXCEPT ![c] = TRUE]
  /\ status' = [status EXCEPT ![c] = "CLOSED"]
  /\ StopUnits({c} \X Sids)
  /\ UNCHANGED <<avc, relays, history>>

Next ==
  \E c \in Clients :
    \/ DealConn(c)
    \/ DealCreatStream(c)
    \/ DealBadInvoke(c)
    \/ DealRelay(c)
    \/ Close(c)
    \/ \E s \in Streams : DealFCUnpublish(c, s) \/ DealReleaseStream(c, s)
    \/ \E i \in Sids :
         \/ DealDelStream(c, i)
         \/ \E pause \in BOOLEAN : DealPause(c, i, pause)
         \/ \E s \in Streams : DealPlay(c, i, s) \/ DealPublish(c, i, s)
         \/ \E k \in Kinds : DealFrame(c, i, k)

Spec == Init /\ [][Next]_vars

-----------------------------------------------------------------------------
(* Properties *)

Opers == {"NONE", "NULL", "PLAYER", "PUBLISHER"}
Headers == [AvcTypes -> Nat]
Relays == [sid : Sids, from : Streams, frame : [kind : FrameKinds, ver : Headers]]

\* The types of the variables; m_ctx of a unit that plays or publishes is not
\* NULL (publish and sendFlv follow it without a check).
TypeOK ==
  /\ status \in [Clients -> {"HANDSHAKE", "CONNECTED", "CLOSED"}]
  /\ stopped \in [Clients -> BOOLEAN]
  /\ unit \in [Units -> [ctx : Streams \cup {NoStream}, auth : Opers,
                         blocked : BOOLEAN, paused : BOOLEAN]]
  /\ \A u \in Units : Active(u) => unit[u].ctx \in Streams
  /\ publisher \in [Streams -> Units \cup {Nobody}]
  /\ players \in [Streams -> [Clients -> Sids \cup {0}]]
  /\ moved \subseteq Clients \X Streams
  /\ avc \in [Streams -> Headers]
  /\ relays \in [Clients -> Seq(Relays)]
  /\ versions \in Nat
  /\ made \in [Units -> Headers]
  /\ shown \in [Units -> Headers]
  /\ skipped \in [Units -> BOOLEAN]

\* The publisher a stream names is a unit that exists and publishes on that
\* stream (stopPublisher and the relay follow m_publisher without a check),
\* unless a unit of that connection has left the stream for another role.
StreamsNamePublishers ==
  \A s \in Streams : publisher[s] # Nobody /\ <<publisher[s][1], s>> \notin moved =>
    unit[publisher[s]].auth = "PUBLISHER" /\ unit[publisher[s]].ctx = s

\* The players a stream names are units that exist and play that stream
\* (publish, publishFC and unpublishFC walk m_players without a check), but for
\* those of connections with a unit that has left the stream for another role.
StreamsNamePlayers ==
  \A s \in Streams, c \in Clients : players[s][c] # 0 /\ <<c, s>> \notin moved =>
    LET u == <<c, players[s][c]>> IN unit[u].auth = "PLAYER" /\ unit[u].ctx = s

\* "stop the stream": a unit that has been stopped, and freed, is not in the list
\* of players any stream relays its frames to.
StoppedIsNotPlayedTo ==
  \A s \in Streams, c \in Clients : players[s][c] # 0 => Exists(<<c, players[s][c]>>)

\* The other way round, and whatever roles a unit has had before: the stream a
\* unit plays or publishes on names it, so that a unit that is stopped is taken
\* from its stream, and no two units publish on one stream; a unit that does
\* neither has no stream.
UnitsAreNamed ==
  \A u \in Units :
    /\ unit[u].auth = "PLAYER" =>
         unit[u].ctx \in Streams /\ players[unit[u].ctx][u[1]] = u[2]
    /\ unit[u].auth = "PUBLISHER" =>
         unit[u].ctx \in Streams /\ publisher[unit[u].ctx] = u
    /\ ~Active(u) => unit[u].ctx = NoStream

\* Once onClose has been called for a connection, no unit of it is left, and the
\* only streams that name one are those a unit has left for another role: its
\* memory is about to be freed by other threads.
ClosedIsForgotten ==
  \A c \in Clients : status[c] = "CLOSED" =>
    /\ \A i \in Sids : ~Exists(<<c, i>>)
    /\ \A s \in Streams : <<c, s>> \notin moved =>
         players[s][c] = 0 /\ \A i \in Sids : publisher[s] # <<c, i>>

\* No unit of connection c has left a stream by taking another role.
Settled(c) == \A s \in Streams : <<c, s>> \notin moved

\* Nothing is relayed to a connection once onClose has been called for it, if its
\* units have kept their roles.  NodeLife relies on this: its dealer sends and
\* relays to no connection closed to it (Reachable).
NoRelayAfterClose ==
  [][\A c \in Clients : status[c] = "CLOSED" /\ Settled(c) =>
       Len(relays'[c]) <= Len(relays[c])]_vars

\* The frame at the head of the deal queue of c is going to be sent to unit u.
AboutToSend(c, u, f) ==
  /\ ~stopped[c]
  /\ relays[c] # <<>>
  /\ u = <<c, Head(relays[c]).sid>>
  /\ f = Head(relays[c]).frame
  /\ unit[u].auth = "PLAYER"
  /\ Sends(u, f)

\* A player is sent no frame before the headers it was published under, whether
\* it joined before or after they were sent: the copy of the stream and the
\* relayed ones come in the right order.  (For players that do not pause, keep
\* their units, and streams whose end is not announced while they go on; and
\* while no unit has left a stream for another role.)
HeaderFirst ==
  moved = {} => \A c \in Clients : relays[c] # <<>> =>
    LET r == Head(relays[c])
        u == <<c, r.sid>>
    IN  AboutToSend(c, u, r.frame) /\ ~IsHeader(r.frame) =>
          \A t \in AvcTypes : r.frame.ver[t] # 0 => shown[u][t] = r.frame.ver[t]

\* However a player pauses and resumes: after frames it has not been sent, the
\* next one it is sent is a key frame.
SkipsToKeyFrame ==
  \A c \in Clients : relays[c] # <<>> =>
    LET r == Head(relays[c])
        u == <<c, r.sid>>
    IN  AboutToSend(c, u, r.frame) /\ ~IsKey(r.frame) => ~skipped[u]
=============================================================================
