------------------------- MODULE StreamCenterProofs -------------------------
(***************************************************************************)
(* The references between streams and units are sound, for any connections,*)
(* streams and number of units, whatever the peers ask, but for the streams*)
(* a unit has left by playing or publishing again (moved); players get key *)
(* frames and headers when they must.                                      *)
(***************************************************************************)
EXTENDS StreamCenter, SequenceTheorems, TLAPS

UnitType == [ctx : Streams \cup {NoStream}, auth : Opers,
             blocked : BOOLEAN, paused : BOOLEAN]

\* The part of TypeOK the references need.
RefTypes ==
  /\ status \in [Clients -> {"HANDSHAKE", "CONNECTED", "CLOSED"}]
  /\ unit \in [Units -> UnitType]
  /\ publisher \in [Streams -> Units \cup {Nobody}]
  /\ players \in [Streams -> [Clients -> Sids \cup {0}]]

References == StreamsNamePublishers /\ StreamsNamePlayers /\ UnitsAreNamed

ClosedHasNoUnit ==
  \A c \in Clients, i \in Sids : status[c] = "CLOSED" => ~Exists(<<c, i>>)

\* The step closes no connection.
NoneCloses == \A c \in Clients : status'[c] = "CLOSED" => status[c] = "CLOSED"

\* The inductive invariant.  None of the three parts of References is inductive
\* alone: that a stream may forget the unit being stopped needs UnitsAreNamed,
\* that a unit being freed is named by no other stream needs the other two.
RefInv == RefTypes /\ References /\ ClosedHasNoUnit

\* Units and sids: 0 names no unit.
LEMMA UnitFacts ==
  /\ \A c \in Clients, i \in Sids :
       <<c, i>> \in Units /\ <<c, i>>[1] = c /\ <<c, i>>[2] = i
  /\ \A u \in Units : u[1] \in Clients /\ u[2] \in Sids /\ u = <<u[1], u[2]>>
  /\ 0 \notin Sids
  BY DEF Units, Sids

\* Stopping units takes them from their streams and frees them.
LEMMA StopUnitsOK ==
  ASSUME RefTypes, References, NEW U \in SUBSET Units, StopUnits(U)
  PROVE  /\ unit' \in [Units -> UnitType]
         /\ publisher' \in [Streams -> Units \cup {Nobody}]
         /\ players' \in [Streams -> [Clients -> Sids \cup {0}]]
         /\ References'
         /\ \A u \in Units : unit'[u] = IF u \in U THEN NoUnit ELSE unit[u]
<1> USE UnitFacts, StreamAssumption
<1>0. moved' = moved
  BY DEF StopUnits
<1>1. unit' = [u \in Units |-> IF u \in U THEN NoUnit ELSE unit[u]]
  BY DEF StopUnits
<1>2. NoUnit \in UnitType /\ NoUnit.ctx = NoStream /\ NoUnit.auth = "NONE"
  BY DEF NoUnit, UnitType, Opers
<1>3. unit' \in [Units -> UnitType]
  BY <1>1, <1>2 DEF RefTypes
<1>4. \A u \in Units : unit'[u] = IF u \in U THEN NoUnit ELSE unit[u]
  BY <1>1
<1>5. /\ publisher' \in [Streams -> Units \cup {Nobody}]
      /\ \A s \in Streams : publisher'[s] =
           IF \E u \in U : unit[u].auth = "PUBLISHER" /\ unit[u].ctx = s
           THEN Nobody ELSE publisher[s]
  BY DEF StopUnits, RefTypes
<1>6. /\ players' \in [Streams -> [Clients -> Sids \cup {0}]]
      /\ \A s \in Streams, c \in Clients : players'[s][c] =
           IF \E u \in U : u[1] = c /\ unit[u].auth = "PLAYER" /\ unit[u].ctx = s
           THEN 0 ELSE players[s][c]
  BY DEF StopUnits, RefTypes
<1>7. StreamsNamePublishers'
  <2> SUFFICES ASSUME NEW s \in Streams, publisher'[s] # Nobody,
                      <<publisher'[s][1], s>> \notin moved
               PROVE  unit'[publisher'[s]].auth = "PUBLISHER" /\ unit'[publisher'[s]].ctx = s
    BY <1>0 DEF StreamsNamePublishers
  <2>1. publisher'[s] = publisher[s] /\ publisher[s] \in Units
    BY <1>5 DEF RefTypes
  <2>2. unit[publisher[s]].auth = "PUBLISHER" /\ unit[publisher[s]].ctx = s
    BY <2>1 DEF References, StreamsNamePublishers
  <2>3. publisher[s] \notin U
    BY <1>5, <2>1, <2>2
  <2> QED
    BY <1>4, <2>1, <2>2, <2>3
<1>8. StreamsNamePlayers'
  <2> SUFFICES ASSUME NEW s \in Streams, NEW c \in Clients, players'[s][c] # 0,
                      <<c, s>> \notin moved
               PROVE  /\ unit'[<<c, players'[s][c]>>].auth = "PLAYER"
                      /\ unit'[<<c, players'[s][c]>>].ctx = s
    BY <1>0 DEF StreamsNamePlayers
  <2> DEFINE v == <<c, players[s][c]>>
  <2>1. players'[s][c] = players[s][c] /\ players[s][c] \in Sids
    BY <1>6 DEF RefTypes
  <2>2. v \in Units /\ v[1] = c /\ unit[v].auth = "PLAYER" /\ unit[v].ctx = s
    BY <2>1 DEF References, StreamsNamePlayers
  <2>3. v \notin U
    BY <1>6, <2>1, <2>2
  <2> QED
    BY <1>4, <2>1, <2>2, <2>3
<1>9. UnitsAreNamed'
  <2> SUFFICES ASSUME NEW u \in Units
               PROVE  /\ unit'[u].auth = "PLAYER" =>
                           unit'[u].ctx \in Streams /\ players'[unit'[u].ctx][u[1]] = u[2]
                      /\ unit'[u].auth = "PUBLISHER" =>
                           unit'[u].ctx \in Streams /\ publisher'[unit'[u].ctx] = u
                      /\ ~Active(u)' => unit'[u].ctx = NoStream
    BY DEF UnitsAreNamed
  <2>1. CASE u \in U
    BY <1>2, <1>4, <2>1 DEF Active
  <2>2. CASE u \notin U
    <3>1. unit'[u] = unit[u]
      BY <1>4, <2>2
    <3>2. ASSUME unit[u].auth = "PLAYER"
          PROVE  unit[u].ctx \in Streams /\ players'[unit[u].ctx][u[1]] = u[2]
      <4>1. unit[u].ctx \in Streams /\ players[unit[u].ctx][u[1]] = u[2]
        BY <3>2 DEF References, UnitsAreNamed
      <4>2. ASSUME NEW w \in U, w[1] = u[1], unit[w].auth = "PLAYER",
                   unit[w].ctx = unit[u].ctx
            PROVE  FALSE
        <5>1. players[unit[u].ctx][u[1]] = w[2]
          BY <4>2 DEF References, UnitsAreNamed
        <5>2. u = <<u[1], u[2]>> /\ w = <<w[1], w[2]>>
          OBVIOUS
        <5>3. w = u
          BY <4>1, <4>2, <5>1, <5>2
        <5> QED
          BY <5>3, <2>2
      <4> QED
        BY <1>6, <4>1, <4>2
    <3>3. ASSUME unit[u].auth = "PUBLISHER"
          PROVE  unit[u].ctx \in Streams /\ publisher'[unit[u].ctx] = u
      <4>1. unit[u].ctx \in Streams /\ publisher[unit[u].ctx] = u
        BY <3>3 DEF References, UnitsAreNamed
      <4>2. ASSUME NEW w \in U, unit[w].auth = "PUBLISHER", unit[w].ctx = unit[u].ctx
            PROVE  FALSE
        BY <4>1, <4>2, <2>2 DEF References, UnitsAreNamed
      <4> QED
        BY <1>5, <4>1, <4>2
    <3>4. ~Active(u) => unit[u].ctx = NoStream
      BY DEF References, UnitsAreNamed
    <3> QED
      BY <3>1, <3>2, <3>3, <3>4 DEF Active
  <2> QED
    BY <2>1, <2>2
<1> QED
  BY <1>3, <1>4, <1>5, <1>6, <1>7, <1>8, <1>9 DEF References

\* A unit that becomes the player of a stream its user does not play.
LEMMA RegPlayerOK ==
  ASSUME RefTypes, References, NEW u \in Units, NEW s \in Streams,
         Exists(u), players[s][u[1]] = 0,
         RegPlayer(u, s), UNCHANGED publisher
  PROVE  unit' \in [Units -> UnitType]
         /\ players' \in [Streams -> [Clients -> Sids \cup {0}]]
         /\ References'
         /\ \A v \in Units \ {u} : unit'[v] = unit[v]
<1> USE UnitFacts, StreamAssumption
<1> DEFINE new == [unit[u] EXCEPT !.ctx = s, !.auth = "PLAYER"]
<1>1. /\ unit' = [unit EXCEPT ![u] = new]
      /\ players' = [players EXCEPT ![s][u[1]] = u[2]]
  BY DEF RegPlayer
<1>2. /\ unit' \in [Units -> UnitType]
      /\ unit'[u].ctx = s
      /\ unit'[u].auth = "PLAYER"
      /\ \A v \in Units \ {u} : unit'[v] = unit[v]
  <2>1. unit \in [Units -> UnitType] /\ unit[u] \in UnitType
    BY DEF RefTypes
  <2>2. new \in UnitType /\ new.ctx = s /\ new.auth = "PLAYER"
    BY <2>1 DEF UnitType, Opers
  <2> HIDE DEF new
  <2> QED
    BY <1>1, <2>1, <2>2
<1>3. /\ players' \in [Streams -> [Clients -> Sids \cup {0}]]
      /\ \A r \in Streams, c \in Clients :
           players'[r][c] = IF r = s /\ c = u[1] THEN u[2] ELSE players[r][c]
  BY <1>1 DEF RefTypes
<1>m. /\ moved \subseteq moved'
      /\ Active(u) => <<u[1], unit[u].ctx>> \in moved'
  BY DEF RegPlayer, Leaves
<1>4. StreamsNamePublishers'
  <2> SUFFICES ASSUME NEW r \in Streams, publisher[r] # Nobody,
                      <<publisher[r][1], r>> \notin moved'
               PROVE  unit'[publisher[r]].auth = "PUBLISHER" /\ unit'[publisher[r]].ctx = r
    BY DEF StreamsNamePublishers
  <2>1. publisher[r] \in Units /\ unit[publisher[r]].auth = "PUBLISHER"
        /\ unit[publisher[r]].ctx = r
    BY <1>m DEF References, StreamsNamePublishers, RefTypes
  <2>2. publisher[r] # u
    BY <1>m, <2>1 DEF Active
  <2> QED
    BY <1>2, <2>1, <2>2
<1>5. StreamsNamePlayers'
  <2> SUFFICES ASSUME NEW r \in Streams, NEW c \in Clients, players'[r][c] # 0,
                      <<c, r>> \notin moved'
               PROVE  /\ unit'[<<c, players'[r][c]>>].auth = "PLAYER"
                      /\ unit'[<<c, players'[r][c]>>].ctx = r
    BY DEF StreamsNamePlayers
  <2>1. CASE r = s /\ c = u[1]
    <3>1. <<c, players'[r][c]>> = u
      BY <1>3, <2>1
    <3> QED
      BY <1>2, <2>1, <3>1
  <2>2. CASE ~(r = s /\ c = u[1])
    <3>1. players'[r][c] = players[r][c] /\ players[r][c] \in Sids
      BY <1>3, <2>2 DEF RefTypes
    <3>2. <<c, players[r][c]>> \in Units /\ unit[<<c, players[r][c]>>].auth = "PLAYER"
          /\ unit[<<c, players[r][c]>>].ctx = r
      BY <1>m, <3>1 DEF References, StreamsNamePlayers
    <3>3. <<c, players[r][c]>> # u
      BY <1>m, <3>2 DEF Active
    <3> QED
      BY <1>2, <3>1, <3>2, <3>3
  <2> QED
    BY <2>1, <2>2
<1>6. UnitsAreNamed'
  <2> SUFFICES ASSUME NEW v \in Units
               PROVE  /\ unit'[v].auth = "PLAYER" =>
                           unit'[v].ctx \in Streams /\ players'[unit'[v].ctx][v[1]] = v[2]
                      /\ unit'[v].auth = "PUBLISHER" =>
                           unit'[v].ctx \in Streams /\ publisher[unit'[v].ctx] = v
                      /\ ~Active(v)' => unit'[v].ctx = NoStream
    BY DEF UnitsAreNamed
  <2>1. CASE v = u
    BY <1>2, <1>3, <2>1 DEF Active
  <2>2. CASE v # u
    <3>1. unit'[v] = unit[v]
      BY <1>2, <2>2
    <3>2. ASSUME unit[v].auth = "PLAYER"
          PROVE  unit[v].ctx \in Streams /\ players'[unit[v].ctx][v[1]] = v[2]
      BY <1>3, <3>2 DEF References, UnitsAreNamed
    <3> QED
      BY <3>1, <3>2 DEF References, UnitsAreNamed, Active
  <2> QED
    BY <2>1, <2>2
<1> QED
  BY <1>2, <1>3, <1>4, <1>5, <1>6 DEF References

\* A unit that becomes the publisher of a stream that has none.
LEMMA RegPublisherOK ==
  ASSUME RefTypes, References, NEW u \in Units, NEW s \in Streams,
         Exists(u), publisher[s] = Nobody,
         RegPublisher(u, s), UNCHANGED players
  PROVE  unit' \in [Units -> UnitType]
         /\ publisher' \in [Streams -> Units \cup {Nobody}]
         /\ References'
         /\ \A v \in Units \ {u} : unit'[v] = unit[v]
<1> USE UnitFacts, StreamAssumption
<1> DEFINE new == [unit[u] EXCEPT !.ctx = s, !.auth = "PUBLISHER"]
<1>1. /\ unit' = [unit EXCEPT ![u] = new]
      /\ publisher' = [publisher EXCEPT ![s] = u]
  BY DEF RegPublisher
<1>2. /\ unit' \in [Units -> UnitType]
      /\ unit'[u].ctx = s
      /\ unit'[u].auth = "PUBLISHER"
      /\ \A v \in Units \ {u} : unit'[v] = unit[v]
  <2>1. unit \in [Units -> UnitType] /\ unit[u] \in UnitType
    BY DEF RefTypes
  <2>2. new \in UnitType /\ new.ctx = s /\ new.auth = "PUBLISHER"
    BY <2>1 DEF UnitType, Opers
  <2> HIDE DEF new
  <2> QED
    BY <1>1, <2>1, <2>2
<1>3. /\ publisher' \in [Streams -> Units \cup {Nobody}]
      /\ \A r \in Streams : publisher'[r] = IF r = s THEN u ELSE publisher[r]
  BY <1>1 DEF RefTypes
<1>m. /\ moved \subseteq moved'
      /\ Active(u) => <<u[1], unit[u].ctx>> \in moved'
  BY DEF RegPublisher, Leaves
<1>4. StreamsNamePublishers'
  <2> SUFFICES ASSUME NEW r \in Streams, publisher'[r] # Nobody,
                      <<publisher'[r][1], r>> \notin moved'
               PROVE  unit'[publisher'[r]].auth = "PUBLISHER" /\ unit'[publisher'[r]].ctx = r
    BY DEF StreamsNamePublishers
  <2>1. CASE r = s
    BY <1>2, <1>3, <2>1
  <2>2. CASE r # s
    <3>1. publisher'[r] = publisher[r] /\ publisher[r] \in Units
      BY <1>3, <2>2 DEF RefTypes
    <3>2. unit[publisher[r]].auth = "PUBLISHER" /\ unit[publisher[r]].ctx = r
      BY <1>m, <3>1 DEF References, StreamsNamePublishers
    <3>3. publisher[r] # u
      BY <1>m, <3>1, <3>2 DEF Active
    <3> QED
      BY <1>2, <3>1, <3>2, <3>3
  <2> QED
    BY <2>1, <2>2
<1>5. StreamsNamePlayers'
  <2> SUFFICES ASSUME NEW r \in Streams, NEW c \in Clients, players[r][c] # 0,
                      <<c, r>> \notin moved'
               PROVE  /\ unit'[<<c, players[r][c]>>].auth = "PLAYER"
                      /\ unit'[<<c, players[r][c]>>].ctx = r
    BY DEF StreamsNamePlayers
  <2>1. players[r][c] \in Sids
    BY DEF RefTypes
  <2>2. <<c, players[r][c]>> \in Units /\ unit[<<c, players[r][c]>>].auth = "PLAYER"
        /\ unit[<<c, players[r][c]>>].ctx = r
    BY <1>m, <2>1 DEF References, StreamsNamePlayers
  <2>3. <<c, players[r][c]>> # u
    BY <1>m, <2>2 DEF Active
  <2> QED
    BY <1>2, <2>2, <2>3
<1>6. UnitsAreNamed'
  <2> SUFFICES ASSUME NEW v \in Units
               PROVE  /\ unit'[v].auth = "PLAYER" =>
                           unit'[v].ctx \in Streams /\ players[unit'[v].ctx][v[1]] = v[2]
                      /\ unit'[v].auth = "PUBLISHER" =>
                           unit'[v].ctx \in Streams /\ publisher'[unit'[v].ctx] = v
                      /\ ~Active(v)' => unit'[v].ctx = NoStream
    BY DEF UnitsAreNamed
  <2>1. CASE v = u
    BY <1>2, <1>3, <2>1 DEF Active
  <2>2. CASE v # u
    <3>1. unit'[v] = unit[v]
      BY <1>2, <2>2
    <3>2. ASSUME unit[v].auth = "PUBLISHER"
          PROVE  unit[v].ctx \in Streams /\ publisher'[unit[v].ctx] = v
      BY <1>3, <3>2 DEF References, UnitsAreNamed
    <3> QED
      BY <3>1, <3>2 DEF References, UnitsAreNamed, Active
  <2> QED
    BY <2>1, <2>2
<1> QED
  BY <1>2, <1>3, <1>4, <1>5, <1>6 DEF References

\* Steps that change neither what units do nor which stream they name.
LEMMA SameOpersOK ==
  ASSUME RefTypes, References, UNCHANGED streams, unit' \in [Units -> UnitType],
         \A u \in Units : /\ unit'[u].ctx = unit[u].ctx
                          /\ Active(u)' <=> Active(u)
                          /\ Active(u) => unit'[u].auth = unit[u].auth
  PROVE  References'
<1> USE UnitFacts, StreamAssumption
<1>1. publisher' = publisher /\ players' = players /\ moved' = moved
  BY DEF streams
<1>2. StreamsNamePublishers'
  <2> SUFFICES ASSUME NEW s \in Streams, publisher[s] # Nobody,
                      <<publisher[s][1], s>> \notin moved
               PROVE  unit'[publisher[s]].auth = "PUBLISHER" /\ unit'[publisher[s]].ctx = s
    BY <1>1 DEF StreamsNamePublishers
  <2>1. publisher[s] \in Units /\ unit[publisher[s]].auth = "PUBLISHER"
        /\ unit[publisher[s]].ctx = s
    BY DEF References, StreamsNamePublishers, RefTypes
  <2> QED
    BY <2>1 DEF Active
<1>3. StreamsNamePlayers'
  <2> SUFFICES ASSUME NEW s \in Streams, NEW c \in Clients, players[s][c] # 0,
                      <<c, s>> \notin moved
               PROVE  /\ unit'[<<c, players[s][c]>>].auth = "PLAYER"
                      /\ unit'[<<c, players[s][c]>>].ctx = s
    BY <1>1 DEF StreamsNamePlayers
  <2>1. players[s][c] \in Sids
    BY DEF RefTypes
  <2>2. <<c, players[s][c]>> \in Units /\ unit[<<c, players[s][c]>>].auth = "PLAYER"
        /\ unit[<<c, players[s][c]>>].ctx = s
    BY <2>1 DEF References, StreamsNamePlayers
  <2> QED
    BY <2>2 DEF Active
<1>4. UnitsAreNamed'
  BY <1>1 DEF References, UnitsAreNamed, Active
<1> QED
  BY <1>2, <1>3, <1>4 DEF References

-----------------------------------------------------------------------------
\* In the beginning no unit exists and no stream names one.
LEMMA RefInit == Init => RefInv
<1> SUFFICES ASSUME Init PROVE RefInv
  OBVIOUS
<1> USE UnitFacts, StreamAssumption
<1>1. NoUnit \in UnitType /\ NoUnit.ctx = NoStream /\ NoUnit.auth = "NONE"
  BY DEF NoUnit, UnitType, Opers
<1>2. \A u \in Units : unit[u] = NoUnit
  BY DEF Init
<1>3. RefTypes
  BY <1>1 DEF Init, RefTypes
<1>4. References
  BY <1>1, <1>2 DEF Init, References, StreamsNamePublishers, StreamsNamePlayers,
                    UnitsAreNamed, Active
<1>5. ClosedHasNoUnit
  BY <1>1, <1>2 DEF ClosedHasNoUnit, Exists
<1> QED
  BY <1>3, <1>4, <1>5 DEF RefInv

\* Steps that only change flags of units: the relay, the pause, the failures.
LEMMA FlagsOK ==
  ASSUME RefInv, NoneCloses, UNCHANGED streams,
         status' \in [Clients -> {"HANDSHAKE", "CONNECTED", "CLOSED"}],
         unit' \in [Units -> UnitType],
         \A u \in Units : /\ unit'[u].ctx = unit[u].ctx
                          /\ unit'[u].auth = unit[u].auth
  PROVE  RefInv'
<1> USE UnitFacts
<1>1. References'
  BY SameOpersOK DEF RefInv, Active
<1>2. RefTypes'
  BY DEF RefInv, RefTypes, streams
<1>3. ClosedHasNoUnit'
  BY DEF RefInv, ClosedHasNoUnit, Exists, NoneCloses
<1> QED
  BY <1>1, <1>2, <1>3 DEF RefInv

\* The same, for steps that leave the units alone.
LEMMA UnitsAloneOK ==
  ASSUME RefInv, UNCHANGED <<status, streams, unit>>
  PROVE  RefInv'
BY FlagsOK DEF RefInv, RefTypes, NoneCloses

\* Whatever unit a frame meets, no reference changes.
LEMMA DealFlvDataOK ==
  ASSUME RefInv, NEW c \in Clients, NEW i \in Sids, NEW f, NEW q, DealFlvData(c, i, f, q)
  PROVE  RefInv'
<1> USE UnitFacts
<1>1. UNCHANGED <<status, streams>> /\ NoneCloses
  BY DEF DealFlvData, NoneCloses
<1>2. CASE Play(<<c, i>>, f, q)
  <2> DEFINE u == <<c, i>>
             b == IF IsKey(f) THEN unit[u].paused ELSE unit[u].blocked
  <2>1. unit' = [unit EXCEPT ![u].blocked = b]
    BY <1>2 DEF Play
  <2>2. unit \in [Units -> UnitType] /\ u \in Units /\ b \in BOOLEAN
    BY DEF RefInv, RefTypes, UnitType
  <2>3. unit' \in [Units -> UnitType]
    BY <2>1, <2>2 DEF UnitType
  <2>4. \A v \in Units : unit'[v].ctx = unit[v].ctx /\ unit'[v].auth = unit[v].auth
    BY <2>1, <2>2 DEF UnitType
  <2> QED
    BY <1>1, <2>3, <2>4, FlagsOK DEF RefInv, RefTypes
<1>3. CASE Publish(<<c, i>>, f, q)
  BY <1>1, <1>3, UnitsAloneOK DEF Publish
<1>4. CASE NoFlv(c, <<c, i>>, q)
  BY <1>1, <1>4, UnitsAloneOK DEF NoFlv
<1> QED
  BY <1>2, <1>3, <1>4 DEF DealFlvData


\* play, whatever the unit does, on a stream where the user does not play.
LEMMA DealPlayOK ==
  ASSUME RefInv, NEW c \in Clients, NEW i \in Sids, NEW s \in Streams,
         DealPlay(c, i, s)
  PROVE  RefInv'
<1> USE UnitFacts
<1> DEFINE u == <<c, i>>
<1>1. u \in Units /\ u[1] = c /\ Exists(u) /\ status' = status /\ publisher' = publisher
  BY DEF DealPlay
<1>2. CASE players[s][c] = 0 /\ RegPlayer(u, s)
  <2>1. /\ unit' \in [Units -> UnitType]
        /\ players' \in [Streams -> [Clients -> Sids \cup {0}]]
        /\ References'
        /\ \A v \in Units \ {u} : unit'[v] = unit[v]
    BY <1>1, <1>2, RegPlayerOK DEF RefInv
  <2>2. RefTypes'
    BY <1>1, <2>1 DEF RefInv, RefTypes
  <2>3. ClosedHasNoUnit'
    BY <1>1, <2>1 DEF RefInv, ClosedHasNoUnit, Exists
  <2> QED
    BY <2>1, <2>2, <2>3 DEF RefInv
<1>3. CASE UNCHANGED <<players, moved, unit>>
  BY <1>1, <1>3, UnitsAloneOK DEF streams
<1> QED
  BY <1>2, <1>3 DEF DealPlay

\* publish, whatever the unit does, on a stream that has no publisher.
LEMMA DealPublishOK ==
  ASSUME RefInv, NEW c \in Clients, NEW i \in Sids, NEW s \in Streams,
         DealPublish(c, i, s)
  PROVE  RefInv'
<1> USE UnitFacts
<1> DEFINE u == <<c, i>>
<1>1. u \in Units /\ Exists(u) /\ status' = status /\ players' = players
  BY DEF DealPublish
<1>2. CASE publisher[s] = Nobody /\ RegPublisher(u, s)
  <2>1. /\ unit' \in [Units -> UnitType]
        /\ publisher' \in [Streams -> Units \cup {Nobody}]
        /\ References'
        /\ \A v \in Units \ {u} : unit'[v] = unit[v]
    BY <1>1, <1>2, RegPublisherOK DEF RefInv
  <2>2. RefTypes'
    BY <1>1, <2>1 DEF RefInv, RefTypes
  <2>3. ClosedHasNoUnit'
    BY <1>1, <2>1 DEF RefInv, ClosedHasNoUnit, Exists
  <2> QED
    BY <2>1, <2>2, <2>3 DEF RefInv
<1>3. CASE UNCHANGED <<publisher, moved, unit>>
  BY <1>1, <1>3, UnitsAloneOK DEF streams
<1> QED
  BY <1>2, <1>3 DEF DealPublish

\* createStream takes a free sid: the unit it makes has no stream, as before.
LEMMA DealCreatStreamOK ==
  ASSUME RefInv, NEW c \in Clients, DealCreatStream(c)
  PROVE  RefInv'
<1> USE UnitFacts
<1>1. UNCHANGED <<status, streams>>
  BY DEF DealCreatStream
<1>2. ASSUME NEW i \in FreeSids(c), status[c] = "CONNECTED", unit' = [unit EXCEPT ![<<c, i>>] = NewUnit]
      PROVE  RefInv'
  <2> DEFINE u == <<c, i>>
  <2>1. u \in Units /\ u[1] = c /\ ~Exists(u)
    BY <1>2 DEF FreeSids
  <2>2. NewUnit \in UnitType /\ NewUnit.ctx = NoStream /\ NewUnit.auth = "NULL"
    BY DEF NewUnit, NoUnit, UnitType, Opers
  <2>3. unit \in [Units -> UnitType]
    BY DEF RefInv, RefTypes
  <2> HIDE DEF u
  <2>4. /\ unit' \in [Units -> UnitType]
        /\ unit'[u] = NewUnit
        /\ \A v \in Units \ {u} : unit'[v] = unit[v]
    BY <1>2, <2>1, <2>2, <2>3 DEF u
  <2>5. unit[u].ctx = NoStream /\ ~Active(u)
    BY <2>1 DEF RefInv, References, UnitsAreNamed, Active, Exists
  <2>6. References'
    BY <1>1, <2>2, <2>4, <2>5, SameOpersOK DEF RefInv, Active
  <2>7. RefTypes'
    BY <1>1, <2>4 DEF RefInv, RefTypes, streams
  <2>8. ClosedHasNoUnit'
    BY <1>1, <1>2, <2>1, <2>4 DEF RefInv, ClosedHasNoUnit, Exists
  <2> QED
    BY <2>6, <2>7, <2>8 DEF RefInv
<1>3. CASE UNCHANGED unit
  BY <1>1, <1>3, UnitsAloneOK
<1> QED
  BY <1>2, <1>3 DEF DealCreatStream

\* pause and resume only change a flag.
LEMMA DealPauseOK ==
  ASSUME RefInv, NEW c \in Clients, NEW i \in Sids, NEW pause \in BOOLEAN,
         DealPause(c, i, pause)
  PROVE  RefInv'
<1> USE UnitFacts
<1> DEFINE u == <<c, i>>
<1>1. UNCHANGED <<status, streams>> /\ NoneCloses
  BY DEF DealPause, session, NoneCloses
<1>2. unit' = [unit EXCEPT ![u].paused = pause]
  BY DEF DealPause
<1>3. unit \in [Units -> UnitType] /\ u \in Units
  BY DEF RefInv, RefTypes
<1>4. unit' \in [Units -> UnitType]
  BY <1>2, <1>3 DEF UnitType
<1>5. \A v \in Units : unit'[v].ctx = unit[v].ctx /\ unit'[v].auth = unit[v].auth
  BY <1>2, <1>3 DEF UnitType
<1> QED
  BY <1>1, <1>4, <1>5, FlagsOK DEF RefInv, RefTypes

\* A command that stops some units.
LEMMA StopOK ==
  ASSUME RefInv, UNCHANGED status, NEW U \in SUBSET Units, StopUnits(U)
  PROVE  RefInv'
<1> USE UnitFacts
<1>1. /\ RefTypes' /\ References'
      /\ \A u \in Units : unit'[u] = IF u \in U THEN NoUnit ELSE unit[u]
  BY StopUnitsOK DEF RefInv, RefTypes
<1>2. ClosedHasNoUnit'
  BY <1>1 DEF RefInv, ClosedHasNoUnit, Exists, NoUnit
<1> QED
  BY <1>1, <1>2 DEF RefInv

\* closeRtmp leaves no unit of the connection, so that it may be marked closed.
LEMMA CloseOK ==
  ASSUME RefInv, NEW c \in Clients, Close(c)
  PROVE  RefInv'
<1> USE UnitFacts
<1> DEFINE U == {c} \X Sids
<1>1. U \in SUBSET Units /\ \A i \in Sids : <<c, i>> \in U
  BY DEF Units
<1>2. StopUnits(U) /\ status' = [status EXCEPT ![c] = "CLOSED"]
  BY DEF Close
<1>3. /\ unit' \in [Units -> UnitType]
      /\ publisher' \in [Streams -> Units \cup {Nobody}]
      /\ players' \in [Streams -> [Clients -> Sids \cup {0}]]
      /\ References'
      /\ \A u \in Units : unit'[u] = IF u \in U THEN NoUnit ELSE unit[u]
  <2> HIDE DEF U
  <2> QED
    BY <1>1, <1>2, StopUnitsOK DEF RefInv
<1>4. RefTypes'
  BY <1>2, <1>3 DEF RefInv, RefTypes
<1>5. ClosedHasNoUnit'
  <2> SUFFICES ASSUME NEW d \in Clients, NEW i \in Sids, status'[d] = "CLOSED"
               PROVE  ~Exists(<<d, i>>)'
    BY DEF ClosedHasNoUnit
  <2>1. CASE d = c
    BY <1>1, <1>3, <2>1 DEF Exists, NoUnit
  <2>2. CASE d # c
    <3>1. status[d] = "CLOSED"
      BY <1>2, <2>2 DEF RefInv, RefTypes
    <3> QED
      BY <1>3, <3>1 DEF RefInv, ClosedHasNoUnit, Exists, NoUnit
  <2> QED
    BY <2>1, <2>2
<1> QED
  BY <1>3, <1>4, <1>5 DEF RefInv

\* A relayed frame names a sid of the connection, whatever unit has it by now.
LEMMA DealRelayOK ==
  ASSUME RefInv, relays \in [Clients -> Seq(Relays)], NEW c \in Clients, DealRelay(c)
  PROVE  RefInv'
<1> DEFINE r == Head(relays[c])
           q == [relays EXCEPT ![c] = Tail(@)]
<1>1. r \in Relays
  BY HeadTailProperties DEF DealRelay
<1>2. CASE DealFlvData(c, r.sid, r.frame, q)
  BY <1>1, <1>2, DealFlvDataOK DEF Relays
<1>3. CASE UNCHANGED <<session, unit, streams>>
  BY <1>3, UnitsAloneOK DEF session
<1> QED
  BY <1>2, <1>3 DEF DealRelay

-----------------------------------------------------------------------------
(* Types *)

\* The headers of a unit or stream stay headers when one of them is replaced.
LEMMA HeaderTypes ==
  /\ NoHeaders \in Headers
  /\ \A k : AvcType(k) \in AvcTypes
  /\ \A h \in Headers, t \in AvcTypes, n \in Nat : [h EXCEPT ![t] = n] \in Headers
BY DEF NoHeaders, Headers, AvcType, AvcTypes

\* The variables have their types in the beginning.
LEMMA TypeInit == Init => TypeOK
<1> SUFFICES ASSUME Init PROVE TypeOK
  OBVIOUS
<1>1. NoUnit \in UnitType
  BY DEF NoUnit, UnitType, Opers
<1> QED
  BY <1>1, HeaderTypes DEF Init, TypeOK, UnitType, Active, NoUnit

\* Stopping units needs no more than their types.
LEMMA StopUnitsType ==
  ASSUME TypeOK, NEW U, StopUnits(U)
  PROVE  /\ unit' \in [Units -> UnitType]
         /\ publisher' \in [Streams -> Units \cup {Nobody}]
         /\ players' \in [Streams -> [Clients -> Sids \cup {0}]]
         /\ moved' \subseteq Clients \X Streams
         /\ \A v \in Units : Active(v)' => unit'[v].ctx \in Streams
<1>1. NoUnit \in UnitType /\ NoUnit.auth = "NONE"
  BY DEF NoUnit, UnitType, Opers
<1>2. \A u \in Units : unit'[u] = NoUnit \/ unit'[u] = unit[u]
  BY DEF StopUnits
<1>3. \A v \in Units : Active(v)' => unit'[v].ctx \in Streams
  BY <1>1, <1>2 DEF TypeOK, Active
<1> QED
  BY <1>1, <1>3 DEF StopUnits, TypeOK, UnitType

\* A frame, relayed or not, keeps the types of all it can change.
LEMMA DealFlvDataType ==
  ASSUME TypeOK, NEW c \in Clients, NEW i \in Sids, NEW q \in [Clients -> Seq(Relays)],
         NEW f \in [kind : FrameKinds, ver : Headers],
         DealFlvData(c, i, f, q)
  PROVE  /\ unit' \in [Units -> UnitType]
         /\ \A v \in Units : Active(v)' => unit'[v].ctx \in Streams
         /\ stopped' \in [Clients -> BOOLEAN]
         /\ avc' \in [Streams -> Headers]
         /\ relays' \in [Clients -> Seq(Relays)]
         /\ shown' \in [Units -> Headers]
         /\ skipped' \in [Units -> BOOLEAN]
<1> DEFINE u == <<c, i>>
           t == AvcType(f.kind)
<1>1. u \in Units /\ t \in AvcTypes /\ f.ver \in Headers /\ f.ver[t] \in Nat
  BY HeaderTypes DEF Units, Headers
<1>2. unit \in [Units -> UnitType] /\ unit[u] \in UnitType
  BY <1>1 DEF TypeOK, UnitType
<1>3. CASE Play(u, f, q)
  <2> DEFINE b == IF IsKey(f) THEN unit[u].paused ELSE unit[u].blocked
  <2>1. b \in BOOLEAN /\ unit' = [unit EXCEPT ![u].blocked = b]
    BY <1>2, <1>3 DEF Play, UnitType
  <2>2. unit' \in [Units -> UnitType]
    BY <1>1, <1>2, <2>1 DEF UnitType
  <2>7. \A v \in Units : unit'[v].ctx = unit[v].ctx /\ unit'[v].auth = unit[v].auth
    BY <1>1, <1>2, <2>1 DEF UnitType
  <2>8. \A v \in Units : Active(v)' => unit'[v].ctx \in Streams
    BY <2>7 DEF TypeOK, Active
  <2>3. [shown[u] EXCEPT ![t] = f.ver[t]] \in Headers
    BY <1>1, HeaderTypes DEF TypeOK
  <2>4. shown' = shown \/ shown' = [shown EXCEPT ![u] = [shown[u] EXCEPT ![t] = f.ver[t]]]
    BY <1>3 DEF Play
  <2>5. shown' \in [Units -> Headers]
    BY <1>1, <2>3, <2>4 DEF TypeOK
  <2>6. skipped' \in [Units -> BOOLEAN]
    BY <1>1, <1>3 DEF Play, TypeOK
  <2> QED
    BY <1>3, <2>2, <2>5, <2>6, <2>8 DEF Play, TypeOK
<1>4. CASE Publish(u, f, q)
  <2> DEFINE s == unit[u].ctx
  <2>1. CASE s \in Streams
    <3>1. [avc[s] EXCEPT ![t] = f.ver[t]] \in Headers
      BY <1>1, <2>1, HeaderTypes DEF TypeOK
    <3>2. avc' = avc \/ avc' = [avc EXCEPT ![s] = [avc[s] EXCEPT ![t] = f.ver[t]]]
      BY <1>4 DEF Publish, CacheAvc
    <3>3. avc' \in [Streams -> Headers]
      BY <2>1, <3>1, <3>2 DEF TypeOK
    <3>4. \A d \in Clients : players[s][d] \in Sids \cup {0}
      BY <2>1 DEF TypeOK
    <3>5. \A d \in Clients : players[s][d] # 0 =>
            [sid |-> players[s][d], from |-> s, frame |-> f] \in Relays
      BY <2>1, <3>4 DEF Relays
    <3>6. \A d \in Clients : players[s][d] # 0 =>
            Append(q[d], [sid |-> players[s][d], from |-> s, frame |-> f]) \in Seq(Relays)
      BY <3>5, AppendProperties
    <3>7. Given(q, s, f) \in [Clients -> Seq(Relays)]
      BY <3>6 DEF Given
    <3> QED
      BY <1>4, <3>3, <3>7 DEF Publish, TypeOK, UnitType, Active
  <2>2. s \in Streams
    BY <1>1, <1>4 DEF Publish, TypeOK, Active
  <2> QED
    BY <2>1, <2>2
<1>5. CASE NoFlv(c, u, q)
  BY <1>5 DEF NoFlv, Fail, TypeOK, UnitType, Active
<1> QED
  BY <1>3, <1>4, <1>5 DEF DealFlvData

\* Every step keeps the types.
LEMMA TypeNext == TypeOK /\ [Next]_vars => TypeOK'
<1> SUFFICES ASSUME TypeOK, [Next]_vars PROVE TypeOK'
  OBVIOUS
<1> USE UnitFacts
<1>0. unit \in [Units -> UnitType]
  BY DEF TypeOK, UnitType
<1>1. ASSUME NEW c \in Clients, DealConn(c) PROVE TypeOK'
  BY <1>1 DEF DealConn, Fail, TypeOK, history, streams, Active
<1>2. ASSUME NEW c \in Clients, DealCreatStream(c) PROVE TypeOK'
  <2>1. /\ UNCHANGED <<status, streams, avc, relays, versions>>
        /\ stopped' \in [Clients -> BOOLEAN]
    BY <1>2 DEF DealCreatStream, Fail, TypeOK
  <2>2. ASSUME NEW i \in FreeSids(c),
               unit' = [unit EXCEPT ![<<c, i>>] = NewUnit],
               made' = [made EXCEPT ![<<c, i>>] = NoHeaders],
               shown' = [shown EXCEPT ![<<c, i>>] = NoHeaders],
               skipped' = [skipped EXCEPT ![<<c, i>>] = FALSE]
        PROVE  TypeOK'
    <3>1. NewUnit \in UnitType /\ NewUnit.auth = "NULL" /\ <<c, i>> \in Units
      BY <2>2 DEF NewUnit, NoUnit, UnitType, Opers, FreeSids
    <3>2. unit' \in [Units -> UnitType]
      BY <1>0, <2>2, <3>1
    <3>3. \A v \in Units : Active(v)' => unit'[v].ctx \in Streams
      BY <1>0, <2>2, <3>1 DEF TypeOK, Active
    <3>4. made' \in [Units -> Headers] /\ shown' \in [Units -> Headers]
          /\ skipped' \in [Units -> BOOLEAN]
      BY <2>2, HeaderTypes DEF TypeOK
    <3> QED
      BY <2>1, <3>2, <3>3, <3>4 DEF TypeOK, streams, UnitType
  <2>3. CASE UNCHANGED <<unit, made, shown, skipped>>
    BY <2>1, <2>3 DEF TypeOK, streams, Active
  <2> QED
    BY <1>2, <2>2, <2>3 DEF DealCreatStream
<1>3. ASSUME NEW c \in Clients, DealBadInvoke(c) PROVE TypeOK'
  BY <1>3 DEF DealBadInvoke, Fail, TypeOK, history, streams, session, Active
<1>4. ASSUME NEW c \in Clients, DealRelay(c) PROVE TypeOK'
  <2> DEFINE r == Head(relays[c])
             q == [relays EXCEPT ![c] = Tail(@)]
  <2>1. r \in Relays /\ Tail(relays[c]) \in Seq(Relays)
    BY <1>4, HeadTailProperties DEF DealRelay, TypeOK
  <2>2. q \in [Clients -> Seq(Relays)]
    BY <2>1 DEF TypeOK
  <2>3. r.sid \in Sids /\ r.frame \in [kind : FrameKinds, ver : Headers]
    BY <2>1 DEF Relays
  <2>4. CASE DealFlvData(c, r.sid, r.frame, q)
    <3> HIDE DEF r, q
    <3>1. UNCHANGED <<versions, made, status, streams>>
      BY <1>4, <2>4 DEF DealRelay, DealFlvData
    <3> QED
      BY <2>2, <2>3, <2>4, <3>1, DealFlvDataType DEF TypeOK, streams, UnitType
  <2>5. CASE relays' = q /\ UNCHANGED <<session, unit, streams, avc, shown, skipped>>
    <3> HIDE DEF q
    <3> QED
      BY <1>4, <2>2, <2>5 DEF DealRelay, TypeOK, session, streams, Active
  <2> QED
    BY <1>4, <2>4, <2>5 DEF DealRelay
<1>5. ASSUME NEW c \in Clients, Close(c) PROVE TypeOK'
  <2>1. StopUnits({c} \X Sids)
    BY <1>5 DEF Close
  <2> QED
    BY <1>5, <2>1, StopUnitsType DEF Close, TypeOK, history, UnitType
<1>6. ASSUME NEW c \in Clients, NEW s \in Streams, DealFCUnpublish(c, s) PROVE TypeOK'
  <2>1. avc' \in [Streams -> Headers]
    BY <1>6, HeaderTypes DEF DealFCUnpublish, TypeOK
  <2> QED
    BY <1>6, <2>1 DEF DealFCUnpublish, TypeOK, history, streams, session, Active
<1>7. ASSUME NEW c \in Clients, NEW s \in Streams, DealReleaseStream(c, s) PROVE TypeOK'
  <2>1. StopUnits({publisher[s]})
    BY <1>7 DEF DealReleaseStream
  <2> QED
    BY <1>7, <2>1, StopUnitsType DEF DealReleaseStream, TypeOK, history, session, UnitType
<1>8. ASSUME NEW c \in Clients, NEW i \in Sids, DealDelStream(c, i) PROVE TypeOK'
  <2>1. StopUnits({<<c, i>>})
    BY <1>8 DEF DealDelStream
  <2> QED
    BY <1>8, <2>1, StopUnitsType DEF DealDelStream, TypeOK, history, session, UnitType
<1>9. ASSUME NEW c \in Clients, NEW i \in Sids, NEW pause \in BOOLEAN, DealPause(c, i, pause)
      PROVE  TypeOK'
  <2> DEFINE new == [unit[<<c, i>>] EXCEPT !.paused = pause]
  <2>0. new \in UnitType /\ new.ctx = unit[<<c, i>>].ctx /\ new.auth = unit[<<c, i>>].auth
    BY <1>0 DEF UnitType
  <2>1. unit' = [unit EXCEPT ![<<c, i>>] = new]
    BY <1>9 DEF DealPause
  <2> HIDE DEF new
  <2>2. unit' \in [Units -> UnitType]
    BY <1>0, <2>0, <2>1
  <2>3. \A v \in Units : unit'[v].ctx = unit[v].ctx /\ unit'[v].auth = unit[v].auth
    BY <1>0, <2>0, <2>1
  <2>4. \A v \in Units : Active(v)' => unit'[v].ctx \in Streams
    BY <2>3 DEF TypeOK, Active
  <2> QED
    BY <1>9, <2>2, <2>4 DEF DealPause, TypeOK, history, session, streams, UnitType
<1>10. ASSUME NEW c \in Clients, NEW i \in Sids, NEW s \in Streams, DealPlay(c, i, s)
       PROVE  TypeOK'
  <2> DEFINE u == <<c, i>>
             new == [unit[u] EXCEPT !.ctx = s, !.auth = "PLAYER"]
             h == [t \in AvcTypes |-> IF avc[s][t] # 0 THEN avc[s][t] ELSE shown[u][t]]
  <2>0. /\ UNCHANGED <<status, publisher, avc, relays, versions, made, skipped>>
        /\ stopped' \in [Clients -> BOOLEAN]
    BY <1>10 DEF DealPlay, Fail, TypeOK
  <2>1. CASE RegPlayer(u, s)
    <3>1. /\ unit' = [unit EXCEPT ![u] = new]
          /\ players' = [players EXCEPT ![s][u[1]] = u[2]]
          /\ shown' = [shown EXCEPT ![u] = h]
      BY <2>1 DEF RegPlayer
    <3>2. u \in Units /\ u[1] = c /\ u[2] = i /\ unit[u] \in UnitType
      BY <1>0
    <3>3. new \in UnitType /\ new.ctx = s
      BY <3>2 DEF UnitType, Opers
    <3>4. h \in Headers
      BY <3>2 DEF TypeOK, Headers
    <3>8. moved' \subseteq Clients \X Streams
      BY <2>1, <3>2 DEF RegPlayer, Leaves, TypeOK
    <3> HIDE DEF u, new, h
    <3>5. unit' \in [Units -> UnitType] /\ shown' \in [Units -> Headers]
      BY <1>0, <3>1, <3>2, <3>3, <3>4 DEF TypeOK
    <3>6. \A v \in Units : Active(v)' => unit'[v].ctx \in Streams
      BY <1>0, <3>1, <3>2, <3>3 DEF TypeOK, Active
    <3>7. players' \in [Streams -> [Clients -> Sids \cup {0}]]
      BY <3>1, <3>2 DEF TypeOK
    <3> QED
      BY <2>0, <3>5, <3>6, <3>7, <3>8 DEF TypeOK, UnitType
  <2>2. CASE UNCHANGED <<players, moved, unit, shown>>
    BY <2>0, <2>2 DEF TypeOK, Active
  <2> QED
    BY <1>10, <2>1, <2>2 DEF DealPlay
<1>11. ASSUME NEW c \in Clients, NEW i \in Sids, NEW s \in Streams, DealPublish(c, i, s)
       PROVE  TypeOK'
  <2> DEFINE u == <<c, i>>
             new == [unit[u] EXCEPT !.ctx = s, !.auth = "PUBLISHER"]
  <2>0. /\ UNCHANGED <<status, players, avc, relays, history>>
        /\ stopped' \in [Clients -> BOOLEAN]
    BY <1>11 DEF DealPublish, Fail, TypeOK
  <2>1. CASE RegPublisher(u, s)
    <3>1. unit' = [unit EXCEPT ![u] = new] /\ publisher' = [publisher EXCEPT ![s] = u]
      BY <2>1 DEF RegPublisher
    <3>2. u \in Units /\ unit[u] \in UnitType
      BY <1>0
    <3>3. new \in UnitType /\ new.ctx = s
      BY <3>2 DEF UnitType, Opers
    <3>6. moved' \subseteq Clients \X Streams
      BY <2>1, <3>2 DEF RegPublisher, Leaves, TypeOK
    <3> HIDE DEF u, new
    <3>4. unit' \in [Units -> UnitType] /\ publisher' \in [Streams -> Units \cup {Nobody}]
      BY <1>0, <3>1, <3>2, <3>3 DEF TypeOK
    <3>5. \A v \in Units : Active(v)' => unit'[v].ctx \in Streams
      BY <1>0, <3>1, <3>2, <3>3 DEF TypeOK, Active
    <3> QED
      BY <2>0, <3>4, <3>5, <3>6 DEF TypeOK, history, UnitType
  <2>2. CASE UNCHANGED <<publisher, moved, unit>>
    BY <2>0, <2>2 DEF TypeOK, history, Active
  <2> QED
    BY <1>11, <2>1, <2>2 DEF DealPublish
<1>12. ASSUME NEW c \in Clients, NEW i \in Sids, NEW k \in Kinds, DealFrame(c, i, k)
       PROVE  TypeOK'
  <2> DEFINE u == <<c, i>>
             new == k \in HeaderKinds /\ unit[u].auth = "PUBLISHER"
             ver == IF new THEN [made[u] EXCEPT ![AvcType(k)] = versions + 1] ELSE made[u]
  <2>0. u \in Units /\ made[u] \in Headers /\ versions + 1 \in Nat
    BY <1>0 DEF TypeOK
  <2>1. ver \in Headers
    <3> DEFINE raised == [made[u] EXCEPT ![AvcType(k)] = versions + 1]
    <3>1. raised \in Headers
      BY <2>0, HeaderTypes
    <3>2. ver = raised \/ ver = made[u]
      OBVIOUS
    <3> HIDE DEF raised, ver
    <3> QED
      BY <2>0, <3>1, <3>2
  <2>2. Frame(k, ver) \in [kind : FrameKinds, ver : Headers]
    BY <2>1, StreamAssumption DEF Frame
  <2>3. versions' \in Nat /\ made' = [made EXCEPT ![u] = ver]
        /\ DealFlvData(c, i, Frame(k, ver), relays)
    BY <1>12 DEF DealFrame, TypeOK
  <2> HIDE DEF ver
  <2>4. made' \in [Units -> Headers]
    BY <2>1, <2>3 DEF TypeOK
  <2>5. UNCHANGED <<status, streams>>
    BY <2>3 DEF DealFlvData
  <2>6. relays \in [Clients -> Seq(Relays)]
    BY DEF TypeOK
  <2> QED
    BY <2>2, <2>3, <2>4, <2>5, <2>6, DealFlvDataType DEF TypeOK, streams, UnitType
<1>13. CASE UNCHANGED vars
  BY <1>13 DEF vars, TypeOK, session, streams, history, Active
<1> QED
  BY <1>1, <1>2, <1>3, <1>4, <1>5, <1>6, <1>7, <1>8, <1>9, <1>10, <1>11, <1>12, <1>13 DEF Next

-----------------------------------------------------------------------------
\* Every step keeps the references.
LEMMA RefNext == TypeOK /\ RefInv /\ [Next]_vars => RefInv'
<1> SUFFICES ASSUME TypeOK, RefInv, [Next]_vars PROVE RefInv'
  OBVIOUS
<1> USE UnitFacts
<1>1. ASSUME NEW c \in Clients, DealConn(c) PROVE RefInv'
  <2>1. UNCHANGED <<streams, unit>>
    BY <1>1 DEF DealConn
  <2>2. /\ status' \in [Clients -> {"HANDSHAKE", "CONNECTED", "CLOSED"}]
        /\ NoneCloses
    BY <1>1 DEF DealConn, RefInv, RefTypes, NoneCloses
  <2> QED
    BY <2>1, <2>2, FlagsOK DEF RefInv, RefTypes
<1>2. ASSUME NEW c \in Clients, DealCreatStream(c) PROVE RefInv'
  BY <1>2, DealCreatStreamOK
<1>3. ASSUME NEW c \in Clients, DealBadInvoke(c) PROVE RefInv'
  BY <1>3, UnitsAloneOK DEF DealBadInvoke, session
<1>4. ASSUME NEW c \in Clients, DealRelay(c) PROVE RefInv'
  BY <1>4, DealRelayOK DEF TypeOK
<1>5. ASSUME NEW c \in Clients, Close(c) PROVE RefInv'
  BY <1>5, CloseOK
<1>6. ASSUME NEW c \in Clients, NEW s \in Streams, DealFCUnpublish(c, s) PROVE RefInv'
  BY <1>6, UnitsAloneOK DEF DealFCUnpublish, session
<1>7. ASSUME NEW c \in Clients, NEW s \in Streams, DealReleaseStream(c, s) PROVE RefInv'
  <2>1. {publisher[s]} \in SUBSET Units
    BY <1>7 DEF DealReleaseStream, TypeOK
  <2> QED
    BY <1>7, <2>1, StopOK DEF DealReleaseStream, session
<1>8. ASSUME NEW c \in Clients, NEW i \in Sids, DealDelStream(c, i) PROVE RefInv'
  <2>1. {<<c, i>>} \in SUBSET Units
    OBVIOUS
  <2> QED
    BY <1>8, <2>1, StopOK DEF DealDelStream, session
<1>9. ASSUME NEW c \in Clients, NEW i \in Sids, NEW pause \in BOOLEAN, DealPause(c, i, pause)
      PROVE  RefInv'
  BY <1>9, DealPauseOK
<1>10. ASSUME NEW c \in Clients, NEW i \in Sids, NEW s \in Streams, DealPlay(c, i, s)
       PROVE  RefInv'
  BY <1>10, DealPlayOK
<1>11. ASSUME NEW c \in Clients, NEW i \in Sids, NEW s \in Streams, DealPublish(c, i, s)
       PROVE  RefInv'
  BY <1>11, DealPublishOK
<1>12. ASSUME NEW c \in Clients, NEW i \in Sids, NEW k \in Kinds, DealFrame(c, i, k)
       PROVE  RefInv'
  BY <1>12, DealFlvDataOK DEF DealFrame
<1>13. CASE UNCHANGED vars
  BY <1>13, UnitsAloneOK DEF vars, session
<1> QED
  BY <1>1, <1>2, <1>3, <1>4, <1>5, <1>6, <1>7, <1>8, <1>9, <1>10, <1>11, <1>12, <1>13 DEF Next

\* The invariant says that a connection that was closed is forgotten.
LEMMA RefForgets == RefInv => ClosedIsForgotten
<1> SUFFICES ASSUME RefInv, NEW c \in Clients, status[c] = "CLOSED"
             PROVE  /\ \A i \in Sids : ~Exists(<<c, i>>)
                    /\ \A s \in Streams : <<c, s>> \notin moved =>
                         players[s][c] = 0 /\ \A i \in Sids : publisher[s] # <<c, i>>
  BY DEF ClosedIsForgotten
<1> USE UnitFacts, StreamAssumption
<1>1. \A i \in Sids : unit[<<c, i>>].auth = "NONE"
  BY DEF RefInv, ClosedHasNoUnit, Exists
<1>2. ASSUME NEW s \in Streams, <<c, s>> \notin moved PROVE players[s][c] = 0
  <2>1. players[s][c] \in Sids \cup {0}
    BY DEF RefInv, RefTypes
  <2>2. players[s][c] # 0 => unit[<<c, players[s][c]>>].auth = "PLAYER"
    BY <1>2 DEF RefInv, References, StreamsNamePlayers
  <2> QED
    BY <1>1, <2>1, <2>2
<1>3. ASSUME NEW s \in Streams, <<c, s>> \notin moved, NEW i \in Sids
      PROVE  publisher[s] # <<c, i>>
  <2>1. <<c, i>> # Nobody
    OBVIOUS
  <2>2. publisher[s] = <<c, i>> => unit[publisher[s]].auth = "PUBLISHER"
    BY <1>3, <2>1 DEF RefInv, References, StreamsNamePublishers
  <2> QED
    BY <1>1, <2>1, <2>2
<1> QED
  BY <1>1, <1>2, <1>3 DEF Exists

\* A frame that is handled, q being what is left in the queues, is given to no
\* connection that was closed and whose units kept their roles.
LEMMA DealFlvDataSpares ==
  ASSUME ClosedIsForgotten, NEW c \in Clients, NEW i \in Sids, NEW f,
         NEW q \in [Clients -> Seq(Relays)], DealFlvData(c, i, f, q),
         NEW d \in Clients, status[d] = "CLOSED", Settled(d), TypeOK
  PROVE  relays'[d] = q[d]
<1>1. CASE relays' = q
  BY <1>1
<1>2. CASE Publish(<<c, i>>, f, q) /\ relays' = Given(q, unit[<<c, i>>].ctx, f)
  <2>1. unit[<<c, i>>].ctx \in Streams
    BY <1>2, UnitFacts DEF Publish, TypeOK, Active
  <2>2. players[unit[<<c, i>>].ctx][d] = 0
    BY <2>1 DEF ClosedIsForgotten, Settled
  <2> QED
    BY <1>2, <2>2 DEF Given
<1> QED
  BY <1>1, <1>2 DEF DealFlvData, Play, Publish, NoFlv

\* No step adds to the deal queue of such a connection.
LEMMA ClosedIsSpared ==
  ASSUME TypeOK, ClosedIsForgotten, [Next]_vars, NEW d \in Clients,
         status[d] = "CLOSED", Settled(d)
  PROVE  Len(relays'[d]) <= Len(relays[d])
<1>0. relays \in [Clients -> Seq(Relays)]
  BY DEF TypeOK
<1>1. CASE UNCHANGED relays
  BY <1>0, <1>1
<1>2. ASSUME NEW c \in Clients, NEW i \in Sids, NEW k \in Kinds, DealFrame(c, i, k)
      PROVE  Len(relays'[d]) <= Len(relays[d])
  <2>1. PICK f : DealFlvData(c, i, f, relays)
    BY <1>2 DEF DealFrame
  <2>2. relays'[d] = relays[d]
    BY <1>0, <2>1, DealFlvDataSpares
  <2> QED
    BY <1>0, <2>2
<1>3. ASSUME NEW c \in Clients, DealRelay(c)
      PROVE  Len(relays'[d]) <= Len(relays[d])
  <2> DEFINE r == Head(relays[c])
             q == [relays EXCEPT ![c] = Tail(@)]
  <2>1. relays[c] \in Seq(Relays) /\ relays[c] # <<>>
    BY <1>0, <1>3 DEF DealRelay
  <2>2. r.sid \in Sids
    <3>1. r \in Relays
      BY <2>1
    <3> QED
      BY <3>1 DEF Relays
  <2>3. Tail(relays[c]) \in Seq(Relays) /\ Len(Tail(relays[c])) <= Len(relays[c])
    BY <2>1
  <2>4. q \in [Clients -> Seq(Relays)] /\ Len(q[d]) <= Len(relays[d])
    BY <1>0, <2>3
  <2>5. relays'[d] = q[d]
    <3>1. CASE DealFlvData(c, r.sid, r.frame, q)
      <4> HIDE DEF r, q
      <4> QED
        BY <2>2, <2>4, <3>1, DealFlvDataSpares
    <3>2. CASE relays' = q
      BY <3>2
    <3> QED
      BY <1>3, <3>1, <3>2 DEF DealRelay
  <2> QED
    BY <2>4, <2>5
<1>4. ASSUME NEW c \in Clients,
             DealConn(c) \/ DealCreatStream(c) \/ DealBadInvoke(c) \/ Close(c)
      PROVE  UNCHANGED relays
  BY <1>4 DEF DealConn, DealCreatStream, DealBadInvoke, Close
<1>5. ASSUME NEW c \in Clients, NEW s \in Streams,
             DealFCUnpublish(c, s) \/ DealReleaseStream(c, s)
      PROVE  UNCHANGED relays
  BY <1>5 DEF DealFCUnpublish, DealReleaseStream
<1>6. ASSUME NEW c \in Clients, NEW i \in Sids,
             \/ DealDelStream(c, i)
             \/ \E pause \in BOOLEAN : DealPause(c, i, pause)
             \/ \E s \in Streams : DealPlay(c, i, s) \/ DealPublish(c, i, s)
      PROVE  UNCHANGED relays
  BY <1>6 DEF DealDelStream, DealPause, DealPlay, DealPublish
<1>7. CASE UNCHANGED vars
  BY <1>7 DEF vars
<1> QED
  BY <1>1, <1>2, <1>3, <1>4, <1>5, <1>6, <1>7 DEF Next

-----------------------------------------------------------------------------
\* The variables have their types, and a unit that plays or publishes has a
\* stream to do it on, whatever the peers ask.
THEOREM TypeCorrect == Spec => []TypeOK
<1> QED
  BY TypeInit, TypeNext, PTL DEF Spec

\* The invariant of the references holds together with the types.
LEMMA RefCorrect == Spec => [](TypeOK /\ RefInv)
<1>1. Init => TypeOK /\ RefInv
  BY TypeInit, RefInit
<1>2. (TypeOK /\ RefInv) /\ [Next]_vars => (TypeOK /\ RefInv)'
  BY TypeNext, RefNext
<1> QED
  BY <1>1, <1>2, PTL DEF Spec

\* Whatever the peers ask, the streams and the units name each other rightly: a
\* unit is always named by the stream it is on, and a stream names a unit that
\* is not on it only if a unit of that connection left it for another role.
THEOREM ReferencesSound ==
  Spec => [](StreamsNamePublishers /\ StreamsNamePlayers /\ UnitsAreNamed)
<1>1. RefInv => StreamsNamePublishers /\ StreamsNamePlayers /\ UnitsAreNamed
  BY DEF RefInv, References
<1> QED
  BY <1>1, RefCorrect, PTL

\* So m_publisher may be followed without a check on every stream that the
\* publisher's connection has not left so.
THEOREM PublishersNamed == Spec => []StreamsNamePublishers
BY ReferencesSound, PTL

\* The same for the players of a stream.
THEOREM PlayersNamed == Spec => []StreamsNamePlayers
BY ReferencesSound, PTL

\* Once onClose has been called for a connection it has no unit, and is
\* forgotten by every stream that none of its units left for another role.
THEOREM Forgotten == Spec => []ClosedIsForgotten
BY RefForgets, RefCorrect, PTL

\* Nothing is relayed to a connection for which onClose has been called and
\* whose units have kept their roles, whatever the other connections do.
THEOREM NothingRelayed == Spec => NoRelayAfterClose
<1>1. TypeOK /\ RefInv /\ [Next]_vars =>
        [\A c \in Clients : status[c] = "CLOSED" /\ Settled(c) =>
           Len(relays'[c]) <= Len(relays[c])]_vars
  BY RefForgets, ClosedIsSpared
<1> QED
  BY <1>1, RefCorrect, PTL DEF Spec, NoRelayAfterClose

-----------------------------------------------------------------------------
(* Pausing.  A unit that has missed frames is blocked until a key frame.   *)

MissedIsBlocked == \A u \in Units : Exists(u) /\ skipped[u] => unit[u].blocked

\* Steps that give no unit a frame: a unit keeps m_blocked unless it is freed,
\* and none is created that has missed frames.
LEMMA KeyKept ==
  ASSUME MissedIsBlocked,
         \A u \in Units : Exists(u)' /\ skipped'[u] =>
           Exists(u) /\ skipped[u] /\ unit'[u].blocked = unit[u].blocked
  PROVE  MissedIsBlocked'
BY DEF MissedIsBlocked

\* A frame, from the peer or relayed.
LEMMA DealFlvDataKey ==
  ASSUME TypeOK, MissedIsBlocked, NEW c \in Clients, NEW i \in Sids, NEW f, NEW q,
         DealFlvData(c, i, f, q)
  PROVE  MissedIsBlocked'
<1> DEFINE u == <<c, i>>
<1>1. u \in Units
  BY UnitFacts
<1> HIDE DEF u
<1>2. CASE Play(u, f, q)
  <2>1. /\ unit' = [unit EXCEPT ![u].blocked = IF IsKey(f) THEN unit[u].paused ELSE @]
        /\ skipped' = [skipped EXCEPT ![u] = ~Sends(u, f) \/ (@ /\ ~IsKey(f))]
        /\ unit[u].auth = "PLAYER"
    BY <1>2 DEF Play
  <2>2. unit \in [Units -> UnitType] /\ skipped \in [Units -> BOOLEAN]
    BY DEF TypeOK, UnitType
  <2>3. /\ unit'[u].blocked = IF IsKey(f) THEN unit[u].paused ELSE unit[u].blocked
        /\ skipped'[u] = (~Sends(u, f) \/ (skipped[u] /\ ~IsKey(f)))
        /\ \A v \in Units \ {u} : unit'[v] = unit[v] /\ skipped'[v] = skipped[v]
    BY <1>1, <2>1, <2>2 DEF UnitType
  <2>4. skipped'[u] => unit'[u].blocked
    <3>1. CASE IsKey(f)
      BY <2>3, <3>1 DEF Sends
    <3>2. CASE ~IsKey(f)
      <4>1. skipped[u] => unit[u].blocked
        BY <1>1, <2>1 DEF MissedIsBlocked, Exists
      <4> QED BY <2>3, <3>2, <4>1 DEF Sends
    <3> QED BY <3>1, <3>2
  <2>5. ASSUME NEW v \in Units, v # u, Exists(v)', skipped'[v]
        PROVE  unit'[v].blocked
    BY <2>3, <2>5 DEF MissedIsBlocked, Exists
  <2> QED BY <2>4, <2>5 DEF MissedIsBlocked
<1>3. CASE Publish(u, f, q) \/ NoFlv(c, u, q)
  BY <1>3, KeyKept DEF Publish, NoFlv, Exists
<1> QED BY <1>2, <1>3 DEF DealFlvData, u

\* Stopping units frees them.
LEMMA StopUnitsKey ==
  ASSUME MissedIsBlocked, NEW U, StopUnits(U), UNCHANGED skipped
  PROVE  MissedIsBlocked'
<1>1. \A u \in Units : unit'[u] = IF u \in U THEN NoUnit ELSE unit[u]
  BY DEF StopUnits
<1> QED BY <1>1, KeyKept DEF Exists, NoUnit

\* Every step keeps MissedIsBlocked.
LEMMA KeyNext == TypeOK /\ MissedIsBlocked /\ [Next]_vars => MissedIsBlocked'
<1> SUFFICES ASSUME TypeOK, MissedIsBlocked, [Next]_vars PROVE MissedIsBlocked'
  OBVIOUS
<1>0. unit \in [Units -> UnitType] /\ skipped \in [Units -> BOOLEAN]
  BY DEF TypeOK, UnitType
<1>1. ASSUME NEW c \in Clients, DealCreatStream(c) PROVE MissedIsBlocked'
  <2>1. CASE UNCHANGED <<unit, skipped>>
    BY <2>1, KeyKept DEF Exists
  <2>2. CASE ~ UNCHANGED <<unit, skipped>>
    <3>1. PICK i \in Sids : /\ unit' = [unit EXCEPT ![<<c, i>>] = NewUnit]
                           /\ skipped' = [skipped EXCEPT ![<<c, i>>] = FALSE]
      BY <1>1, <2>2 DEF DealCreatStream, FreeSids
    <3>2. \A u \in Units : \/ ~ skipped'[u]
                           \/ unit'[u] = unit[u] /\ skipped'[u] = skipped[u]
      BY <1>0, <3>1
    <3> QED BY <3>2, KeyKept DEF Exists
  <2> QED BY <2>1, <2>2
<1>2. ASSUME NEW c \in Clients, NEW i \in Sids, NEW s \in Streams, DealPlay(c, i, s)
      PROVE  MissedIsBlocked'
  <2> DEFINE u == <<c, i>>
  <2>1. u \in Units
    BY UnitFacts
  <2> HIDE DEF u
  <2>2. UNCHANGED skipped /\ Exists(u) /\ (RegPlayer(u, s) \/ UNCHANGED unit)
    BY <1>2 DEF DealPlay, history, u
  <2> DEFINE new == [unit[u] EXCEPT !.ctx = s, !.auth = "PLAYER"]
  <2>3. \A v \in Units : unit'[v].blocked = unit[v].blocked
    <3>1. unit[u] \in UnitType
      BY <1>0, <2>1
    <3>2. new.blocked = unit[u].blocked
      BY <3>1 DEF UnitType
    <3>3. unit' = [unit EXCEPT ![u] = new] \/ unit' = unit
      BY <2>2 DEF RegPlayer
    <3> HIDE DEF new
    <3> QED BY <1>0, <2>1, <3>2, <3>3
  <2>4. \A v \in Units \ {u} : unit'[v] = unit[v]
    BY <1>0, <2>1, <2>2 DEF RegPlayer
  <2> QED BY <2>2, <2>3, <2>4, KeyKept DEF Exists
<1>3. ASSUME NEW c \in Clients, NEW i \in Sids, NEW s \in Streams, DealPublish(c, i, s)
      PROVE  MissedIsBlocked'
  <2> DEFINE u == <<c, i>>
  <2>1. u \in Units
    BY UnitFacts
  <2> HIDE DEF u
  <2>2. UNCHANGED skipped /\ Exists(u) /\ (RegPublisher(u, s) \/ UNCHANGED unit)
    BY <1>3 DEF DealPublish, history, u
  <2> DEFINE new == [unit[u] EXCEPT !.ctx = s, !.auth = "PUBLISHER"]
  <2>3. \A v \in Units : unit'[v].blocked = unit[v].blocked
    <3>1. unit[u] \in UnitType
      BY <1>0, <2>1
    <3>2. new.blocked = unit[u].blocked
      BY <3>1 DEF UnitType
    <3>3. unit' = [unit EXCEPT ![u] = new] \/ unit' = unit
      BY <2>2 DEF RegPublisher
    <3> HIDE DEF new
    <3> QED BY <1>0, <2>1, <3>2, <3>3
  <2>4. \A v \in Units \ {u} : unit'[v] = unit[v]
    BY <1>0, <2>1, <2>2 DEF RegPublisher
  <2> QED BY <2>2, <2>3, <2>4, KeyKept DEF Exists
<1>4. ASSUME NEW c \in Clients, NEW i \in Sids, NEW pause \in BOOLEAN,
             DealPause(c, i, pause)
      PROVE  MissedIsBlocked'
  <2> DEFINE u == <<c, i>>
             new == [unit[u] EXCEPT !.paused = pause]
  <2>1. \A v \in Units : /\ unit'[v].blocked = unit[v].blocked
                         /\ unit'[v].auth = unit[v].auth
    <3>1. u \in Units /\ unit[u] \in UnitType
      BY <1>0, UnitFacts
    <3>2. new.blocked = unit[u].blocked /\ new.auth = unit[u].auth
      BY <3>1 DEF UnitType
    <3>3. unit' = [unit EXCEPT ![u] = new]
      BY <1>4 DEF DealPause
    <3> HIDE DEF new, u
    <3> QED BY <1>0, <3>1, <3>2, <3>3
  <2> QED BY <1>4, <2>1, KeyKept DEF DealPause, history, Exists
<1>5. ASSUME NEW c \in Clients,
             \/ DealConn(c) \/ DealBadInvoke(c)
             \/ \E s \in Streams : DealFCUnpublish(c, s)
      PROVE  MissedIsBlocked'
  BY <1>5, KeyKept DEF DealConn, DealBadInvoke, DealFCUnpublish, history, Exists
<1>6. ASSUME NEW c \in Clients,
             \/ Close(c) \/ (\E s \in Streams : DealReleaseStream(c, s))
             \/ (\E i \in Sids : DealDelStream(c, i))
      PROVE  MissedIsBlocked'
  BY <1>6, StopUnitsKey DEF Close, DealReleaseStream, DealDelStream, history
<1>7. ASSUME NEW c \in Clients, NEW i \in Sids, NEW k \in Kinds, DealFrame(c, i, k)
      PROVE  MissedIsBlocked'
  BY <1>7, DealFlvDataKey DEF DealFrame
<1>8. ASSUME NEW c \in Clients, DealRelay(c) PROVE MissedIsBlocked'
  <2> DEFINE r == Head(relays[c])
             q == [relays EXCEPT ![c] = Tail(@)]
  <2>1. relays[c] \in Seq(Relays) /\ relays[c] # <<>>
    BY <1>8 DEF DealRelay, TypeOK
  <2>2. r \in Relays
    BY <2>1
  <2>3. r.sid \in Sids
    BY <2>2 DEF Relays
  <2>4. DealFlvData(c, r.sid, r.frame, q) \/ UNCHANGED <<unit, skipped>>
    BY <1>8 DEF DealRelay
  <2> HIDE DEF r, q
  <2> QED BY <2>3, <2>4, DealFlvDataKey, KeyKept DEF Exists
<1>9. CASE UNCHANGED vars
  BY <1>9, KeyKept DEF vars, history, Exists
<1> QED
  BY <1>1, <1>2, <1>3, <1>4, <1>5, <1>6, <1>7, <1>8, <1>9 DEF Next

\* However often a player pauses and resumes, and whatever else the peers ask:
\* the first frame it is sent after those it missed is a key frame.
THEOREM SkipsToKey == Spec => []SkipsToKeyFrame
<1>1. Init => MissedIsBlocked
  BY DEF Init, MissedIsBlocked
<1>2. TypeOK /\ MissedIsBlocked => SkipsToKeyFrame
  <2> SUFFICES ASSUME TypeOK, MissedIsBlocked, NEW c \in Clients, relays[c] # <<>>,
                      AboutToSend(c, <<c, Head(relays[c]).sid>>, Head(relays[c]).frame),
                      ~IsKey(Head(relays[c]).frame)
               PROVE  ~skipped[<<c, Head(relays[c]).sid>>]
    BY DEF SkipsToKeyFrame
  <2> DEFINE u == <<c, Head(relays[c]).sid>>
  <2>1. relays[c] \in Seq(Relays)
    BY DEF TypeOK
  <2>2. Head(relays[c]) \in Relays
    BY <2>1
  <2>3. u \in Units
    BY <2>2, UnitFacts DEF Relays
  <2>4. unit[u].auth = "PLAYER" /\ ~unit[u].blocked
    BY DEF AboutToSend, Sends
  <2> QED BY <2>3, <2>4 DEF MissedIsBlocked, Exists
<1> QED
  BY <1>1, <1>2, TypeInit, TypeNext, KeyNext, PTL DEF Spec

-----------------------------------------------------------------------------
(* Headers.  Every player is shown, in the order of its queue, what its    *)
(* stream keeps.                                                           *)

\* The peers stay with what they have begun: what HeaderFirst is about.
Steadfast == Commands \cap {"pause", "FCUnpublish", "deleteStream"} = {}

\* The relayed frame r brings the header t to the unit with sid i.
Brings(r, i, t) == r.sid = i /\ IsHeader(r.frame) /\ AvcType(r.frame.kind) = t

\* Of the header t, v is the version that unit i has been shown after it has
\* dealt with the first k frames of the queue q, and h the one before.
ShownAfter(h, q, k, i, t, v) ==
  \/ \E j \in 1..k : /\ Brings(q[j], i, t) /\ q[j].frame.ver[t] = v
                     /\ \A l \in 1..k : j < l => ~Brings(q[l], i, t)
  \/ (\A j \in 1..k : ~Brings(q[j], i, t)) /\ h = v

\* Each frame of q follows the header it was published under, and the last
\* header of q is the one the stream keeps, a.
InTurn(h, q, i, t, a) ==
  /\ \A j \in DOMAIN q : q[j].sid = i /\ ~IsHeader(q[j].frame) /\ q[j].frame.ver[t] # 0 =>
       ShownAfter(h, q, j - 1, i, t, q[j].frame.ver[t])
  /\ a # 0 => ShownAfter(h, q, Len(q), i, t, a)

PlayersInTurn ==
  \A u \in Units, t \in AvcTypes : ~stopped[u[1]] /\ unit[u].auth = "PLAYER" =>
    InTurn(shown[u][t], relays[u[1]], u[2], t, avc[unit[u].ctx][t])

\* No unit is paused, and a header that waits has a version.
NoneBlocked == \A u \in Units : ~unit[u].paused /\ ~unit[u].blocked

HeadersNumbered ==
  \A c \in Clients : \A j \in DOMAIN relays[c] :
    LET f == relays[c][j].frame IN IsHeader(f) => f.ver[AvcType(f.kind)] # 0

\* A relayed frame waits for a unit that plays the stream it comes from.
RelaysPlay ==
  \A c \in Clients : ~stopped[c] => \A j \in DOMAIN relays[c] :
    LET u == <<c, relays[c][j].sid>>
    IN  unit[u].auth = "PLAYER" /\ unit[u].ctx = relays[c][j].from

\* What a publisher has made is what its stream keeps; nobody else makes any.
MadeIsKept ==
  \A u \in Units, t \in AvcTypes : Exists(u) /\ made[u][t] # 0 =>
    unit[u].auth = "PUBLISHER" /\ avc[unit[u].ctx][t] = made[u][t]

\* It holds as long as no unit has left a stream for another role.
HeaderInv ==
  NoneBlocked /\ HeadersNumbered /\ RelaysPlay /\ MadeIsKept /\ PlayersInTurn

\* A connection that has been stopped stays so.
StopsStay == \A c \in Clients : stopped[c] => stopped'[c]

\* A handler that fails stops its connection.
LEMMA FailStops ==
  ASSUME TypeOK, NEW c \in Clients, Fail(c) \/ UNCHANGED stopped
  PROVE  StopsStay
BY DEF TypeOK, Fail, StopsStay

\* A frame that is queued in accordance with the header the stream keeps.
LEMMA InTurnAppend ==
  ASSUME NEW q \in Seq(Relays), NEW r \in Relays, NEW h, NEW i, NEW t, NEW a, NEW b,
         InTurn(h, q, i, t, a),
         b = IF Brings(r, i, t) THEN r.frame.ver[t] ELSE a,
         r.sid = i /\ ~IsHeader(r.frame) /\ r.frame.ver[t] # 0 => a = r.frame.ver[t]
  PROVE  InTurn(h, Append(q, r), i, t, b)
<1> DEFINE p == Append(q, r)
           n == Len(q)
<1>1. /\ n \in Nat /\ Len(p) = n + 1 /\ DOMAIN p = 1..n + 1 /\ DOMAIN q = 1..n
      /\ \A j \in 1..n : p[j] = q[j]
      /\ p[n + 1] = r
  OBVIOUS
<1> HIDE DEF p, n
<1>2. ASSUME NEW k \in Nat, k <= n, NEW v, ShownAfter(h, q, k, i, t, v)
      PROVE  ShownAfter(h, p, k, i, t, v)
  <2>1. \A j \in 1..k : p[j] = q[j]
    BY <1>1, <1>2
  <2> QED BY <1>2, <2>1 DEF ShownAfter
<1>3. ASSUME NEW j \in DOMAIN p, p[j].sid = i, ~IsHeader(p[j].frame), p[j].frame.ver[t] # 0
      PROVE  ShownAfter(h, p, j - 1, i, t, p[j].frame.ver[t])
  <2>1. CASE j = n + 1
    <3>1. a = r.frame.ver[t] /\ a # 0 /\ j - 1 = n /\ p[j] = r
      BY <1>1, <1>3, <2>1
    <3>2. ShownAfter(h, q, n, i, t, a)
      BY <3>1 DEF InTurn, n
    <3> QED BY <1>1, <1>2, <3>1, <3>2
  <2>2. CASE j # n + 1
    <3>1. j \in DOMAIN q /\ p[j] = q[j] /\ j - 1 \in Nat /\ j - 1 <= n
      BY <1>1, <2>2
    <3>2. ShownAfter(h, q, j - 1, i, t, q[j].frame.ver[t])
      BY <1>3, <3>1 DEF InTurn
    <3> QED BY <1>2, <3>1, <3>2
  <2> QED BY <2>1, <2>2
<1>4. ASSUME b # 0 PROVE ShownAfter(h, p, n + 1, i, t, b)
  <2>1. CASE Brings(r, i, t)
    <3>1. /\ n + 1 \in 1..n + 1 /\ p[n + 1].frame.ver[t] = b
          /\ \A l \in 1..n + 1 : ~ (n + 1 < l)
      BY <1>1, <2>1
    <3> QED BY <1>1, <2>1, <3>1 DEF ShownAfter
  <2>2. CASE ~Brings(r, i, t)
    <3>1. b = a /\ ShownAfter(h, p, n, i, t, a)
      BY <1>1, <1>2, <1>4, <2>2 DEF InTurn, n
    <3>2. CASE \E j \in 1..n : /\ Brings(p[j], i, t) /\ p[j].frame.ver[t] = a
                               /\ \A l \in 1..n : j < l => ~Brings(p[l], i, t)
      <4>1. PICK j \in 1..n : /\ Brings(p[j], i, t) /\ p[j].frame.ver[t] = a
                              /\ \A l \in 1..n : j < l => ~Brings(p[l], i, t)
        BY <3>2
      <4>2. \A l \in 1..n + 1 : j < l => ~Brings(p[l], i, t)
        BY <1>1, <2>2, <4>1
      <4>3. j \in 1..n + 1
        BY <1>1
      <4> QED BY <3>1, <4>1, <4>2, <4>3 DEF ShownAfter
    <3>3. CASE (\A j \in 1..n : ~Brings(p[j], i, t)) /\ h = a
      <4>1. \A j \in 1..n + 1 : ~Brings(p[j], i, t)
        BY <1>1, <2>2, <3>3
      <4> QED BY <3>1, <3>3, <4>1 DEF ShownAfter
    <3> QED BY <3>1, <3>2, <3>3 DEF ShownAfter
  <2> QED BY <2>1, <2>2
<1>5. InTurn(h, p, i, t, b)
  BY <1>1, <1>3, <1>4 DEF InTurn
<1> QED BY <1>5 DEF p

\* The frame at the head of the queue is dealt with.
LEMMA InTurnTail ==
  ASSUME NEW q \in Seq(Relays), q # <<>>, NEW h, NEW i, NEW t, NEW a,
         InTurn(h, q, i, t, a)
  PROVE  InTurn(IF Brings(Head(q), i, t) THEN Head(q).frame.ver[t] ELSE h, Tail(q), i, t, a)
<1> DEFINE p == Tail(q)
           g == IF Brings(Head(q), i, t) THEN Head(q).frame.ver[t] ELSE h
           n == Len(q)
<1>1. /\ n \in Nat \ {0} /\ Len(p) = n - 1 /\ DOMAIN p = 1..n - 1 /\ DOMAIN q = 1..n
      /\ \A j \in 1..n - 1 : p[j] = q[j + 1]
      /\ Head(q) = q[1]
  OBVIOUS
<1>2. g = IF Brings(q[1], i, t) THEN q[1].frame.ver[t] ELSE h
  BY <1>1
<1> HIDE DEF p, n, g
<1>3. ASSUME NEW k \in 1..n, NEW v, ShownAfter(h, q, k, i, t, v)
      PROVE  ShownAfter(g, p, k - 1, i, t, v)
  <2>1. \A j \in 1..k - 1 : p[j] = q[j + 1] /\ j + 1 \in 1..k
    BY <1>1
  <2>2. CASE \E j \in 1..k : /\ Brings(q[j], i, t) /\ q[j].frame.ver[t] = v
                             /\ \A l \in 1..k : j < l => ~Brings(q[l], i, t)
    <3>1. PICK j \in 1..k : /\ Brings(q[j], i, t) /\ q[j].frame.ver[t] = v
                            /\ \A l \in 1..k : j < l => ~Brings(q[l], i, t)
      BY <2>2
    <3>2. CASE j = 1
      <4>1. \A l \in 1..k - 1 : ~Brings(p[l], i, t)
        BY <2>1, <3>1, <3>2
      <4>2. g = v
        BY <1>2, <3>1, <3>2
      <4> QED BY <4>1, <4>2 DEF ShownAfter
    <3>3. CASE j # 1
      <4>1. j - 1 \in 1..k - 1 /\ p[j - 1] = q[j]
        BY <1>1, <3>3
      <4>2. \A l \in 1..k - 1 : j - 1 < l => ~Brings(p[l], i, t)
        BY <2>1, <3>1
      <4> QED BY <3>1, <4>1, <4>2 DEF ShownAfter
    <3> QED BY <3>2, <3>3
  <2>3. CASE (\A j \in 1..k : ~Brings(q[j], i, t)) /\ h = v
    <3>1. g = v
      BY <1>1, <1>2, <2>3
    <3>2. \A j \in 1..k - 1 : ~Brings(p[j], i, t)
      BY <2>1, <2>3
    <3> QED BY <3>1, <3>2 DEF ShownAfter
  <2> QED BY <1>3, <2>2, <2>3 DEF ShownAfter
<1>4. ASSUME NEW j \in DOMAIN p, p[j].sid = i, ~IsHeader(p[j].frame), p[j].frame.ver[t] # 0
      PROVE  ShownAfter(g, p, j - 1, i, t, p[j].frame.ver[t])
  <2>1. j \in 1..n /\ j + 1 \in DOMAIN q /\ p[j] = q[j + 1] /\ (j + 1) - 1 = j
    BY <1>1
  <2>2. ShownAfter(h, q, j, i, t, p[j].frame.ver[t])
    BY <1>4, <2>1 DEF InTurn
  <2> QED BY <1>3, <2>1, <2>2
<1>5. a # 0 => ShownAfter(g, p, n - 1, i, t, a)
  <2>1. n \in 1..n
    BY <1>1
  <2>2. a # 0 => ShownAfter(h, q, n, i, t, a)
    BY DEF InTurn, n
  <2> QED BY <1>3, <2>1, <2>2
<1>6. InTurn(g, p, i, t, a)
  BY <1>1, <1>4, <1>5 DEF InTurn
<1> QED BY <1>6 DEF p, g

\* A player that has just joined waits for no frame.
LEMMA InTurnNew ==
  ASSUME NEW q \in Seq(Relays), NEW i, \A j \in DOMAIN q : q[j].sid # i,
         NEW t, NEW a, NEW h, a # 0 => h = a
  PROVE  InTurn(h, q, i, t, a)
<1>1. DOMAIN q = 1..Len(q)
  OBVIOUS
<1> QED BY <1>1 DEF InTurn, ShownAfter, Brings

\* Steps that queue no frame and show a player nothing: players stay as they are
\* until their connection is closed, and publishers keep what they have made.
LEMMA HeadersKept ==
  ASSUME HeaderInv, UNCHANGED <<avc, relays>>,
         StopsStay,
         NoneBlocked',
         \A u \in Units : ~stopped'[u[1]] /\ unit[u].auth = "PLAYER" =>
           unit'[u].auth = "PLAYER" /\ unit'[u].ctx = unit[u].ctx,
         \A u \in Units : unit'[u].auth = "PLAYER" =>
           /\ unit[u].auth = "PLAYER" /\ unit'[u].ctx = unit[u].ctx
           /\ shown'[u] = shown[u],
         \A u \in Units, t \in AvcTypes : Exists(u)' /\ made'[u][t] # 0 =>
           /\ Exists(u) /\ made'[u][t] = made[u][t]
           /\ unit'[u].auth = unit[u].auth /\ unit'[u].ctx = unit[u].ctx,
         relays \in [Clients -> Seq(Relays)]
  PROVE  HeaderInv'
<1>1. HeadersNumbered'
  BY DEF HeaderInv, HeadersNumbered
<1>2. RelaysPlay'
  <2> SUFFICES ASSUME NEW c \in Clients, ~stopped'[c], NEW j \in DOMAIN relays[c]
               PROVE  LET u == <<c, relays[c][j].sid>>
                      IN  unit'[u].auth = "PLAYER" /\ unit'[u].ctx = relays[c][j].from
    BY DEF RelaysPlay
  <2> DEFINE u == <<c, relays[c][j].sid>>
  <2>1. relays[c][j] \in Relays
    <3>1. relays[c] \in Seq(Relays)
      OBVIOUS
    <3> QED BY <3>1
  <2>2. u \in Units /\ u[1] = c
    BY <2>1, UnitFacts DEF Relays
  <2>3. unit[u].auth = "PLAYER" /\ unit[u].ctx = relays[c][j].from
    BY DEF HeaderInv, RelaysPlay, StopsStay
  <2> HIDE DEF u
  <2>4. unit'[u].auth = "PLAYER" /\ unit'[u].ctx = relays[c][j].from
    BY <2>2, <2>3
  <2> QED BY <2>4 DEF u
<1>3. MadeIsKept'
  BY DEF HeaderInv, MadeIsKept
<1>4. PlayersInTurn'
  BY UnitFacts DEF HeaderInv, PlayersInTurn, StopsStay
<1> QED BY <1>1, <1>2, <1>3, <1>4 DEF HeaderInv

\* Units are stopped: publishers, or all of a connection that is closed.
LEMMA StopUnitsHeaders ==
  ASSUME TypeOK, HeaderInv, NEW U \in SUBSET Units, StopUnits(U),
         UNCHANGED <<avc, relays, history>>,
         StopsStay,
         \A u \in U : stopped'[u[1]] \/ unit[u].auth # "PLAYER"
  PROVE  HeaderInv'
<1>1. \A u \in Units : unit'[u] = IF u \in U THEN NoUnit ELSE unit[u]
  BY DEF StopUnits
<1>2. NoUnit.auth = "NONE" /\ NoUnit.paused = FALSE /\ NoUnit.blocked = FALSE
  BY DEF NoUnit
<1>3. NoneBlocked'
  BY <1>1, <1>2 DEF HeaderInv, NoneBlocked
<1>4. UNCHANGED <<made, shown>> /\ relays \in [Clients -> Seq(Relays)]
  BY DEF history, TypeOK
<1>5. \A u \in Units : /\ Exists(u)' => unit'[u] = unit[u] /\ Exists(u)
                       /\ unit'[u].auth = "PLAYER" => unit'[u] = unit[u]
  BY <1>1, <1>2 DEF Exists
<1>6. \A u \in Units : ~stopped'[u[1]] /\ unit[u].auth = "PLAYER" => unit'[u] = unit[u]
  BY <1>1
<1> QED BY <1>3, <1>4, <1>5, <1>6, HeadersKept

\* A unit that is made has made and been shown nothing.
LEMMA DealCreatStreamHeaders ==
  ASSUME TypeOK, HeaderInv, NEW c \in Clients, DealCreatStream(c)
  PROVE  HeaderInv'
<1>1. /\ unit \in [Units -> UnitType] /\ made \in [Units -> Headers] /\ shown \in [Units -> Headers]
      /\ relays \in [Clients -> Seq(Relays)]
      /\ UNCHANGED <<avc, relays>> /\ StopsStay
  BY FailStops DEF TypeOK, UnitType, DealCreatStream
<1>2. CASE UNCHANGED <<unit, made, shown>>
  <2>1. NoneBlocked'
    BY <1>2 DEF HeaderInv, NoneBlocked
  <2> QED BY <1>1, <1>2, <2>1, HeadersKept DEF Exists
<1>3. CASE ~ UNCHANGED <<unit, made, shown>>
  <2>1. PICK i \in FreeSids(c) : /\ unit' = [unit EXCEPT ![<<c, i>>] = NewUnit]
                                 /\ made' = [made EXCEPT ![<<c, i>>] = NoHeaders]
                                 /\ shown' = [shown EXCEPT ![<<c, i>>] = NoHeaders]
    BY <1>3 DEF DealCreatStream
  <2> DEFINE u == <<c, i>>
  <2>2. u \in Units /\ unit[u].auth = "NONE"
    BY UnitFacts DEF FreeSids, Exists
  <2> HIDE DEF u
  <2>3. NewUnit.auth = "NULL" /\ NewUnit.paused = FALSE /\ NewUnit.blocked = FALSE
    BY DEF NewUnit, NoUnit
  <2>4. /\ unit'[u] = NewUnit /\ made'[u] = NoHeaders
        /\ \A v \in Units \ {u} : unit'[v] = unit[v] /\ made'[v] = made[v] /\ shown'[v] = shown[v]
    BY <1>1, <2>1, <2>2 DEF u
  <2>5. NoneBlocked'
    BY <2>3, <2>4 DEF HeaderInv, NoneBlocked
  <2>6. \A v \in Units, t \in AvcTypes : made'[v][t] # 0 => v # u
    BY <2>4 DEF NoHeaders
  <2>7. \A v \in Units : v # u => (Exists(v)' <=> Exists(v))
    BY <2>4 DEF Exists
  <2>8. \A v \in Units : unit[v].auth = "PLAYER" \/ unit'[v].auth = "PLAYER" => v # u
    BY <2>2, <2>3, <2>4
  <2> QED BY <1>1, <2>4, <2>5, <2>6, <2>7, <2>8, HeadersKept
<1> QED BY <1>2, <1>3

\* A unit that is asked to play or publish has made nothing and waits for nothing.
LEMMA IdleUnit ==
  ASSUME TypeOK, HeaderInv, NEW u \in Units, ~Active(u), Exists(u), ~stopped[u[1]]
  PROVE  /\ \A t \in AvcTypes : made[u][t] = 0
         /\ \A j \in DOMAIN relays[u[1]] : relays[u[1]][j].sid # u[2]
<1>1. \A t \in AvcTypes : made[u][t] = 0
  BY DEF HeaderInv, MadeIsKept, Active
<1>2. \A j \in DOMAIN relays[u[1]] : relays[u[1]][j].sid # u[2]
  BY UnitFacts DEF HeaderInv, RelaysPlay, Active
<1> QED BY <1>1, <1>2

\* A unit becomes a publisher: its stream keeps what it kept.
LEMMA DealPublishHeaders ==
  ASSUME moved' = {}, TypeOK, HeaderInv, NEW c \in Clients, NEW i \in Sids, NEW s \in Streams,
         DealPublish(c, i, s)
  PROVE  HeaderInv'
<1> DEFINE u == <<c, i>>
<1>1. u \in Units /\ u[1] = c
  BY UnitFacts
<1>2. /\ Exists(u) /\ ~stopped[c]
      /\ UNCHANGED <<avc, relays, made, shown>> /\ StopsStay
      /\ RegPublisher(u, s) \/ UNCHANGED unit
  BY FailStops DEF DealPublish, Asks, history
<1>3. /\ unit \in [Units -> UnitType] /\ relays \in [Clients -> Seq(Relays)]
  BY DEF TypeOK, UnitType
<1> HIDE DEF u
<1>5. CASE RegPublisher(u, s)
  <2>a. ~Active(u)
    BY <1>5 DEF RegPublisher, Leaves
  <2>b. \A t \in AvcTypes : made[u][t] = 0
    BY <1>1, <1>2, <2>a, IdleUnit
  <2> DEFINE new == [unit[u] EXCEPT !.ctx = s, !.auth = "PUBLISHER"]
  <2>1. unit[u] \in UnitType
    BY <1>1, <1>3
  <2>2. new.auth = "PUBLISHER" /\ new.paused = unit[u].paused /\ new.blocked = unit[u].blocked
    BY <2>1 DEF UnitType
  <2>3. unit' = [unit EXCEPT ![u] = new]
    BY <1>5 DEF RegPublisher
  <2> HIDE DEF new
  <2>4. unit'[u] = new /\ \A v \in Units \ {u} : unit'[v] = unit[v]
    BY <1>1, <1>3, <2>3
  <2>5. NoneBlocked'
    BY <1>1, <2>2, <2>4 DEF HeaderInv, NoneBlocked
  <2>6. \A v \in Units : v # u => (Exists(v)' <=> Exists(v))
    BY <2>4 DEF Exists
  <2>7. \A v \in Units : unit[v].auth = "PLAYER" \/ unit'[v].auth = "PLAYER" => v # u
    BY <2>a, <2>2, <2>4 DEF Active
  <2>8. \A v \in Units, t \in AvcTypes : made'[v][t] # 0 => v # u
    BY <1>2, <2>b
  <2> QED BY <1>2, <1>3, <2>4, <2>5, <2>6, <2>7, <2>8, HeadersKept
<1>6. CASE UNCHANGED unit
  <2>1. NoneBlocked'
    BY <1>6 DEF HeaderInv, NoneBlocked
  <2> QED BY <1>2, <1>3, <1>6, <2>1, HeadersKept DEF Exists
<1> QED BY <1>2, <1>5, <1>6

\* A player that joins is shown at once what the stream keeps.
LEMMA DealPlayHeaders ==
  ASSUME moved' = {}, TypeOK, HeaderInv, NEW c \in Clients, NEW i \in Sids, NEW s \in Streams,
         DealPlay(c, i, s)
  PROVE  HeaderInv'
<1> DEFINE u == <<c, i>>
<1>1. u \in Units /\ u[1] = c /\ u[2] = i
  BY UnitFacts
<1>2. /\ Exists(u) /\ ~stopped[c]
      /\ UNCHANGED <<avc, relays, made>> /\ StopsStay
      /\ \/ RegPlayer(u, s) /\ UNCHANGED stopped
         \/ UNCHANGED <<unit, shown>>
  BY FailStops DEF DealPlay, Asks
<1>3. /\ unit \in [Units -> UnitType] /\ relays \in [Clients -> Seq(Relays)]
      /\ shown \in [Units -> Headers]
  BY DEF TypeOK, UnitType
<1> HIDE DEF u
<1>5. CASE RegPlayer(u, s) /\ UNCHANGED stopped
  <2>a. ~Active(u)
    BY <1>5 DEF RegPlayer, Leaves
  <2>b. /\ \A t \in AvcTypes : made[u][t] = 0
        /\ \A j \in DOMAIN relays[c] : relays[c][j].sid # i
    BY <1>1, <1>2, <2>a, IdleUnit
  <2> DEFINE new == [unit[u] EXCEPT !.ctx = s, !.auth = "PLAYER"]
             all == [t \in AvcTypes |-> IF avc[s][t] # 0 THEN avc[s][t] ELSE shown[u][t]]
  <2>1. unit[u] \in UnitType
    BY <1>1, <1>3
  <2>2. /\ new.auth = "PLAYER" /\ new.ctx = s
        /\ new.paused = unit[u].paused /\ new.blocked = unit[u].blocked
    BY <2>1 DEF UnitType
  <2>3. unit' = [unit EXCEPT ![u] = new] /\ shown' = [shown EXCEPT ![u] = all]
    BY <1>5 DEF RegPlayer
  <2>4. \A t \in AvcTypes : avc[s][t] # 0 => all[t] = avc[s][t]
    OBVIOUS
  <2> HIDE DEF new, all
  <2>5. /\ unit'[u] = new /\ shown'[u] = all
        /\ \A v \in Units \ {u} : unit'[v] = unit[v] /\ shown'[v] = shown[v]
    BY <1>1, <1>3, <2>3
  <2>6. NoneBlocked'
    BY <1>1, <2>2, <2>5 DEF HeaderInv, NoneBlocked
  <2>7. HeadersNumbered'
    BY <1>2 DEF HeaderInv, HeadersNumbered
  <2>8. RelaysPlay'
    <3> SUFFICES ASSUME NEW d \in Clients, ~stopped[d], NEW j \in DOMAIN relays[d]
                 PROVE  LET v == <<d, relays[d][j].sid>>
                        IN  unit'[v].auth = "PLAYER" /\ unit'[v].ctx = relays[d][j].from
      BY <1>2, <1>5 DEF RelaysPlay
    <3> DEFINE v == <<d, relays[d][j].sid>>
    <3>1. relays[d][j] \in Relays
      <4>1. relays[d] \in Seq(Relays)
        BY <1>3
      <4> QED BY <4>1
    <3>2. v \in Units
      BY <3>1, UnitFacts DEF Relays
    <3>3. unit[v].auth = "PLAYER" /\ unit[v].ctx = relays[d][j].from
      BY DEF HeaderInv, RelaysPlay
    <3>4. v # u
      BY <2>a, <3>3 DEF Active
    <3> QED BY <2>5, <3>2, <3>3, <3>4
  <2>9. MadeIsKept'
    <3> SUFFICES ASSUME NEW v \in Units, NEW t \in AvcTypes, Exists(v)', made'[v][t] # 0
                 PROVE  unit'[v].auth = "PUBLISHER" /\ avc'[unit'[v].ctx][t] = made'[v][t]
      BY DEF MadeIsKept
    <3>1. v # u
      BY <1>2, <2>b
    <3>2. unit'[v] = unit[v] /\ Exists(v)
      BY <2>5, <3>1 DEF Exists
    <3> QED BY <1>2, <3>2 DEF HeaderInv, MadeIsKept
  <2>10. PlayersInTurn'
    <3> SUFFICES ASSUME NEW v \in Units, NEW t \in AvcTypes, ~stopped[v[1]], unit'[v].auth = "PLAYER"
                 PROVE  InTurn(shown'[v][t], relays[v[1]], v[2], t, avc[unit'[v].ctx][t])
      BY <1>2, <1>5 DEF PlayersInTurn
    <3>1. CASE v = u
      <4>1. relays[c] \in Seq(Relays)
        BY <1>3
      <4>2. InTurn(all[t], relays[c], i, t, avc[s][t])
        BY <2>b, <2>4, <4>1, InTurnNew
      <4> QED BY <1>1, <2>2, <2>5, <3>1, <4>2
    <3>2. CASE v # u
      BY <2>5, <3>2 DEF HeaderInv, PlayersInTurn
    <3> QED BY <3>1, <3>2
  <2> QED BY <2>6, <2>7, <2>8, <2>9, <2>10 DEF HeaderInv
<1>6. CASE UNCHANGED <<unit, shown>>
  <2>1. NoneBlocked'
    BY <1>6 DEF HeaderInv, NoneBlocked
  <2> QED BY <1>2, <1>3, <1>6, <2>1, HeadersKept DEF Exists
<1> QED BY <1>2, <1>5, <1>6

\* A frame, from the peer or relayed, is played as it comes: nothing is blocked.
LEMMA PlayIsSteady ==
  ASSUME TypeOK, NoneBlocked, NEW u \in Units, NEW f, NEW q, Play(u, f, q)
  PROVE  /\ NoneBlocked' /\ Sends(u, f) /\ unit[u].auth = "PLAYER"
         /\ \A v \in Units : unit'[v].auth = unit[v].auth /\ unit'[v].ctx = unit[v].ctx
<1> DEFINE b == IF IsKey(f) THEN unit[u].paused ELSE unit[u].blocked
           new == [unit[u] EXCEPT !.blocked = b]
<1>1. unit \in [Units -> UnitType] /\ unit[u] \in UnitType
  BY DEF TypeOK, UnitType
<1>2. ~unit[u].paused /\ ~unit[u].blocked
  BY DEF NoneBlocked
<1>3. ~b
  BY <1>2
<1>4. unit' = [unit EXCEPT ![u] = new]
  BY DEF Play
<1>5. /\ new.auth = unit[u].auth /\ new.ctx = unit[u].ctx
      /\ new.paused = unit[u].paused /\ new.blocked = b
  BY <1>1 DEF UnitType
<1> HIDE DEF new, b
<1>6. unit'[u] = new /\ \A v \in Units \ {u} : unit'[v] = unit[v]
  BY <1>1, <1>4
<1>7. NoneBlocked'
  BY <1>2, <1>3, <1>5, <1>6 DEF NoneBlocked
<1> QED BY <1>2, <1>5, <1>6, <1>7 DEF Sends, Play

\* A frame is given to the units that play the stream, under their sids.
LEMMA GivenTo ==
  ASSUME RefInv, TypeOK, moved = {}, NEW s \in Streams, NEW f, NEW d \in Clients
  PROVE  /\ players[s][d] = 0 => Given(relays, s, f)[d] = relays[d]
         /\ players[s][d] # 0 =>
              /\ Given(relays, s, f)[d] =
                   Append(relays[d], [sid |-> players[s][d], from |-> s, frame |-> f])
              /\ players[s][d] \in Sids
              /\ unit[<<d, players[s][d]>>].auth = "PLAYER"
              /\ unit[<<d, players[s][d]>>].ctx = s
         /\ \A i \in Sids : unit[<<d, i>>].auth = "PLAYER" =>
              (players[s][d] = i <=> unit[<<d, i>>].ctx = s)
<1> USE UnitFacts
<1>1. players[s][d] \in Sids \cup {0}
  BY DEF TypeOK
<1>2. players[s][d] # 0 => /\ unit[<<d, players[s][d]>>].auth = "PLAYER"
                           /\ unit[<<d, players[s][d]>>].ctx = s
  BY DEF RefInv, References, StreamsNamePlayers
<1>3. \A i \in Sids : unit[<<d, i>>].auth = "PLAYER" =>
        players[unit[<<d, i>>].ctx][d] = i
  BY DEF RefInv, References, UnitsAreNamed
<1> QED BY <1>1, <1>2, <1>3 DEF Given

\* What is relayed, and the headers the stream keeps then, are in accordance.
LEMMA PublishHeaders ==
  ASSUME RefInv, TypeOK, HeaderInv, moved = {}, NEW u \in Units, NEW f, Publish(u, f, relays),
         UNCHANGED <<stopped, streams>>,
         f \in [kind : FrameKinds, ver : Headers],
         f.ver = made'[u],
         IsHeader(f) => f.ver[AvcType(f.kind)] # 0,
         \A t \in AvcTypes : ~(IsHeader(f) /\ t = AvcType(f.kind)) => made'[u][t] = made[u][t],
         \A v \in Units \ {u} : made'[v] = made[v]
  PROVE  HeaderInv'
<1> DEFINE k == AvcType(f.kind)
<1>0. PICK s \in Streams : s = unit[u].ctx
  BY DEF TypeOK, Publish, Active
<1>1. /\ unit[u].auth = "PUBLISHER" /\ publisher[s] = u
      /\ UNCHANGED <<unit, shown, stopped>>
      /\ CacheAvc(s, f)
  BY <1>0 DEF RefInv, References, UnitsAreNamed, Publish
<1>2. relays' = Given(relays, s, f)
  BY <1>0 DEF Publish, HeaderInv, NoneBlocked
<1>g. \A d \in Clients :
         /\ players[s][d] = 0 => Given(relays, s, f)[d] = relays[d]
         /\ players[s][d] # 0 =>
              /\ Given(relays, s, f)[d] =
                   Append(relays[d], [sid |-> players[s][d], from |-> s, frame |-> f])
              /\ players[s][d] \in Sids
              /\ unit[<<d, players[s][d]>>].auth = "PLAYER"
              /\ unit[<<d, players[s][d]>>].ctx = s
         /\ \A i \in Sids : unit[<<d, i>>].auth = "PLAYER" =>
              (players[s][d] = i <=> unit[<<d, i>>].ctx = s)
  BY GivenTo
<1>3. /\ relays \in [Clients -> Seq(Relays)] /\ avc \in [Streams -> Headers] /\ k \in AvcTypes
      /\ made \in [Units -> Headers]
  BY HeaderTypes DEF TypeOK
<1> HIDE DEF k
<1>4. /\ \A x \in Streams \ {s} : avc'[x] = avc[x]
      /\ \A t \in AvcTypes : avc'[s][t] = IF IsHeader(f) /\ t = k THEN f.ver[t] ELSE avc[s][t]
  <2>1. CASE ~IsHeader(f)
    BY <1>1, <2>1 DEF CacheAvc
  <2>2. CASE IsHeader(f)
    <3>1. avc' = [avc EXCEPT ![s][k] = f.ver[k]]
      BY <1>1, <2>2 DEF CacheAvc, k
    <3>2. avc[s] \in [AvcTypes -> Nat]
      BY <1>1, <1>3 DEF Headers
    <3> QED BY <1>1, <1>3, <2>2, <3>1, <3>2
  <2> QED BY <2>1, <2>2
<1>5. \A t \in AvcTypes : made[u][t] # 0 => avc[s][t] = made[u][t]
  BY <1>0, <1>1 DEF HeaderInv, MadeIsKept, Exists
<1>6. \A t \in AvcTypes : f.ver[t] # 0 => avc'[s][t] = f.ver[t]
  BY <1>4, <1>5 DEF k
<1>7. ASSUME NEW d \in Clients
      PROVE  \/ players[s][d] = 0 /\ relays'[d] = relays[d]
             \/ players[s][d] # 0 /\ \E r \in Relays :
                  /\ r.sid = players[s][d] /\ r.from = s /\ r.frame = f
                  /\ relays'[d] = Append(relays[d], r)
  <2>1. CASE players[s][d] = 0
    BY <1>1, <1>2, <2>1, <1>g
  <2>2. CASE players[s][d] # 0
    <3> DEFINE r == [sid |-> players[s][d], from |-> s, frame |-> f]
    <3>1. r \in Relays /\ relays'[d] = Append(relays[d], r)
      BY <1>1, <1>2, <2>2, <1>g DEF Relays
    <3> QED BY <2>2, <3>1
  <2> QED BY <2>1, <2>2
<1>8. ASSUME NEW d \in Clients, NEW j \in DOMAIN relays'[d]
      PROVE  \/ j \in DOMAIN relays[d] /\ relays'[d][j] = relays[d][j]
             \/ players[s][d] # 0 /\ /\ relays'[d][j].sid = players[s][d]
                                     /\ relays'[d][j].from = s /\ relays'[d][j].frame = f
  <2>1. CASE relays'[d] = relays[d]
    BY <1>8, <2>1
  <2>2. CASE relays'[d] # relays[d]
    <3>1. PICK r \in Relays : /\ r.sid = players[s][d] /\ r.from = s /\ r.frame = f
                              /\ relays'[d] = Append(relays[d], r)
      BY <1>7, <2>2
    <3>2. players[s][d] # 0 /\ relays[d] \in Seq(Relays)
      BY <1>3, <1>7, <2>2
    <3>3. \/ j \in DOMAIN relays[d] /\ relays'[d][j] = relays[d][j]
          \/ relays'[d][j] = r
      <4> DEFINE q == relays[d]
                 p == relays'[d]
      <4>1. q \in Seq(Relays) /\ p = Append(q, r) /\ j \in DOMAIN p
        BY <1>8, <3>1, <3>2
      <4> HIDE DEF q, p
      <4>2. (j \in DOMAIN q /\ p[j] = q[j]) \/ p[j] = r
        BY <4>1
      <4> QED BY <4>2 DEF q, p
    <3> QED BY <3>1, <3>2, <3>3
  <2> QED BY <2>1, <2>2
<1>9. NoneBlocked'
  BY <1>1 DEF HeaderInv, NoneBlocked
<1>10. HeadersNumbered'
  <2> SUFFICES ASSUME NEW d \in Clients, NEW j \in DOMAIN relays'[d]
               PROVE  LET g == relays'[d][j].frame IN IsHeader(g) => g.ver[AvcType(g.kind)] # 0
    BY DEF HeadersNumbered
  <2> QED BY <1>8 DEF HeaderInv, HeadersNumbered
<1>11. RelaysPlay'
  <2> SUFFICES ASSUME NEW d \in Clients, ~stopped[d], NEW j \in DOMAIN relays'[d]
               PROVE  LET v == <<d, relays'[d][j].sid>>
                      IN  unit[v].auth = "PLAYER" /\ unit[v].ctx = relays'[d][j].from
    BY <1>1 DEF RelaysPlay
  <2>1. CASE j \in DOMAIN relays[d] /\ relays'[d][j] = relays[d][j]
    BY <2>1 DEF HeaderInv, RelaysPlay
  <2>2. CASE /\ players[s][d] # 0 /\ relays'[d][j].sid = players[s][d]
             /\ relays'[d][j].from = s
    <3> DEFINE v == <<d, players[s][d]>>
    <3>1. unit[v].auth = "PLAYER" /\ unit[v].ctx = s
      BY <2>2, <1>g
    <3>2. v = <<d, relays'[d][j].sid>>
      BY <2>2
    <3> QED BY <2>2, <3>1, <3>2
  <2> QED BY <1>8, <2>1, <2>2
<1>12. MadeIsKept'
  <2> SUFFICES ASSUME NEW v \in Units, NEW t \in AvcTypes, Exists(v), made'[v][t] # 0
               PROVE  unit[v].auth = "PUBLISHER" /\ avc'[unit[v].ctx][t] = made'[v][t]
    BY <1>1 DEF MadeIsKept, Exists
  <2>1. CASE v = u
    BY <1>0, <1>1, <1>6, <2>1
  <2>2. CASE v # u
    <3>1. unit[v].auth = "PUBLISHER" /\ avc[unit[v].ctx][t] = made'[v][t]
      BY <2>2 DEF HeaderInv, MadeIsKept
    <3>2. unit[v].ctx \in Streams /\ publisher[unit[v].ctx] = v
      BY <3>1 DEF RefInv, References, UnitsAreNamed
    <3>3. unit[v].ctx # s
      BY <1>1, <2>2, <3>2
    <3> QED BY <1>4, <3>1, <3>2, <3>3
  <2> QED BY <2>1, <2>2
<1>13. PlayersInTurn'
  <2> SUFFICES ASSUME NEW d \in Clients, NEW i \in Sids, NEW t \in AvcTypes,
                      ~stopped[d], unit[<<d, i>>].auth = "PLAYER"
               PROVE  InTurn(shown[<<d, i>>][t], relays'[d], i, t, avc'[unit[<<d, i>>].ctx][t])
    BY <1>1, UnitFacts DEF PlayersInTurn
  <2>0. PICK h, x : h = shown[<<d, i>>][t] /\ x = unit[<<d, i>>].ctx
    OBVIOUS
  <2>1. /\ InTurn(h, relays[d], i, t, avc[x][t])
        /\ x \in Streams /\ relays[d] \in Seq(Relays)
    BY <1>3, <2>0, UnitFacts DEF HeaderInv, PlayersInTurn, TypeOK, Active
  <2>2. players[s][d] = i <=> x = s
    BY <1>g, <2>0
  <2>3. i # 0
    BY UnitFacts
  <2>4. ASSUME players[s][d] = 0 PROVE InTurn(h, relays'[d], i, t, avc'[x][t])
    BY <1>4, <1>7, <2>1, <2>2, <2>3, <2>4
  <2>5. ASSUME players[s][d] # 0 PROVE InTurn(h, relays'[d], i, t, avc'[x][t])
    <3>1. PICK r \in Relays : /\ r.sid = players[s][d] /\ r.from = s /\ r.frame = f
                              /\ relays'[d] = Append(relays[d], r)
      BY <1>7, <2>5
    <3>2. avc'[x][t] = IF Brings(r, i, t) THEN r.frame.ver[t] ELSE avc[x][t]
      BY <1>4, <2>1, <2>2, <3>1 DEF Brings, k
    <3>3. r.sid = i /\ ~IsHeader(r.frame) /\ r.frame.ver[t] # 0 => avc[x][t] = r.frame.ver[t]
      BY <1>4, <1>6, <2>2, <3>1
    <3>4. InTurn(h, Append(relays[d], r), i, t, avc'[x][t])
      BY <2>1, <3>2, <3>3, InTurnAppend
    <3> QED BY <3>1, <3>4
  <2>6. InTurn(h, relays'[d], i, t, avc'[x][t])
    BY <2>4, <2>5
  <2> QED BY <2>0, <2>6
<1> QED BY <1>9, <1>10, <1>11, <1>12, <1>13 DEF HeaderInv

\* The frame at the head of a queue is taken, and if it is a header, shown.
LEMMA TakenHeaders ==
  ASSUME TypeOK, HeaderInv, NEW c \in Clients, relays[c] # <<>>,
         relays' = [relays EXCEPT ![c] = Tail(relays[c])],
         UNCHANGED <<stopped, avc, made>>, NoneBlocked',
         \A v \in Units : unit'[v].auth = unit[v].auth /\ unit'[v].ctx = unit[v].ctx,
         \A v \in Units : v[1] # c => shown'[v] = shown[v],
         ~stopped[c] => \A i \in Sids, t \in AvcTypes : shown'[<<c, i>>][t] =
           IF Brings(Head(relays[c]), i, t) THEN Head(relays[c]).frame.ver[t]
                                            ELSE shown[<<c, i>>][t]
  PROVE  HeaderInv'
<1>1. PICK q \in Seq(Relays) : q = relays[c] /\ q # <<>>
  BY DEF TypeOK
<1>2. relays'[c] = Tail(q) /\ \A d \in Clients \ {c} : relays'[d] = relays[d]
  BY <1>1 DEF TypeOK
<1>3. \A j \in DOMAIN Tail(q) : j + 1 \in DOMAIN q /\ Tail(q)[j] = q[j + 1]
  BY <1>1
<1>4. \A d \in Clients : \A j \in DOMAIN relays'[d] :
        \E l \in DOMAIN relays[d] : relays'[d][j] = relays[d][l]
  BY <1>1, <1>2, <1>3
<1>5. HeadersNumbered'
  <2> SUFFICES ASSUME NEW d \in Clients, NEW j \in DOMAIN relays'[d]
               PROVE  LET f == relays'[d][j].frame IN IsHeader(f) => f.ver[AvcType(f.kind)] # 0
    BY DEF HeadersNumbered
  <2>1. PICK l \in DOMAIN relays[d] : relays'[d][j] = relays[d][l]
    BY <1>4
  <2> QED BY <2>1 DEF HeaderInv, HeadersNumbered
<1>6. RelaysPlay'
  <2> SUFFICES ASSUME NEW d \in Clients, ~stopped[d], NEW j \in DOMAIN relays'[d]
               PROVE  LET v == <<d, relays'[d][j].sid>>
                      IN  unit'[v].auth = "PLAYER" /\ unit'[v].ctx = relays'[d][j].from
    BY DEF RelaysPlay
  <2>1. PICK l \in DOMAIN relays[d] : relays'[d][j] = relays[d][l]
    BY <1>4
  <2>2. PICK r : r = relays[d][l]
    OBVIOUS
  <2>3. r \in Relays
    <3>1. relays[d] \in Seq(Relays)
      BY DEF TypeOK
    <3> QED BY <2>2, <3>1
  <2> DEFINE v == <<d, r.sid>>
  <2>4. v \in Units
    BY <2>3, UnitFacts DEF Relays
  <2>5. unit[v].auth = "PLAYER" /\ unit[v].ctx = r.from
    BY <2>2 DEF HeaderInv, RelaysPlay
  <2> QED BY <2>1, <2>2, <2>4, <2>5
<1>7. MadeIsKept'
  BY DEF HeaderInv, MadeIsKept, Exists
<1>8. PlayersInTurn'
  <2> SUFFICES ASSUME NEW d \in Clients, NEW i \in Sids, NEW t \in AvcTypes,
                      ~stopped[d], unit'[<<d, i>>].auth = "PLAYER"
               PROVE  InTurn(shown'[<<d, i>>][t], relays'[d], i, t, avc[unit'[<<d, i>>].ctx][t])
    BY UnitFacts DEF PlayersInTurn
  <2>1. PICK h, x : h = shown[<<d, i>>][t] /\ x = unit[<<d, i>>].ctx
    OBVIOUS
  <2>2. unit'[<<d, i>>].ctx = x /\ InTurn(h, relays[d], i, t, avc[x][t])
    BY <2>1, UnitFacts DEF HeaderInv, PlayersInTurn
  <2>3. CASE d # c
    BY <1>2, <2>1, <2>2, <2>3, UnitFacts
  <2>4. CASE d = c
    <3>1. shown'[<<d, i>>][t] = IF Brings(Head(q), i, t) THEN Head(q).frame.ver[t] ELSE h
      BY <1>1, <2>1, <2>4
    <3>2. PICK a : a = avc[x][t]
      OBVIOUS
    <3>3. InTurn(IF Brings(Head(q), i, t) THEN Head(q).frame.ver[t] ELSE h, Tail(q), i, t, a)
      BY <1>1, <2>2, <2>4, <3>2, InTurnTail
    <3> QED BY <1>2, <2>2, <2>4, <3>1, <3>2, <3>3
  <2> QED BY <2>3, <2>4
<1> QED BY <1>5, <1>6, <1>7, <1>8 DEF HeaderInv

\* A relayed frame is dropped or meets the player it was meant for.
LEMMA DealRelayHeaders ==
  ASSUME TypeOK, HeaderInv, NEW c \in Clients, DealRelay(c)
  PROVE  HeaderInv'
<1>1. PICK q : q = [relays EXCEPT ![c] = Tail(relays[c])]
  OBVIOUS
<1>2. PICK r \in Relays : r = Head(relays[c])
  <2>1. relays[c] \in Seq(Relays) /\ relays[c] # <<>>
    BY DEF TypeOK, DealRelay
  <2> QED BY <2>1
<1>3. PICK u : u = <<c, r.sid>>
  OBVIOUS
<1>4. u \in Units /\ u[1] = c /\ u[2] = r.sid
  BY <1>2, <1>3, UnitFacts DEF Relays
<1>5. relays[c] # <<>> /\ UNCHANGED made
  BY DEF DealRelay
<1>6. CASE stopped[c]
  <2>1. relays' = q /\ UNCHANGED <<unit, avc, shown, stopped>>
    BY <1>1, <1>6 DEF DealRelay, session
  <2>2. NoneBlocked'
    BY <2>1 DEF HeaderInv, NoneBlocked
  <2> QED BY <1>1, <1>5, <1>6, <2>1, <2>2, TakenHeaders
<1>7. CASE ~stopped[c]
  <2>1. DealFlvData(c, r.sid, r.frame, q)
    BY <1>1, <1>2, <1>7 DEF DealRelay
  <2>2. unit[u].auth = "PLAYER"
    <3>1. 1 \in DOMAIN relays[c] /\ relays[c][1] = r
      <4>1. relays[c] \in Seq(Relays)
        BY DEF TypeOK
      <4> QED BY <1>2, <1>5, <4>1
    <3> QED BY <1>3, <1>7, <3>1 DEF HeaderInv, RelaysPlay
  <2>3. Play(u, r.frame, q) /\ UNCHANGED stopped
    BY <1>3, <2>1, <2>2 DEF DealFlvData, Play, Publish, NoFlv, Active
  <2>4. /\ relays' = q /\ UNCHANGED avc
        /\ shown' = IF Sends(u, r.frame) /\ IsHeader(r.frame) /\ r.frame.ver[AvcType(r.frame.kind)] # 0
                    THEN [shown EXCEPT ![u][AvcType(r.frame.kind)] = r.frame.ver[AvcType(r.frame.kind)]]
                    ELSE shown
    BY <2>3 DEF Play
  <2>5. /\ NoneBlocked' /\ Sends(u, r.frame)
        /\ \A v \in Units : unit'[v].auth = unit[v].auth /\ unit'[v].ctx = unit[v].ctx
    BY <1>4, <2>3, PlayIsSteady DEF HeaderInv
  <2>6. IsHeader(r.frame) => r.frame.ver[AvcType(r.frame.kind)] # 0
    <3>1. 1 \in DOMAIN relays[c] /\ relays[c][1] = r
      <4>1. relays[c] \in Seq(Relays)
        BY DEF TypeOK
      <4> QED BY <1>2, <1>5, <4>1
    <3> QED BY <3>1 DEF HeaderInv, HeadersNumbered
  <2>7. \A v \in Units : shown[v] \in [AvcTypes -> Nat]
    BY DEF TypeOK, Headers
  <2>8. \A v \in Units \ {u} : shown'[v] = shown[v]
    BY <2>4 DEF TypeOK
  <2>9. \A t \in AvcTypes :
          shown'[u][t] = IF Brings(r, r.sid, t) THEN r.frame.ver[t] ELSE shown[u][t]
    <3>1. CASE IsHeader(r.frame)
      <4>1. AvcType(r.frame.kind) \in AvcTypes
        BY HeaderTypes
      <4>2. shown' = [shown EXCEPT ![u][AvcType(r.frame.kind)] = r.frame.ver[AvcType(r.frame.kind)]]
        BY <2>4, <2>5, <2>6, <3>1
      <4>3. shown \in [Units -> Headers]
        BY DEF TypeOK
      <4> QED BY <1>4, <2>7, <3>1, <4>1, <4>2, <4>3 DEF Brings
    <3>2. CASE ~IsHeader(r.frame)
      BY <2>4, <3>2 DEF Brings
    <3> QED BY <3>1, <3>2
  <2>10. \A i \in Sids, t \in AvcTypes : shown'[<<c, i>>][t] =
           IF Brings(r, i, t) THEN r.frame.ver[t] ELSE shown[<<c, i>>][t]
    <3> SUFFICES ASSUME NEW i \in Sids, NEW t \in AvcTypes
                 PROVE  shown'[<<c, i>>][t] =
                          IF Brings(r, i, t) THEN r.frame.ver[t] ELSE shown[<<c, i>>][t]
      OBVIOUS
    <3>1. CASE i = r.sid
      BY <1>3, <2>9, <3>1
    <3>2. CASE i # r.sid
      <4>1. <<c, i>> \in Units \ {u} /\ ~Brings(r, i, t)
        BY <1>4, <3>2, UnitFacts DEF Brings
      <4> QED BY <2>8, <4>1
    <3> QED BY <3>1, <3>2
  <2>11. \A v \in Units : v[1] # c => shown'[v] = shown[v]
    BY <1>4, <2>8
  <2>12. \A i \in Sids, t \in AvcTypes : shown'[<<c, i>>][t] =
           IF Brings(Head(relays[c]), i, t) THEN Head(relays[c]).frame.ver[t]
                                            ELSE shown[<<c, i>>][t]
    BY <1>2, <2>10
  <2>13. /\ relays' = [relays EXCEPT ![c] = Tail(relays[c])]
         /\ UNCHANGED <<stopped, avc, made>>
    BY <1>1, <1>5, <2>3, <2>4
  <2> QED BY <1>5, <2>5, <2>11, <2>12, <2>13, TakenHeaders
<1> QED BY <1>6, <1>7

\* A frame of the peer: only a publisher's changes anything.
LEMMA DealFrameHeaders ==
  ASSUME RefInv, TypeOK, HeaderInv, moved = {}, NEW c \in Clients, NEW i \in Sids, NEW k \in Kinds,
         DealFrame(c, i, k)
  PROVE  HeaderInv'
<1>1. PICK u \in Units : u = <<c, i>>
  BY UnitFacts
<1> DEFINE fresh == k \in HeaderKinds /\ unit[u].auth = "PUBLISHER"
<1>2. PICK ver : /\ ver = IF fresh THEN [made[u] EXCEPT ![AvcType(k)] = versions + 1] ELSE made[u]
                 /\ made' = [made EXCEPT ![u] = ver]
                 /\ DealFlvData(c, i, Frame(k, ver), relays)
  BY <1>1 DEF DealFrame
<1>3. PICK f : f = Frame(k, ver)
  OBVIOUS
<1>4. /\ f.kind = k /\ f.ver = ver /\ f = [kind |-> k, ver |-> ver]
      /\ IsHeader(f) <=> k \in HeaderKinds
  BY <1>3 DEF Frame, IsHeader
<1>5. /\ made \in [Units -> Headers] /\ versions \in Nat /\ relays \in [Clients -> Seq(Relays)]
      /\ made[u] \in [AvcTypes -> Nat] /\ AvcType(k) \in AvcTypes
  BY HeaderTypes DEF TypeOK, Headers
<1>6. made'[u] = ver /\ \A v \in Units \ {u} : made'[v] = made[v]
  BY <1>2, <1>5
<1>7. /\ UNCHANGED streams
      /\ Play(u, f, relays) \/ Publish(u, f, relays) \/ NoFlv(c, u, relays)
  BY <1>1, <1>2, <1>3 DEF DealFlvData
<1>8. CASE Publish(u, f, relays)
  <2>1. unit[u].auth = "PUBLISHER"
    BY <1>8 DEF Publish
  <2>2. ver \in Headers
    BY <1>2, <1>5, HeaderTypes DEF Headers
  <2>3. f \in [kind : FrameKinds, ver : Headers]
    BY <1>4, <2>2, StreamAssumption
  <2>4. IsHeader(f) => ver = [made[u] EXCEPT ![AvcType(k)] = versions + 1]
    BY <1>2, <1>4, <2>1
  <2>5. IsHeader(f) => ver[AvcType(k)] # 0
    BY <1>5, <2>4
  <2>6. \A t \in AvcTypes : ~(IsHeader(f) /\ t = AvcType(k)) => ver[t] = made[u][t]
    <3>1. CASE IsHeader(f)
      BY <1>5, <2>4, <3>1
    <3>2. CASE ~IsHeader(f)
      BY <1>2, <1>4, <3>2
    <3> QED BY <3>1, <3>2
  <2>7. UNCHANGED stopped
    BY <1>8 DEF Publish
  <2> QED BY <1>4, <1>6, <1>7, <1>8, <2>3, <2>5, <2>6, <2>7, PublishHeaders
<1>9. CASE Play(u, f, relays)
  <2>1. /\ NoneBlocked' /\ unit[u].auth = "PLAYER"
        /\ \A v \in Units : unit'[v].auth = unit[v].auth /\ unit'[v].ctx = unit[v].ctx
    BY <1>9, PlayIsSteady DEF HeaderInv
  <2>2. \A t \in AvcTypes : made[u][t] = 0
    BY <2>1 DEF HeaderInv, MadeIsKept, Exists
  <2>3. ver = made[u]
    BY <1>2, <2>1
  <2>4. UNCHANGED <<avc, relays, shown>> /\ StopsStay
    BY <1>4, <1>5, <1>9, <2>2, <2>3 DEF Play, StopsStay
  <2>5. \A v \in Units : made'[v] = made[v]
    BY <1>6, <2>3
  <2>6. \A v \in Units : Exists(v)' <=> Exists(v)
    BY <2>1 DEF Exists
  <2> QED BY <1>5, <2>1, <2>4, <2>5, <2>6, HeadersKept
<1>10. CASE NoFlv(c, u, relays)
  <2>1. ver = made[u] /\ UNCHANGED <<unit, avc, relays, shown>> /\ StopsStay
    BY <1>2, <1>10, FailStops DEF NoFlv, Active
  <2>2. \A v \in Units : made'[v] = made[v]
    BY <1>6, <2>1
  <2>3. NoneBlocked'
    BY <2>1 DEF HeaderInv, NoneBlocked
  <2> QED BY <1>5, <2>1, <2>2, <2>3, HeadersKept DEF Exists
<1> QED BY <1>7, <1>8, <1>9, <1>10

\* A stream that a unit has left stays in moved.
LEMMA MovedGrows == [Next]_vars => moved \subseteq moved'
<1> SUFFICES ASSUME [Next]_vars PROVE moved \subseteq moved'
  OBVIOUS
<1>1. ASSUME NEW c \in Clients,
             \/ DealConn(c) \/ DealCreatStream(c) \/ DealBadInvoke(c) \/ DealRelay(c)
             \/ \E i \in Sids : \/ \E pause \in BOOLEAN : DealPause(c, i, pause)
                                \/ \E k \in Kinds : DealFrame(c, i, k)
             \/ \E s \in Streams : DealFCUnpublish(c, s)
      PROVE  moved \subseteq moved'
  BY <1>1 DEF DealConn, DealCreatStream, DealBadInvoke, DealRelay, DealPause, DealFrame,
              DealFCUnpublish, DealFlvData, streams
<1>2. ASSUME NEW c \in Clients,
             \/ Close(c) \/ (\E s \in Streams : DealReleaseStream(c, s))
             \/ (\E i \in Sids : DealDelStream(c, i))
      PROVE  moved \subseteq moved'
  BY <1>2 DEF Close, DealReleaseStream, DealDelStream, StopUnits
<1>3. ASSUME NEW c \in Clients, NEW i \in Sids, NEW s \in Streams,
             DealPlay(c, i, s) \/ DealPublish(c, i, s)
      PROVE  moved \subseteq moved'
  BY <1>3 DEF DealPlay, DealPublish, RegPlayer, RegPublisher, Leaves
<1>4. CASE UNCHANGED vars
  BY <1>4 DEF vars, streams
<1> QED
  BY <1>1, <1>2, <1>3, <1>4 DEF Next

\* Every step of peers that are steadfast keeps the invariant.
LEMMA HeaderNext ==
  ASSUME Steadfast, TypeOK, RefInv, HeaderInv, moved = {}, moved' = {}, [Next]_vars
  PROVE  HeaderInv'
<1>0. relays \in [Clients -> Seq(Relays)]
  BY DEF TypeOK
<1>1. CASE UNCHANGED <<unit, avc, relays, made, shown>> /\ StopsStay
  <2>1. NoneBlocked'
    BY <1>1 DEF HeaderInv, NoneBlocked
  <2> QED BY <1>0, <1>1, <2>1, HeadersKept DEF Exists
<1>2. ASSUME NEW c \in Clients, DealConn(c) \/ DealBadInvoke(c) PROVE HeaderInv'
  BY <1>1, <1>2, FailStops DEF DealConn, DealBadInvoke, history
<1>3. ASSUME NEW c \in Clients, Close(c) PROVE HeaderInv'
  <2> DEFINE U == {c} \X Sids
  <2>1. U \in SUBSET Units /\ \A u \in U : u[1] = c
    BY DEF Units
  <2>2. /\ StopUnits(U) /\ UNCHANGED <<avc, relays, history>>
        /\ stopped' = [stopped EXCEPT ![c] = TRUE] /\ stopped \in [Clients -> BOOLEAN]
    BY <1>3 DEF Close, TypeOK
  <2> HIDE DEF U
  <2>3. stopped'[c] /\ StopsStay
    BY <2>2 DEF StopsStay
  <2> QED BY <2>1, <2>2, <2>3, StopUnitsHeaders
<1>4. ASSUME NEW c \in Clients, NEW s \in Streams, DealReleaseStream(c, s) PROVE HeaderInv'
  <2>1. PICK U : U = {publisher[s]}
    OBVIOUS
  <2>2. U \in SUBSET Units /\ \A u \in U : unit[u].auth = "PUBLISHER"
    BY <1>4, <2>1 DEF DealReleaseStream, TypeOK, RefInv, References, StreamsNamePublishers
  <2>3. StopUnits(U) /\ UNCHANGED <<avc, relays, history>> /\ StopsStay
    BY <1>4, <2>1 DEF DealReleaseStream, session, StopsStay
  <2> QED BY <2>2, <2>3, StopUnitsHeaders
<1>5. ASSUME NEW c \in Clients, NEW i \in Sids, NEW s \in Streams,
             DealPlay(c, i, s) \/ DealPublish(c, i, s)
      PROVE  HeaderInv'
  BY <1>5, DealPlayHeaders, DealPublishHeaders
<1>6. CASE UNCHANGED vars
  BY <1>1, <1>6 DEF vars, session, history, StopsStay
<1>7. ASSUME NEW c \in Clients, NEW s \in Streams, DealFCUnpublish(c, s) PROVE HeaderInv'
  BY <1>7 DEF Steadfast, DealFCUnpublish, Asks
<1>8. ASSUME NEW c \in Clients, NEW i \in Sids,
             DealDelStream(c, i) \/ \E pause \in BOOLEAN : DealPause(c, i, pause)
      PROVE  HeaderInv'
  BY <1>8 DEF Steadfast, DealDelStream, DealPause, Asks
<1>9. CASE Next
  BY <1>2, <1>3, <1>4, <1>5, <1>7, <1>8, <1>9, DealCreatStreamHeaders, DealRelayHeaders,
     DealFrameHeaders DEF Next
<1> QED BY <1>6, <1>9

\* While the peers neither pause nor delete their streams nor announce the end
\* of one that goes on, and no unit has left a stream for another role, no player
\* is sent a frame before the headers it was published under, however joining,
\* publishing and relaying interleave.
THEOREM HeadersFirst == Steadfast => (Spec => []HeaderFirst)
<1> SUFFICES ASSUME Steadfast PROVE Spec => []HeaderFirst
  OBVIOUS
<1>1. Init => HeaderInv
  <2> SUFFICES ASSUME Init PROVE HeaderInv
    OBVIOUS
  <2>1. \A u \in Units : unit[u].auth = "NONE" /\ ~unit[u].paused /\ ~unit[u].blocked
    BY DEF Init, NoUnit
  <2>2. \A c \in Clients : DOMAIN relays[c] = {}
    <3>1. \A c \in Clients : relays[c] = <<>>
      BY DEF Init
    <3>2. DOMAIN <<>> = {}
      <4>1. Len(<<>>) = 0 /\ <<>> \in Seq(Relays) /\ 1..0 = {}
        OBVIOUS
      <4> QED BY <4>1, LenProperties
    <3> QED BY <3>1, <3>2
  <2> QED BY <2>1, <2>2 DEF HeaderInv, NoneBlocked, HeadersNumbered, RelaysPlay, MadeIsKept,
                            PlayersInTurn, Exists
<1>2. TypeOK /\ (moved = {} => HeaderInv) => HeaderFirst
  <2> SUFFICES ASSUME TypeOK, HeaderInv, NEW c \in Clients, relays[c] # <<>>,
                      NEW r, r = Head(relays[c]),
                      AboutToSend(c, <<c, r.sid>>, r.frame), ~IsHeader(r.frame),
                      NEW t \in AvcTypes, r.frame.ver[t] # 0
               PROVE  shown[<<c, r.sid>>][t] = r.frame.ver[t]
    BY DEF HeaderFirst
  <2>1. relays[c] \in Seq(Relays)
    BY DEF TypeOK
  <2>2. r \in Relays /\ 1 \in DOMAIN relays[c] /\ relays[c][1] = r
    BY <2>1
  <2>3. PICK u \in Units : u = <<c, r.sid>> /\ u[1] = c /\ u[2] = r.sid
    BY <2>2, UnitFacts DEF Relays
  <2>4. ~stopped[c] /\ unit[u].auth = "PLAYER"
    BY <2>3 DEF AboutToSend
  <2>5. InTurn(shown[u][t], relays[c], r.sid, t, avc[unit[u].ctx][t])
    BY <2>3, <2>4 DEF HeaderInv, PlayersInTurn
  <2>6. ShownAfter(shown[u][t], relays[c], 0, r.sid, t, r.frame.ver[t])
    BY <2>2, <2>5 DEF InTurn
  <2> QED BY <2>3, <2>6 DEF ShownAfter
<1>3. TypeOK /\ RefInv /\ (moved = {} => HeaderInv) /\ [Next]_vars =>
        (moved = {} => HeaderInv)'
  BY HeaderNext, MovedGrows
<1> QED BY <1>1, <1>2, <1>3, RefCorrect, PTL DEF Spec
=============================================================================
