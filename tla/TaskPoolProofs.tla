--------------------------- MODULE TaskPoolProofs ---------------------------
(***************************************************************************)
(* Proofs about TaskPool, for every set of tasks, posters, stoppers and    *)
(* conditions: types, ownership, wake-ups, and the refinement of           *)
(* TaskPromise.                                                            *)
(***************************************************************************)
EXTENDS TaskPool, TLAPS

(* The operations of BitDoor leave well-formed words.                      *)
LEMMA WordTypes ==
  ASSUME NEW w \in Words
  PROVE  /\ Zero \in Words /\ Locked \in Words /\ AllLow \in Words
         /\ \A ev \in Events \cup {"END"} : CheckinWord(w, ev) \in Words
         /\ \A c \in Conds : CheckoutWord(w, c) \in Words
         /\ ReleaseWord(w) \in Words
BY DEF Words, Zero, Locked, AllLow, LowBits, Events, CheckinWord,
       CheckoutWord, ReleaseWord, ReleaseLeaves

(* Type correctness of the pool: Spec => []TypeOK.                         *)
THEOREM TypeCorrect == Spec => []TypeOK
<1>1. Init => TypeOK
  <2> SUFFICES ASSUME Init PROVE TypeOK
    OBVIOUS
  <2>1. Zero \in Words
    BY DEF Words, Zero
  <2>2. \A c \in Conds : CheckoutWord(Zero, c) \in Words
    BY <2>1, WordTypes
  <2>3. state \in [Tasks -> Words]
    BY <2>1, <2>2 DEF Init
  <2>4. QED
    BY <2>3, PoolAssumption
    DEF Init, TypeOK, WorkerPlaces, PosterPlaces, StopperPlaces
<1>2. TypeOK /\ [Next]_vars => TypeOK'
  <2> SUFFICES ASSUME TypeOK, [Next]_vars PROVE TypeOK'
    OBVIOUS
  <2> USE PoolAssumption DEF TypeOK, WorkerPlaces, PosterPlaces, StopperPlaces, pool, service
  <2>1. ASSUME NEW p \in Posters, NEW t \in Tasks,
               NEW ev \in Events \cup {"END"}, Checkin(p, t, ev)
        PROVE  TypeOK'
    <3>1. state' \in [Tasks -> Words]
      BY <2>1, WordTypes DEF Checkin
    <3>2. QED
      BY <3>1, <2>1 DEF Checkin
  <2>2. ASSUME NEW p \in Posters, Push(p) PROVE TypeOK'
    BY <2>2 DEF Push
  <2>3. ASSUME NEW p \in Posters, Login(p) PROVE TypeOK'
    BY <2>3 DEF Login
  <2>4. ASSUME NEW p \in Posters, Fire(p) PROVE TypeOK'
    BY <2>4 DEF Fire
  <2>5. ASSUME NEW p \in Posters, Alarm(p) PROVE TypeOK'
    BY <2>5 DEF Alarm
  <2>6. CASE StartSvc
    BY <2>6 DEF StartSvc, Step
  <2>7. CASE LockDoor
    BY <2>7 DEF LockDoor, Step
  <2>8. CASE TestRunning
    BY <2>8 DEF TestRunning, Step
  <2>9. CASE Splice
    BY <2>9 DEF Splice, Step
  <2>10. ASSUME NEW t \in Tasks, Visit(t) PROVE TypeOK'
    <3>1. Locked \in Words
      BY DEF Words, Locked, LowBits
    <3>2. state' \in [Tasks -> Words]
      BY <3>1, <2>10 DEF Visit
    <3>3. QED
      BY <3>2, <2>10 DEF Visit, Step
  <2>11. ASSUME NEW ret \in Returns, ProcTask(ret) PROVE TypeOK'
    <3>1. curr \in Tasks /\ state[curr] \in Words
      BY <2>11 DEF ProcTask, Step
    <3>2. /\ ReleaseWord(state[curr]) \in Words
          /\ \A c \in Conds : CheckoutWord(state[curr], c) \in Words
      BY <3>1, WordTypes
    <3>3. \E w \in Words : state' = [state EXCEPT ![curr] = w]
      <4>1. CASE ret = "NORM"
        BY <2>11, <3>2, <4>1 DEF ProcTask
      <4>2. CASE ret # "NORM" /\ ret \in Conds
        BY <2>11, <3>2, <4>2 DEF ProcTask
      <4>3. CASE ret # "NORM" /\ ret \notin Conds
        BY <2>11, <3>1, <4>3 DEF ProcTask
      <4>4. QED
        BY <4>1, <4>2, <4>3
    <3>4. state' \in [Tasks -> Words]
      <4>1. PICK w \in Words : state' = [state EXCEPT ![curr] = w]
        BY <3>3
      <4>2. QED
        BY <4>1
    <3>5. kept' \subseteq Tasks
      BY <3>1, <2>11 DEF ProcTask
    <3>6. QED
      BY <3>4, <3>5, <2>11 DEF ProcTask, Step
  <2>12. CASE ProcTaskEnd
    BY <2>12 DEF ProcTaskEnd, Step
  <2>13. CASE EndWalk
    BY <2>13 DEF EndWalk, Step
  <2>14. CASE ReleaseDoor
    BY <2>14 DEF ReleaseDoor, Step
  <2>15. CASE Wait
    BY <2>15 DEF Wait, Step
  <2>16. CASE WaitTimeout
    BY <2>16 DEF WaitTimeout, Step
  <2>17. ASSUME NEW s \in Stoppers, StopTest(s) PROVE TypeOK'
    BY <2>17 DEF StopTest, Advance
  <2>18. ASSUME NEW s \in Stoppers, StopClear(s) PROVE TypeOK'
    BY <2>18 DEF StopClear, Advance
  <2>19. ASSUME NEW s \in Stoppers, StopAlarm(s) PROVE TypeOK'
    BY <2>19 DEF StopAlarm, Advance
  <2>20. CASE UNCHANGED vars
    BY <2>20 DEF vars
  <2>21. QED
    BY <2>1, <2>2, <2>3, <2>4, <2>5, <2>6, <2>7, <2>8, <2>9, <2>10, <2>11,
       <2>12, <2>13, <2>14, <2>15, <2>16, <2>17, <2>18, <2>19, <2>20
    DEF Next, AddTask, EndTask, Resume, Worker, StopSvc
<1>3. QED
  BY <1>1, <1>2, PTL DEF Spec

-----------------------------------------------------------------------------
(* The words of BitDoor: an owned word refuses every event, a waiting one  *)
(* is claimed exactly when it stops waiting.                               *)
LEMMA OwnedWordRefuses ==
  ASSUME NEW w \in Words, NEW ev \in Events \cup {"END"}, OwnedWord(w)
  PROVE  /\ ~ CheckinClaims(w, ev)
         /\ OwnedWord(CheckinWord(w, ev))
BY DEF Words, OwnedWord, Awaited, CheckinClaims, CheckinWord, Zero, AllLow,
       LowBits, Events

(* An event either claims a waiting word, which is owned from then on, or  *)
(* leaves it waiting.                                                      *)
LEMMA WaitingWordClaims ==
  ASSUME NEW w \in Words, NEW ev \in Events \cup {"END"}, WaitingWord(w)
  PROVE  IF CheckinClaims(w, ev) THEN OwnedWord(CheckinWord(w, ev))
                                 ELSE WaitingWord(CheckinWord(w, ev))
<1>1. CASE w = Zero
  BY <1>1 DEF Words, OwnedWord, Awaited, CheckinClaims, CheckinWord, Zero,
              AllLow, LowBits, Events
<1>2. CASE w # Zero
  <2>1. PICK c \in Conds : w.high = {c} /\ c \notin w.low
    BY <1>2 DEF WaitingWord
  <2>2. CASE ev = "END"
    BY <2>1, <2>2 DEF Words, OwnedWord, Awaited, CheckinClaims, CheckinWord,
                      AllLow, LowBits
  <2>3. CASE ev = c
    BY <2>1, <2>3, <2>2 DEF Words, OwnedWord, Awaited, CheckinClaims,
                            CheckinWord, Events
  <2>4. CASE ev # c /\ ev # "END"
    <3>1. ~ CheckinClaims(w, ev)
      BY <1>2, <2>1, <2>4 DEF CheckinClaims, Awaited
    <3>2. CheckinWord(w, ev) = [w EXCEPT !.low = @ \cup {ev}]
      BY <2>4 DEF CheckinWord
    <3>3. WaitingWord(CheckinWord(w, ev))
      BY <3>2, <2>1, <2>4 DEF WaitingWord, IsEof, Words
    <3>4. QED
      BY <3>1, <3>3
  <2>5. QED
    BY <2>2, <2>3, <2>4
<1>3. QED
  BY <1>1, <1>2

(* What no event takes from a word: LOCK, END and the absence of a wait.   *)
LEMMA CheckinKeeps ==
  ASSUME NEW w \in Words, NEW ev \in Events \cup {"END"}
  PROVE  /\ ev = "END" => IsEof(CheckinWord(w, ev))
         /\ IsEof(w) => IsEof(CheckinWord(w, ev))
         /\ "LOCK" \in w.low => "LOCK" \in CheckinWord(w, ev).low
         /\ w.low # {} => CheckinWord(w, ev).low # {}
         /\ w.high = {} => CheckinWord(w, ev).high = {}
         /\ (IsEof(w) => w.low = LowBits) =>
              (IsEof(CheckinWord(w, ev)) => CheckinWord(w, ev).low = LowBits)
BY CondsAssumption
DEF Words, CheckinWord, IsEof, AllLow, LowBits, Events

-----------------------------------------------------------------------------
(* A task no step of the action touches keeps its invariant.               *)
LEMMA Untouched ==
  ASSUME NEW x \in Tasks, TaskInv(x),
         state'[x] = state[x],
         x \in tmp' <=> x \in tmp,
         x \in todo' \cup kept' <=> x \in todo \cup kept,
         x \notin todo' \cap kept',
         Handled(x)' <=> Handled(x),
         \A p \in Posters : Pushing(p, x)' <=> Pushing(p, x),
         x \in asked' <=> x \in asked,
         x \in ended' <=> x \in ended,
         (cpc = "procEnd" /\ curr = x) => (cpc' = "procEnd" /\ curr' = x)
  PROVE  TaskInv(x)'
BY DEF TaskInv, OneOwner, Owned, Queued

(* Checkin: the poster claims the task, or its word keeps its class.       *)
LEMMA OwnCheckin ==
  ASSUME TypeOK, OwnershipInv, NEW x \in Tasks,
         NEW p \in Posters, NEW t \in Tasks, NEW ev \in Events \cup {"END"},
         Checkin(p, t, ev)
  PROVE  TaskInv(x)'
<1> DEFINE w == state[t]
           v == CheckinWord(w, ev)
<1>1. w \in Words /\ ppc[p] = "idle" /\ job[p] \notin Tasks
  BY DEF Checkin, TypeOK
<1>2. /\ state' = [state EXCEPT ![t] = v]
      /\ UNCHANGED <<tmp, todo, kept, curr, cpc, ended>>
      /\ asked' = IF ev = "END" THEN asked \cup {t} ELSE asked
  BY DEF Checkin, pool
<1>3. TaskInv(x) /\ TaskInv(t)
  BY DEF OwnershipInv
<1>4. Handled(x)' <=> Handled(x)
  BY <1>2 DEF Handled
<1>5. CASE x # t
  <2>1. \A q \in Posters : Pushing(q, x)' <=> Pushing(q, x)
    BY <1>1, <1>5 DEF Checkin, Pushing, TypeOK
  <2>2. state'[x] = state[x]
    BY <1>2, <1>5 DEF TypeOK
  <2>3. x \notin todo' \cap kept'
    BY <1>2, <1>3 DEF TaskInv, OneOwner
  <2>4. QED
    BY <1>2, <1>3, <1>4, <1>5, <2>1, <2>2, <2>3, Untouched
<1>6. CASE x = t /\ CheckinClaims(w, ev)
  <2>1. ~ Owned(t) /\ t \notin ended
    <3>1. ~ OwnedWord(w)
      BY <1>1, <1>6, OwnedWordRefuses
    <3>2. ~ Owned(t)
      BY <1>3, <3>1 DEF TaskInv
    <3>3. t \notin ended
      BY <1>3, <3>1, <1>1 DEF TaskInv, OwnedWord, Awaited
    <3>4. QED
      BY <3>2, <3>3
  <2>2. OwnedWord(v)
    BY <1>1, <1>3, <1>6, <2>1, WaitingWordClaims DEF TaskInv
  <2>3. \A q \in Posters : Pushing(q, t)' <=> q = p
    BY <1>6, <2>1 DEF Checkin, Pushing, TypeOK, Owned
  <2>4. OneOwner(t)'
    BY <1>2, <1>4, <1>6, <2>1, <2>3 DEF OneOwner, Owned, Queued
  <2>5. state'[t] = v
    BY <1>2 DEF TypeOK
  <2>6. Owned(t)'
    BY <2>3 DEF Owned
  <2>7. ~ Handled(t)'
    BY <1>4, <1>6, <2>1 DEF Owned
  <2>8. v.low = LowBits \/ ~ IsEof(v)
    BY <1>1, <1>3, CheckinKeeps DEF TaskInv
  <2>9. t \in asked' \ ended' => IsEof(v)
    BY <1>1, <1>2, <1>3, <2>1, CheckinKeeps DEF TaskInv, Owned, Handled
  <2>10. QED
    BY <1>2, <1>6, <2>1, <2>2, <2>4, <2>5, <2>6, <2>7, <2>8, <2>9 DEF TaskInv
<1>7. CASE x = t /\ ~ CheckinClaims(w, ev)
  <2>1. \A q \in Posters : Pushing(q, t)' <=> Pushing(q, t)
    BY <1>7 DEF Checkin, Pushing
  <2>2. OneOwner(t)' /\ (Owned(t)' <=> Owned(t))
    BY <1>2, <1>3, <1>4, <1>7, <2>1 DEF TaskInv, OneOwner, Owned, Queued
  <2>3. state'[t] = v
    BY <1>2 DEF TypeOK
  <2>4. Owned(t) => OwnedWord(v)
    BY <1>1, <1>3, OwnedWordRefuses DEF TaskInv
  <2>5. ~ Owned(t) /\ t \notin ended => WaitingWord(v)
    BY <1>1, <1>3, <1>7, WaitingWordClaims DEF TaskInv
  <2>6. QED
    BY <1>1, <1>2, <1>3, <1>4, <1>7, <2>2, <2>3, <2>4, <2>5, CheckinKeeps
    DEF TaskInv
<1>8. QED
  BY <1>5, <1>6, <1>7

(* Push: the claim becomes a place in m_tmp_list.                          *)
LEMMA OwnPush ==
  ASSUME TypeOK, OwnershipInv, NEW x \in Tasks, NEW p \in Posters, Push(p)
  PROVE  TaskInv(x)'
<1>1. PICK t \in Tasks : Pushing(p, t)
  BY DEF Push, TypeOK, Pushing
<1>2. /\ tmp' = tmp \cup {t}
      /\ UNCHANGED <<state, todo, kept, curr, cpc, asked, ended>>
  BY <1>1 DEF Push, Pushing
<1>3. TaskInv(x) /\ TaskInv(t)
  BY DEF OwnershipInv
<1>4. Handled(x)' <=> Handled(x)
  BY <1>2 DEF Handled
<1>5. \A q \in Posters, y \in Tasks :
        Pushing(q, y)' <=> Pushing(q, y) /\ q # p
  BY PoolAssumption DEF Push, Pushing, TypeOK
<1>6. CASE x # t
  <2>1. \A q \in Posters : Pushing(q, x)' <=> Pushing(q, x)
    BY <1>1, <1>5, <1>6 DEF Pushing
  <2>2. QED
    BY <1>2, <1>3, <1>4, <1>6, <2>1, Untouched DEF TaskInv, OneOwner
<1>7. CASE x = t
  <2>1. Owned(t) /\ Owned(t)'
    BY <1>1, <1>2 DEF Owned, Queued
  <2>2. \A q \in Posters : ~ Pushing(q, t)'
    BY <1>1, <1>3, <1>5 DEF TaskInv, OneOwner
  <2>3. OneOwner(t)'
    BY <1>1, <1>2, <1>3, <1>4, <1>7, <2>2 DEF TaskInv, OneOwner, Queued
  <2>4. QED
    BY <1>2, <1>3, <1>4, <1>7, <2>1, <2>3 DEF TaskInv
<1>8. QED
  BY <1>6, <1>7

(* Splice: the lists are joined.                                           *)
LEMMA OwnSplice ==
  ASSUME TypeOK, OwnershipInv, NEW x \in Tasks, Splice
  PROVE  TaskInv(x)'
<1> todo = {}
  BY DEF Splice, Step, TypeOK
<1>1. TaskInv(x)
  BY DEF OwnershipInv
<1>2. \A q \in Posters : Pushing(q, x)' <=> Pushing(q, x)
  BY DEF Splice, Pushing
<1>3. ~ Handled(x) /\ ~ Handled(x)'
  BY DEF Splice, Step, Handled
<1>4. Queued(x)' <=> Queued(x)
  BY DEF Splice, Queued
<1>5. OneOwner(x)' /\ (Owned(x)' <=> Owned(x))
  BY <1>1, <1>2, <1>3, <1>4 DEF TaskInv, OneOwner, Owned, Splice
<1>6. UNCHANGED <<state, curr, asked, ended>>
  BY DEF Splice
<1>7. cpc # "procEnd"
  BY DEF Splice, Step
<1>8. QED
  BY <1>1, <1>3, <1>5, <1>6, <1>7 DEF TaskInv

(* Visit: the task leaves the list for its handler, its word is locked.    *)
LEMMA OwnVisit ==
  ASSUME TypeOK, OwnershipInv, NEW x \in Tasks, NEW t \in Tasks, Visit(t)
  PROVE  TaskInv(x)'
<1>1. /\ t \in todo /\ todo' = todo \ {t} /\ curr' = t
      /\ state' = [state EXCEPT ![t] = Locked]
      /\ UNCHANGED <<tmp, kept, asked, ended, ppc, job>>
      /\ cpc = "walk" /\ cpc' = IF IsEof(state[t]) THEN "procEnd" ELSE "proc"
  BY DEF Visit, Step
<1>2. TaskInv(x) /\ TaskInv(t)
  BY DEF OwnershipInv
<1>3. \A q \in Posters : Pushing(q, x)' <=> Pushing(q, x)
  BY <1>1 DEF Pushing
<1>4. CASE x # t
  <2>1. state'[x] = state[x]
    BY <1>1, <1>4 DEF TypeOK
  <2>2. ~ Handled(x) /\ ~ Handled(x)'
    BY <1>1, <1>4 DEF Handled
  <2>3. QED
    BY <1>1, <1>2, <1>3, <1>4, <2>1, <2>2, Untouched DEF TaskInv, OneOwner
<1>5. CASE x = t
  <2>1. Handled(t)' /\ Owned(t)' /\ Owned(t)
    BY <1>1 DEF Handled, Owned, Queued
  <2>2. OneOwner(t)'
    BY <1>1, <1>2, <1>3, <1>5 DEF TaskInv, OneOwner, Queued
  <2>3. state'[t] = Locked
    BY <1>1 DEF TypeOK
  <2>4. OwnedWord(Locked) /\ ~ IsEof(Locked)
    BY DEF OwnedWord, Awaited, Locked, IsEof
  <2>5. "LOCK" \in Locked.low /\ Locked.high = {}
    BY DEF Locked
  <2>6. t \in asked \ ended => IsEof(state[t])
    BY <1>1, <1>2 DEF TaskInv
  <2>7. t \notin ended
    BY <1>2, <2>1 DEF TaskInv
  <2>8. QED
    BY <1>1, <1>5, <2>1, <2>2, <2>3, <2>4, <2>5, <2>6, <2>7 DEF TaskInv
<1>6. QED
  BY <1>4, <1>5

(* ProcTaskEnd: the task leaves the pool, its word stays locked.           *)
LEMMA OwnProcTaskEnd ==
  ASSUME TypeOK, OwnershipInv, NEW x \in Tasks, ProcTaskEnd
  PROVE  TaskInv(x)'
<1>1. /\ curr \in Tasks /\ curr' = NoTask /\ ended' = ended \cup {curr}
      /\ UNCHANGED <<state, tmp, todo, kept, asked, ppc, job>>
      /\ cpc = "procEnd" /\ cpc' = "walk"
  BY DEF ProcTaskEnd, Step, TypeOK
<1>2. TaskInv(x)
  BY DEF OwnershipInv
<1>3. \A q \in Posters : Pushing(q, x)' <=> Pushing(q, x)
  BY <1>1 DEF Pushing
<1>4. ~ Handled(x)'
  BY <1>1 DEF Handled
<1>5. CASE x # curr
  <2>1. ~ Handled(x)
    BY <1>5 DEF Handled
  <2>2. QED
    BY <1>1, <1>2, <1>3, <1>4, <1>5, <2>1, Untouched DEF TaskInv, OneOwner
<1>6. CASE x = curr
  <2>1. Handled(x)
    BY <1>1, <1>6 DEF Handled
  <2>2. ~ Owned(x)' /\ OneOwner(x)'
    BY <1>1, <1>2, <1>3, <1>4, <2>1 DEF TaskInv, OneOwner, Owned, Queued
  <2>3. QED
    BY <1>1, <1>2, <1>4, <1>6, <2>1, <2>2 DEF TaskInv
<1>7. QED
  BY <1>5, <1>6

(* What a handler's return does to the word: the task leaves the list only *)
(* with a word that the events to come can claim.                          *)
LEMMA ReturnWord ==
  ASSUME NEW w \in Words, "LOCK" \in w.low, w.high = {},
         IsEof(w) => w.low = LowBits
  PROVE  /\ IF ReleaseLeaves(w) THEN WaitingWord(ReleaseWord(w))
                               ELSE OwnedWord(ReleaseWord(w))
         /\ IsEof(ReleaseWord(w)) <=> IsEof(w)
         /\ IsEof(w) => ReleaseWord(w) = w
         /\ \A c \in Conds :
              /\ IF CheckoutLeaves(w, c) THEN WaitingWord(CheckoutWord(w, c))
                                         ELSE OwnedWord(CheckoutWord(w, c))
              /\ CheckoutWord(w, c).low = w.low
         /\ OwnedWord(w)
<1>1. OwnedWord(w)
  BY DEF OwnedWord, Awaited
<1>2. /\ IF ReleaseLeaves(w) THEN WaitingWord(ReleaseWord(w))
                            ELSE OwnedWord(ReleaseWord(w))
      /\ IsEof(ReleaseWord(w)) <=> IsEof(w)
      /\ IsEof(w) => ReleaseWord(w) = w
  <2>1. CASE ReleaseLeaves(w)
    <3>1. ReleaseWord(w) = Zero /\ ~ IsEof(w)
      BY <2>1 DEF ReleaseWord, ReleaseLeaves, IsEof, Locked
    <3>2. WaitingWord(Zero) /\ ~ IsEof(Zero)
      BY DEF WaitingWord, IsEof, Zero
    <3>3. QED
      BY <2>1, <3>1, <3>2
  <2>2. CASE ~ ReleaseLeaves(w)
    <3>1. ReleaseWord(w) = w
      BY <2>2 DEF ReleaseWord
    <3>2. QED
      BY <1>1, <2>2, <3>1
  <2>3. QED
    BY <2>1, <2>2
<1>4. ASSUME NEW c \in Conds
      PROVE  /\ IF CheckoutLeaves(w, c) THEN WaitingWord(CheckoutWord(w, c))
                                        ELSE OwnedWord(CheckoutWord(w, c))
             /\ CheckoutWord(w, c).low = w.low
  <2>1. CheckoutWord(w, c).high = {c} /\ CheckoutWord(w, c).low = w.low
    BY DEF CheckoutWord, Words
  <2>2. CheckoutLeaves(w, c) <=> c \notin w.low
    BY DEF CheckoutLeaves
  <2>3. CASE c \in w.low
    BY <2>1, <2>2, <2>3 DEF OwnedWord, Awaited
  <2>4. CASE c \notin w.low
    <3>1. ~ IsEof(w)
      BY <2>4 DEF LowBits
    <3>2. QED
      BY <2>1, <2>2, <2>4, <3>1 DEF WaitingWord, IsEof
  <2>5. QED
    BY <2>1, <2>3, <2>4
<1>5. QED
  BY <1>1, <1>2, <1>4

(* ProcTask: the task leaves the list waiting, or stays in it owned.       *)
LEMMA OwnProcTask ==
  ASSUME TypeOK, OwnershipInv, NEW x \in Tasks,
         NEW ret \in Returns, ProcTask(ret)
  PROVE  TaskInv(x)'
<1> DEFINE w == state[curr]
<1>1. /\ curr \in Tasks /\ curr' = NoTask /\ curr' # curr
      /\ UNCHANGED <<tmp, todo, asked, ended, ppc, job>>
      /\ cpc = "proc" /\ cpc' = "walk"
  BY PoolAssumption DEF ProcTask, Step, TypeOK
<1>2. TaskInv(x) /\ TaskInv(curr) /\ Handled(curr) /\ w \in Words
  BY <1>1 DEF OwnershipInv, Handled, TypeOK
<1>3. \A q \in Posters : Pushing(q, x)' <=> Pushing(q, x)
  BY <1>1 DEF Pushing
<1>4. ~ Handled(x)'
  BY <1>1 DEF Handled
<1>5. \E v \in Words :
        /\ state' = [state EXCEPT ![curr] = v]
        /\ \/ kept' = kept /\ WaitingWord(v)
           \/ kept' = kept \cup {curr} /\ OwnedWord(v)
        /\ IsEof(v) <=> IsEof(w)
        /\ IsEof(v) => v.low = LowBits
  <2>1. /\ "LOCK" \in w.low /\ w.high = {} /\ (IsEof(w) => w.low = LowBits)
    BY <1>2 DEF TaskInv
  <2>2. CASE ret = "NORM"
    <3>1. ReleaseWord(w) \in Words
      BY <1>2, WordTypes
    <3>2. /\ state' = [state EXCEPT ![curr] = ReleaseWord(w)]
          /\ kept' = IF ReleaseLeaves(w) THEN kept ELSE kept \cup {curr}
      BY <2>2, CondsAssumption DEF ProcTask
    <3>3. QED
      BY <1>2, <2>1, <3>1, <3>2, ReturnWord
  <2>3. CASE ret # "NORM" /\ ret \in Conds
    <3>1. CheckoutWord(w, ret) \in Words
      BY <1>2, <2>3, WordTypes
    <3>2. /\ state' = [state EXCEPT ![curr] = CheckoutWord(w, ret)]
          /\ kept' = IF CheckoutLeaves(w, ret) THEN kept ELSE kept \cup {curr}
      BY <2>3 DEF ProcTask
    <3>3. /\ IF CheckoutLeaves(w, ret) THEN WaitingWord(CheckoutWord(w, ret))
                                       ELSE OwnedWord(CheckoutWord(w, ret))
          /\ CheckoutWord(w, ret).low = w.low
      BY <1>2, <2>1, <2>3, ReturnWord
    <3>4. QED
      BY <2>1, <3>1, <3>2, <3>3 DEF IsEof
  <2>4. CASE ret # "NORM" /\ ret \notin Conds
    <3>1. state' = [state EXCEPT ![curr] = w] /\ kept' = kept \cup {curr}
      BY <2>4 DEF ProcTask
    <3>2. OwnedWord(w)
      BY <1>2, <2>1, ReturnWord
    <3>3. QED
      BY <1>2, <2>1, <3>1, <3>2
  <2>5. QED
    BY <2>2, <2>3, <2>4
<1>6. CASE x # curr
  <2>1. state'[x] = state[x] /\ (x \in kept' <=> x \in kept)
    BY <1>5, <1>6 DEF TypeOK
  <2>2. ~ Handled(x)
    BY <1>6 DEF Handled
  <2>3. QED
    BY <1>1, <1>2, <1>3, <1>4, <2>1, <2>2, Untouched DEF TaskInv, OneOwner
<1>7. CASE x = curr
  <2>1. PICK v \in Words :
          /\ state' = [state EXCEPT ![curr] = v]
          /\ \/ kept' = kept /\ WaitingWord(v)
             \/ kept' = kept \cup {curr} /\ OwnedWord(v)
          /\ IsEof(v) <=> IsEof(w)
          /\ IsEof(v) => v.low = LowBits
    BY <1>5
  <2>2. state'[curr] = v
    BY <1>1, <2>1 DEF TypeOK
  <2>3. ~ Queued(x) /\ x \notin ended /\ (\A q \in Posters : ~ Pushing(q, x))
    BY <1>2, <1>7 DEF TaskInv, OneOwner, Owned
  <2>4. OneOwner(x)'
    BY <1>1, <1>3, <1>4, <1>7, <2>1, <2>3 DEF OneOwner, Queued
  <2>5. Owned(x)' => OwnedWord(v)
    BY <1>1, <1>3, <1>4, <1>7, <2>1, <2>3 DEF Owned, Queued
  <2>6. ~ Owned(x)' => WaitingWord(v)
    BY <1>1, <1>7, <2>1 DEF Owned, Queued
  <2>7. x \in asked => IsEof(w)
    BY <1>1, <1>2, <1>7, <2>3 DEF TaskInv
  <2>8. QED
    BY <1>1, <1>4, <1>7, <2>1, <2>2, <2>3, <2>4, <2>5, <2>6, <2>7 DEF TaskInv
<1>8. QED
  BY <1>6, <1>7

(* The actions that leave every task where it is.                          *)
LEMMA OwnOthers ==
  ASSUME TypeOK, OwnershipInv, NEW x \in Tasks,
         UNCHANGED <<state, tmp, todo, kept, curr, job, asked, ended>>,
         \A p \in Posters : ppc[p] = "push" <=> ppc'[p] = "push",
         cpc' = cpc \/ {cpc, cpc'} \cap {"proc", "procEnd"} = {}
  PROVE  TaskInv(x)'
<1>1. TaskInv(x)
  BY DEF OwnershipInv
<1>2. \A p \in Posters : Pushing(p, x)' <=> Pushing(p, x)
  BY DEF Pushing
<1>3. Handled(x)' <=> Handled(x)
  BY DEF Handled
<1>4. QED
  BY <1>1, <1>2, <1>3, Untouched DEF TaskInv, OneOwner

(* The ownership protocol: Spec => []OwnershipInv.                         *)
THEOREM Ownership == Spec => []OwnershipInv
<1>1. Init => OwnershipInv
  <2> SUFFICES ASSUME Init, NEW t \in Tasks PROVE TaskInv(t)
    BY DEF OwnershipInv
  <2>1. /\ ~ Owned(t) /\ ~ Handled(t) /\ OneOwner(t)
        /\ t \notin ended /\ t \notin asked
    BY DEF Init, Owned, Queued, Handled, Pushing, OneOwner
  <2>2. WaitingWord(state[t])
    <3>1. WaitingWord(Zero)
      BY DEF WaitingWord, Zero, IsEof
    <3>2. ASSUME NEW c \in Conds PROVE WaitingWord(CheckoutWord(Zero, c))
      BY DEF WaitingWord, Zero, IsEof, CheckoutWord
    <3>3. state[t] \in {Zero} \cup {CheckoutWord(Zero, c) : c \in Conds}
      BY DEF Init
    <3>4. QED
      BY <3>1, <3>2, <3>3
  <2>3. QED
    BY <2>1, <2>2 DEF TaskInv, WaitingWord
<1>2. TypeOK /\ OwnershipInv /\ [Next]_vars => OwnershipInv'
  <2> SUFFICES ASSUME TypeOK, OwnershipInv, [Next]_vars, NEW x \in Tasks
               PROVE  TaskInv(x)'
    BY DEF OwnershipInv
  <2> USE DEF pool, service
  <2>1. ASSUME NEW p \in Posters, NEW t \in Tasks,
               NEW ev \in Events \cup {"END"}, Checkin(p, t, ev)
        PROVE  TaskInv(x)'
    BY <2>1, OwnCheckin
  <2>2. ASSUME NEW p \in Posters, Push(p) PROVE TaskInv(x)'
    BY <2>2, OwnPush
  <2>3. ASSUME NEW p \in Posters, Login(p) PROVE TaskInv(x)'
    BY <2>3, OwnOthers DEF Login, TypeOK
  <2>4. ASSUME NEW p \in Posters, Fire(p) PROVE TaskInv(x)'
    BY <2>4, OwnOthers DEF Fire, TypeOK
  <2>5. ASSUME NEW p \in Posters, Alarm(p) PROVE TaskInv(x)'
    BY <2>5, OwnOthers DEF Alarm, TypeOK
  <2>6. CASE StartSvc
    BY <2>6, OwnOthers DEF StartSvc, Step
  <2>7. CASE LockDoor
    BY <2>7, OwnOthers DEF LockDoor, Step
  <2>8. CASE TestRunning
    BY <2>8, OwnOthers DEF TestRunning, Step
  <2>9. CASE Splice
    BY <2>9, OwnSplice
  <2>10. ASSUME NEW t \in Tasks, Visit(t) PROVE TaskInv(x)'
    BY <2>10, OwnVisit
  <2>11. ASSUME NEW ret \in Returns, ProcTask(ret) PROVE TaskInv(x)'
    BY <2>11, OwnProcTask
  <2>12. CASE ProcTaskEnd
    BY <2>12, OwnProcTaskEnd
  <2>13. CASE EndWalk
    BY <2>13, OwnOthers DEF EndWalk, Step
  <2>14. CASE ReleaseDoor
    BY <2>14, OwnOthers DEF ReleaseDoor, Step
  <2>15. CASE Wait
    BY <2>15, OwnOthers DEF Wait, Step
  <2>16. CASE WaitTimeout
    BY <2>16, OwnOthers DEF WaitTimeout, Step
  <2>17. ASSUME NEW s \in Stoppers, StopTest(s) PROVE TaskInv(x)'
    BY <2>17, OwnOthers DEF StopTest
  <2>18. ASSUME NEW s \in Stoppers, StopClear(s) PROVE TaskInv(x)'
    BY <2>18, OwnOthers DEF StopClear
  <2>19. ASSUME NEW s \in Stoppers, StopAlarm(s) PROVE TaskInv(x)'
    BY <2>19, OwnOthers DEF StopAlarm
  <2>20. CASE UNCHANGED vars
    BY <2>20, OwnOthers DEF vars
  <2>21. QED
    BY <2>1, <2>2, <2>3, <2>4, <2>5, <2>6, <2>7, <2>8, <2>9, <2>10, <2>11,
       <2>12, <2>13, <2>14, <2>15, <2>16, <2>17, <2>18, <2>19, <2>20
    DEF Next, AddTask, EndTask, Resume, Worker, StopSvc
<1>3. QED
  BY <1>1, <1>2, TypeCorrect, PTL DEF Spec

(* No task is ever in two places: the lists of a pool are never torn.      *)
THEOREM SingleOwnership == Spec => []SingleOwner
<1>1. OwnershipInv => SingleOwner
  BY DEF OwnershipInv, TaskInv, SingleOwner
<1>2. QED
  BY <1>1, Ownership, PTL

(* Once procTaskEnd of a task has run no event brings the task back.       *)
THEOREM EndIsFinal == Spec => []NothingAfterEnd
<1>1. TypeOK /\ OwnershipInv => NothingAfterEnd
  BY DEF OwnershipInv, TaskInv, NothingAfterEnd, TypeOK
<1>2. QED
  BY <1>1, TypeCorrect, Ownership, PTL

(* endTask is never lost, whatever the handler returns meanwhile.          *)
THEOREM EndIsKept == Spec => []EndNotLost
<1>1. TypeOK /\ OwnershipInv => EndNotLost
  <2> SUFFICES ASSUME TypeOK, OwnershipInv, NEW t \in asked \ ended
               PROVE  /\ Owned(t)
                      /\ IsEof(state[t]) \/ (cpc = "procEnd" /\ curr = t)
    BY DEF EndNotLost
  <2>1. TaskInv(t)
    BY DEF OwnershipInv, TypeOK
  <2>2. (cpc = "procEnd" /\ curr = t) => Owned(t)
    BY DEF Owned, Handled
  <2>3. QED
    BY <2>1, <2>2 DEF TaskInv, WaitingWord
<1>2. QED
  BY <1>1, TypeCorrect, Ownership, PTL

-----------------------------------------------------------------------------
(* The wake-up protocol: Spec => []WakeInv.  A login either finds the door *)
(* held, and the worker will look again, or owes the worker an alarm.      *)
THEOREM WakeUp == Spec => []WakeInv
<1>1. Init => WakeInv
  BY DEF Init, WakeInv
<1>2. TypeOK /\ WakeInv /\ [Next]_vars => WakeInv'
  <2> SUFFICES ASSUME TypeOK, WakeInv, [Next]_vars PROVE WakeInv'
    OBVIOUS
  <2> USE DEF TypeOK, WakeInv, AlarmComing, pool, service
  <2>1. ASSUME NEW p \in Posters, NEW t \in Tasks,
               NEW ev \in Events \cup {"END"}, Checkin(p, t, ev)
        PROVE  WakeInv'
    <3>1. /\ UNCHANGED <<tmp, door, event, running, cpc, spc>>
          /\ \A q \in Posters : ppc[q] \in {"login", "fire", "alarm"} =>
                                   ppc'[q] = ppc[q]
      BY <2>1 DEF Checkin
    <3>2. QED
      BY <3>1
  <2>2. ASSUME NEW p \in Posters, Push(p) PROVE WakeInv'
    <3>1. /\ UNCHANGED <<door, event, running, cpc, spc>>
          /\ ppc'[p] = "login"
          /\ \A q \in Posters : q # p => ppc'[q] = ppc[q]
          /\ ppc[p] = "push"
      BY <2>2 DEF Push
    <3>2. QED
      BY <3>1
  <2>3. ASSUME NEW p \in Posters, Login(p) PROVE WakeInv'
    <3>1. /\ UNCHANGED <<tmp, event, running, cpc, spc>>
          /\ door' = door \cup {"LOGIN"}
          /\ ppc[p] = "login"
          /\ ppc'[p] = IF door = {} THEN "fire" ELSE "idle"
          /\ \A q \in Posters : q # p => ppc'[q] = ppc[q]
      BY <2>3 DEF Login
    <3>2. CASE door = {}
      BY <3>1, <3>2
    <3>3. CASE door # {}
      BY <3>1, <3>3
    <3>4. QED
      BY <3>2, <3>3
  <2>4. ASSUME NEW p \in Posters, Fire(p) PROVE WakeInv'
    <3>1. /\ UNCHANGED <<tmp, door, event, running, cpc, spc>>
          /\ ppc[p] = "fire"
          /\ ppc'[p] = IF running THEN "alarm" ELSE "idle"
          /\ \A q \in Posters : q # p => ppc'[q] = ppc[q]
      BY <2>4 DEF Fire
    <3>2. QED
      BY <3>1
  <2>5. ASSUME NEW p \in Posters, Alarm(p) PROVE WakeInv'
    <3>1. /\ UNCHANGED <<tmp, door, running, cpc, spc>> /\ event'
          /\ ppc[p] = "alarm"
          /\ \A q \in Posters : q # p => ppc'[q] = ppc[q]
      BY <2>5 DEF Alarm
    <3>2. QED
      BY <3>1
  <2>6. CASE StartSvc
    BY <2>6 DEF StartSvc, Step
  <2>7. CASE LockDoor
    BY <2>7 DEF LockDoor, Step
  <2>8. CASE TestRunning
    BY <2>8 DEF TestRunning, Step
  <2>9. CASE Splice
    BY <2>9 DEF Splice, Step
  <2>10. ASSUME NEW t \in Tasks, Visit(t) PROVE WakeInv'
    BY <2>10 DEF Visit, Step
  <2>11. ASSUME NEW ret \in Returns, ProcTask(ret) PROVE WakeInv'
    <3>1. UNCHANGED <<tmp, door, event, running, ppc, spc>>
      BY <2>11 DEF ProcTask
    <3>2. cpc = "proc" /\ cpc' = "walk"
      BY <2>11 DEF ProcTask, Step
    <3>3. QED
      BY <3>1, <3>2
  <2>12. CASE ProcTaskEnd
    BY <2>12 DEF ProcTaskEnd, Step
  <2>13. CASE EndWalk
    BY <2>13 DEF EndWalk, Step
  <2>14. CASE ReleaseDoor
    BY <2>14 DEF ReleaseDoor, Step
  <2>15. CASE Wait
    BY <2>15 DEF Wait, Step
  <2>16. CASE WaitTimeout
    BY <2>16 DEF WaitTimeout, Step
  <2>17. ASSUME NEW s \in Stoppers, StopTest(s) PROVE WakeInv'
    <3>1. UNCHANGED <<tmp, door, event, running, cpc, ppc>>
      BY <2>17 DEF StopTest
    <3>2. \A r \in Stoppers : spc[r] = "alarm" => spc'[r] = "alarm"
      BY <2>17 DEF StopTest, Advance
    <3>3. QED
      BY <3>1, <3>2
  <2>18. ASSUME NEW s \in Stoppers, StopClear(s) PROVE WakeInv'
    <3>1. UNCHANGED <<tmp, door, event, cpc, ppc>>
      BY <2>18 DEF StopClear
    <3>2. spc'[s] = "alarm"
      BY <2>18 DEF StopClear, Advance
    <3>3. QED
      BY <3>1, <3>2
  <2>19. ASSUME NEW s \in Stoppers, StopAlarm(s) PROVE WakeInv'
    BY <2>19 DEF StopAlarm
  <2>20. CASE UNCHANGED vars
    BY <2>20 DEF vars
  <2>21. QED
    BY <2>1, <2>2, <2>3, <2>4, <2>5, <2>6, <2>7, <2>8, <2>9, <2>10, <2>11,
       <2>12, <2>13, <2>14, <2>15, <2>16, <2>17, <2>18, <2>19, <2>20
    DEF Next, AddTask, EndTask, Resume, Worker, StopSvc
<1>3. QED
  BY <1>1, <1>2, TypeCorrect, PTL DEF Spec

(* The worker never sleeps on queued work.                                 *)
THEOREM NoLostWakeUp == Spec => []NoSleepOnWork
<1>1. WakeInv => NoSleepOnWork
  BY DEF WakeInv, NoSleepOnWork, AlarmComing
<1>2. QED
  BY <1>1, WakeUp, PTL

-----------------------------------------------------------------------------
(* The pool implements TaskPromise (the safety part: fairness is left to   *)
(* TLC).                                                                   *)

(* A task that is on its way to m_node_list for the first time does not    *)
(* look like one whose handler asked for another run.                      *)
Looping(w) == "LOCK" \in w.low /\ w.high = {} /\ ~ IsEof(w)
Arriving(t) == t \in tmp \/ \E p \in Posters : Pushing(p, t)
ArrivalInv == \A t \in Tasks : Arriving(t) => ~ Looping(state[t])

(* checkin makes no word look so: a claim leaves the event or the awaited  *)
(* condition in the word, and LOCK is never set.                           *)
LEMMA CheckinNotLooping ==
  ASSUME NEW w \in Words, NEW ev \in Events \cup {"END"}
  PROVE  /\ ~ Looping(w) => ~ Looping(CheckinWord(w, ev))
         /\ WaitingWord(w) /\ CheckinClaims(w, ev) =>
              ~ Looping(CheckinWord(w, ev))
<1>1. CASE ev = "END"
  BY <1>1 DEF CheckinWord, Looping, IsEof, AllLow, LowBits
<1>2. CASE ev # "END"
  <2>1. /\ CheckinWord(w, ev).low = w.low \cup {ev}
        /\ CheckinWord(w, ev).high = w.high
        /\ ev # "LOCK"
    BY <1>2, CondsAssumption DEF CheckinWord, Words, Events
  <2>2. ~ Looping(w) => ~ Looping(CheckinWord(w, ev))
    BY <1>2, <2>1 DEF Looping, IsEof
  <2>3. WaitingWord(w) => ~ Looping(w)
    BY DEF WaitingWord, Looping, Zero
  <2>4. QED
    BY <2>2, <2>3
<1>3. QED
  BY <1>1, <1>2

(* Spec => []ArrivalInv.                                                   *)
LEMMA Arrivals == Spec => []ArrivalInv
<1>1. Init => ArrivalInv
  BY DEF Init, ArrivalInv, Arriving, Pushing
<1>2. TypeOK /\ OwnershipInv /\ ArrivalInv /\ [Next]_vars => ArrivalInv'
  <2> SUFFICES ASSUME TypeOK, OwnershipInv, ArrivalInv, [Next]_vars,
                      NEW x \in Tasks, Arriving(x)'
               PROVE  ~ Looping(state[x])'
    BY DEF ArrivalInv
  <2> USE DEF pool, service
  <2>0. ASSUME UNCHANGED state, Arriving(x)
        PROVE  ~ Looping(state[x])'
    BY <2>0 DEF ArrivalInv, Looping, IsEof
  <2>1. ASSUME NEW p \in Posters, NEW t \in Tasks,
               NEW ev \in Events \cup {"END"}, Checkin(p, t, ev)
        PROVE  ~ Looping(state[x])'
    <3>1. /\ state' = [state EXCEPT ![t] = CheckinWord(state[t], ev)]
          /\ tmp' = tmp
      BY <2>1 DEF Checkin
    <3>2. state[t] \in Words
      BY DEF TypeOK
    <3>3. CASE Arriving(x)
      <4>1. ~ Looping(state[x])
        BY <3>3 DEF ArrivalInv
      <4>2. CASE x = t
        BY <3>1, <3>2, <4>1, <4>2, CheckinNotLooping
        DEF TypeOK, Looping, IsEof
      <4>3. CASE x # t
        BY <3>1, <4>1, <4>3 DEF TypeOK, Looping, IsEof
      <4>4. QED
        BY <4>2, <4>3
    <3>4. CASE ~ Arriving(x)
      <4>1. x = t /\ CheckinClaims(state[t], ev)
        BY <2>1, <3>1, <3>4 DEF Checkin, Arriving, Pushing, TypeOK
      <4>2. WaitingWord(state[t])
        <5>1. TaskInv(t)
          BY DEF OwnershipInv
        <5>2. ~ OwnedWord(state[t])
          BY <3>2, <4>1, OwnedWordRefuses
        <5>3. t \notin ended
          BY <5>1, <5>2, <3>2 DEF TaskInv, OwnedWord, Awaited
        <5>4. QED
          BY <5>1, <5>2, <5>3 DEF TaskInv
      <4>3. QED
        BY <3>1, <3>2, <4>1, <4>2, CheckinNotLooping
        DEF TypeOK, Looping, IsEof
    <3>5. QED
      BY <3>3, <3>4
  <2>2. ASSUME NEW p \in Posters, Push(p) PROVE ~ Looping(state[x])'
    <3>1. Arriving(x) /\ UNCHANGED state
      BY <2>2 DEF Push, Arriving, Pushing, TypeOK
    <3>2. QED
      BY <3>1, <2>0
  <2>3. ASSUME NEW p \in Posters, Login(p) PROVE ~ Looping(state[x])'
    BY <2>3, <2>0 DEF Login, Arriving, Pushing, TypeOK
  <2>4. ASSUME NEW p \in Posters, Fire(p) PROVE ~ Looping(state[x])'
    BY <2>4, <2>0 DEF Fire, Arriving, Pushing, TypeOK
  <2>5. ASSUME NEW p \in Posters, Alarm(p) PROVE ~ Looping(state[x])'
    BY <2>5, <2>0 DEF Alarm, Arriving, Pushing, TypeOK
  <2>6. CASE StartSvc
    BY <2>6, <2>0 DEF StartSvc, Arriving, Pushing
  <2>7. CASE LockDoor
    BY <2>7, <2>0 DEF LockDoor, Arriving, Pushing
  <2>8. CASE TestRunning
    BY <2>8, <2>0 DEF TestRunning, Arriving, Pushing
  <2>9. CASE Splice
    BY <2>9, <2>0 DEF Splice, Arriving, Pushing
  <2>10. ASSUME NEW t \in Tasks, Visit(t) PROVE ~ Looping(state[x])'
    <3>1. x # t /\ Arriving(x)
      <4>1. t \notin tmp /\ \A q \in Posters : ~ Pushing(q, t)
        BY <2>10 DEF Visit, OwnershipInv, TaskInv, OneOwner, Queued
      <4>2. QED
        BY <2>10, <4>1 DEF Visit, Arriving, Pushing
    <3>2. state'[x] = state[x]
      BY <2>10, <3>1 DEF Visit, TypeOK
    <3>3. QED
      BY <3>1, <3>2 DEF ArrivalInv, Looping, IsEof
  <2>11. ASSUME NEW ret \in Returns, ProcTask(ret)
         PROVE  ~ Looping(state[x])'
    <3>1. curr \in Tasks /\ Handled(curr)
      BY <2>11 DEF ProcTask, Step, TypeOK, Handled
    <3>2. x # curr /\ Arriving(x)
      <4>1. curr \notin tmp /\ \A q \in Posters : ~ Pushing(q, curr)
        BY <3>1 DEF OwnershipInv, TaskInv, OneOwner, Queued
      <4>2. QED
        BY <2>11, <4>1 DEF ProcTask, Arriving, Pushing
    <3>3. state'[x] = state[x]
      BY <2>11, <3>2 DEF ProcTask, TypeOK
    <3>4. QED
      BY <3>2, <3>3 DEF ArrivalInv, Looping, IsEof
  <2>12. CASE ProcTaskEnd
    BY <2>12, <2>0 DEF ProcTaskEnd, Arriving, Pushing
  <2>13. CASE EndWalk
    BY <2>13, <2>0 DEF EndWalk, Arriving, Pushing
  <2>14. CASE ReleaseDoor
    BY <2>14, <2>0 DEF ReleaseDoor, Arriving, Pushing
  <2>15. CASE Wait
    BY <2>15, <2>0 DEF Wait, Arriving, Pushing
  <2>16. CASE WaitTimeout
    BY <2>16, <2>0 DEF WaitTimeout, Arriving, Pushing
  <2>17. ASSUME NEW s \in Stoppers, StopTest(s) \/ StopClear(s) \/ StopAlarm(s)
         PROVE  ~ Looping(state[x])'
    BY <2>17, <2>0 DEF StopTest, StopClear, StopAlarm, Arriving, Pushing
  <2>18. CASE UNCHANGED vars
    BY <2>18, <2>0 DEF vars, Arriving, Pushing
  <2>19. QED
    BY <2>1, <2>2, <2>3, <2>4, <2>5, <2>6, <2>7, <2>8, <2>9, <2>10, <2>11,
       <2>12, <2>13, <2>14, <2>15, <2>16, <2>17, <2>18
    DEF Next, AddTask, EndTask, Resume, Worker, StopSvc
<1>3. QED
  BY <1>1, <1>2, TypeCorrect, Ownership, PTL DEF Spec

-----------------------------------------------------------------------------
(* The values the refinement mapping gives to the variables of TaskPromise.*)
Due       == [t \in Tasks |-> state[t].low \ {"LOCK"}]
Waits     == [t \in Tasks |-> state[t].high]
Again     == {t \in Tasks : Kept(t)}
Ending    == cpc = "procEnd"
PromiseInv == TypeOK /\ OwnershipInv /\ ArrivalInv

(* A step of the pool that changes no word and joins no list is invisible. *)
LEMMA Invisible ==
  ASSUME UNCHANGED <<state, curr, ended>>,
         \A t \in Tasks : Looping(state[t]) =>
             (t \in todo' \cup kept' <=> t \in todo \cup kept),
         (cpc = "procEnd" <=> cpc' = "procEnd")
  PROVE  UNCHANGED Promise!vars
<1>1. Again' = Again
  BY DEF Again, Kept, Looping, IsEof
<1>2. Due' = Due /\ Waits' = Waits /\ Ending' = Ending
  BY DEF Due, Waits, Ending
<1>3. QED
  BY <1>1, <1>2 DEF Promise!vars, Due, Waits, Again, Ending

(* checkin is Post or PostEnd, whether or not it claims the task.          *)
LEMMA RefineCheckin ==
  ASSUME PromiseInv, NEW p \in Posters, NEW t \in Tasks,
         NEW ev \in Events \cup {"END"}, Checkin(p, t, ev)
  PROVE  Promise!Next
<1> DEFINE v == CheckinWord(state[t], ev)
<1>1. /\ state' = [state EXCEPT ![t] = v] /\ state[t] \in Words
      /\ UNCHANGED <<todo, kept, curr, cpc, ended>>
  BY DEF Checkin, pool, PromiseInv, TypeOK
<1>2. \A x \in Tasks : x # t => state'[x] = state[x]
  BY <1>1 DEF PromiseInv, TypeOK
<1>3. state'[t] = v
  BY <1>1 DEF PromiseInv, TypeOK
<1>4. CASE ev = "END"
  <2>1. v = AllLow
    BY <1>4 DEF CheckinWord
  <2>2. Due' = [Due EXCEPT ![t] = Promise!Events \cup {"END"}]
    <3>1. v.low \ {"LOCK"} = Promise!Events \cup {"END"}
      BY <2>1, CondsAssumption DEF AllLow, LowBits, Promise!Events
    <3>2. QED
      BY <1>2, <1>3, <3>1 DEF Due
  <2>3. Waits' = [Waits EXCEPT ![t] = {}]
    <3>1. v.high = {}
      BY <2>1 DEF AllLow
    <3>2. QED
      BY <1>2, <1>3, <3>1 DEF Waits
  <2>4. Again' = Again \ {t}
    BY <1>1, <1>2, <1>3, <2>1 DEF Again, Kept, AllLow, LowBits, IsEof
  <2>5. Promise!PostEnd(t)
    BY <1>1, <2>2, <2>3, <2>4 DEF Promise!PostEnd, Due, Waits, Again
  <2>6. QED
    BY <2>5 DEF Promise!Next
<1>5. CASE ev # "END"
  <2>1. /\ v.low = state[t].low \cup {ev} /\ v.high = state[t].high
        /\ ev \in Promise!Events /\ ev # "LOCK"
    BY <1>1, <1>5, CondsAssumption DEF CheckinWord, Words, Events, Promise!Events
  <2>2. Due' = [Due EXCEPT ![t] = Due[t] \cup {ev}]
    BY <1>2, <1>3, <2>1 DEF Due
  <2>3. Waits' = Waits
    BY <1>2, <1>3, <2>1 DEF Waits
  <2>4. Again' = Again
    BY <1>1, <1>2, <1>3, <1>5, <2>1 DEF Again, Kept, IsEof
  <2>5. Promise!Post(t, ev)
    BY <1>1, <2>2, <2>3, <2>4 DEF Promise!Post, Due, Waits, Again
  <2>6. QED
    BY <2>1, <2>5 DEF Promise!Next
<1>6. QED
  BY <1>4, <1>5

(* A visit serves a task that is ready: a queued task has an event no      *)
(* condition holds back, or its handler asked for another run.             *)
LEMMA RefineVisit ==
  ASSUME PromiseInv, NEW t \in Tasks, Visit(t)
  PROVE  Promise!Next
<1> DEFINE w == state[t]
<1>1. /\ t \in todo /\ todo' = todo \ {t} /\ curr = NoTask /\ curr' = t
      /\ state' = [state EXCEPT ![t] = Locked]
      /\ UNCHANGED <<kept, ended>>
      /\ cpc' = IF IsEof(w) THEN "procEnd" ELSE "proc"
      /\ w \in Words
  BY DEF Visit, Step, PromiseInv, TypeOK
<1>2. TaskInv(t) /\ Owned(t) /\ t \notin kept
  BY <1>1 DEF PromiseInv, OwnershipInv, TaskInv, OneOwner, Owned, Queued
<1>3. Promise!Ready(t)
  <2>1. OwnedWord(w) /\ t \notin ended
    BY <1>2 DEF TaskInv
  <2>2. CASE w.high # {}
    <3>1. PICK c \in w.high : c \in w.low /\ c # "LOCK"
      BY <1>1, <2>1, <2>2, CondsAssumption DEF OwnedWord, Awaited, Words
    <3>2. Waits[t] \cap Due[t] # {}
      BY <3>1 DEF Waits, Due
    <3>3. QED
      BY <2>1, <3>2 DEF Promise!Ready, Waits, Due
  <2>3. CASE w.high = {} /\ w.low \ {"LOCK"} # {}
    BY <2>1, <2>3 DEF Promise!Ready
  <2>4. CASE w.high = {} /\ w.low \ {"LOCK"} = {}
    <3>1. "LOCK" \in w.low /\ ~ IsEof(w)
      BY <2>1, <2>4 DEF OwnedWord, IsEof
    <3>2. t \in Again
      BY <1>1, <2>4, <3>1 DEF Again, Kept
    <3>3. QED
      BY <2>1, <3>2 DEF Promise!Ready, Again
  <2>5. QED
    BY <2>2, <2>3, <2>4
<1>4. \A x \in Tasks : x # t => state'[x] = state[x]
  BY <1>1 DEF PromiseInv, TypeOK
<1>5. state'[t] = Locked
  BY <1>1 DEF PromiseInv, TypeOK
<1>6. Due' = [Due EXCEPT ![t] = {}] /\ Waits' = [Waits EXCEPT ![t] = {}]
  <2>1. Locked.low \ {"LOCK"} = {} /\ Locked.high = {}
    BY DEF Locked
  <2>2. Due' = [Due EXCEPT ![t] = {}]
    BY <1>4, <1>5, <2>1 DEF Due
  <2>3. Waits' = [Waits EXCEPT ![t] = {}]
    BY <1>4, <1>5, <2>1 DEF Waits
  <2>4. QED
    BY <2>2, <2>3
<1>7. Again' = Again \ {t}
  BY <1>1, <1>2, <1>4 DEF Again, Kept, IsEof
<1>8. Ending' = ("END" \in Due[t])
  BY <1>1 DEF Ending, Due, IsEof
<1>9. Promise!Serve(t)
  BY <1>1, <1>3, <1>6, <1>7, <1>8
  DEF Promise!Serve, Due, Waits, Again, Ending
<1>10. QED
  BY <1>9 DEF Promise!Next

(* The return of a handler.                                                *)
LEMMA RefineProcTask ==
  ASSUME PromiseInv, NEW ret \in Returns, ProcTask(ret)
  PROVE  Promise!Next
<1> DEFINE w == state[curr]
<1>1. /\ curr \in Tasks /\ curr # NoTask /\ curr' = NoTask
      /\ UNCHANGED <<todo, ended>>
      /\ cpc = "proc" /\ cpc' = "walk"
      /\ w \in Words
  BY PoolAssumption DEF ProcTask, Step, PromiseInv, TypeOK
<1>2. TaskInv(curr) /\ Handled(curr) /\ curr \notin todo \cup kept
  BY <1>1 DEF PromiseInv, OwnershipInv, TaskInv, OneOwner, Handled, Queued
<1>3. "LOCK" \in w.low /\ w.high = {}
  BY <1>2 DEF TaskInv
<1>4. ASSUME NEW v \in Words, state' = [state EXCEPT ![curr] = v],
             v.low \ {"LOCK"} = w.low \ {"LOCK"},
             \/ v.high = {}
             \/ \E c \in Conds : v.high = {c},
             kept' \in {kept, kept \cup {curr}}
      PROVE  Promise!Next
  <2>1. \A x \in Tasks : x # curr => state'[x] = state[x]
    BY <1>4 DEF PromiseInv, TypeOK
  <2>2. state'[curr] = v
    BY <1>1, <1>4 DEF PromiseInv, TypeOK
  <2>3. Due' = Due
    BY <1>4, <2>1, <2>2 DEF Due
  <2>4. curr \notin Again
    BY <1>2 DEF Again, Kept
  <2>5. \A x \in Tasks : x # curr => (x \in Again' <=> x \in Again)
    BY <1>1, <1>4, <2>1 DEF Again, Kept, IsEof
  <2>6. Again' \subseteq Tasks /\ Again \subseteq Tasks
    BY DEF Again
  <2>7. CASE v.high = {}
    <3>1. Waits' = Waits
      BY <1>3, <2>1, <2>2, <2>7 DEF Waits
    <3>2. Again' \in {Again, Again \cup {curr}}
      BY <1>1, <2>4, <2>5, <2>6
    <3>3. Promise!Return
      BY <1>1, <2>3, <3>1, <3>2 DEF Promise!Return, Due, Waits, Again
    <3>4. QED
      BY <3>3 DEF Promise!Next
  <2>8. ASSUME NEW c \in Conds, v.high = {c} PROVE Promise!Next
    <3>1. Waits' = [Waits EXCEPT ![curr] = {c}]
      BY <2>1, <2>2, <2>8 DEF Waits
    <3>2. curr \notin Again'
      BY <2>2, <2>8 DEF Again, Kept
    <3>3. Again' = Again
      BY <2>4, <2>5, <2>6, <3>2
    <3>4. Promise!Return
      BY <1>1, <2>3, <3>1, <3>3 DEF Promise!Return, Due, Waits, Again
    <3>5. QED
      BY <3>4 DEF Promise!Next
  <2>9. QED
    BY <1>4, <2>7, <2>8
<1>5. kept' \in {kept, kept \cup {curr}}
  BY DEF ProcTask
<1>6. CASE ret = "NORM"
  <2>1. state' = [state EXCEPT ![curr] = ReleaseWord(w)]
    BY <1>6, CondsAssumption DEF ProcTask
  <2>2. ReleaseWord(w) \in Words
    BY <1>1, WordTypes
  <2>3. /\ ReleaseWord(w).low \ {"LOCK"} = w.low \ {"LOCK"}
        /\ ReleaseWord(w).high = {}
    BY <1>3 DEF ReleaseWord, ReleaseLeaves, Locked, Zero
  <2>4. QED
    BY <1>4, <1>5, <2>1, <2>2, <2>3
<1>7. CASE ret # "NORM" /\ ret \in Conds
  <2>1. state' = [state EXCEPT ![curr] = CheckoutWord(w, ret)]
    BY <1>7 DEF ProcTask
  <2>2. CheckoutWord(w, ret) \in Words
    BY <1>1, <1>7, WordTypes
  <2>3. CheckoutWord(w, ret).low = w.low /\ CheckoutWord(w, ret).high = {ret}
    BY <1>1, <1>3 DEF CheckoutWord, Words
  <2>4. QED
    BY <1>4, <1>5, <1>7, <2>1, <2>2, <2>3
<1>8. CASE ret # "NORM" /\ ret \notin Conds
  <2>1. state' = [state EXCEPT ![curr] = w]
    BY <1>8 DEF ProcTask
  <2>2. QED
    BY <1>1, <1>3, <1>4, <1>5, <2>1
<1>9. QED
  BY <1>6, <1>7, <1>8

(* The pool implements the promise: its lists, doors and eventfd never     *)
(* serve two tasks at once, serve a task that is not ready, or serve one   *)
(* after its end.                                                          *)
THEOREM Refinement == Spec => ImplementsPromise
<1>1. Init => Promise!Init
  <2> SUFFICES ASSUME Init PROVE Promise!Init
    OBVIOUS
  <2>1. \A t \in Tasks : /\ state[t].low = {}
                         /\ state[t].high \in {{}} \cup {{c} : c \in Conds}
    <3>1. \A c \in Conds : /\ CheckoutWord(Zero, c).low = {}
                           /\ CheckoutWord(Zero, c).high = {c}
      BY DEF CheckoutWord, Zero
    <3>2. Zero.low = {} /\ Zero.high = {}
      BY DEF Zero
    <3>3. QED
      BY <3>1, <3>2 DEF Init
  <2>2. Due = [t \in Tasks |-> {}]
    BY <2>1 DEF Due
  <2>3. Waits \in [Tasks -> {{}} \cup {{c} : c \in Conds}]
    BY <2>1 DEF Waits
  <2>4. Again = {}
    BY DEF Init, Again, Kept
  <2>5. curr = NoTask /\ Ending = FALSE /\ ended = {}
    BY DEF Init, Ending
  <2>6. QED
    BY <2>2, <2>3, <2>4, <2>5 DEF Promise!Init, Due, Waits, Again, Ending
<1>2. PromiseInv /\ [Next]_vars => [Promise!Next]_(Promise!vars)
  <2> SUFFICES ASSUME PromiseInv, [Next]_vars
               PROVE  Promise!Next \/ UNCHANGED Promise!vars
    OBVIOUS
  <2> USE DEF pool, service
  <2>1. ASSUME NEW p \in Posters, NEW t \in Tasks,
               NEW ev \in Events \cup {"END"}, Checkin(p, t, ev)
        PROVE  Promise!Next
    BY <2>1, RefineCheckin
  <2>2. ASSUME NEW p \in Posters, Resume(p) PROVE UNCHANGED Promise!vars
    BY <2>2, Invisible DEF Resume, Push, Login, Fire, Alarm
  <2>3. CASE StartSvc \/ LockDoor \/ TestRunning \/ EndWalk \/ ReleaseDoor
               \/ Wait \/ WaitTimeout
    BY <2>3, Invisible
    DEF StartSvc, LockDoor, TestRunning, EndWalk, ReleaseDoor, Wait,
        WaitTimeout, Step
  <2>4. CASE Splice
    <3>1. \A t \in tmp : ~ Looping(state[t])
      BY DEF PromiseInv, ArrivalInv, Arriving, TypeOK
    <3>2. todo = {}
      BY <2>4 DEF Splice, Step, PromiseInv, TypeOK
    <3>3. QED
      BY <2>4, <3>1, <3>2, Invisible DEF Splice, Step
  <2>5. ASSUME NEW t \in Tasks, Visit(t) PROVE Promise!Next
    BY <2>5, RefineVisit
  <2>6. ASSUME NEW ret \in Returns, ProcTask(ret) PROVE Promise!Next
    BY <2>6, RefineProcTask
  <2>7. CASE ProcTaskEnd
    <3>1. /\ curr # NoTask /\ curr' = NoTask /\ ended' = ended \cup {curr}
          /\ Ending /\ ~ Ending'
          /\ UNCHANGED <<state, todo, kept>>
      BY <2>7, PoolAssumption
      DEF ProcTaskEnd, Step, PromiseInv, TypeOK, Ending
    <3>2. Due' = Due /\ Waits' = Waits /\ Again' = Again
      BY <3>1 DEF Due, Waits, Again, Kept, IsEof
    <3>3. Promise!End
      BY <3>1, <3>2 DEF Promise!End, Due, Waits, Again, Ending
    <3>4. QED
      BY <3>3 DEF Promise!Next
  <2>8. ASSUME NEW s \in Stoppers, StopTest(s) \/ StopClear(s) \/ StopAlarm(s)
        PROVE  UNCHANGED Promise!vars
    BY <2>8, Invisible DEF StopTest, StopClear, StopAlarm
  <2>9. CASE UNCHANGED vars
    BY <2>9, Invisible DEF vars
  <2>10. QED
    BY <2>1, <2>2, <2>3, <2>4, <2>5, <2>6, <2>7, <2>8, <2>9
    DEF Next, AddTask, EndTask, Worker, StopSvc
<1>3. QED
  BY <1>1, <1>2, TypeCorrect, Ownership, Arrivals, PTL
  DEF Spec, PromiseInv, ImplementsPromise, Promise!Spec
=============================================================================
