------------------------------ MODULE TickTimer ------------------------------
(***************************************************************************)
(* The timers of one thread: a wheel m_tv1 with a slot for each of the     *)
(* next ticks, and a wheel m_tv2 with a slot for each of the next turns of *)
(* the first.  When the first wheel begins a turn, the timers of that turn *)
(* move to it.  The thread adds its timer and ticks the wheels; the only   *)
(* callback (procTimeout) arms the timer that fired once more.             *)
(*                                                                         *)
(* A slot is a set: hlist order decides in which order timers of one tick  *)
(* fire, and nothing more.  m_time, which nobody reads, and m_base, which  *)
(* is this wheel for every timer added here, are left out.                 *)
(***************************************************************************)
EXTENDS Integers, FiniteSets

CONSTANTS
  Timers,     \* the timers (TimerEle) of the thread
  TV1, TV2,   \* TV_1_SIZE and TV_2_SIZE
  TickMod,    \* 2^32: m_tick and m_expires are Uint32
  Intervals   \* the intervals timers are armed with

ASSUME TimerAssumption ==
  /\ IsFiniteSet(Timers)
  /\ TV1 \in Nat \ {0} /\ TV2 \in Nat \ {0}
  /\ TickMod \in Nat \ {0} /\ TickMod % (TV1 * TV2) = 0
  /\ Intervals \subseteq 0 .. TickMod - 1

VARIABLES
  tick,      \* m_tick
  tv1, tv2,  \* the timers in each slot of the wheels
  expires,   \* m_expires of each timer
  interval,  \* m_interval of each timer
  size       \* m_size

vars == <<tick, tv1, tv2, expires, interval, size>>

Slots1 == 0 .. TV1 - 1
Slots2 == 0 .. TV2 - 1

Slot1(x) == x % TV1            \* x & TV_1_MASK
Slot2(x) == (x \div TV1) % TV2 \* (x >> TV_1_BITS) & TV_2_MASK

Init ==
  /\ tick = 0 /\ size = 0
  /\ tv1 = [s \in Slots1 |-> {}] /\ tv2 = [s \in Slots2 |-> {}]
  /\ expires = [t \in Timers |-> 0] /\ interval = [t \in Timers |-> 0]

Linked == {t \in Timers : \/ \E s \in Slots1 : t \in tv1[s]
                          \/ \E s \in Slots2 : t \in tv2[s]}

\* A wheel without the timers T.
Without(T, wheel) == [s \in DOMAIN wheel |-> wheel[s] \ T]

\* modTimer of the unlinked timers T, with the intervals iv, into w1 and w2.
Place(T, now, iv, w1, w2) ==
  /\ expires' = [t \in Timers |->
                   IF t \in T THEN (now + iv[t]) % TickMod ELSE expires[t]]
  /\ tv1' = [s \in Slots1 |->
               w1[s] \cup {t \in T : iv[t] < TV1 /\ Slot1(expires'[t]) = s}]
  /\ tv2' = [s \in Slots2 |->
               w2[s] \cup {t \in T : iv[t] >= TV1 /\ Slot2(expires'[t]) = s}]

\* Mutant: a timer that is armed again is not taken from its slot first.
AddTimerAgain(t, i) ==
  /\ interval' = [interval EXCEPT ![t] = i]
  /\ Place({t}, tick, interval', tv1, tv2)
  /\ size' = IF t \in Linked THEN size ELSE size + 1
  /\ UNCHANGED tick

AddTimer(t, i) ==
  /\ interval' = [interval EXCEPT ![t] = i]
  /\ Place({t}, tick, interval', Without({t}, tv1), Without({t}, tv2))
  /\ size' = IF t \in Linked THEN size ELSE size + 1
  /\ UNCHANGED tick

DelTimer(t) ==
  /\ tv1' = Without({t}, tv1) /\ tv2' = Without({t}, tv2)
  /\ size' = IF t \in Linked THEN size - 1 ELSE size
  /\ UNCHANGED <<tick, expires, interval>>

\* Mutant: the timers stopped are counted as if all were armed.
StopAll ==
  /\ tv1' = Without(Linked, tv1) /\ tv2' = Without(Linked, tv2)
  /\ size' = size - Cardinality(Timers)
  /\ UNCHANGED <<tick, expires, interval>>

Stop ==
  /\ tv1' = Without(Linked, tv1) /\ tv2' = Without(Linked, tv2)
  /\ size' = size - Cardinality(Linked)
  /\ UNCHANGED <<tick, expires, interval>>

\* The timers that move to the first wheel at tick now.
Moving(now) == IF Slot1(now) = 0 THEN tv2[Slot2(now)] ELSE {}

\* The first wheel once they have moved.
Cascaded(now) ==
  [s \in Slots1 |-> tv1[s] \cup {t \in Moving(now) : Slot1(expires[t]) = s}]

\* Mutant: the slot of the tick is fired before timers move to it.
TickThenMove ==
  LET now == (tick + 1) % TickMod
      due == tv1[Slot1(now)]
  IN
  /\ tick' = now
  /\ Place(due, now, interval, Without(due, Cascaded(now)),
           Without(Moving(now), tv2))
  /\ UNCHANGED <<interval, size>>

\* tick: m_size goes down and up again for each timer that fires.
Tick ==
  LET now == (tick + 1) % TickMod
      due == Cascaded(now)[Slot1(now)]
  IN
  /\ tick' = now
  /\ Place(due, now, interval, Without(due, Cascaded(now)),
           Without(Moving(now), tv2))
  /\ UNCHANGED <<interval, size>>

Next ==
  \/ Tick
  \/ Stop
  \/ \E t \in Timers : DelTimer(t) \/ \E i \in Intervals : AddTimer(t, i)

Spec == Init /\ [][Next]_vars

-----------------------------------------------------------------------------
(* Properties.                                                             *)

TypeOK ==
  /\ tick \in 0 .. TickMod - 1
  /\ tv1 \in [Slots1 -> SUBSET Timers] /\ tv2 \in [Slots2 -> SUBSET Timers]
  /\ expires \in [Timers -> 0 .. TickMod - 1]
  /\ interval \in [Timers -> Intervals \cup {0}]
  /\ size \in Nat

(* A timer is in one slot of one wheel, the one its m_expires names, and   *)
(* m_size counts the timers that are in some slot: whatever is added,      *)
(* deleted, stopped, moved or fired, no list node is linked twice.         *)
InOwnSlot ==
  /\ \A s \in Slots1 : \A t \in tv1[s] : Slot1(expires[t]) = s
  /\ \A s \in Slots2 : \A t \in tv2[s] : Slot2(expires[t]) = s
  /\ \A s1 \in Slots1, s2 \in Slots2 : tv1[s1] \cap tv2[s2] = {}
  /\ size = Cardinality(Linked)

\* The ticks until timer t fires: to the end of the turn its slot of the
\* second wheel is for and then to its slot of the first, or to the latter.
Left(t) ==
  IF t \notin Linked THEN 0
  ELSE IF \E s \in Slots1 : t \in tv1[s]
       THEN ((Slot1(expires[t]) - tick - 1) % TV1) + 1
       ELSE ((Slot2(expires[t]) - (tick \div TV1) - 1) % TV2) * TV1
              + TV1 - Slot1(tick) + Slot1(expires[t])

Promise == INSTANCE Deadlines
             WITH left <- [t \in Timers |-> Left(t)], Turn <- TV1,
                  Horizon <- TV1 * TV2

(* Every timer fires at its deadline (Promised): with intervals from one   *)
(* tick to a full turn of both wheels exactly, across the moves between    *)
(* the wheels and the wrap of the tick counter.                            *)
KeepsDeadlines == Promise!Spec
=============================================================================
