--------------------------- MODULE TickTimerProofs ---------------------------
(***************************************************************************)
(* Proofs about TickTimer, for wheels of any size and any timers: every    *)
(* timer is linked in the one slot its m_expires names, m_size counts the  *)
(* timers that are linked, and the wheels implement Deadlines.             *)
(***************************************************************************)
EXTENDS TickTimer, FiniteSetTheorems, TLAPS

Wheel1 == [Slots1 -> SUBSET Timers]
Wheel2 == [Slots2 -> SUBSET Timers]
Expiry == [Timers -> 0 .. TickMod - 1]

\* The timers linked in the wheels w1 and w2.
LinkedIn(w1, w2) == {t \in Timers : \/ \E s \in Slots1 : t \in w1[s]
                                    \/ \E s \in Slots2 : t \in w2[s]}

\* Every timer in w1 and w2 is in the one slot ex names.
Own(w1, w2, ex) ==
  /\ \A s \in Slots1 : \A t \in w1[s] : Slot1(ex[t]) = s
  /\ \A s \in Slots2 : \A t \in w2[s] : Slot2(ex[t]) = s
  /\ \A s1 \in Slots1, s2 \in Slots2 : w1[s1] \cap w2[s2] = {}

\* The slots of a tick are slots of the wheels, and ticks stay below TickMod.
LEMMA SlotsInRange ==
  /\ \A x \in Nat : Slot1(x) \in Slots1 /\ Slot2(x) \in Slots2
  /\ \A x \in Nat : x % TickMod \in 0 .. TickMod - 1
<1>1. ASSUME NEW a \in Nat, NEW b \in Nat \ {0}
      PROVE  a % b \in 0 .. b - 1 /\ a \div b \in Nat
  OBVIOUS
<1> QED BY <1>1, TimerAssumption DEF Slot1, Slot2, Slots1, Slots2

\* modTimer of timers that are in no slot.
LEMMA PlaceOK ==
  ASSUME NEW w1 \in Wheel1, NEW w2 \in Wheel2, expires \in Expiry,
         Own(w1, w2, expires), NEW T \in SUBSET Timers, NEW now \in Nat,
         NEW iv \in [Timers -> Nat], T \cap LinkedIn(w1, w2) = {},
         Place(T, now, iv, w1, w2)
  PROVE  /\ tv1' \in Wheel1 /\ tv2' \in Wheel2 /\ expires' \in Expiry
         /\ Own(tv1', tv2', expires')
         /\ Linked' = LinkedIn(w1, w2) \cup T
<1>1. expires' \in Expiry
  BY SlotsInRange DEF Place, Expiry
<1>2. /\ \A s \in Slots1 : tv1'[s] = w1[s] \cup
           {t \in T : iv[t] < TV1 /\ Slot1(expires'[t]) = s}
      /\ \A s \in Slots2 : tv2'[s] = w2[s] \cup
           {t \in T : iv[t] >= TV1 /\ Slot2(expires'[t]) = s}
      /\ tv1' \in Wheel1 /\ tv2' \in Wheel2
  BY DEF Place, Wheel1, Wheel2
<1>3. \A t \in Timers : /\ Slot1(expires'[t]) \in Slots1 /\ Slot2(expires'[t]) \in Slots2
                        /\ t \notin T => expires'[t] = expires[t]
  <2>1. \A t \in Timers : expires'[t] \in Nat
    BY <1>1, TimerAssumption DEF Expiry
  <2> QED BY <2>1, SlotsInRange DEF Place
<1>4. /\ \A s \in Slots1 : w1[s] \subseteq Timers \ T
      /\ \A s \in Slots2 : w2[s] \subseteq Timers \ T
  BY DEF LinkedIn, Wheel1, Wheel2
<1>5. \A t \in T : ~ (iv[t] < TV1 /\ iv[t] >= TV1) /\ (iv[t] < TV1 \/ iv[t] >= TV1)
  BY TimerAssumption
<1>6. Own(tv1', tv2', expires')
  BY <1>2, <1>3, <1>4, <1>5 DEF Own
<1>7. Linked' = LinkedIn(w1, w2) \cup T
  <2>1. \A t \in T : \/ \E s \in Slots1 : t \in tv1'[s]
                     \/ \E s \in Slots2 : t \in tv2'[s]
    BY <1>2, <1>3, <1>5
  <2>2. \A t \in Timers \ T : (\E s \in Slots1 : t \in tv1'[s])
                                <=> (\E s \in Slots1 : t \in w1[s])
    BY <1>2
  <2>3. \A t \in Timers \ T : (\E s \in Slots2 : t \in tv2'[s])
                                <=> (\E s \in Slots2 : t \in w2[s])
    BY <1>2
  <2> QED BY <2>1, <2>2, <2>3 DEF Linked, LinkedIn
<1> QED BY <1>1, <1>2, <1>6, <1>7

TimerInv == TypeOK /\ InOwnSlot

\* The timers of T are taken from their slots.
LEMMA WithoutOK ==
  ASSUME TimerInv, NEW T \in SUBSET Timers
  PROVE  /\ Without(T, tv1) \in Wheel1 /\ Without(T, tv2) \in Wheel2
         /\ Own(Without(T, tv1), Without(T, tv2), expires)
         /\ LinkedIn(Without(T, tv1), Without(T, tv2)) = Linked \ T
<1>1. /\ \A s \in Slots1 : Without(T, tv1)[s] = tv1[s] \ T
      /\ \A s \in Slots2 : Without(T, tv2)[s] = tv2[s] \ T
      /\ Without(T, tv1) \in Wheel1 /\ Without(T, tv2) \in Wheel2
  BY DEF TimerInv, TypeOK, Without, Wheel1, Wheel2
<1>2. Own(Without(T, tv1), Without(T, tv2), expires)
  BY <1>1 DEF TimerInv, InOwnSlot, Own
<1>3. LinkedIn(Without(T, tv1), Without(T, tv2)) = Linked \ T
  BY <1>1 DEF LinkedIn, Linked
<1> QED BY <1>1, <1>2, <1>3

\* The sets the invariant is about.
LEMMA InvFacts ==
  ASSUME TimerInv
  PROVE  /\ tick \in Nat /\ expires \in Expiry /\ interval \in [Timers -> Nat]
         /\ Linked \subseteq Timers /\ IsFiniteSet(Linked)
         /\ tv1 \in Wheel1 /\ tv2 \in Wheel2 /\ Own(tv1, tv2, expires)
         /\ Linked = LinkedIn(tv1, tv2)
         /\ size = Cardinality(Linked) /\ size \in Nat
<1>1. Linked \subseteq Timers
  BY DEF Linked
<1>2. IsFiniteSet(Linked)
  BY <1>1, FS_Subset, TimerAssumption
<1>3. tick \in Nat /\ interval \in [Timers -> Nat]
  <2>1. TickMod \in Nat /\ Intervals \cup {0} \subseteq Nat
    BY TimerAssumption
  <2> QED BY <2>1 DEF TimerInv, TypeOK
<1> QED BY <1>1, <1>2, <1>3
        DEF TimerInv, TypeOK, InOwnSlot, Own, Wheel1, Wheel2, Expiry, Linked, LinkedIn

\* What is left to show of a step, once it is known what is linked after it.
LEMMA InvFrom ==
  ASSUME tick' \in 0 .. TickMod - 1, tv1' \in Wheel1, tv2' \in Wheel2,
         expires' \in Expiry, interval' \in [Timers -> Intervals \cup {0}],
         Own(tv1', tv2', expires'), size' = Cardinality(Linked')
  PROVE  TimerInv'
<1>1. Linked' \subseteq Timers
  BY DEF Linked
<1>2. size' \in Nat
  BY <1>1, FS_Subset, FS_CardinalityType, TimerAssumption
<1> QED BY <1>2 DEF TimerInv, TypeOK, InOwnSlot, Own, Wheel1, Wheel2, Expiry

\* Nothing is linked at the start.
LEMMA InvInit == Init => TimerInv
<1> SUFFICES ASSUME Init PROVE TimerInv
  OBVIOUS
<1>1. Linked = {}
  BY DEF Init, Linked
<1>2. Cardinality(Linked) = 0
  BY <1>1, FS_EmptySet
<1> QED BY <1>1, <1>2, TimerAssumption DEF Init, TimerInv, TypeOK, InOwnSlot

\* A timer is added, whether it is linked or not.
LEMMA InvAddTimer ==
  ASSUME TimerInv, NEW t \in Timers, NEW i \in Intervals, AddTimer(t, i)
  PROVE  TimerInv'
<1> DEFINE w1 == Without({t}, tv1)
           w2 == Without({t}, tv2)
<1>1. /\ w1 \in Wheel1 /\ w2 \in Wheel2 /\ Own(w1, w2, expires)
      /\ LinkedIn(w1, w2) = Linked \ {t}
  BY WithoutOK
<1> HIDE DEF w1, w2
<1>2. /\ interval' \in [Timers -> Nat]
      /\ interval' \in [Timers -> Intervals \cup {0}]
  <2>1. Intervals \cup {0} \subseteq Nat
    BY TimerAssumption
  <2>2. interval' \in [Timers -> Intervals \cup {0}]
    BY DEF AddTimer, TimerInv, TypeOK
  <2> QED BY <2>1, <2>2
<1>3. Place({t}, tick, interval', w1, w2) /\ UNCHANGED tick
  BY DEF AddTimer, w1, w2
<1>4. /\ tv1' \in Wheel1 /\ tv2' \in Wheel2 /\ expires' \in Expiry
      /\ Own(tv1', tv2', expires')
      /\ Linked' = LinkedIn(w1, w2) \cup {t}
  BY <1>1, <1>2, <1>3, InvFacts, PlaceOK
<1>5. Linked' = Linked \cup {t}
  BY <1>1, <1>4
<1>6. size' = Cardinality(Linked')
  BY <1>5, InvFacts, FS_AddElement DEF AddTimer
<1> QED BY <1>2, <1>3, <1>4, <1>6, InvFrom DEF TimerInv, TypeOK

\* A timer is taken from its slot.
LEMMA InvDelTimer ==
  ASSUME TimerInv, NEW t \in Timers, DelTimer(t)
  PROVE  TimerInv'
<1>1. /\ tv1' \in Wheel1 /\ tv2' \in Wheel2 /\ Own(tv1', tv2', expires')
      /\ LinkedIn(tv1', tv2') = Linked \ {t}
  BY WithoutOK DEF DelTimer
<1>2. Linked' = Linked \ {t}
  BY <1>1 DEF Linked, LinkedIn
<1>3. size' = Cardinality(Linked')
  BY <1>2, InvFacts, FS_RemoveElement DEF DelTimer
<1> QED BY <1>1, <1>3, InvFrom DEF DelTimer, TimerInv, TypeOK, Expiry

\* All timers are.
LEMMA InvStop ==
  ASSUME TimerInv, Stop
  PROVE  TimerInv'
<1>1. /\ tv1' \in Wheel1 /\ tv2' \in Wheel2 /\ Own(tv1', tv2', expires')
      /\ LinkedIn(tv1', tv2') = {}
  BY WithoutOK, InvFacts DEF Stop
<1>2. Linked' = {}
  BY <1>1 DEF Linked, LinkedIn
<1>3. size' = Cardinality(Linked')
  BY <1>2, InvFacts, FS_EmptySet DEF Stop
<1> QED BY <1>1, <1>3, InvFrom DEF Stop, TimerInv, TypeOK, Expiry

\* Timers move to the first wheel and those that are due are placed again.
LEMMA InvTick ==
  ASSUME TimerInv, Tick
  PROVE  TimerInv'
<1> DEFINE now == (tick + 1) % TickMod
           due == Cascaded(now)[Slot1(now)]
           w1  == Without(due, Cascaded(now))
           w2  == Without(Moving(now), tv2)
<1>1. now \in 0 .. TickMod - 1 /\ now \in Nat
  BY InvFacts, SlotsInRange
<1>2. Slot1(now) \in Slots1 /\ Slot2(now) \in Slots2
  BY <1>1, SlotsInRange
<1>3. /\ tick' = now /\ Place(due, now, interval, w1, w2) /\ UNCHANGED <<interval, size>>
  BY DEF Tick
<1> HIDE DEF now
<1>4. /\ Moving(now) \subseteq Linked
      /\ \A t \in Moving(now) : \A s \in Slots1 : t \notin tv1[s]
  BY <1>2, InvFacts DEF Moving, Linked, Own, Wheel2
<1>5. \A s \in Slots1 : Cascaded(now)[s] =
        tv1[s] \cup {t \in Moving(now) : Slot1(expires[t]) = s}
  BY DEF Cascaded
<1>6. due \subseteq Timers
  BY <1>2, <1>4, <1>5, InvFacts DEF Wheel1
<1>7. /\ \A s \in Slots1 : w1[s] = Cascaded(now)[s] \ due
      /\ \A s \in Slots2 : w2[s] = tv2[s] \ Moving(now)
      /\ DOMAIN w1 = Slots1 /\ w1 = [s \in Slots1 |-> w1[s]]
      /\ DOMAIN w2 = Slots2 /\ w2 = [s \in Slots2 |-> w2[s]]
  BY InvFacts DEF Without, Cascaded, Wheel2
<1> HIDE DEF due, w1, w2
<1>8. w1 \in Wheel1 /\ w2 \in Wheel2
  BY <1>4, <1>5, <1>7, InvFacts DEF Wheel1, Wheel2
<1>9. Own(w1, w2, expires)
  BY <1>4, <1>5, <1>7, InvFacts DEF Own
<1>10. \A s \in Slots1 : Cascaded(now)[s] \cap due = {} \/ s = Slot1(now)
  BY <1>2, <1>4, <1>5, InvFacts DEF Own, due
<1>11. LinkedIn(w1, w2) = Linked \ due
  <2>1. \A t \in Timers : Slot1(expires[t]) \in Slots1
    BY InvFacts, SlotsInRange, TimerAssumption DEF Expiry
  <2>2. ASSUME NEW t \in Timers
        PROVE  t \in LinkedIn(w1, w2) <=> t \in Linked /\ t \notin due
    <3>1. t \in Linked <=> \/ \E s \in Slots1 : t \in tv1[s]
                          \/ \E s \in Slots2 : t \in tv2[s]
      BY DEF Linked
    <3>2. t \in LinkedIn(w1, w2) <=> \/ \E s \in Slots1 : t \in w1[s]
                                    \/ \E s \in Slots2 : t \in w2[s]
      BY DEF LinkedIn
    <3>3. \A s \in Slots1 : t \in w1[s] <=>
            /\ t \in tv1[s] \/ (t \in Moving(now) /\ Slot1(expires[t]) = s)
            /\ t \notin due
      BY <1>5, <1>7
    <3>4. \A s \in Slots2 : t \in w2[s] <=> t \in tv2[s] /\ t \notin Moving(now)
      BY <1>7
    <3>5. t \in due => t \in tv1[Slot1(now)] \/ t \in Moving(now)
      BY <1>2, <1>5 DEF due
    <3>6. t \in Moving(now) => \E s \in Slots2 : t \in tv2[s]
      BY <1>2 DEF Moving
    <3>7. t \in tv1[Slot1(now)] => \A s \in Slots2 : t \notin tv2[s]
      BY <1>2, InvFacts DEF Own
    <3>8. ASSUME t \in LinkedIn(w1, w2) PROVE t \in Linked /\ t \notin due
      <4>1. CASE \E s \in Slots1 : t \in w1[s]
        BY <3>1, <3>3, <3>6, <4>1
      <4>2. CASE \E s \in Slots2 : t \in w2[s]
        BY <3>1, <3>4, <3>5, <3>7, <4>2
      <4> QED BY <3>2, <3>8, <4>1, <4>2
    <3>9. ASSUME t \in Linked, t \notin due PROVE t \in LinkedIn(w1, w2)
      <4>1. CASE \E s \in Slots1 : t \in tv1[s]
        BY <3>2, <3>3, <3>9, <4>1
      <4>2. CASE \E s \in Slots2 : t \in tv2[s]
        BY <2>1, <3>2, <3>3, <3>4, <3>9, <4>2
      <4> QED BY <3>1, <3>9, <4>1, <4>2
    <3> QED BY <3>8, <3>9
  <2> QED BY <2>2 DEF LinkedIn, Linked
<1>12. /\ tv1' \in Wheel1 /\ tv2' \in Wheel2 /\ expires' \in Expiry
       /\ Own(tv1', tv2', expires') /\ Linked' = LinkedIn(w1, w2) \cup due
  BY <1>1, <1>3, <1>6, <1>8, <1>9, <1>11, InvFacts, PlaceOK
<1>13. due \subseteq Linked
  BY <1>2, <1>4, <1>5, <1>6 DEF Linked, due
<1>14. Linked' = Linked
  BY <1>11, <1>12, <1>13
<1> QED BY <1>1, <1>3, <1>12, <1>14, InvFrom, InvFacts DEF TimerInv, TypeOK

\* Every step keeps the invariant.
LEMMA InvNext == TimerInv /\ [Next]_vars => TimerInv'
<1> SUFFICES ASSUME TimerInv, [Next]_vars PROVE TimerInv'
  OBVIOUS
<1>1. CASE UNCHANGED vars
  BY <1>1 DEF vars, TimerInv, TypeOK, InOwnSlot, Linked
<1> QED BY <1>1, InvTick, InvStop, InvDelTimer, InvAddTimer DEF Next

\* So it holds in every state.
LEMMA TimerInvHolds == Spec => []TimerInv
BY InvInit, InvNext, PTL DEF Spec

\* Types, and m_size does not drop below zero.
THEOREM TypeCorrect == Spec => []TypeOK
BY TimerInvHolds, PTL DEF TimerInv

\* No list node is linked twice or in the wrong slot, and m_size counts the
\* timers that are linked, for wheels of any size.
THEOREM SlotsSound == Spec => []InOwnSlot
BY TimerInvHolds, PTL DEF TimerInv

-----------------------------------------------------------------------------
(* Arithmetic of the wheels.                                               *)

Rem(a, b) == a % b
Quo(a, b) == a \div b
Splits(a, b, q, r) == r \in 0 .. b - 1 /\ a = b * q + r

LEMMA DivMod ==
  ASSUME NEW a \in Int, NEW b \in Nat \ {0}
  PROVE  Rem(a, b) \in 0 .. b - 1 /\ Quo(a, b) \in Int /\ a = b * Quo(a, b) + Rem(a, b)
<1>1. a % b \in 0 .. b - 1 /\ a \div b \in Int
  OBVIOUS
<1>2. a % b = a - b * (a \div b)
  BY SMTT(20)
<1>3. Rem(a, b) \in 0 .. b - 1 /\ Quo(a, b) \in Int
  BY <1>1 DEF Rem, Quo
<1>4. Rem(a, b) = a - b * Quo(a, b)
  BY <1>2 DEF Rem, Quo
<1> QED BY <1>3, <1>4

LEMMA MulMono ==
  ASSUME NEW x \in Int, NEW b \in Nat \ {0}
  PROVE  (x >= 1 => b * x >= b) /\ (x <= -1 => b * x <= -b)
OBVIOUS

\* A quotient and a remainder are the only ones.
LEMMA DivModIs ==
  ASSUME NEW b \in Nat \ {0}, NEW q \in Int, NEW r \in Int, NEW a \in Int, Splits(a, b, q, r)
  PROVE  Rem(a, b) = r /\ Quo(a, b) = q
<1>0. r \in 0 .. b - 1 /\ a = b * q + r
  BY DEF Splits
<1>1. PICK p \in Int, s \in 0 .. b - 1 : p = Quo(a, b) /\ s = Rem(a, b) /\ a = b * p + s
  BY DivMod
<1>2. b * (p - q) = r - s
  BY <1>0, <1>1
<1>3. p = q
  <2>1. PICK d \in Int : d = p - q /\ b * d = r - s
    BY <1>2
  <2>2. r - s < b /\ r - s > -b /\ b \in Nat
    BY <1>0, <1>1
  <2>3. (d >= 1 => b * d >= b) /\ (d <= -1 => b * d <= -b)
    BY MulMono
  <2>4. PICK g \in Int : g = b * d
    OBVIOUS
  <2>5. PICK h \in Int : h = -b /\ (d >= 1 => g >= b) /\ (d <= -1 => g <= h)
    BY <2>3, <2>4
  <2>6. g < b /\ g > h
    BY <2>1, <2>2, <2>4, <2>5
  <2>7. d \in Int /\ g \in Int /\ h \in Int /\ b \in Int
    BY <2>1, <2>4, <2>5
  <2>8. ~(d >= 1) /\ ~(d <= -1)
    BY <2>5, <2>6, <2>7
  <2>9. d = p - q /\ p \in Int /\ q \in Int
    BY <1>1, <2>1
  <2> QED BY <2>7, <2>8, <2>9
<1>4. p = q
  BY <1>3
<1>5. PICK c \in Int : c = b * q
  OBVIOUS
<1>6. a = c + s /\ a = c + r
  BY <1>0, <1>1, <1>4, <1>5
<1>7. r = s
  BY <1>6
<1> QED BY <1>1, <1>4, <1>7

\* Whole turns change no remainder, and equal remainders are whole turns apart.
LEMMA Turns ==
  ASSUME NEW b \in Nat \ {0}, NEW x \in Int, NEW y \in Int
  PROVE  /\ \A k \in Int : y = b * k + x =>
              Rem(y, b) = Rem(x, b) /\ Quo(y, b) = k + Quo(x, b)
         /\ Rem(x, b) = Rem(y, b) => \E k \in Int : x = b * k + y
<1>1. PICK q \in Int, r \in 0 .. b - 1 : q = Quo(x, b) /\ r = Rem(x, b) /\ x = b * q + r
  BY DivMod
<1>2. ASSUME NEW k \in Int, y = b * k + x
      PROVE  Rem(y, b) = Rem(x, b) /\ Quo(y, b) = k + Quo(x, b)
  <2>1. y = b * (k + q) + r
    BY <1>1, <1>2
  <2>2. PICK p \in Int : p = k + q /\ y = b * p + r
    BY <2>1
  <2>3. Splits(y, b, p, r) /\ r \in Int
    <3>1. y = b * p + r
      BY <2>2
    <3>2. r \in 0 .. b - 1 /\ r \in Int
      BY <1>1
    <3> QED BY <3>1, <3>2 DEF Splits
  <2>4. Rem(y, b) = r /\ Quo(y, b) = p
    BY <2>3, DivModIs
  <2> QED BY <1>1, <2>2, <2>4
<1>3. ASSUME Rem(x, b) = Rem(y, b)
      PROVE  \E k \in Int : x = b * k + y
  <2>1. PICK p \in Int, s \in 0 .. b - 1 : s = Rem(y, b) /\ y = b * p + s
    BY DivMod
  <2>2. x = b * (q - p) + y
    BY <1>1, <1>3, <2>1
  <2> QED BY <2>2
<1> QED BY <1>2, <1>3

\* What is counted from equal remainders is equal.
LEMMA SameDistance ==
  ASSUME NEW b \in Nat \ {0}, NEW x \in Int, NEW y \in Int, Rem(x, b) = Rem(y, b), NEW s \in Int
  PROVE  Rem(s - y - 1, b) = Rem(s - x - 1, b)
<1>1. PICK k \in Int : x = b * k + y
  BY Turns
<1>2. PICK v \in Int, w \in Int : v = s - y - 1 /\ w = s - x - 1
  OBVIOUS
<1>3. v = b * k + w
  BY <1>1, <1>2
<1>4. Rem(v, b) = Rem(w, b)
  BY <1>3, Turns
<1> QED BY <1>2, <1>4

LEMMA SlotIs ==
  ASSUME NEW x \in Nat
  PROVE  /\ Slot1(x) = Rem(x, TV1) /\ Slot2(x) = Rem(Quo(x, TV1), TV2)
         /\ Slot1(x) \in 0 .. TV1 - 1 /\ Slot2(x) \in 0 .. TV2 - 1
         /\ Quo(x, TV1) \in Nat /\ x = TV1 * Quo(x, TV1) + Slot1(x)
<1>1. Slot1(x) = Rem(x, TV1) /\ Slot2(x) = Rem(Quo(x, TV1), TV2)
  BY DEF Slot1, Slot2, Rem, Quo
<1>2. /\ Rem(x, TV1) \in 0 .. TV1 - 1 /\ Quo(x, TV1) \in Int
      /\ x = TV1 * Quo(x, TV1) + Rem(x, TV1)
  BY TimerAssumption, DivMod
<1>3. Quo(x, TV1) \in Nat
  <2>1. PICK q \in Int, r \in 0 .. TV1 - 1 : q = Quo(x, TV1) /\ x = TV1 * q + r
    BY <1>2
  <2>2. ~ (q <= -1)
    BY <2>1, MulMono, TimerAssumption
  <2> QED BY <2>1, <2>2
<1>4. Rem(Quo(x, TV1), TV2) \in 0 .. TV2 - 1
  BY <1>2, TimerAssumption, DivMod
<1> QED BY <1>1, <1>2, <1>3, <1>4

\* The ticks after tick x to the slot of e in the first wheel, or from the
\* second.
Ticks1(e, x) == Rem(Slot1(e) - x - 1, TV1) + 1
Ticks2(e, x) == Rem(Slot2(e) - Quo(x, TV1) - 1, TV2) * TV1 + TV1 - Slot1(x) + Slot1(e)

\* The wrap of a counter changes no slot.
LEMMA WrapSlots ==
  ASSUME NEW x \in Nat
  PROVE  /\ Rem(x, TickMod) \in Nat
         /\ Slot1(Rem(x, TickMod)) = Slot1(x) /\ Slot2(Rem(x, TickMod)) = Slot2(x)
<1>1. TV1 \in Nat \ {0} /\ TV2 \in Nat \ {0} /\ TickMod \in Nat \ {0}
  BY TimerAssumption
<1>2. PICK h \in Nat \ {0} : h = TV1 * TV2
  BY <1>1
<1>3. PICK w \in Int : TickMod = h * w
  <2>1. Rem(TickMod, h) = 0
    BY <1>2, TimerAssumption DEF Rem
  <2>2. TickMod \in Int
    BY <1>1
  <2>3. PICK w \in Int : w = Quo(TickMod, h)
    BY <1>2, <2>2, DivMod
  <2>4. TickMod = h * w + Rem(TickMod, h)
    BY <1>2, <2>2, <2>3, DivMod
  <2> QED BY <1>2, <2>1, <2>3, <2>4
<1>4. PICK k \in Int, y \in Nat : y = Rem(x, TickMod) /\ x = TickMod * k + y
  <2>1. Rem(x, TickMod) \in Nat /\ Quo(x, TickMod) \in Int
    BY <1>1, DivMod
  <2>2. x = TickMod * Quo(x, TickMod) + Rem(x, TickMod)
    BY <1>1, DivMod
  <2> QED BY <2>1, <2>2
<1>5. PICK z \in Int : z = w * k
  OBVIOUS
<1>6. PICK j \in Int : j = TV2 * z
  BY <1>1
<1>7. x = TV1 * j + y
  <2>1. x = (TV1 * TV2) * (w * k) + y
    BY <1>1, <1>2, <1>3, <1>4
  <2>2. (TV1 * TV2) * z = TV1 * (TV2 * z)
    BY <1>1
  <2> QED BY <1>5, <1>6, <2>1, <2>2
<1>8. Rem(x, TV1) = Rem(y, TV1) /\ Quo(x, TV1) = j + Quo(y, TV1)
  BY <1>1, <1>7, Turns
<1>9. PICK a \in Int, c \in Int : a = Quo(x, TV1) /\ c = Quo(y, TV1) /\ a = TV2 * z + c
  BY <1>6, <1>8, SlotIs
<1>10. Rem(a, TV2) = Rem(c, TV2)
  <2>1. a = TV2 * z + c
    BY <1>9
  <2> QED BY <1>1, <2>1, Turns
<1> QED BY <1>4, <1>8, <1>9, <1>10, SlotIs

\* What is under way is counted from the wrapped counter as from the other.
LEMMA WrapTicks ==
  ASSUME NEW x \in Nat, NEW e \in Nat
  PROVE  /\ Ticks1(e, Rem(x, TickMod)) = Ticks1(e, x)
         /\ Ticks2(e, Rem(x, TickMod)) = Ticks2(e, x)
         /\ Ticks1(Rem(e, TickMod), x) = Ticks1(e, x)
         /\ Ticks2(Rem(e, TickMod), x) = Ticks2(e, x)
<1>1. TV1 \in Nat \ {0} /\ TV2 \in Nat \ {0}
  BY TimerAssumption
<1>2. PICK y \in Nat : y = Rem(x, TickMod)
  BY WrapSlots
<1>3. Slot1(y) = Slot1(x) /\ Slot2(y) = Slot2(x)
  BY <1>2, WrapSlots
<1>4. /\ Rem(y, TV1) = Rem(x, TV1) /\ Rem(Quo(y, TV1), TV2) = Rem(Quo(x, TV1), TV2)
      /\ Quo(y, TV1) \in Int /\ Quo(x, TV1) \in Int /\ Slot1(e) \in Int /\ Slot2(e) \in Int
  BY <1>3, SlotIs
<1>5. Rem(Slot1(e) - y - 1, TV1) = Rem(Slot1(e) - x - 1, TV1)
  <2>1. PICK s \in Int : s = Slot1(e)
    BY <1>4
  <2>2. Rem(s - y - 1, TV1) = Rem(s - x - 1, TV1)
    BY <1>1, <1>4, SameDistance
  <2> QED BY <2>1, <2>2
<1>6. Rem(Slot2(e) - Quo(y, TV1) - 1, TV2) = Rem(Slot2(e) - Quo(x, TV1) - 1, TV2)
  BY <1>1, <1>4, SameDistance
<1>7. Slot1(Rem(e, TickMod)) = Slot1(e) /\ Slot2(Rem(e, TickMod)) = Slot2(e)
  BY WrapSlots
<1> QED BY <1>2, <1>3, <1>5, <1>6, <1>7 DEF Ticks1, Ticks2

\* The tick that follows: in the first wheel one tick less is left, and nothing
\* when the slot has come.
LEMMA NextTick1 ==
  ASSUME NEW x \in Nat, NEW e \in Nat
  PROVE  /\ Ticks1(e, x) \in 1 .. TV1
         /\ Ticks1(e, x) = 1 <=> Slot1(e) = Slot1(x + 1)
         /\ Ticks1(e, x) # 1 => Ticks1(e, x + 1) = Ticks1(e, x) - 1
<1>1. TV1 \in Nat \ {0}
  BY TimerAssumption
<1>2. PICK s \in 0 .. TV1 - 1, n \in 0 .. TV1 - 1, q \in Int :
        /\ s = Slot1(e) /\ n = Slot1(x + 1) /\ x + 1 = TV1 * q + n
  <2>1. PICK y \in Nat : y = x + 1
    OBVIOUS
  <2>2. /\ Slot1(e) \in 0 .. TV1 - 1 /\ Slot1(y) \in 0 .. TV1 - 1 /\ Quo(y, TV1) \in Int
        /\ y = TV1 * Quo(y, TV1) + Slot1(y)
    BY SlotIs
  <2> QED BY <2>1, <2>2
<1>3. PICK v \in Int, w \in Int : v = s - x - 1 /\ w = s - (x + 1) - 1
  OBVIOUS
<1>4. Ticks1(e, x) = Rem(v, TV1) + 1 /\ Ticks1(e, x + 1) = Rem(w, TV1) + 1
  BY <1>2, <1>3 DEF Ticks1
<1>5. PICK r \in 0 .. TV1 - 1, k \in Int : r = Rem(v, TV1) /\ v = TV1 * k + r
  BY <1>1, DivMod
<1>6. r = 0 <=> s = n
  <2>1. s - n = TV1 * (k + q) + r
    BY <1>1, <1>2, <1>3, <1>5
  <2>2. PICK m \in Int : m = k + q /\ s - n = TV1 * m + r
    BY <2>1
  <2>3. ASSUME r = 0 PROVE s = n
    <3>1. ~(m >= 1) /\ ~(m <= -1)
      BY <1>1, <2>2, <2>3, MulMono
    <3> QED BY <1>1, <2>2, <2>3, <3>1
  <2>4. ASSUME s = n PROVE r = 0
    <3>1. ~(m >= 1) /\ ~(m <= -1)
      BY <1>1, <2>2, <2>4, MulMono
    <3> QED BY <1>1, <2>2, <2>4, <3>1
  <2> QED BY <2>3, <2>4
<1>7. r # 0 => Rem(w, TV1) = r - 1
  <2> SUFFICES ASSUME r # 0 PROVE Rem(w, TV1) = r - 1
    OBVIOUS
  <2>1. PICK z \in 0 .. TV1 - 1 : z = r - 1
    BY <1>1, <1>5
  <2>2. w = v - 1
    BY <1>3
  <2>3. PICK c \in Int : c = TV1 * k
    BY <1>1, <1>5
  <2>4. w = c + z
    <3>1. v = c + r
      BY <1>5, <2>3
    <3> QED BY <1>3, <2>1, <2>2, <2>3, <3>1
  <2>5. Splits(w, TV1, k, z)
    BY <2>1, <2>3, <2>4 DEF Splits
  <2>6. Rem(w, TV1) = z
    <3>1. z \in Int
      BY <2>1
    <3> QED BY <1>1, <2>5, <3>1, DivModIs
  <2> QED BY <2>1, <2>6
<1> QED BY <1>1, <1>2, <1>4, <1>5, <1>6, <1>7

\* How far the first wheel has turned at the tick that follows.
LEMMA NextSlot ==
  ASSUME NEW x \in Nat
  PROVE  \/ /\ Slot1(x + 1) = Slot1(x) + 1
            /\ Quo(x + 1, TV1) = Quo(x, TV1)
         \/ /\ Slot1(x + 1) = 0 /\ Slot1(x) = TV1 - 1
            /\ Quo(x + 1, TV1) = Quo(x, TV1) + 1
<1>1. TV1 \in Nat \ {0}
  BY TimerAssumption
<1>2. PICK s \in 0 .. TV1 - 1, q \in Nat :
        s = Slot1(x) /\ q = Quo(x, TV1) /\ x = TV1 * q + s
  BY SlotIs
<1>3. CASE s < TV1 - 1
  <2>1. PICK r \in 0 .. TV1 - 1 : r = s + 1
    BY <1>1, <1>2, <1>3
  <2>2. PICK y \in Nat : y = x + 1
    OBVIOUS
  <2>3. Splits(y, TV1, q, r)
    <3>1. PICK c \in Int : c = TV1 * q
      BY <1>1, <1>2
    <3>2. x = c + s
      BY <1>2, <3>1
    <3>3. y = c + r
      BY <2>1, <2>2, <3>1, <3>2
    <3> QED BY <2>1, <3>1, <3>3 DEF Splits
  <2>4. Rem(y, TV1) = r /\ Quo(y, TV1) = q
    <3>1. q \in Int /\ r \in Int /\ y \in Int
      BY <1>2, <2>1, <2>2
    <3> QED BY <1>1, <2>3, <3>1, DivModIs
  <2>5. Slot1(y) = r
    BY <2>2, <2>4, SlotIs
  <2> QED BY <1>2, <2>1, <2>2, <2>4, <2>5
<1>4. CASE s = TV1 - 1
  <2>1. x + 1 = TV1 * (q + 1) + 0
    BY <1>1, <1>2, <1>4
  <2>2. PICK p \in Int, y \in Nat : p = q + 1 /\ y = x + 1 /\ y = TV1 * p + 0
    BY <2>1
  <2>3. 0 \in 0 .. TV1 - 1
    BY <1>1
  <2>4. Rem(y, TV1) = 0 /\ Quo(y, TV1) = p
    <3>1. Splits(y, TV1, p, 0)
      BY <2>2, <2>3 DEF Splits
    <3>2. y \in Int /\ 0 \in Int
      BY <2>2
    <3> QED BY <1>1, <3>1, <3>2, DivModIs
  <2>5. Slot1(y) = 0
    BY <2>2, <2>4, SlotIs
  <2> QED BY <1>2, <1>4, <2>2, <2>4, <2>5
<1> QED BY <1>1, <1>2, <1>3, <1>4

\* In the second wheel one tick less is left too, until the timers of the slot
\* move: then what is left is up to their slot in the first.
LEMMA NextTick2 ==
  ASSUME NEW x \in Nat, NEW e \in Nat
  PROVE  LET moves == Slot1(x + 1) = 0 /\ Slot2(e) = Slot2(x + 1)
         IN  /\ Ticks2(e, x) \in Nat \ {0}
             /\ moves => /\ Ticks2(e, x) = Slot1(e) + 1
                         /\ Slot1(e) # 0 => Ticks1(e, x + 1) = Slot1(e)
             /\ ~moves => Ticks2(e, x) # 1 /\ Ticks2(e, x + 1) = Ticks2(e, x) - 1
<1>1. TV1 \in Nat \ {0} /\ TV2 \in Nat \ {0}
  BY TimerAssumption
<1>2. PICK s1 \in 0 .. TV1 - 1, s2 \in 0 .. TV2 - 1 : s1 = Slot1(e) /\ s2 = Slot2(e)
  BY SlotIs
<1>3. PICK y \in Nat : y = x + 1
  OBVIOUS
<1>4. PICK a \in Int, b \in Int, r \in 0 .. TV1 - 1, n \in 0 .. TV1 - 1 :
        /\ a = Quo(x, TV1) /\ b = Quo(y, TV1) /\ r = Slot1(x) /\ n = Slot1(y)
  <2>1. /\ Quo(x, TV1) \in Int /\ Slot1(x) \in 0 .. TV1 - 1
        /\ Quo(y, TV1) \in Int /\ Slot1(y) \in 0 .. TV1 - 1
    BY <1>3, SlotIs
  <2> QED BY <2>1
<1>5. \/ n = r + 1 /\ b = a
      \/ n = 0 /\ r = TV1 - 1 /\ b = a + 1
  BY <1>3, <1>4, NextSlot
<1>6. PICK v \in Int, w \in Int : v = s2 - a - 1 /\ w = s2 - b - 1
  OBVIOUS
<1>7. PICK p \in 0 .. TV2 - 1, q \in 0 .. TV2 - 1, k \in Int :
        p = Rem(v, TV2) /\ q = Rem(w, TV2) /\ v = TV2 * k + p
  BY <1>1, DivMod
<1>8. /\ Ticks2(e, x) = p * TV1 + TV1 - r + s1 /\ Ticks2(e, y) = q * TV1 + TV1 - n + s1
      /\ Ticks2(e, x + 1) = Ticks2(e, y) /\ Ticks1(e, x + 1) = Ticks1(e, y)
  BY <1>2, <1>3, <1>4, <1>6, <1>7 DEF Ticks2
<1>9. p * TV1 \in Nat /\ q * TV1 \in Nat
  BY <1>1
<1>10. Ticks2(e, x) \in Nat \ {0}
  BY <1>1, <1>8, <1>9
<1>11. Slot2(y) = Rem(b, TV2) /\ Slot2(y) \in 0 .. TV2 - 1
  BY <1>4, SlotIs
<1>12. b = a + 1 => (p = 0 <=> s2 = Slot2(y))
  <2> SUFFICES ASSUME b = a + 1 PROVE p = 0 <=> s2 = Slot2(y)
    OBVIOUS
  <2>1. PICK m \in 0 .. TV2 - 1, j \in Int : m = Slot2(y) /\ b = TV2 * j + m
    BY <1>1, <1>11, DivMod
  <2>2. s2 - m = TV2 * (k + j) + p
    BY <1>1, <1>6, <1>7, <2>1
  <2>3. PICK i \in Int : i = k + j /\ s2 - m = TV2 * i + p
    BY <2>2
  <2>4. ASSUME p = 0 PROVE s2 = m
    <3>1. ~(i >= 1) /\ ~(i <= -1)
      BY <1>1, <2>3, <2>4, MulMono
    <3> QED BY <1>1, <2>3, <2>4, <3>1
  <2>5. ASSUME s2 = m PROVE p = 0
    <3>1. ~(i >= 1) /\ ~(i <= -1)
      BY <1>1, <2>3, <2>5, MulMono
    <3> QED BY <1>1, <2>3, <2>5, <3>1
  <2> QED BY <2>1, <2>4, <2>5
<1>13. b = a + 1 /\ p # 0 => q = p - 1
  <2> SUFFICES ASSUME b = a + 1, p # 0 PROVE q = p - 1
    OBVIOUS
  <2>1. PICK z \in 0 .. TV2 - 1 : z = p - 1
    BY <1>1, <1>7
  <2>2. w = TV2 * k + z
    BY <1>1, <1>4, <1>6, <1>7, <2>1
  <2>3. Splits(w, TV2, k, z)
    BY <2>1, <2>2 DEF Splits
  <2>4. Rem(w, TV2) = z
    BY <1>1, <1>6, <1>7, <2>1, <2>3, DivModIs
  <2> QED BY <1>7, <2>1, <2>4
<1>14. b = a => q = p
  BY <1>6, <1>7
<1>15. CASE n = r + 1 /\ b = a
  <2>1. n # 0 /\ q = p
    BY <1>14, <1>15
  <2>2. Ticks2(e, y) = Ticks2(e, x) - 1 /\ Ticks2(e, x) # 1
    BY <1>1, <1>8, <1>9, <1>15, <2>1
  <2> QED BY <1>3, <1>4, <1>8, <1>10, <2>1, <2>2
<1>16. CASE n = 0 /\ r = TV1 - 1 /\ b = a + 1
  <2>1. CASE p = 0
    <3>1. Ticks2(e, x) = s1 + 1
      BY <1>1, <1>8, <1>16, <2>1
    <3>2. s1 # 0 => Ticks1(e, y) = s1
      <4>1. PICK g \in Int : y = TV1 * g + 0
        BY <1>4, <1>16, SlotIs
      <4>2. PICK u \in Int, z \in Int : u = s1 - y - 1 /\ z = s1 - 1
        OBVIOUS
      <4>3. u = TV1 * (-g) + z
        BY <1>1, <4>1, <4>2
      <4>4. PICK h \in Int : u = TV1 * h + z
        BY <4>3
      <4>5. s1 # 0 => Rem(u, TV1) = z
        <5>1. s1 # 0 => z \in 0 .. TV1 - 1
          BY <1>1, <1>2, <4>2
        <5>2. s1 # 0 => Splits(u, TV1, h, z)
          BY <4>4, <5>1 DEF Splits
        <5> QED BY <1>1, <4>2, <4>4, <5>2, DivModIs
      <4> QED BY <1>2, <4>2, <4>5 DEF Ticks1
    <3> QED BY <1>2, <1>3, <1>4, <1>8, <1>10, <1>12, <1>16, <2>1, <3>1, <3>2
  <2>2. CASE p # 0
    <3>1. PICK c \in Nat, d \in Nat : c = p * TV1 /\ d = q * TV1 /\ c = d + TV1
      BY <1>1, <1>9, <1>13, <1>16, <2>2
    <3>2. Ticks2(e, y) = Ticks2(e, x) - 1 /\ Ticks2(e, x) # 1
      BY <1>1, <1>8, <1>16, <3>1
    <3> QED BY <1>2, <1>3, <1>8, <1>10, <1>12, <1>16, <2>2, <3>2
  <2> QED BY <2>1, <2>2
<1> QED BY <1>5, <1>15, <1>16

\* What an interval shorter than a turn of the first wheel leaves.
LEMMA ShortInterval ==
  ASSUME NEW x \in Nat, NEW i \in 0 .. TV1 - 1
  PROVE  Ticks1(x + i, x) = IF i = 0 THEN TV1 ELSE i
<1>1. TV1 \in Nat \ {0}
  BY TimerAssumption
<1>2. PICK e \in Nat : e = x + i
  OBVIOUS
<1>3. PICK s \in 0 .. TV1 - 1, q \in Nat : s = Slot1(e) /\ e = TV1 * q + s
  BY <1>2, SlotIs
<1>4. PICK v \in Int : v = s - x - 1
  BY <1>3
<1>5. Ticks1(e, x) = Rem(v, TV1) + 1
  BY <1>3, <1>4 DEF Ticks1
<1>6. PICK c \in Int : c = TV1 * q
  BY <1>1, <1>3
<1>7. e = c + s
  BY <1>3, <1>6
<1>8. CASE i # 0
  <2>1. PICK z \in 0 .. TV1 - 1 : z = i - 1
    BY <1>1, <1>8
  <2>2. PICK p \in Int : p = -q
    OBVIOUS
  <2>3. TV1 * p = -c
    BY <1>1, <1>3, <1>6, <2>2
  <2>4. v = -c + z
    BY <1>2, <1>3, <1>4, <1>7, <2>1
  <2>5. v = TV1 * p + z
    BY <2>3, <2>4
  <2>6. Splits(v, TV1, p, z) /\ z \in Int
    BY <2>1, <2>5 DEF Splits
  <2>7. Rem(v, TV1) = z
    BY <1>1, <2>6, DivModIs
  <2> QED BY <1>2, <1>5, <1>8, <2>1, <2>7
<1>9. CASE i = 0
  <2>1. PICK z \in 0 .. TV1 - 1 : z = TV1 - 1
    BY <1>1
  <2>2. PICK p \in Int : p = -q - 1
    OBVIOUS
  <2>3. TV1 * p = -c - TV1
    BY <1>1, <1>3, <1>6, <2>2
  <2>4. v = -c - TV1 + z
    BY <1>1, <1>2, <1>3, <1>4, <1>7, <1>9, <2>1
  <2>5. v = TV1 * p + z
    BY <2>3, <2>4
  <2>6. Splits(v, TV1, p, z) /\ z \in Int
    BY <2>1, <2>5 DEF Splits
  <2>7. Rem(v, TV1) = z
    BY <1>1, <2>6, DivModIs
  <2> QED BY <1>1, <1>2, <1>5, <1>9, <2>1, <2>7
<1> QED BY <1>8, <1>9

\* A longer one leaves that interval, less some turns of both wheels.
LEMMA LongInterval ==
  ASSUME NEW x \in Nat, NEW i \in Nat, i >= TV1
  PROVE  \E m \in Nat : Ticks2(x + i, x) = i - m * (TV1 * TV2)
<1>1. TV1 \in Nat \ {0} /\ TV2 \in Nat \ {0}
  BY TimerAssumption
<1>2. PICK e \in Nat : e = x + i
  OBVIOUS
<1>3. PICK s \in 0 .. TV1 - 1, c \in Nat : s = Slot1(e) /\ c = Quo(e, TV1) /\ e = TV1 * c + s
  BY <1>2, SlotIs
<1>4. PICK r \in 0 .. TV1 - 1, a \in Nat : r = Slot1(x) /\ a = Quo(x, TV1) /\ x = TV1 * a + r
  BY SlotIs
<1>5. PICK s2 \in 0 .. TV2 - 1, d \in Int : s2 = Slot2(e) /\ c = TV2 * d + s2
  <2>1. Slot2(e) = Rem(c, TV2)
    BY <1>2, <1>3, SlotIs
  <2>2. Quo(c, TV2) \in Int /\ Rem(c, TV2) \in 0 .. TV2 - 1
        /\ c = TV2 * Quo(c, TV2) + Rem(c, TV2)
    <3>1. c \in Int
      BY <1>3
    <3> QED BY <1>1, <3>1, DivMod
  <2> QED BY <2>1, <2>2
<1>6. PICK v \in Int : v = s2 - a - 1
  BY <1>4, <1>5
<1>7. PICK p \in 0 .. TV2 - 1, j \in Int : p = Rem(v, TV2) /\ v = TV2 * j + p
  BY <1>1, <1>6, DivMod
<1>8. Ticks2(e, x) = p * TV1 + TV1 - r + s
  BY <1>3, <1>4, <1>5, <1>6, <1>7 DEF Ticks2
<1>9. PICK m \in Int : m = j + d /\ (c - a) - 1 = TV2 * m + p
  <2>1. (c - a) - 1 = TV2 * (j + d) + p
    BY <1>1, <1>5, <1>6, <1>7
  <2> QED BY <2>1
<1>10. c - a >= 1
  <2>1. TV1 * (c - a) = i + r - s
    <3>1. TV1 * (c - a) = TV1 * c - TV1 * a
      BY <1>1, <1>3, <1>4
    <3>2. PICK f \in Int, h \in Int : f = TV1 * c /\ h = TV1 * a
      BY <1>1
    <3>3. e = f + s /\ x = h + r
      BY <1>3, <1>4, <3>2
    <3>4. s \in Int /\ r \in Int /\ i \in Int /\ x \in Int /\ f \in Int /\ h \in Int
      BY <1>3, <1>4, <3>2
    <3>5. f - h = i + r - s
      BY <1>2, <3>3, <3>4
    <3> QED BY <3>1, <3>2, <3>5
  <2>2. PICK n \in Int : n = c - a /\ TV1 * n = i + r - s
    BY <2>1
  <2>3. i + r - s > 0
    BY <1>1, <1>3, <1>4
  <2>4. n <= -1 => TV1 * n <= -TV1
    BY <1>1, MulMono
  <2>5. n = 0 => TV1 * n = 0
    BY <1>1
  <2>6. ~(n <= -1) /\ n # 0
    BY <1>1, <2>2, <2>3, <2>4, <2>5
  <2> QED BY <2>2, <2>6
<1>11. m >= 0
  <2>1. m <= -1 => TV2 * m <= -TV2
    BY <1>1, MulMono
  <2>2. PICK g \in Int : g = TV2 * m
    BY <1>1
  <2>3. g + p >= 0
    BY <1>9, <1>10, <2>2
  <2> QED BY <1>1, <2>1, <2>2, <2>3
<1>12. PICK u \in Int, y \in Int, n \in Int : u = p * TV1 /\ n = TV2 * m /\ y = TV1 * n
  BY <1>1
<1>13. TV1 * c - TV1 * a = y + u + TV1
  <2>1. c - a = n + p + 1
    BY <1>9, <1>12
  <2>2. TV1 * (c - a) = TV1 * (n + p + 1)
    BY <2>1
  <2>3. TV1 * (n + p + 1) = TV1 * n + TV1 * p + TV1
    BY <1>1, <1>12, <1>7
  <2>4. TV1 * (c - a) = TV1 * c - TV1 * a
    BY <1>1, <1>3, <1>4
  <2>5. TV1 * p = u
    <3>1. TV1 * p = p * TV1
      BY <1>1
    <3> QED BY <1>12, <3>1
  <2> QED BY <1>1, <1>12, <2>2, <2>3, <2>4, <2>5
<1>14. PICK f \in Int, h \in Int : f = TV1 * c /\ h = TV1 * a
  BY <1>1
<1>15. e = f + s /\ x = h + r /\ f - h = y + u + TV1
  BY <1>3, <1>4, <1>13, <1>14
<1>16. Ticks2(e, x) = u + TV1 - r + s
  BY <1>8, <1>12
<1>17. Ticks2(e, x) = i - y
  <2>1. i = (f - h) + s - r
    BY <1>2, <1>15
  <2>2. i = y + u + TV1 + s - r
    BY <1>1, <1>15, <2>1
  <2> QED BY <1>1, <1>16, <2>2
<1>18. y = m * (TV1 * TV2)
  <2>1. TV1 * (TV2 * m) = m * (TV1 * TV2)
    BY <1>1
  <2> QED BY <1>12, <2>1
<1> QED BY <1>2, <1>11, <1>17, <1>18

\* Both are promised.
LEMMA KeptPromise ==
  ASSUME NEW i \in Nat \ {0}, NEW m \in Nat, NEW d \in Nat \ {0},
         d = i - m * (TV1 * TV2)
  PROVE  d \in Promise!Promised(i)
<1>1. PICK h \in Nat \ {0} : h = TV1 * TV2
  <2>1. TV1 \in Nat \ {0} /\ TV2 \in Nat \ {0}
    BY TimerAssumption
  <2> QED BY <2>1
<1>2. PICK w \in 0 .. h - 1, u \in Int : u = (i - 1) \div h /\ i - 1 = h * u + w
  <2>1. PICK z \in Int : z = i - 1
    OBVIOUS
  <2>2. Rem(z, h) \in 0 .. h - 1 /\ Quo(z, h) \in Int /\ z = h * Quo(z, h) + Rem(z, h)
    BY <1>1, DivMod
  <2>3. Quo(z, h) = (i - 1) \div h
    BY <2>1 DEF Quo
  <2> QED BY <2>1, <2>2, <2>3
<1>3. d = i - h * m
  BY <1>1
<1>4. m <= u
  <2>1. PICK n \in Int : n = m - u
    BY <1>2
  <2>2. h * n = h * m - h * u
    BY <1>1, <1>2, <2>1
  <2>3. n >= 1 => h * n >= h
    BY <1>1, MulMono
  <2>4. PICK a \in Int, b \in Int, c \in Int : a = h * n /\ b = h * m /\ c = h * u
    BY <1>1, <1>2
  <2>5. a = b - c /\ i - 1 = c + w /\ d = i - b /\ (n >= 1 => a >= h)
    BY <1>2, <1>3, <2>2, <2>3, <2>4
  <2>6. a < h
    <3>1. h \in Int /\ w < h /\ w \in Int
      BY <1>1, <1>2
    <3> QED BY <2>4, <2>5, <3>1
  <2>7. ~ (n >= 1)
    <3>1. h \in Int /\ a \in Int
      BY <1>1, <2>4
    <3> QED BY <2>5, <2>6, <3>1
  <2> QED BY <1>2, <2>1, <2>7
<1>5. m \in 0 .. ((i - 1) \div (TV1 * TV2))
  BY <1>1, <1>2, <1>4
<1> QED BY <1>5 DEF Promise!Promised

-----------------------------------------------------------------------------
(* The wheels implement Deadlines.                                         *)

\* Left, of wheels, deadlines and a tick that are given.
LeftOf(w1, w2, ex, x, t) ==
  IF \E s \in Slots1 : t \in w1[s] THEN Ticks1(ex[t], x)
  ELSE IF \E s \in Slots2 : t \in w2[s] THEN Ticks2(ex[t], x) ELSE 0

LEMMA LeftIs ==
  ASSUME NEW t \in Timers
  PROVE  /\ Left(t) = LeftOf(tv1, tv2, expires, tick, t)
         /\ Left(t)' = LeftOf(tv1', tv2', expires', tick', t)
<1>1. Left(t) = LeftOf(tv1, tv2, expires, tick, t)
  BY DEF Left, LeftOf, Linked, Ticks1, Ticks2, Rem, Quo
<1>2. Left(t)' = LeftOf(tv1', tv2', expires', tick', t)
  BY DEF Left, LeftOf, Linked, Ticks1, Ticks2, Rem, Quo
<1> QED BY <1>1, <1>2

\* A timer that is placed has left what is promised, the others what they had.
LEMMA PlaceLeft ==
  ASSUME NEW w1 \in Wheel1, NEW w2 \in Wheel2, expires \in Expiry,
         NEW T \in SUBSET Timers, NEW now \in Nat,
         NEW iv \in [Timers -> Nat], T \cap LinkedIn(w1, w2) = {},
         Place(T, now, iv, w1, w2)
  PROVE  /\ \A t \in T : LeftOf(tv1', tv2', expires', now, t) \in Promise!Promised(iv[t])
         /\ \A t \in Timers \ T :
              LeftOf(tv1', tv2', expires', now, t) = LeftOf(w1, w2, expires, now, t)
<1>1. /\ \A s \in Slots1 : tv1'[s] = w1[s] \cup
           {t \in T : iv[t] < TV1 /\ Slot1(expires'[t]) = s}
      /\ \A s \in Slots2 : tv2'[s] = w2[s] \cup
           {t \in T : iv[t] >= TV1 /\ Slot2(expires'[t]) = s}
      /\ \A t \in Timers : expires'[t] = IF t \in T THEN Rem(now + iv[t], TickMod)
                                                    ELSE expires[t]
  BY DEF Place, Rem
<1>2. ASSUME NEW t \in Timers \ T
      PROVE  LeftOf(tv1', tv2', expires', now, t) = LeftOf(w1, w2, expires, now, t)
  <2>1. /\ \A s \in Slots1 : t \in tv1'[s] <=> t \in w1[s]
        /\ \A s \in Slots2 : t \in tv2'[s] <=> t \in w2[s]
        /\ expires'[t] = expires[t]
    BY <1>1
  <2> QED BY <2>1 DEF LeftOf
<1>3. ASSUME NEW t \in T
      PROVE  LeftOf(tv1', tv2', expires', now, t) \in Promise!Promised(iv[t])
  <2>1. PICK i \in Nat, e \in Nat, f \in Nat :
          i = iv[t] /\ e = now + i /\ f = Rem(e, TickMod) /\ f = expires'[t]
    <3>1. PICK i \in Nat, e \in Nat : i = iv[t] /\ e = now + i
      OBVIOUS
    <3>2. Rem(e, TickMod) \in Nat
      BY WrapSlots
    <3>3. expires'[t] = Rem(e, TickMod)
      BY <1>1, <3>1
    <3> QED BY <3>1, <3>2, <3>3
  <2>2. /\ Slot1(f) \in Slots1 /\ Slot2(f) \in Slots2
        /\ \A s \in Slots1 : t \notin w1[s]
    <3>1. t \notin LinkedIn(w1, w2) /\ t \in Timers
      OBVIOUS
    <3> QED BY <3>1, SlotsInRange DEF LinkedIn
  <2>3. Ticks1(f, now) = Ticks1(e, now) /\ Ticks2(f, now) = Ticks2(e, now)
    BY <2>1, WrapTicks
  <2>4. TV1 \in Nat \ {0} /\ TV2 \in Nat \ {0}
    BY TimerAssumption
  <2>5. CASE i < TV1
    <3>1. t \in tv1'[Slot1(f)]
      BY <1>1, <2>1, <2>2, <2>5
    <3>2. LeftOf(tv1', tv2', expires', now, t) = Ticks1(e, now)
      BY <2>1, <2>2, <2>3, <3>1 DEF LeftOf
    <3>3. i \in 0 .. TV1 - 1
      BY <2>4, <2>5
    <3>4. Ticks1(e, now) = IF i = 0 THEN TV1 ELSE i
      BY <2>1, <3>3, ShortInterval
    <3>5. CASE i = 0
      BY <2>1, <3>2, <3>4, <3>5 DEF Promise!Promised
    <3>6. CASE i # 0
      <4>1. i = i - 0 * (TV1 * TV2)
        BY <2>4
      <4>2. i \in Promise!Promised(i)
        BY <3>6, <4>1, KeptPromise
      <4> QED BY <2>1, <3>2, <3>4, <3>6, <4>2
    <3> QED BY <3>5, <3>6
  <2>6. CASE i >= TV1
    <3>1. t \in tv2'[Slot2(f)]
      BY <1>1, <2>1, <2>2, <2>6
    <3>2. \A s \in Slots1 : t \notin tv1'[s]
      BY <1>1, <2>1, <2>2, <2>4, <2>6
    <3>3. LeftOf(tv1', tv2', expires', now, t) = Ticks2(e, now)
      BY <2>1, <2>2, <2>3, <3>1, <3>2 DEF LeftOf
    <3>4. PICK m \in Nat : Ticks2(e, now) = i - m * (TV1 * TV2)
      BY <2>1, <2>6, LongInterval
    <3>5. Ticks2(e, now) \in Nat \ {0}
      BY NextTick2
    <3>6. i # 0
      BY <2>4, <2>6
    <3>7. Ticks2(e, now) \in Promise!Promised(i)
      BY <3>4, <3>5, <3>6, KeptPromise
    <3> QED BY <2>1, <3>3, <3>7
  <2> QED BY <2>4, <2>5, <2>6
<1> QED BY <1>2, <1>3

\* What is left after the timers of T are taken from their slots.
LEMMA WithoutLeft ==
  ASSUME TimerInv, NEW T \in SUBSET Timers, NEW t \in Timers, NEW x
  PROVE  LeftOf(Without(T, tv1), Without(T, tv2), expires, x, t)
           = IF t \in T THEN 0 ELSE LeftOf(tv1, tv2, expires, x, t)
<1>1. /\ \A s \in Slots1 : Without(T, tv1)[s] = tv1[s] \ T
      /\ \A s \in Slots2 : Without(T, tv2)[s] = tv2[s] \ T
  BY DEF TimerInv, TypeOK, Without
<1> QED BY <1>1 DEF LeftOf

\* A timer is armed.
LEMMA ArmKept ==
  ASSUME TimerInv, NEW t \in Timers, NEW i \in Intervals, AddTimer(t, i)
  PROVE  Promise!Arm(t, interval'[t])
<1> DEFINE w1 == Without({t}, tv1)
           w2 == Without({t}, tv2)
<1>1. /\ w1 \in Wheel1 /\ w2 \in Wheel2
      /\ LinkedIn(w1, w2) = Linked \ {t}
  BY WithoutOK
<1>2. interval' \in [Timers -> Nat]
  <2>1. Intervals \cup {0} \subseteq Nat
    BY TimerAssumption
  <2>2. interval' \in [Timers -> Intervals \cup {0}]
    BY DEF AddTimer, TimerInv, TypeOK
  <2> QED BY <2>1, <2>2
<1>3. Place({t}, tick, interval', w1, w2) /\ tick' = tick
      /\ interval' = [interval EXCEPT ![t] = i] /\ interval'[t] = i
  BY DEF AddTimer, TimerInv, TypeOK
<1>4. \A u \in Timers \ {t} :
        LeftOf(w1, w2, expires, tick, u) = LeftOf(tv1, tv2, expires, tick, u)
  BY WithoutLeft
<1> HIDE DEF w1, w2
<1>5. /\ LeftOf(tv1', tv2', expires', tick, t) \in Promise!Promised(i)
      /\ \A u \in Timers \ {t} :
           LeftOf(tv1', tv2', expires', tick, u) = LeftOf(w1, w2, expires, tick, u)
  <2>1. {t} \cap LinkedIn(w1, w2) = {}
    BY <1>1
  <2>2. PICK iv \in [Timers -> Nat] : iv = interval'
    BY <1>2
  <2>3. Place({t}, tick, iv, w1, w2) /\ iv[t] = i
    BY <1>3, <2>2
  <2>4. expires \in Expiry /\ tick \in Nat
    BY InvFacts
  <2>5. PICK T \in SUBSET Timers : T = {t}
    OBVIOUS
  <2>6. /\ \A u \in T : LeftOf(tv1', tv2', expires', tick, u) \in Promise!Promised(iv[u])
        /\ \A u \in Timers \ T :
             LeftOf(tv1', tv2', expires', tick, u) = LeftOf(w1, w2, expires, tick, u)
    <3>1. T \cap LinkedIn(w1, w2) = {} /\ Place(T, tick, iv, w1, w2)
      BY <2>1, <2>3, <2>5
    <3> QED BY <1>1, <2>4, <3>1, PlaceLeft
  <2> QED BY <2>3, <2>5, <2>6
<1>6. Left(t)' \in Promise!Promised(i) /\ \A u \in Timers \ {t} : Left(u)' = Left(u)
  BY <1>3, <1>4, <1>5, LeftIs
<1>7. [u \in Timers |-> Left(u)]'
        = [[u \in Timers |-> Left(u)] EXCEPT ![t] = Left(t)']
  BY <1>6
<1> QED BY <1>3, <1>6, <1>7 DEF Promise!Arm

\* One timer is disarmed.
LEMMA DisarmKept ==
  ASSUME TimerInv, NEW t \in Timers, DelTimer(t)
  PROVE  Promise!Disarm({t})
<1>1. \A u \in Timers : Left(u)' = IF u \in {t} THEN 0 ELSE Left(u)
  BY WithoutLeft, LeftIs DEF DelTimer
<1> QED BY <1>1 DEF Promise!Disarm, DelTimer

\* All timers are.
LEMMA StopKept ==
  ASSUME TimerInv, Stop
  PROVE  Promise!Disarm(Timers)
<1>1. \A u \in Timers :
        Left(u)' = LeftOf(Without(Linked, tv1), Without(Linked, tv2), expires, tick, u)
  BY LeftIs DEF Stop
<1>2. \A u \in Timers : u \notin Linked => LeftOf(tv1, tv2, expires, tick, u) = 0
  BY DEF LeftOf, Linked
<1>3. \A u \in Timers : Left(u)' = IF u \in Timers THEN 0 ELSE Left(u)
  BY <1>1, <1>2, WithoutLeft, InvFacts
<1> QED BY <1>3 DEF Promise!Disarm, Stop

\* A tick takes one off what is left, and what has none left is armed anew.
LEMMA TickKept ==
  ASSUME TimerInv, Tick
  PROVE  Promise!Tick
<1> DEFINE now == (tick + 1) % TickMod
           due == Cascaded(now)[Slot1(now)]
           w1  == Without(due, Cascaded(now))
           w2  == Without(Moving(now), tv2)
<1>1. tick' = now /\ Place(due, now, interval, w1, w2) /\ UNCHANGED interval
  BY DEF Tick
<1>2. /\ now \in Nat /\ now = Rem(tick + 1, TickMod)
      /\ Slot1(now) \in Slots1 /\ Slot2(now) \in Slots2
  BY InvFacts, SlotsInRange, TimerAssumption DEF Rem
<1>3. /\ Slot1(now) = Slot1(tick + 1) /\ Slot2(now) = Slot2(tick + 1)
      /\ \A e \in Nat : /\ Ticks1(e, now) = Ticks1(e, tick + 1)
                        /\ Ticks2(e, now) = Ticks2(e, tick + 1)
  <2>1. PICK y \in Nat : y = tick + 1
    BY InvFacts
  <2> QED BY <1>2, <2>1, WrapSlots, WrapTicks
<1> HIDE DEF now
<1>4. /\ \A s \in Slots1 : Cascaded(now)[s] =
           tv1[s] \cup {t \in Moving(now) : Slot1(expires[t]) = s}
      /\ \A s \in Slots1 : w1[s] = Cascaded(now)[s] \ due
      /\ \A s \in Slots2 : w2[s] = tv2[s] \ Moving(now)
      /\ w1 = [s \in Slots1 |-> w1[s]] /\ w2 = [s \in Slots2 |-> w2[s]]
  BY InvFacts DEF Without, Cascaded, Wheel2
<1>5. Moving(now) = IF Slot1(now) = 0 THEN tv2[Slot2(now)] ELSE {}
  BY DEF Moving
<1>6. \A t \in Timers : t \in due <=> \/ t \in tv1[Slot1(now)]
                                      \/ t \in Moving(now) /\ Slot1(expires[t]) = Slot1(now)
  BY <1>2, <1>4, <1>5, InvFacts DEF Wheel2
<1>7. due \subseteq Timers
  BY <1>2, <1>4, <1>5, InvFacts DEF Wheel1, Wheel2
<1> HIDE DEF due, w1, w2
<1>8. w1 \in Wheel1 /\ w2 \in Wheel2
  BY <1>2, <1>4, <1>5, InvFacts DEF Wheel1, Wheel2
<1>9. ASSUME NEW t \in Timers
      PROVE  /\ t \in due => t \notin LinkedIn(w1, w2) /\ Left(t) = 1
             /\ t \notin due => /\ Left(t) # 1
                                /\ LeftOf(w1, w2, expires, now, t)
                                     = IF Left(t) = 0 THEN 0 ELSE Left(t) - 1
  <2>1. PICK e \in Nat, s1 \in Slots1, s2 \in Slots2, x \in Nat :
          e = expires[t] /\ s1 = Slot1(e) /\ s2 = Slot2(e) /\ x = tick
    <3>1. expires[t] \in Nat
      BY InvFacts, TimerAssumption DEF Expiry
    <3> QED BY <3>1, SlotsInRange, InvFacts
  <2>2. /\ \A s \in Slots1 : t \in tv1[s] => s = s1
        /\ \A s \in Slots2 : t \in tv2[s] => s = s2
        /\ ~ (t \in tv1[s1] /\ t \in tv2[s2])
    BY <2>1, InvFacts DEF Own
  <2>3. /\ \A s \in Slots1 : t \in w1[s] <=>
             (t \in tv1[s] \/ (t \in Moving(now) /\ s = s1)) /\ t \notin due
        /\ \A s \in Slots2 : t \in w2[s] <=> t \in tv2[s] /\ t \notin Moving(now)
    BY <1>4, <2>1
  <2>4. t \in Moving(now) <=> Slot1(now) = 0 /\ s2 = Slot2(now) /\ t \in tv2[s2]
    BY <1>2, <1>5, <2>2
  <2>5. t \in due <=> \/ t \in tv1[s1] /\ s1 = Slot1(now)
                      \/ t \in Moving(now) /\ s1 = Slot1(now)
    BY <1>2, <1>6, <2>1, <2>2
  <2>6. t \in due => t \notin LinkedIn(w1, w2)
    BY <2>2, <2>3, <2>4, <2>5 DEF LinkedIn
  <2>7. Left(t) = LeftOf(tv1, tv2, expires, x, t)
    BY <2>1, LeftIs
  <2>8. CASE t \in tv1[s1]
    <3>1. Left(t) = Ticks1(e, x)
      BY <2>1, <2>7, <2>8 DEF LeftOf
    <3>2. /\ Ticks1(e, x) \in 1 .. TV1
          /\ Ticks1(e, x) = 1 <=> s1 = Slot1(now)
          /\ Ticks1(e, x) # 1 => Ticks1(e, now) = Ticks1(e, x) - 1
      BY <1>3, <2>1, NextTick1
    <3>3. t \in due <=> s1 = Slot1(now)
      BY <2>2, <2>4, <2>5, <2>8
    <3>4. t \notin due => LeftOf(w1, w2, expires, now, t) = Ticks1(e, now)
      BY <2>1, <2>3, <2>8 DEF LeftOf
    <3>5. Ticks1(e, x) # 0
      BY <3>2, TimerAssumption
    <3> QED BY <2>6, <3>1, <3>2, <3>3, <3>4, <3>5
  <2>9. CASE t \in tv2[s2]
    <3>1. Left(t) = Ticks2(e, x)
      BY <2>1, <2>2, <2>7, <2>9 DEF LeftOf
    <3>2. PICK moves \in BOOLEAN : moves <=> Slot1(now) = 0 /\ s2 = Slot2(now)
      OBVIOUS
    <3>3. /\ Ticks2(e, x) \in Nat \ {0}
          /\ moves => /\ Ticks2(e, x) = s1 + 1
                      /\ s1 # 0 => Ticks1(e, now) = s1
          /\ ~moves => Ticks2(e, x) # 1 /\ Ticks2(e, now) = Ticks2(e, x) - 1
      BY <1>3, <2>1, <3>2, NextTick2
    <3>4. t \in Moving(now) <=> moves
      BY <2>4, <2>9, <3>2
    <3>5. t \in due <=> moves /\ s1 = 0
      BY <2>2, <2>5, <2>9, <3>2, <3>4
    <3>6. moves /\ s1 # 0 => LeftOf(w1, w2, expires, now, t) = Ticks1(e, now)
      BY <2>1, <2>3, <3>4, <3>5 DEF LeftOf
    <3>7. ~moves => LeftOf(w1, w2, expires, now, t) = Ticks2(e, now)
      BY <2>1, <2>2, <2>3, <2>9, <3>4 DEF LeftOf
    <3>8. s1 \in Nat
      BY <2>1 DEF Slots1
    <3>9. CASE moves
      BY <2>6, <3>1, <3>3, <3>5, <3>6, <3>8, <3>9
    <3>10. CASE ~moves
      BY <2>6, <3>1, <3>3, <3>5, <3>7, <3>10
    <3> QED BY <3>9, <3>10
  <2>10. CASE t \notin tv1[s1] /\ t \notin tv2[s2]
    <3>1. (\A s \in Slots1 : t \notin tv1[s]) /\ (\A s \in Slots2 : t \notin tv2[s])
      BY <2>2, <2>10
    <3>2. Left(t) = 0
      BY <2>7, <3>1 DEF LeftOf
    <3>3. t \notin Moving(now) /\ t \notin due
      BY <2>4, <2>5, <2>10
    <3>4. LeftOf(w1, w2, expires, now, t) = 0
      BY <2>3, <3>1, <3>3 DEF LeftOf
    <3> QED BY <3>2, <3>3, <3>4
  <2> QED BY <2>8, <2>9, <2>10
<1>10. /\ \A t \in due : Left(t)' \in Promise!Promised(interval[t])
       /\ \A t \in Timers \ due : Left(t)' = LeftOf(w1, w2, expires, now, t)
  <2>1. due \cap LinkedIn(w1, w2) = {}
    BY <1>7, <1>9
  <2>2. /\ \A t \in due : LeftOf(tv1', tv2', expires', now, t) \in Promise!Promised(interval[t])
        /\ \A t \in Timers \ due :
             LeftOf(tv1', tv2', expires', now, t) = LeftOf(w1, w2, expires, now, t)
    BY <1>1, <1>2, <1>7, <1>8, <2>1, InvFacts, PlaceLeft
  <2> QED BY <1>1, <1>7, <2>2, LeftIs
<1>11. \A t \in Timers : Left(t)' \in
         CASE Left(t) = 0 -> {0}
           [] Left(t) = 1 -> Promise!Promised(interval[t])
           [] OTHER       -> {Left(t) - 1}
  <2> SUFFICES ASSUME NEW t \in Timers
               PROVE  Left(t)' \in CASE Left(t) = 0 -> {0}
                                     [] Left(t) = 1 -> Promise!Promised(interval[t])
                                     [] OTHER       -> {Left(t) - 1}
    OBVIOUS
  <2>1. CASE t \in due
    BY <1>9, <1>10, <2>1
  <2>2. CASE t \notin due
    BY <1>9, <1>10, <2>2
  <2> QED BY <2>1, <2>2
<1> QED BY <1>1, <1>11 DEF Promise!Tick, Promise!Later

LEMMA KeptNext ==
  TimerInv /\ [Next]_vars
    => [Promise!Next]_<<[t \in Timers |-> Left(t)], interval>>
<1> SUFFICES ASSUME TimerInv, [Next]_vars
             PROVE  [Promise!Next]_<<[t \in Timers |-> Left(t)], interval>>
  OBVIOUS
<1>1. CASE UNCHANGED vars
  <2>1. \A t \in Timers : Left(t)' = Left(t)
    BY <1>1, LeftIs DEF vars
  <2> QED BY <1>1, <2>1 DEF vars
<1>2. CASE Tick
  BY <1>2, TickKept DEF Promise!Next
<1>3. CASE Stop
  BY <1>3, StopKept DEF Promise!Next
<1>4. CASE \E t \in Timers : DelTimer(t)
  BY <1>4, DisarmKept DEF Promise!Next
<1>5. CASE \E t \in Timers : \E i \in Intervals : AddTimer(t, i)
  BY <1>5, ArmKept DEF Promise!Next
<1> QED BY <1>1, <1>2, <1>3, <1>4, <1>5 DEF Next

LEMMA KeptInit == Init => Promise!Init
<1>1. Init => \A t \in Timers : Left(t) = 0
  BY DEF Init, Left, Linked
<1> QED BY <1>1 DEF Init, Promise!Init

\* The wheels implement Deadlines: every timer fires at a tick it was promised,
\* for wheels of any size, across the moves between them and the wrap of the
\* tick counter.
THEOREM MeetsDeadlines == Spec => KeepsDeadlines
BY TimerInvHolds, KeptInit, KeptNext, PTL DEF Spec, KeepsDeadlines, Promise!Spec
=============================================================================
