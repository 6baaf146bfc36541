------------------------------- MODULE BitDoor -------------------------------
(***************************************************************************)
(* The state word of a task (struct Task, m_state) and the operations of   *)
(* class BitDoor on it.  The low half of the word holds one bit per event  *)
(* that has happened, the high half one bit per event the task waits for.  *)
(* A half is modelled by the set of the events whose bit is set, and every *)
(* operation by the word it leaves and by the answer it gives, both as     *)
(* functions of the word it found: each is one atomic instruction          *)
(* (fetch-or, exchange or compare-and-swap), so this pair is its effect.   *)
(***************************************************************************)
CONSTANT Conds  \* the events a handler may ask to wait for (BIT_EVENT_READ ..)

ASSUME CondsAssumption == Conds \cap {"LOCK", "NORM", "END"} = {}

Events  == {"NORM"} \cup Conds                  \* what addTask accepts
LowBits == {"LOCK", "NORM", "END"} \cup Conds   \* 0xFFFF
Words   == [low : SUBSET LowBits, high : SUBSET Conds]

Zero   == [low |-> {}, high |-> {}]
Locked == [low |-> {"LOCK"}, high |-> {}]
AllLow == [low |-> LowBits, high |-> {}]

\* What the handler may return: an event to wait for, or stay in the queue.
Returns == {"NORM", "IN"} \cup Conds

(* The events the task waits for and that have not come.                   *)
Awaited(w) == w.high \ w.low

-----------------------------------------------------------------------------
\* Mutant: END only sets its own bit, like every other event.
CheckinPlainEnd(w, ev) == [w EXCEPT !.low = @ \cup {ev}]

\* checkin: the word left.  END overwrites the whole word with 0xFFFF.
CheckinWord(w, ev) ==
  IF ev = "END" THEN AllLow ELSE [w EXCEPT !.low = @ \cup {ev}]

\* Mutant: a task that is being handled may be claimed by a second event.
ClaimsWhenNew(w, ev) ==
  \/ w.high = {} /\ ev \notin w.low
  \/ ev \in Awaited(w)

\* Mutant: END claims the task only when it is idle, never when it waits.
ClaimsEndIdleOnly(w, ev) ==
  \/ w = Zero
  \/ ev # "END" /\ ev \in Awaited(w)

\* checkin: whether the caller has claimed the task and must queue it.
CheckinClaims(w, ev) ==
  \/ w = Zero
  \/ IF ev = "END" THEN Awaited(w) # {} ELSE ev \in Awaited(w)

-----------------------------------------------------------------------------
\* checkout: the task will be handled again only after event ev.
CheckoutWord(w, ev) == [w EXCEPT !.high = @ \cup {ev}]

\* Mutant: checkout leaves although the event came during the handler.
LeavesAlways(w, ev) == TRUE

\* checkout: whether the task leaves the queue (ev has not come meanwhile).
CheckoutLeaves(w, ev) == ~ (ev \in w.low /\ ev \notin w.high)

\* release: a compare-and-swap from the bare LOCK bit to zero.
ReleaseLeaves(w) == w = Locked
ReleaseWord(w)   == IF ReleaseLeaves(w) THEN Zero ELSE w

IsEof(w) == "END" \in w.low
=============================================================================
