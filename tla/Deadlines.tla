------------------------------ MODULE Deadlines ------------------------------
(***************************************************************************)
(* What a timer wheel promises: every armed timer has a number of ticks    *)
(* left; each tick takes one off; a timer with none left has fired and is  *)
(* armed anew.  TickTimer implements this.                                 *)
(***************************************************************************)
EXTENDS Integers

CONSTANTS
  Timers,
  Turn,     \* ticks of a full turn of the first wheel
  Horizon   \* ticks of a full turn of both wheels, a multiple of Turn

VARIABLES
  left,     \* the ticks a timer has left, 0 if it is not armed
  interval  \* the interval it was armed with

(* An interval up to the horizon is kept to the tick, but for zero, which  *)
(* takes a full turn; a longer one ends whole horizons early or in time.   *)
Promised(i) ==
  IF i = 0 THEN {Turn} ELSE {i - k * Horizon : k \in 0 .. ((i - 1) \div Horizon)}

Init == /\ left = [t \in Timers |-> 0]
        /\ interval = [t \in Timers |-> 0]

Arm(t, i) ==
  /\ interval' = [interval EXCEPT ![t] = i]
  /\ \E d \in Promised(i) : left' = [left EXCEPT ![t] = d]

Disarm(T) ==
  /\ left' = [t \in Timers |-> IF t \in T THEN 0 ELSE left[t]]
  /\ UNCHANGED interval

\* What may be left of a timer after a tick.
Later(t) ==
  CASE left[t] = 0 -> {0}
    [] left[t] = 1 -> Promised(interval[t])
    [] OTHER       -> {left[t] - 1}

Tick ==
  /\ left' = [t \in Timers |-> left'[t]]
  /\ \A t \in Timers : left'[t] \in Later(t)
  /\ UNCHANGED interval

Next ==
  \/ Tick
  \/ \E t \in Timers : Arm(t, interval'[t]) \/ Disarm({t})
  \/ Disarm(Timers)

Spec == Init /\ [][Next]_<<left, interval>>
=============================================================================
