----------------------------- MODULE TaskPromise -----------------------------
(***************************************************************************)
(* What a pool (class Tasker) promises the rest of the program, without    *)
(* its lists, doors and eventfd: each task is a mailbox of events.  Events *)
(* may be put in at any time; a single server takes ready tasks one at a   *)
(* time, empties the mailbox of the task and runs its handler; the handler *)
(* ends by asking for a condition, or for another run, or for nothing; and *)
(* a task that has been asked to end is ended by one final call, after     *)
(* which it is never served again.  TaskPool implements this module.       *)
(***************************************************************************)
EXTENDS FiniteSets

CONSTANTS Tasks, Conds, NoTask

Events == {"NORM"} \cup Conds

VARIABLES
  due,    \* the events each task has not been handled for
  waits,  \* the conditions each task waits for
  again,  \* the tasks whose handler asked for another run
  busy,   \* the task being served
  ending, \* it is served for the last time
  ended   \* the tasks that have ended

vars == <<due, waits, again, busy, ending, ended>>

Init ==
  /\ due = [t \in Tasks |-> {}]
  /\ waits \in [Tasks -> {{}} \cup {{c} : c \in Conds}]
  /\ again = {} /\ busy = NoTask /\ ending = FALSE /\ ended = {}

Post(t, ev) ==
  /\ due' = [due EXCEPT ![t] = @ \cup {ev}]
  /\ UNCHANGED <<waits, again, busy, ending, ended>>

\* The end overrides every condition.
PostEnd(t) ==
  /\ due' = [due EXCEPT ![t] = Events \cup {"END"}]
  /\ waits' = [waits EXCEPT ![t] = {}]
  /\ again' = again \ {t}
  /\ UNCHANGED <<busy, ending, ended>>

Ready(t) ==
  /\ t \notin ended
  /\ \/ "END" \in due[t]
     \/ t \in again
     \/ waits[t] = {} /\ due[t] # {}
     \/ waits[t] \cap due[t] # {}

Serve(t) ==
  /\ busy = NoTask /\ Ready(t)
  /\ busy' = t
  /\ ending' = ("END" \in due[t])
  /\ due' = [due EXCEPT ![t] = {}]
  /\ waits' = [waits EXCEPT ![t] = {}]
  /\ again' = again \ {t}
  /\ UNCHANGED ended

\* The handler returns: it may ask for a condition, or for another run.
Return ==
  /\ busy # NoTask /\ ~ ending
  /\ \/ \E c \in Conds : /\ waits' = [waits EXCEPT ![busy] = {c}]
                         /\ UNCHANGED again
     \/ /\ again' \in {again, again \cup {busy}}
        /\ UNCHANGED waits
  /\ busy' = NoTask
  /\ UNCHANGED <<due, ending, ended>>

End ==
  /\ busy # NoTask /\ ending
  /\ ended' = ended \cup {busy}
  /\ busy' = NoTask /\ ending' = FALSE
  /\ UNCHANGED <<due, waits, again>>

Next ==
  \/ \E t \in Tasks : Serve(t) \/ PostEnd(t) \/ \E ev \in Events : Post(t, ev)
  \/ Return
  \/ End

\* No ready task is passed over for ever, and a handler returns.
Fairness ==
  /\ \A t \in Tasks : SF_vars(Serve(t))
  /\ WF_vars(Return \/ End)

Spec     == Init /\ [][Next]_vars
FairSpec == Spec /\ Fairness
=============================================================================
