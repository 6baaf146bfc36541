------------------------------ MODULE TaskPool ------------------------------
(***************************************************************************)
(* One worker thread and the tasks other threads hand to it: the classes   *)
(* Pooler, Service and Tasker, with the eventfd of TaskWorker.  Any thread *)
(* posts an event to a task (addTask, endTask); the first one that finds   *)
(* the task unclaimed pushes it on the list m_tmp_list and wakes the       *)
(* worker; the worker moves m_tmp_list to its own m_node_list and handles  *)
(* every task of it.  The atomic steps are the atomic instructions of the  *)
(* code and its critical sections under the spin lock of the pool, which   *)
(* protects m_tmp_list and nothing else.                                   *)
(*                                                                         *)
(* The two lists are modelled as sets: no property depends on the order in *)
(* which the worker visits its list, and it may visit it in any order      *)
(* here.  A node pushed while it is already in a list (the code would then *)
(* tear the list) shows as a violation of SingleOwner.                     *)
(***************************************************************************)
EXTENDS BitDoor, FiniteSets

CONSTANTS
  Tasks,      \* the tasks of the pool
  Posters,    \* the threads that post events
  Stoppers,   \* the threads that call stopSvc
  NoTask,     \* not a task
  TimedWait   \* TRUE: wait() may also time out (poll of Receiver and Sender)

ASSUME PoolAssumption == NoTask \notin Tasks /\ TimedWait \in BOOLEAN

VARIABLES
  state,      \* m_state of every task
  tmp,        \* m_tmp_list
  todo,       \* m_node_list: the nodes this walk has not visited yet
  kept,       \* m_node_list: the nodes visited and kept
  curr,       \* the task the walk is at
  door,       \* BinaryDoor::m_state of the service
  event,      \* the eventfd is readable
  running,    \* Service::m_running
  cpc,        \* where the worker is
  ppc, job,   \* where each poster is, and the task it has claimed
  spc,        \* where each stopper is
  asked,      \* history: the tasks endTask was called on
  ended       \* history: the tasks whose procTaskEnd has run

pool    == <<tmp, todo, kept, curr>>
service == <<door, event, running>>
vars    == <<state, pool, service, cpc, ppc, job, spc, asked, ended>>

Init ==
  \* condition() may have been called on the task when its node was created
  /\ state \in [Tasks -> {Zero} \cup {CheckoutWord(Zero, c) : c \in Conds}]
  /\ tmp = {} /\ todo = {} /\ kept = {} /\ curr = NoTask
  /\ door = {} /\ event = TRUE /\ running = FALSE
  /\ cpc = "off"
  /\ ppc = [p \in Posters |-> "idle"] /\ job = [p \in Posters |-> NoTask]
  /\ spc = [s \in Stoppers |-> "idle"]
  /\ asked = {} /\ ended = {}

-----------------------------------------------------------------------------
(* Posting: addTask and endTask of Tasker.                                 *)

\* checkin, for any event addTask or endTask passes.
Checkin(p, t, ev) ==
  /\ ppc[p] = "idle"
  /\ state' = [state EXCEPT ![t] = CheckinWord(@, ev)]
  /\ asked' = IF ev = "END" THEN asked \cup {t} ELSE asked
  /\ IF CheckinClaims(state[t], ev)
       THEN /\ ppc' = [ppc EXCEPT ![p] = "push"]
            /\ job' = [job EXCEPT ![p] = t]
       ELSE UNCHANGED <<ppc, job>>
  /\ UNCHANGED <<pool, service, cpc, spc, ended>>

AddTask(p, t) == \E ev \in Events : Checkin(p, t, ev)
EndTask(p, t) == Checkin(p, t, "END")

\* pushNode under the pool's lock.
Push(p) ==
  /\ ppc[p] = "push"
  /\ tmp' = tmp \cup {job[p]}
  /\ ppc' = [ppc EXCEPT ![p] = "login"]
  /\ job' = [job EXCEPT ![p] = NoTask]
  /\ UNCHANGED <<state, todo, kept, curr, service, cpc, spc, asked, ended>>

\* Mutant: resume() wakes the worker only if it holds the door.
LoginLate(p) ==
  /\ ppc[p] = "login"
  /\ door' = door \cup {"LOGIN"}
  /\ ppc' = [ppc EXCEPT ![p] = IF "LOCK" \in door THEN "fire" ELSE "idle"]
  /\ UNCHANGED <<state, pool, event, running, cpc, job, spc, asked, ended>>

\* resume(): login on the door, and the alarm is due if the door was free.
Login(p) ==
  /\ ppc[p] = "login"
  /\ door' = door \cup {"LOGIN"}
  /\ ppc' = [ppc EXCEPT ![p] = IF door = {} THEN "fire" ELSE "idle"]
  /\ UNCHANGED <<state, pool, event, running, cpc, job, spc, asked, ended>>

\* resume(): the alarm is skipped while the service is not running.
Fire(p) ==
  /\ ppc[p] = "fire"
  /\ ppc' = [ppc EXCEPT ![p] = IF running THEN "alarm" ELSE "idle"]
  /\ UNCHANGED <<state, pool, service, cpc, job, spc, asked, ended>>

\* alarm(): the eventfd becomes readable.
Alarm(p) ==
  /\ ppc[p] = "alarm"
  /\ event' = TRUE
  /\ ppc' = [ppc EXCEPT ![p] = "idle"]
  /\ UNCHANGED <<state, pool, door, running, cpc, job, spc, asked, ended>>

Resume(p) == Push(p) \/ Login(p) \/ Fire(p) \/ Alarm(p)

-----------------------------------------------------------------------------
(* The worker: startSvc, and consume() as its doService.                   *)

Step(from, to) == cpc = from /\ cpc' = to

StartSvc ==
  /\ Step("off", "lock")
  /\ running' = TRUE
  /\ UNCHANGED <<state, pool, door, event, ppc, job, spc, asked, ended>>

\* m_door.lock(): restart the door state before the lists are looked at.
LockDoor ==
  /\ Step("lock", "test")
  /\ door' = {"LOCK"}
  /\ UNCHANGED <<state, pool, event, running, ppc, job, spc, asked, ended>>

\* while (m_running)
TestRunning ==
  /\ Step("test", IF running THEN "splice" ELSE "exit")
  /\ UNCHANGED <<state, pool, service, ppc, job, spc, asked, ended>>

\* _splice(): m_tmp_list goes behind what the last walk has kept.
Splice ==
  /\ Step("splice", "walk")
  /\ todo' = kept \cup tmp
  /\ kept' = {} /\ tmp' = {}
  /\ UNCHANGED <<state, curr, service, ppc, job, spc, asked, ended>>

\* The walk locks the next task's word and calls the handler its old value
\* asks for.
Visit(t) ==
  /\ t \in todo
  /\ Step("walk", IF IsEof(state[t]) THEN "procEnd" ELSE "proc")
  /\ todo' = todo \ {t}
  /\ curr' = t
  /\ state' = [state EXCEPT ![t] = Locked]
  /\ UNCHANGED <<tmp, kept, service, ppc, job, spc, asked, ended>>

\* procTask returned ret: release or checkout, and the task leaves the list
\* or stays in it.
ProcTask(ret) ==
  LET w == state[curr]
      leaves == CASE ret = "NORM"   -> ReleaseLeaves(w)
                  [] ret \in Conds  -> CheckoutLeaves(w, ret)
                  [] OTHER          -> FALSE
  IN
  /\ Step("proc", "walk")
  /\ state' = [state EXCEPT ![curr] =
                 CASE ret = "NORM"  -> ReleaseWord(w)
                   [] ret \in Conds -> CheckoutWord(w, ret)
                   [] OTHER         -> w]
  /\ kept' = IF leaves THEN kept ELSE kept \cup {curr}
  /\ curr' = NoTask
  /\ UNCHANGED <<tmp, todo, service, ppc, job, spc, asked, ended>>

\* Mutant: the word of an ended task is released like any other.
ProcTaskEndReleases ==
  /\ Step("procEnd", "walk")
  /\ ended' = ended \cup {curr}
  /\ state' = [state EXCEPT ![curr] = ReleaseWord(@)]
  /\ curr' = NoTask
  /\ UNCHANGED <<tmp, todo, kept, service, ppc, job, spc, asked>>

\* procTaskEnd has run: the task leaves the list, its word stays locked.
ProcTaskEnd ==
  /\ Step("procEnd", "walk")
  /\ ended' = ended \cup {curr}
  /\ curr' = NoTask
  /\ UNCHANGED <<state, tmp, todo, kept, service, ppc, job, spc, asked>>

\* Mutant: the walk stops at the first task it keeps.
EndWalkEarly ==
  /\ todo = {} \/ kept # {}
  /\ Step("walk", IF kept = {} THEN "release" ELSE "lock")
  /\ UNCHANGED <<state, pool, service, ppc, job, spc, asked, ended>>

\* The end of the walk: consume() says whether m_node_list is empty.
EndWalk ==
  /\ todo = {}
  /\ Step("walk", IF kept = {} THEN "release" ELSE "lock")
  /\ UNCHANGED <<state, pool, service, ppc, job, spc, asked, ended>>

\* Mutant: the door is cleared whatever it holds.
ReleaseDoorBlindly ==
  /\ Step("release", "wait")
  /\ door' = {}
  /\ UNCHANGED <<state, pool, event, running, ppc, job, spc, asked, ended>>

\* m_door.release(): wait only if no thread has logged in meanwhile.
ReleaseDoor ==
  /\ Step("release", IF door = {"LOCK"} THEN "wait" ELSE "lock")
  /\ door' = IF door = {"LOCK"} THEN {} ELSE door
  /\ UNCHANGED <<state, pool, event, running, ppc, job, spc, asked, ended>>

\* wait() returns because the eventfd is readable, and has read it.
Wait ==
  /\ event
  /\ Step("wait", "lock")
  /\ event' = FALSE
  /\ UNCHANGED <<state, pool, door, running, ppc, job, spc, asked, ended>>

\* wait() returns after its timeout.
WaitTimeout ==
  /\ TimedWait /\ ~event
  /\ Step("wait", "lock")
  /\ UNCHANGED <<state, pool, service, ppc, job, spc, asked, ended>>

Worker ==
  \/ StartSvc \/ LockDoor \/ TestRunning \/ Splice
  \/ \E t \in Tasks : Visit(t)
  \/ \E ret \in Returns : ProcTask(ret)
  \/ ProcTaskEnd \/ EndWalk \/ ReleaseDoor \/ Wait \/ WaitTimeout

-----------------------------------------------------------------------------
(* stopSvc, called by any thread at any time.                              *)

Advance(s, from, to) == spc[s] = from /\ spc' = [spc EXCEPT ![s] = to]

\* A stop does nothing unless the service has started.
StopTest(s) ==
  /\ Advance(s, "idle", IF running THEN "clear" ELSE "done")
  /\ UNCHANGED <<state, pool, service, cpc, ppc, job, asked, ended>>

\* Mutant: a stop leaves the worker asleep.
StopSilently(s) ==
  /\ Advance(s, "clear", "done")
  /\ running' = FALSE
  /\ UNCHANGED <<state, pool, door, event, cpc, ppc, job, asked, ended>>

StopClear(s) ==
  /\ Advance(s, "clear", "alarm")
  /\ running' = FALSE
  /\ UNCHANGED <<state, pool, door, event, cpc, ppc, job, asked, ended>>

StopAlarm(s) ==
  /\ Advance(s, "alarm", "done")
  /\ event' = TRUE
  /\ UNCHANGED <<state, pool, door, running, cpc, ppc, job, asked, ended>>

StopSvc(s) == StopClear(s) \/ StopAlarm(s)

-----------------------------------------------------------------------------
Next ==
  \/ \E p \in Posters, t \in Tasks : AddTask(p, t) \/ EndTask(p, t)
  \/ \E p \in Posters : Resume(p)
  \/ Worker
  \/ \E s \in Stoppers : StopTest(s) \/ StopSvc(s)

(***************************************************************************)
(* The threads are scheduled fairly and a handler returns.  Nothing is     *)
(* assumed of who posts what, nor that anybody stops the service.          *)
(***************************************************************************)
Fairness ==
  /\ WF_vars(Worker)
  /\ \A p \in Posters : WF_vars(Resume(p))
  /\ \A s \in Stoppers : WF_vars(StopSvc(s))

Spec     == Init /\ [][Next]_vars
FairSpec == Spec /\ Fairness

-----------------------------------------------------------------------------
(* Properties.                                                             *)

WorkerPlaces  == {"off", "lock", "test", "splice", "walk", "proc", "procEnd",
                  "release", "wait", "exit"}
PosterPlaces  == {"idle", "push", "login", "fire", "alarm"}
StopperPlaces == {"idle", "clear", "alarm", "done"}

\* Types of the variables; a poster has claimed a task just while it has to
\* push it, the worker is at a task just while a handler runs, and it has
\* nodes left to visit only during a walk.
TypeOK ==
  /\ state \in [Tasks -> Words]
  /\ tmp \subseteq Tasks /\ todo \subseteq Tasks /\ kept \subseteq Tasks
  /\ curr \in Tasks \cup {NoTask}
  /\ door \subseteq {"LOCK", "LOGIN"}
  /\ event \in BOOLEAN /\ running \in BOOLEAN
  /\ cpc \in WorkerPlaces
  /\ ppc \in [Posters -> PosterPlaces]
  /\ job \in [Posters -> Tasks \cup {NoTask}]
  /\ spc \in [Stoppers -> StopperPlaces]
  /\ asked \subseteq Tasks /\ ended \subseteq Tasks
  /\ \A p \in Posters : job[p] \in Tasks <=> ppc[p] = "push"
  /\ curr \in Tasks <=> cpc \in {"proc", "procEnd"}
  /\ todo # {} => cpc \in {"walk", "proc", "procEnd"}

Handled(t) == cpc \in {"proc", "procEnd"} /\ curr = t
Queued(t)  == t \in tmp \cup todo \cup kept
Pushing(p, t) == ppc[p] = "push" /\ job[p] = t
Owned(t) == Queued(t) \/ Handled(t) \/ \E p \in Posters : Pushing(p, t)

OneOwner(t) ==
  /\ \A p, q \in Posters : Pushing(p, t) /\ Pushing(q, t) => p = q
  /\ (\E p \in Posters : Pushing(p, t)) => ~ Queued(t) /\ ~ Handled(t)
  /\ Handled(t) => ~ Queued(t)
  /\ t \notin (tmp \cap todo) \cup (tmp \cap kept) \cup (todo \cap kept)

(* A task is in one place: about to be pushed by one poster, in one list,  *)
(* or in its handler.  A second push would link the intrusive list node    *)
(* twice and tear m_tmp_list or m_node_list (pushNode clears m_next).      *)
SingleOwner == \A t \in Tasks : OneOwner(t)

(* After procTaskEnd of a task (it destroys the node in the director's     *)
(* pool) the pool never touches the task again: it is in no list and in no *)
(* handler, whatever is posted to it afterwards.                           *)
NothingAfterEnd == \A t \in ended : ~ Owned(t)

(* A task that was asked to end and has not ended yet is on its way: it is *)
(* owned by somebody, and its END survives every handler and every wait    *)
(* condition until procTaskEnd is called.                                  *)
EndNotLost ==
  \A t \in asked \ ended :
    /\ Owned(t)
    /\ IsEof(state[t]) \/ (cpc = "procEnd" /\ curr = t)

(* The worker never sleeps on a task in m_tmp_list: the eventfd is         *)
(* readable, or a thread is still on its way to make it so.                *)
NoSleepOnWork ==
  cpc = "wait" /\ tmp # {} =>
    \/ event
    \/ \E p \in Posters : ppc[p] \in {"login", "alarm"}
    \/ running /\ \E p \in Posters : ppc[p] = "fire"
    \/ \E s \in Stoppers : spc[s] = "alarm"

(* The ownership protocol behind the three properties above: a task that   *)
(* somebody owns cannot be claimed by any event, and one that nobody owns  *)
(* can be claimed by its awaited event or by END, until it has ended.      *)
OwnedWord(w)   == w.low # {} /\ Awaited(w) = {}
WaitingWord(w) == /\ ~ IsEof(w)
                  /\ w = Zero \/ \E c \in Conds : w.high = {c} /\ c \notin w.low

TaskInv(t) ==
  /\ OneOwner(t)
  /\ Owned(t) => OwnedWord(state[t]) /\ t \notin ended
  /\ ~ Owned(t) /\ t \notin ended => WaitingWord(state[t])
  /\ Handled(t) => "LOCK" \in state[t].low /\ state[t].high = {}
  /\ t \in ended => state[t].low # {} /\ state[t].high = {}
  /\ IsEof(state[t]) => state[t].low = LowBits
  /\ t \in asked \ ended =>
       IsEof(state[t]) \/ (cpc = "procEnd" /\ curr = t)

OwnershipInv == \A t \in Tasks : TaskInv(t)

(* The wake-up protocol behind NoSleepOnWork.                              *)
AlarmComing ==
  \/ event
  \/ \E p \in Posters : ppc[p] = "alarm"
  \/ \E s \in Stoppers : spc[s] = "alarm"

WakeInv ==
  /\ cpc \in {"test", "splice", "walk", "proc", "procEnd", "release"} =>
       "LOCK" \in door
  /\ cpc = "wait" => "LOCK" \notin door
  /\ cpc \in {"walk", "proc", "procEnd", "release", "wait"} /\ tmp # {} =>
       "LOGIN" \in door \/ \E p \in Posters : ppc[p] = "login"
  /\ cpc = "wait" /\ "LOGIN" \in door =>
       AlarmComing \/ (running /\ \E p \in Posters : ppc[p] = "fire")
  /\ cpc \in {"splice", "walk", "proc", "procEnd", "release", "wait"} =>
       running \/ event \/ \E s \in Stoppers : spc[s] = "alarm"

(* The task has an event that no condition holds back.                     *)
Ready(t) ==
  /\ t \notin ended
  /\ \/ IsEof(state[t])
     \/ state[t].low \cap Events # {} /\ state[t].high = {}
     \/ state[t].low \cap state[t].high # {}

NeverStopped == \A s \in Stoppers : [](spc[s] = "idle")

(* Every event posted to a task is handled (or held back by a condition    *)
(* the handler then asks for), however the posts and the worker interleave,*)
(* as long as nobody stops the service.                                    *)
EventsServed == NeverStopped => \A t \in Tasks : Ready(t) ~> ~ Ready(t)

(* endTask is followed by procTaskEnd, as long as nobody stops the service.*)
EndServed == NeverStopped => \A t \in Tasks : t \in asked ~> t \in ended

(* A stop that found the service running ends the worker, although the     *)
(* worker may be about to sleep.                                           *)
StopServed == \A s \in Stoppers : spc[s] = "clear" ~> cpc = "exit"

\* The mapping to TaskPromise.
Kept(t) ==  \* its handler has returned without a condition to wait for
  /\ t \in todo \cup kept
  /\ "LOCK" \in state[t].low /\ state[t].high = {} /\ ~ IsEof(state[t])

Promise == INSTANCE TaskPromise WITH
  due    <- [t \in Tasks |-> state[t].low \ {"LOCK"}],
  waits  <- [t \in Tasks |-> state[t].high],
  again  <- {t \in Tasks : Kept(t)},
  busy   <- curr,
  ending <- (cpc = "procEnd")

(* The pool implements TaskPromise: its lists, doors and eventfd lose no   *)
(* event, serve no task twice at once and none after its end.              *)
ImplementsPromise == Promise!Spec

(* A pool that nobody stops also implements its fairness: no ready task is *)
(* passed over for ever, which NodeLife assumes of the four threads.       *)
ImplementsFairPromise == NeverStopped => Promise!Fairness
=============================================================================
