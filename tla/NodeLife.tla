------------------------------ MODULE NodeLife ------------------------------
(***************************************************************************)
(* The life of a connection (NodeBase) in the hands of the four threads:   *)
(* it is accepted by the receiver, registered by the director, polled and  *)
(* read by the receiver, dealt with by the dealer, polled and written by   *)
(* the sender; any of the three asks the director to close it, and the     *)
(* director takes it away from one thread after the other and destroys it. *)
(*                                                                         *)
(* A thread is a pool (TaskPool), used here through what it promises       *)
(* (TaskPromise) on the same task words (BitDoor).  A handler runs to its  *)
(* end in its own thread, and the fields of a node are each used by one    *)
(* thread only, so a handler first changes them in one step; what it does  *)
(* to other threads (queue a message under the node's lock; then, the lock *)
(* released, post the task of that queue) stays in its plan, and is done   *)
(* one operation at a time, interleaved with the other threads.            *)
(*                                                                         *)
(* A queue and its task have the same name <<n, kind>>; kind is also the   *)
(* name of the thread that serves it.  The node Ctrl stands for            *)
(* m_ctrl_node, whose two queues carry the commands to receiver and sender.*)
(***************************************************************************)
EXTENDS BitDoor, SequencesExt

CONSTANTS
  Nodes,    \* the connections
  Ctrl,     \* the control node
  Failing,  \* where connections may fail: pairs of a node and a thread
  MaxData   \* bound: units of data queued for dealer and senders in a behaviour

Threads == {"rcv", "snd", "deal", "cmd"}
Pollers == {"rcv", "snd"}
Tasks   == (Nodes \X Threads) \cup ({Ctrl} \X Pollers)

\* EnumFdStatus, in its order.
FdStatus == <<"NORMAL", "CLOSING", "STOP_RCV", "STOP_DEAL", "STOP_SND", "CLOSED">>
Rank(s)  == CHOOSE i \in DOMAIN FdStatus : FdStatus[i] = s

\* The value of a message is a node or a status: no status is a node.
ASSUME LifeAssumption ==
  /\ Ctrl \notin Nodes
  /\ \A i \in 1 .. 6 : FdStatus[i] \notin Nodes
  /\ Failing \subseteq Nodes \X {"rcv", "snd", "deal"}
  /\ MaxData \in Nat
  /\ Conds = {"READ", "WRITE", "ERROR"}

VARIABLES
  word,      \* m_state of every task
  pool,      \* the tasks claimed and waiting in the list of their thread
  msgs,      \* the queue of every task (m_xx_que_tmp and m_xx_que)
  plan,      \* what the handler each thread runs has left to do
  run,       \* m_run_list of receiver and sender
  can,       \* the nodes with m_can_rd ("rcv") and m_can_wr ("snd")
  reason,    \* the nodes with a m_reason
  status,    \* m_fd_status
  stopDeal,  \* the nodes with m_stop_deal
  cmdList,   \* m_cmd_list of the director
  born, gone,\* the nodes created, and destroyed
  ended,     \* history: the tasks whose procTaskEnd has begun
  closed,    \* history: the nodes whose onClose has run
  data       \* history: the units of data so far, at most MaxData

mail   == <<word, pool, msgs>>
fields == <<run, can, reason, status, stopDeal, cmdList>>
life   == <<born, gone, ended, closed>>
vars   == <<mail, plan, fields, life, data>>

Init ==
  /\ word = [x \in Tasks |->
               CASE x[1] = Ctrl  -> Zero
                 [] x[2] = "rcv" -> CheckoutWord(Zero, "READ")
                 [] x[2] = "snd" -> CheckoutWord(Zero, "WRITE")
                 [] OTHER        -> Zero]
  /\ pool = {}
  /\ msgs = [x \in Tasks |-> <<>>]
  /\ plan = [th \in Threads |-> <<>>]
  /\ run = [th \in Pollers |-> {}] /\ can = [th \in Pollers |-> {}]
  /\ reason = {} /\ stopDeal = {} /\ cmdList = {}
  /\ status = [n \in Nodes |-> "NORMAL"]
  /\ born = {} /\ gone = {} /\ ended = {} /\ closed = {} /\ data = 0

-----------------------------------------------------------------------------
(* Plans.                                                                  *)

Op(op, x, arg) == [op |-> op, on |-> x, arg |-> arg]
Msg(type, val) == [type |-> type, val |-> val]

\* Mutant: the task is posted before the message is in its queue.
GiveTooSoon(x, m) == <<Op("post", x, "NORM"), Op("queue", x, m)>>

\* send, dispatch, direct, recv: queue under the lock, then addTask.
Give(x, m) == <<Op("queue", x, m), Op("post", x, "NORM")>>

Unreg(n)       == Give(<<n, "cmd">>, Msg("UNREG", n))
Stop(n, s)     == Give(<<n, "cmd">>, Msg("STOP", s))

\* Data for the queues of t, one Give after the other.
Deliver(t) == [i \in 1 .. 2 * Len(t) |->
                 LET x    == t[(i + 1) \div 2]
                     give == Give(x, Msg("DATA", x[1]))
                 IN  give[2 - (i % 2)]]

EndTask(x)     == <<Op("post", x, "END")>>
Return(x, ev)  == <<Op("return", x, ev)>>

Alive(x) == x[1] = Ctrl \/ x[1] \in born \ gone

\* The thread th is about to do op; it goes on with ops, then with the rest.
Doing(th, op) == plan[th] # <<>> /\ Head(plan[th]).op = op
On(th)        == Head(plan[th]).on
Arg(th)       == Head(plan[th]).arg
GoOn(th, ops) == plan' = [plan EXCEPT ![th] = ops \o Tail(@)]

\* What an operation does to a node that has been destroyed is not modelled.
Queue(th) ==
  /\ Doing(th, "queue")
  /\ msgs' = IF Alive(On(th)) THEN [msgs EXCEPT ![On(th)] = Append(@, Arg(th))]
                              ELSE msgs
  /\ GoOn(th, <<>>)
  /\ UNCHANGED <<word, pool, fields, life, data>>

Post(th) ==
  LET x == On(th) IN
  /\ Doing(th, "post")
  /\ IF Alive(x)
       THEN /\ word' = [word EXCEPT ![x] = CheckinWord(@, Arg(th))]
            /\ pool' = IF CheckinClaims(word[x], Arg(th)) THEN pool \cup {x}
                                                          ELSE pool
       ELSE UNCHANGED <<word, pool>>
  /\ GoOn(th, <<>>)
  /\ UNCHANGED <<msgs, fields, life, data>>

\* The handler of task x returns: release, checkout or neither (consume).
Returned(th) ==
  LET x == On(th)
      w == word[x]
      ev == Arg(th)
  IN
  /\ Doing(th, "return")
  /\ word' = [word EXCEPT ![x] = CASE ev = "NORM"   -> ReleaseWord(w)
                                   [] ev \in Conds  -> CheckoutWord(w, ev)
                                   [] OTHER         -> w]
  /\ pool' = IF CASE ev = "NORM"  -> ReleaseLeaves(w)
                  [] ev \in Conds -> CheckoutLeaves(w, ev)
                  [] OTHER        -> FALSE
               THEN pool ELSE pool \cup {x}
  /\ GoOn(th, <<>>)
  /\ UNCHANGED <<msgs, fields, life, data>>

\* A thread with nothing left to do takes a task of its list.
Take(x) ==
  /\ x \in pool /\ plan[x[2]] = <<>>
  /\ pool' = pool \ {x}
  /\ word' = [word EXCEPT ![x] = Locked]

TakeLive(x) == Take(x) /\ ~ IsEof(word[x]) /\ UNCHANGED <<life, data>>
TakeEof(x)  == /\ Take(x) /\ IsEof(word[x])
               /\ ended' = ended \cup {x}
               /\ UNCHANGED <<born, closed, data>>

Start(th, ops) == plan' = [plan EXCEPT ![th] = ops]

\* dealNode, procNodeQue, and readNode and writeNode of the control node:
\* splice the queue and handle its messages one after the other.
Drain(x) ==
  /\ TakeLive(x)
  /\ Start(x[2], [i \in DOMAIN msgs[x] |-> Op("msg", x, msgs[x][i])]
                   \o Return(x, "NORM"))
  /\ msgs' = [msgs EXCEPT ![x] = <<>>]
  /\ UNCHANGED fields

Handling(th, x, type) ==
  /\ Doing(th, "msg")
  /\ On(th) = x
  /\ Arg(th).type = type
  /\ UNCHANGED <<mail, born, gone, ended>>

-----------------------------------------------------------------------------
(* The receiver and the sender: polling, reading and writing.              *)

\* acceptSock, acceptRtmp: the new node is handed to the director.
Accept(n) ==
  /\ n \notin born /\ plan["rcv"] = <<>>
  /\ born' = born \cup {n}
  /\ Start("rcv", Give(<<n, "cmd">>, Msg("REGIST", n)))
  /\ UNCHANGED <<mail, fields, gone, ended, closed, data>>

Event(th) == IF th = "rcv" THEN "READ" ELSE "WRITE"

\* waitEvent polls the nodes of the run list that are not known to be ready.
Polled(th, n) == plan[th] = <<>> /\ n \in run[th] \ can[th]

PollReady(th, n) ==
  /\ Polled(th, n)
  /\ can' = [can EXCEPT ![th] = @ \cup {n}]
  /\ Start(th, <<Op("post", <<n, th>>, Event(th))>>)
  /\ UNCHANGED <<mail, run, reason, status, stopDeal, cmdList, life, data>>

Forget(th, n) == run' = [run EXCEPT ![th] = @ \ {n}]

PollError(th, n) ==
  /\ Polled(th, n) /\ <<n, th>> \in Failing
  /\ Forget(th, n)
  /\ Start(th, Unreg(n))
  /\ UNCHANGED <<mail, can, reason, status, stopDeal, cmdList, life, data>>

\* The answers of readNode and writeNode, as what the handler returns.
Answers(n, th) ==
  {"NORM", "IN"} \cup (IF th = "snd" THEN {"WRITE"} ELSE {})
                 \cup (IF <<n, th>> \in Failing THEN {"ERROR"} ELSE {})

\* Receiver::procTask.  Parsing what was read may send reports and dispatch
\* messages to the dealer.
Read(n, ev) ==
  LET x == <<n, "rcv">> IN
  /\ Take(x) /\ ~ IsEof(word[x])
  /\ \E k \in 0 .. MaxData - data : \E t \in [1 .. k -> {n} \X {"snd", "deal"}] :
       /\ data' = data + k
       /\ Start("rcv", Deliver(t) \o (IF ev = "ERROR" THEN Unreg(n) ELSE <<>>)
                                  \o Return(x, ev))
  /\ can' = IF ev = "NORM" THEN [can EXCEPT !["rcv"] = @ \ {n}] ELSE can
  /\ IF ev = "ERROR" THEN Forget("rcv", n) ELSE UNCHANGED run
  /\ UNCHANGED <<msgs, reason, status, stopDeal, cmdList, life>>

\* Mutant: a partial write is answered as one that emptied the queue.
UnsentSaysDone(q, ev) ==
  CASE ev \in {"NORM", "IN"} -> {SubSeq(q, i, Len(q)) : i \in 2 .. Len(q) + 1}
    [] ev = "WRITE"          -> {SubSeq(q, i, Len(q)) : i \in 1 .. Len(q)}
    [] ev = "ERROR"          -> IF q = <<>> THEN {} ELSE {q}

\* MsgOutput::writeMsg: what is left of queue q, for each answer.
Unsent(q, ev) ==
  CASE ev = "NORM"  -> {<<>>}
    [] ev = "IN"    -> {SubSeq(q, i, Len(q)) : i \in 2 .. Len(q)}
    [] ev = "WRITE" -> {SubSeq(q, i, Len(q)) : i \in 1 .. Len(q)}
    [] ev = "ERROR" -> IF q = <<>> THEN {} ELSE {q}

\* Sender::writeNode returns ev.
WriteNode(n, ev) ==
  /\ \E q \in Unsent(msgs[<<n, "snd">>], ev) :
       msgs' = [msgs EXCEPT ![<<n, "snd">>] = q]
  /\ can' = IF ev \in {"WRITE", "ERROR"} THEN [can EXCEPT !["snd"] = @ \ {n}]
                                         ELSE can

\* Sender::procTask.
Write(n, ev) ==
  LET x == <<n, "snd">> IN
  /\ TakeLive(x)
  /\ IF n \in can["snd"] THEN WriteNode(n, ev)
                         ELSE ev = "WRITE" /\ UNCHANGED <<msgs, can>>
  /\ IF ev = "ERROR" THEN Forget("snd", n) ELSE UNCHANGED run
  /\ Start("snd", (IF ev = "ERROR" THEN Unreg(n) ELSE <<>>) \o Return(x, ev))
  /\ UNCHANGED <<reason, status, stopDeal, cmdList>>

\* Mutant: procTaskEnd of the receiver leaves the node in the run list.
ReadEndKeeps(n) ==
  LET x == <<n, "rcv">> IN
  /\ TakeEof(x)
  /\ Start("rcv", Stop(n, "STOP_RCV"))
  /\ UNCHANGED <<msgs, fields, gone>>

\* Receiver::procTaskEnd.
ReadEnd(n) ==
  LET x == <<n, "rcv">> IN
  /\ TakeEof(x)
  /\ Forget("rcv", n)
  /\ Start("rcv", Stop(n, "STOP_RCV"))
  /\ UNCHANGED <<msgs, can, reason, status, stopDeal, cmdList, gone>>

\* Sender::procTaskEnd: a last write, whatever it returns.
WriteEnd(n) ==
  LET x == <<n, "snd">> IN
  /\ TakeEof(x)
  /\ Forget("snd", n)
  /\ \/ /\ n \notin can["snd"]
        /\ Start("snd", Stop(n, "STOP_SND"))
        /\ UNCHANGED <<msgs, can>>
     \/ /\ n \in can["snd"]
        /\ \E ev \in Answers(n, "snd") :
             /\ WriteNode(n, ev)
             /\ Start("snd", (IF ev = "ERROR" THEN Unreg(n) ELSE <<>>)
                               \o Stop(n, "STOP_SND"))
  /\ UNCHANGED <<reason, status, stopDeal, cmdList, gone>>

\* dealCtrlRcv and dealCtrlSnd.
CtrlAdd(th) ==
  /\ Handling(th, <<Ctrl, th>>, "ADD_FD")
  /\ run' = [run EXCEPT ![th] = @ \cup {Arg(th).val}]
  /\ GoOn(th, <<>>)
  /\ UNCHANGED <<can, reason, status, stopDeal, cmdList, closed, data>>

CtrlDel(th) ==
  /\ Handling(th, <<Ctrl, th>>, "DEL_FD")
  /\ GoOn(th, EndTask(<<Arg(th).val, th>>))
  /\ UNCHANGED <<fields, closed, data>>

-----------------------------------------------------------------------------
(* The dealer.                                                             *)

\* Mutant: a stream goes on naming connections whose session is closed.
ReachableOnceClosed == cmdList

\* The connections data may be addressed to: the streams name none that is
\* closed (NoRelayAfterClose of StreamCenter), as long as no unit of it has left
\* a stream for another role.
Reachable == cmdList \ closed

\* procMsg: dealMsg of the node sends data to peers and relays data to the
\* dealer's queues of the players, its own or others, and may fail.
DealMsg(n, ok) ==
  /\ Handling("deal", <<n, "deal">>, "DATA")
  /\ IF n \in stopDeal
       THEN ok /\ GoOn("deal", <<>>) /\ UNCHANGED <<stopDeal, data>>
       ELSE /\ \E k \in 0 .. MaxData - data :
               \E t \in [1 .. k -> Reachable \X {"snd", "deal"}] :
                 /\ data' = data + k
                 /\ GoOn("deal", Deliver(t) \o (IF ok THEN <<>> ELSE Unreg(n)))
            /\ stopDeal' = IF ok THEN stopDeal ELSE stopDeal \cup {n}
  /\ UNCHANGED <<run, can, reason, status, cmdList, closed>>

\* procStopCmd: onClose closes the session and calls notifyExit.
DealStop(n) ==
  /\ Handling("deal", <<n, "deal">>, "STOP")
  /\ stopDeal' = stopDeal \cup {n}
  /\ closed' = closed \cup {n}
  /\ GoOn("deal", Give(<<n, "deal">>, Msg("ALLOW_EXIT", n)))
  /\ UNCHANGED <<run, can, reason, status, cmdList, data>>

\* handleParentAllowExit.
DealExit(n) ==
  /\ Handling("deal", <<n, "deal">>, "ALLOW_EXIT")
  /\ GoOn("deal", EndTask(<<n, "deal">>))
  /\ UNCHANGED <<fields, closed, data>>

\* Dealer::procTaskEnd.
DealEnd(n) ==
  /\ TakeEof(<<n, "deal">>)
  /\ Start("deal", Stop(n, "STOP_DEAL"))
  /\ UNCHANGED <<msgs, fields, gone>>

-----------------------------------------------------------------------------
(* The director.                                                           *)

CmdRegist(n) ==
  /\ Handling("cmd", <<n, "cmd">>, "REGIST")
  /\ cmdList' = cmdList \cup {n}
  /\ GoOn("cmd", Give(<<Ctrl, "rcv">>, Msg("ADD_FD", n))
                   \o Give(<<Ctrl, "snd">>, Msg("ADD_FD", n)))
  /\ UNCHANGED <<run, can, reason, status, stopDeal, closed, data>>

\* Mutant: the node is taken from the receiver on every request.
CmdUnregAgain(n) ==
  /\ Handling("cmd", <<n, "cmd">>, "UNREG")
  /\ reason' = reason \cup {n}
  /\ status' = IF n \in reason THEN status ELSE [status EXCEPT ![n] = "CLOSING"]
  /\ GoOn("cmd", Give(<<Ctrl, "rcv">>, Msg("DEL_FD", n)))
  /\ UNCHANGED <<run, can, stopDeal, cmdList, closed, data>>

\* procUnregCmd: only the first request counts.
CmdUnreg(n) ==
  /\ Handling("cmd", <<n, "cmd">>, "UNREG")
  /\ IF n \in reason
       THEN GoOn("cmd", <<>>) /\ UNCHANGED <<reason, status>>
       ELSE /\ reason' = reason \cup {n}
            /\ status' = [status EXCEPT ![n] = "CLOSING"]
            /\ GoOn("cmd", Give(<<Ctrl, "rcv">>, Msg("DEL_FD", n)))
  /\ UNCHANGED <<run, can, stopDeal, cmdList, closed, data>>

\* Mutant: dealer and sender are stopped at the same time.
NextStopBoth(n, s) ==
  CASE s = "STOP_RCV"  -> Give(<<n, "deal">>, Msg("STOP", "STOP_DEAL"))
                            \o Give(<<Ctrl, "snd">>, Msg("DEL_FD", n))
    [] s = "STOP_SND"  -> Stop(n, "CLOSED")
    [] s = "CLOSED"    -> EndTask(<<n, "cmd">>)
    [] OTHER           -> <<>>

\* Mutant: the last stop of a node carries the status it has already.
NextStopStale(n, s) ==
  CASE s = "STOP_RCV"  -> Give(<<n, "deal">>, Msg("STOP", "STOP_DEAL"))
    [] s = "STOP_DEAL" -> Give(<<Ctrl, "snd">>, Msg("DEL_FD", n))
    [] s = "STOP_SND"  -> Stop(n, "CLOSING")
    [] OTHER           -> EndTask(<<n, "cmd">>)

\* procStopCmd: what is to be stopped next.
NextStop(n, s) ==
  CASE s = "STOP_RCV"  -> Give(<<n, "deal">>, Msg("STOP", "STOP_DEAL"))
    [] s = "STOP_DEAL" -> Give(<<Ctrl, "snd">>, Msg("DEL_FD", n))
    [] s = "STOP_SND"  -> Stop(n, "CLOSED")
    [] s = "CLOSED"    -> EndTask(<<n, "cmd">>)

CmdStop(n) ==
  LET s == Arg("cmd").val IN
  /\ Handling("cmd", <<n, "cmd">>, "STOP")
  /\ IF Rank(status[n]) < Rank(s)
       THEN /\ status' = [status EXCEPT ![n] = s]
            /\ GoOn("cmd", NextStop(n, s))
       ELSE GoOn("cmd", <<>>) /\ UNCHANGED status
  /\ UNCHANGED <<run, can, reason, stopDeal, cmdList, closed, data>>

\* Director::procTaskEnd: the node is destroyed.
CmdEnd(n) ==
  LET x == <<n, "cmd">> IN
  /\ TakeEof(x)
  /\ cmdList' = cmdList \ {n}
  /\ gone' = gone \cup {n}
  /\ msgs' = [y \in Tasks |-> IF y[1] = n THEN <<>> ELSE msgs[y]]
  /\ UNCHANGED <<plan, run, can, reason, status, stopDeal>>

-----------------------------------------------------------------------------
(* Serving the task x, by the kind of its node and of its thread.          *)
Serve(x) ==
  LET n == x[1] IN
  \/ n = Ctrl /\ Drain(x)
  \/ n # Ctrl /\ x[2] \in {"deal", "cmd"} /\ Drain(x)
  \/ n # Ctrl /\ x[2] = "rcv"
       /\ (ReadEnd(n) \/ \E ev \in Answers(n, "rcv") : Read(n, ev))
  \/ n # Ctrl /\ x[2] = "snd"
       /\ (WriteEnd(n) \/ \E ev \in Answers(n, "snd") : Write(n, ev))
  \/ n # Ctrl /\ x[2] = "deal" /\ DealEnd(n)
  \/ n # Ctrl /\ x[2] = "cmd" /\ CmdEnd(n)

\* The handler a thread runs takes its next step.
Proceed(th) ==
  \/ Queue(th) \/ Post(th) \/ Returned(th)
  \/ th \in Pollers /\ (CtrlAdd(th) \/ CtrlDel(th))
  \/ th = "deal" /\ \E n \in Nodes :
       DealStop(n) \/ DealExit(n) \/ \E ok \in {TRUE, <<n, "deal">> \notin Failing} : DealMsg(n, ok)
  \/ th = "cmd" /\ \E n \in Nodes : CmdRegist(n) \/ CmdUnreg(n) \/ CmdStop(n)

Next ==
  \/ \E n \in Nodes : Accept(n)
  \/ \E th \in Pollers, n \in Nodes : PollReady(th, n) \/ PollError(th, n)
  \/ \E x \in Tasks : Serve(x)
  \/ \E th \in Threads : Proceed(th)

(***************************************************************************)
(* Fairness: a handler goes on, and no claimed task is passed over for     *)
(* ever (what TaskPromise gives).                                          *)
(***************************************************************************)
Fairness ==
  /\ \A th \in Threads : WF_vars(Proceed(th))
  /\ \A x \in Tasks : SF_vars(Serve(x))

Spec     == Init /\ [][Next]_vars
FairSpec == Spec /\ Fairness

-----------------------------------------------------------------------------
(* Properties.                                                             *)

Messages ==
  [type : {"REGIST", "UNREG", "ADD_FD", "DEL_FD", "DATA", "ALLOW_EXIT"},
   val  : Nodes]
  \cup [type : {"STOP"}, val : {FdStatus[i] : i \in 3 .. 6}]

Ops ==
  [op : {"queue", "msg"}, on : Tasks, arg : Messages]
  \cup [op : {"post"}, on : Tasks, arg : Events \cup {"END"}]
  \cup [op : {"return"}, on : Tasks, arg : Returns]

\* Types of the variables; a handler returns only for a task of its thread.
TypeOK ==
  /\ word \in [Tasks -> Words] /\ pool \subseteq Tasks
  /\ \A x \in Tasks : \A i \in DOMAIN msgs[x] : msgs[x][i] \in Messages
  /\ \A th \in Threads : \A i \in DOMAIN plan[th] :
       LET o == plan[th][i] IN
       o \in Ops /\ (o.op \in {"return", "msg"} => o.on[2] = th)
  /\ \A th \in Pollers : run[th] \subseteq Nodes /\ can[th] \subseteq Nodes
  /\ reason \subseteq Nodes /\ stopDeal \subseteq Nodes /\ cmdList \subseteq Nodes
  /\ \A n \in Nodes : \E i \in 1 .. 6 : status[n] = FdStatus[i]
  /\ born \subseteq Nodes /\ gone \subseteq born /\ closed \subseteq born
  /\ ended \subseteq Tasks /\ data \in 0 .. MaxData

\* The operations all threads have still to do.
Pending == UNION {{plan[th][i] : i \in DOMAIN plan[th]} : th \in Threads}
Commands == UNION {{msgs[<<Ctrl, th>>][i] : i \in DOMAIN msgs[<<Ctrl, th>>]} :
                     th \in Pollers}

(* No message is stranded in a queue: the task of a queue that holds one   *)
(* will be served again, because it has an event, is claimed or is being   *)
(* served, or because the thread that queued the message has yet to post   *)
(* it.  (What is left to send may also wait for the socket.)               *)
MailHasBell ==
  \A x \in Tasks \ ended :
    msgs[x] # <<>> =>
      \/ word[x].low \ {"LOCK"} # {}
      \/ x \in pool
      \/ \E o \in Pending : o.op \in {"post", "return"} /\ o.on = x
      \/ x[2] = "snd" /\ Awaited(word[x]) # {}

(* A task of a connection that a thread has ended is out of reach: nobody  *)
(* polls for it, posts it or queues a message for it any more.  Only the   *)
(* director may be late with the post of the dealer's task that follows    *)
(* its STOP, and any thread with a post of the director's own task.        *)
EndedIsUnreferenced ==
  \A n \in Nodes, th \in {"rcv", "snd", "deal"} :
    <<n, th>> \in ended =>
      /\ <<n, th>> \notin pool
      /\ th \in Pollers => n \notin run[th]
      /\ \A by \in Threads : \A i \in DOMAIN plan[by] :
           LET o == plan[by][i] IN
           o.op \in {"queue", "post"} /\ o.on = <<n, th>> =>
             th = "deal" /\ by = "cmd" /\ o.op = "post"

(* When a node is destroyed no list, no queue and no command still names   *)
(* it; at most another thread is about to make the post that follows the   *)
(* message it has queued for the node.                                     *)
NothingLeftBehind ==
  \A n \in gone :
    /\ n \notin run["rcv"] \cup run["snd"] \cup cmdList
    /\ \A th \in Threads : <<n, th>> \notin pool
    /\ \A m \in Commands : m.val # n
    /\ \A by \in Threads : \A i \in DOMAIN plan[by] :
         LET o == plan[by][i] IN
         /\ o.on[1] = n => by # "cmd" /\ o = Op("post", <<n, "cmd">>, "NORM")
         /\ o.op \in {"queue", "msg"} => o.arg.val # n

(* A node is destroyed only when every thread has stopped using it ("stop  *)
(* all to destroy the node"): no thread is still to touch its memory.      *)
NoUseAfterDestroy == \A n \in gone : \A o \in Pending : o.on[1] # n

\* The phase of NodeClose a node is in.
Phase(n) ==
  IF n \in gone THEN "destroyed"
  ELSE IF <<n, "snd">> \in ended THEN "sndEnded"
  ELSE IF <<n, "deal">> \in ended THEN "dealEnded"
  ELSE IF n \in closed THEN "closed"
  ELSE IF <<n, "rcv">> \in ended THEN "rcvEnded"
  ELSE IF n \in born THEN "open" ELSE "none"

Order == INSTANCE NodeClose WITH phase <- [n \in Nodes |-> Phase(n)]

(* A connection is taken apart in the order NodeClose promises, each part  *)
(* once, whatever else the four threads are doing.                         *)
ImplementsClose == Order!Spec

(* A connection somebody asked to close is destroyed in the end, whichever *)
(* threads asked and whatever is still queued for it.                      *)
CloseCompletes == \A n \in Nodes : n \in reason ~> n \in gone

(* A peer that reads: its socket becomes writable or fails whenever it is  *)
(* polled long enough, and is not found full every time it is written.     *)
Wrote(n) ==
  /\ \E ev \in Answers(n, "snd") : Write(n, ev)
  /\ msgs'[<<n, "snd">>] # msgs[<<n, "snd">>]

PeerReads(n) ==
  /\ SF_vars(PollReady("snd", n) \/ PollError("snd", n))
  /\ SF_vars(Wrote(n))

(* Data queued for a connection whose peer reads is written, or the        *)
(* connection is closed: no interleaving of posts, polls and partial       *)
(* writes leaves the sender waiting with data in the queue.                *)
DataSent ==
  \A n \in Nodes : PeerReads(n) =>
    (msgs[<<n, "snd">>] # <<>> ~> msgs[<<n, "snd">>] = <<>> \/ n \in reason)
=============================================================================
