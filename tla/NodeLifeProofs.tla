--------------------------- MODULE NodeLifeProofs ---------------------------
(***************************************************************************)
(* Proofs about NodeLife, for any number of connections, wherever they     *)
(* fail: the types, that no message is stranded in a queue, and that       *)
(* NodeLife implements NodeClose: every connection is taken apart in one   *)
(* order, each part once.                                                  *)
(***************************************************************************)
EXTENDS NodeLife, TLAPS

-----------------------------------------------------------------------------
(* Plans are sequences of operations that fit their thread.                *)

Known == born \cup {Ctrl}

\* An operation of a plan of th: it handles and returns tasks of its own, of
\* nodes that exist; only a poller returns with something left to do, and
\* nothing is queued for the receiver's task of a connection.
FittingOps(th) ==
  {o \in Ops : /\ o.op \in {"return", "msg"} => o.on[2] = th /\ o.on[1] \in Known
               /\ o.op = "return" /\ o.arg # "NORM" => o.on \in Nodes \X Pollers
               /\ o.op = "queue" => o.on \notin Nodes \X {"rcv"}}

\* Who queues a message posts the task of the queue next.
Paired(s) ==
  \A i \in DOMAIN s :
    s[i].op = "queue" => i + 1 \in DOMAIN s /\ s[i + 1] = Op("post", s[i].on, "NORM")

Plans(th) == {s \in Seq(FittingOps(th)) : Paired(s)}

PlanOK == plan \in [Threads -> Seq(Ops)] /\ \A th \in Threads : plan[th] \in Plans(th)

\* The variables, with what TypeOK leaves open.
StateOK ==
  /\ word \in [Tasks -> Words] /\ pool \subseteq Tasks
  /\ msgs \in [Tasks -> Seq(Messages)]
  /\ run \in [Pollers -> SUBSET Nodes] /\ can \in [Pollers -> SUBSET Nodes]
  /\ reason \subseteq Nodes /\ stopDeal \subseteq Nodes /\ cmdList \subseteq Nodes
  /\ status \in [Nodes -> {FdStatus[i] : i \in 1 .. 6}]
  /\ born \subseteq Nodes /\ gone \subseteq born /\ closed \subseteq born
  /\ ended \subseteq Tasks /\ data \in 0 .. MaxData
  /\ \A x \in pool : x[1] \in Known

TypeInv == StateOK /\ PlanOK

\* Sequences over a set are closed under what GoOn does to a plan.
LEMMA SeqParts ==
  ASSUME NEW S, NEW s \in Seq(S), NEW t \in Seq(S)
  PROVE  /\ s \o t \in Seq(S)
         /\ s # <<>> => Head(s) \in S /\ Tail(s) \in Seq(S)
OBVIOUS

LEMMA PairedConcat ==
  ASSUME NEW S, NEW s \in Seq(S), NEW t \in Seq(S), Paired(s), Paired(t)
  PROVE  Paired(s \o t)
<1> SUFFICES ASSUME NEW i \in DOMAIN (s \o t), (s \o t)[i].op = "queue"
             PROVE  /\ i + 1 \in DOMAIN (s \o t)
                    /\ (s \o t)[i + 1] = Op("post", (s \o t)[i].on, "NORM")
  BY DEF Paired
<1>1. /\ DOMAIN s = 1 .. Len(s) /\ DOMAIN t = 1 .. Len(t)
      /\ DOMAIN (s \o t) = 1 .. Len(s) + Len(t)
      /\ Len(s) \in Nat /\ Len(t) \in Nat
  OBVIOUS
<1>2. CASE i \in DOMAIN s
  <2>1. (s \o t)[i] = s[i]
    BY <1>1, <1>2
  <2>2. i + 1 \in DOMAIN s /\ s[i + 1] = Op("post", s[i].on, "NORM")
    BY <1>2, <2>1 DEF Paired
  <2>3. (s \o t)[i + 1] = s[i + 1]
    BY <1>1, <2>2
  <2> QED BY <1>1, <2>1, <2>2, <2>3
<1>3. CASE i \notin DOMAIN s
  <2> DEFINE j == i - Len(s)
  <2>1. j \in DOMAIN t /\ (s \o t)[i] = t[j]
    BY <1>1, <1>3
  <2>2. j + 1 \in DOMAIN t /\ t[j + 1] = Op("post", t[j].on, "NORM")
    BY <2>1 DEF Paired
  <2>3. i + 1 \in DOMAIN (s \o t) /\ i + 1 \notin DOMAIN s
    BY <1>1, <1>3, <2>2
  <2>4. (s \o t)[i + 1] = t[j + 1]
    BY <1>1, <2>3
  <2> QED BY <2>1, <2>2, <2>3, <2>4
<1> QED BY <1>2, <1>3

LEMMA PairedTail ==
  ASSUME NEW S, NEW s \in Seq(S), s # <<>>, Paired(s)
  PROVE  Paired(Tail(s))
<1> SUFFICES ASSUME NEW i \in DOMAIN Tail(s), Tail(s)[i].op = "queue"
             PROVE  /\ i + 1 \in DOMAIN Tail(s)
                    /\ Tail(s)[i + 1] = Op("post", Tail(s)[i].on, "NORM")
  BY DEF Paired
<1>1. DOMAIN s = 1 .. Len(s) /\ Len(s) \in Nat \ {0} /\ DOMAIN Tail(s) = 1 .. Len(s) - 1
  OBVIOUS
<1>2. i + 1 \in DOMAIN s /\ Tail(s)[i] = s[i + 1]
  BY <1>1
<1>3. i + 2 \in DOMAIN s /\ s[i + 2] = Op("post", s[i + 1].on, "NORM")
  <2>1. s[i + 1].op = "queue"
    BY <1>2
  <2>2. (i + 1) + 1 = i + 2
    BY <1>1
  <2> QED BY <1>2, <2>1, <2>2 DEF Paired
<1>4. i + 1 \in DOMAIN Tail(s) /\ Tail(s)[i + 1] = s[i + 2]
  BY <1>1, <1>3
<1> QED BY <1>2, <1>3, <1>4

-----------------------------------------------------------------------------
(* What handlers plan fits.                                                *)

LEMMA OpTypes ==
  ASSUME NEW x \in Tasks
  PROVE  /\ \A m \in Messages : Op("queue", x, m) \in Ops /\ Op("msg", x, m) \in Ops
         /\ \A ev \in Events \cup {"END"} : Op("post", x, ev) \in Ops
         /\ \A ev \in Returns : Op("return", x, ev) \in Ops
BY DEF Ops, Op

LEMMA MsgTypes ==
  ASSUME NEW n \in Nodes
  PROVE  /\ \A type \in {"REGIST", "UNREG", "ADD_FD", "DEL_FD", "DATA", "ALLOW_EXIT"} :
              Msg(type, n) \in Messages
         /\ \A s \in {"STOP_RCV", "STOP_DEAL", "STOP_SND", "CLOSED"} :
              Msg("STOP", s) \in Messages
<1>1. \A s \in {"STOP_RCV", "STOP_DEAL", "STOP_SND", "CLOSED"} :
        s \in {FdStatus[i] : i \in 3 .. 6}
  BY DEF FdStatus
<1> QED BY <1>1 DEF Msg, Messages

LEMMA NodeTasks ==
  ASSUME NEW n \in Nodes
  PROVE  /\ \A th \in Threads : <<n, th>> \in Tasks
         /\ \A th \in Pollers : <<Ctrl, th>> \in Tasks /\ <<n, th>> \in Tasks
         /\ \A th \in Threads : <<Ctrl, th>> \notin Nodes \X {"rcv"}
         /\ n # Ctrl
BY LifeAssumption DEF Tasks, Threads, Pollers

LEMMA NothingFits == ASSUME NEW th PROVE <<>> \in Plans(th)
BY DEF Plans, Paired

LEMMA PostFits ==
  ASSUME NEW th, NEW x \in Tasks, NEW ev \in Events \cup {"END"}
  PROVE  <<Op("post", x, ev)>> \in Plans(th)
<1>1. Op("post", x, ev) \in FittingOps(th)
  BY OpTypes DEF FittingOps, Op
<1>2. Paired(<<Op("post", x, ev)>>)
  BY DEF Paired, Op
<1> QED BY <1>1, <1>2 DEF Plans

LEMMA EndTaskFits == ASSUME NEW th, NEW x \in Tasks PROVE EndTask(x) \in Plans(th)
BY PostFits DEF EndTask

LEMMA GiveFits ==
  ASSUME NEW th, NEW x \in Tasks, x \notin Nodes \X {"rcv"}, NEW m \in Messages
  PROVE  Give(x, m) \in Plans(th)
<1>1. Op("queue", x, m) \in FittingOps(th) /\ Op("post", x, "NORM") \in FittingOps(th)
  BY OpTypes DEF FittingOps, Op, Events
<1>2. Give(x, m) \in Seq(FittingOps(th))
  BY <1>1 DEF Give
<1>3. Paired(Give(x, m))
  <2> DEFINE g == Give(x, m)
  <2>1. DOMAIN g = 1 .. 2 /\ g[1] = Op("queue", x, m) /\ g[2] = Op("post", x, "NORM")
    BY DEF Give
  <2>2. g[2].op # "queue" /\ g[1].on = x
    BY <2>1 DEF Op
  <2> HIDE DEF g
  <2>3. \A i \in DOMAIN g : g[i].op = "queue" => i = 1
    BY <2>1, <2>2
  <2>4. Paired(g)
    BY <2>1, <2>2, <2>3 DEF Paired
  <2> QED BY <2>4 DEF g
<1> QED BY <1>2, <1>3 DEF Plans

\* The messages handlers give.
LEMMA SendsFit ==
  ASSUME NEW th, NEW n \in Nodes
  PROVE  /\ Unreg(n) \in Plans(th)
         /\ Give(<<n, "deal">>, Msg("ALLOW_EXIT", n)) \in Plans(th)
         /\ Give(<<n, "deal">>, Msg("STOP", "STOP_DEAL")) \in Plans(th)
         /\ Give(<<n, "cmd">>, Msg("REGIST", n)) \in Plans(th)
         /\ \A s \in {"STOP_RCV", "STOP_DEAL", "STOP_SND", "CLOSED"} :
              Stop(n, s) \in Plans(th)
         /\ \A to \in Pollers, type \in {"ADD_FD", "DEL_FD"} :
              Give(<<Ctrl, to>>, Msg(type, n)) \in Plans(th)
<1>1. \A k \in {"cmd", "deal", "snd"} : <<n, k>> \in Tasks /\ <<n, k>> \notin Nodes \X {"rcv"}
  BY DEF Tasks, Threads
<1>2. \A k \in {"cmd", "deal", "snd"}, m \in Messages : Give(<<n, k>>, m) \in Plans(th)
  BY <1>1, GiveFits
<1>3. \A to \in Pollers, m \in Messages : Give(<<Ctrl, to>>, m) \in Plans(th)
  BY NodeTasks, GiveFits DEF Pollers, Threads
<1> QED BY <1>2, <1>3, MsgTypes DEF Unreg, Stop

\* Where each operation of s, a delivery to the k queues of t, comes from.
Delivered(s, k, t) ==
  /\ DOMAIN s = 1 .. 2 * k
  /\ \A i \in 1 .. 2 * k : \E j \in 1 .. k :
       \/ i = 2 * j - 1 /\ s[i] = Op("queue", t[j], Msg("DATA", t[j][1]))
       \/ i = 2 * j /\ s[i] = Op("post", t[j], "NORM")

LEMMA DeliverAt ==
  ASSUME NEW k \in Nat, NEW X, NEW t \in [1 .. k -> X]
  PROVE  Delivered(Deliver(t), k, t)
<1>1. Len(t) = k
  BY SMT
<1>2. DOMAIN Deliver(t) = 1 .. 2 * k
  BY <1>1 DEF Deliver
<1>3. ASSUME NEW i \in 1 .. 2 * k
      PROVE  \E j \in 1 .. k :
              \/ i = 2 * j - 1 /\ Deliver(t)[i] = Op("queue", t[j], Msg("DATA", t[j][1]))
              \/ i = 2 * j /\ Deliver(t)[i] = Op("post", t[j], "NORM")
  <2> DEFINE j == (i + 1) \div 2
             give == Give(t[j], Msg("DATA", t[j][1]))
  <2>1. /\ j \in 1 .. k
        /\ (i = 2 * j - 1 /\ i % 2 = 1) \/ (i = 2 * j /\ i % 2 = 0)
    BY SMT
  <2>2. Deliver(t)[i] = give[2 - (i % 2)]
    BY <1>1 DEF Deliver
  <2>3. /\ give[1] = Op("queue", t[j], Msg("DATA", t[j][1]))
        /\ give[2] = Op("post", t[j], "NORM")
    BY DEF Give
  <2> HIDE DEF j, give
  <2>4. CASE i = 2 * j - 1 /\ i % 2 = 1
    BY <2>1, <2>2, <2>3, <2>4
  <2>5. CASE i = 2 * j /\ i % 2 = 0
    BY <2>1, <2>2, <2>3, <2>5
  <2> QED BY <2>1, <2>4, <2>5
<1> QED BY <1>2, <1>3 DEF Delivered

\* Data is delivered to queues that exist.
LEMMA DeliverFits ==
  ASSUME NEW th, NEW k \in Nat, NEW X \in SUBSET (Nodes \X {"snd", "deal"}),
         NEW t \in [1 .. k -> X]
  PROVE  Deliver(t) \in Plans(th)
<1> DEFINE s == Deliver(t)
<1>1. /\ DOMAIN s = 1 .. 2 * k
      /\ \A i \in 1 .. 2 * k : \E j \in 1 .. k :
           \/ i = 2 * j - 1 /\ s[i] = Op("queue", t[j], Msg("DATA", t[j][1]))
           \/ i = 2 * j /\ s[i] = Op("post", t[j], "NORM")
  <2>1. Delivered(Deliver(t), k, t)
    BY DeliverAt
  <2> QED BY <2>1 DEF Delivered
<1>2. ASSUME NEW j \in 1 .. k
      PROVE  /\ Op("queue", t[j], Msg("DATA", t[j][1])) \in FittingOps(th)
             /\ Op("post", t[j], "NORM") \in FittingOps(th)
  <2>1. t[j] \in Tasks /\ t[j] \notin Nodes \X {"rcv"} /\ t[j][1] \in Nodes
    BY DEF Tasks, Threads
  <2>2. Msg("DATA", t[j][1]) \in Messages
    BY <2>1, MsgTypes
  <2> QED BY <2>1, <2>2, OpTypes DEF FittingOps, Op, Events
<1>3. ASSUME NEW i \in DOMAIN s PROVE s[i] \in FittingOps(th)
  BY <1>1, <1>2
<1>4. s \in Seq(FittingOps(th))
  <2>1. s = [i \in 1 .. 2 * k |-> s[i]]
    BY <1>1 DEF Deliver
  <2>2. 2 * k \in Nat
    BY SMT
  <2> HIDE DEF s
  <2>3. s \in [1 .. 2 * k -> FittingOps(th)]
    BY <1>1, <1>3, <2>1
  <2> QED BY <2>2, <2>3
<1>5. Paired(s)
  <2> HIDE DEF s
  <2> SUFFICES ASSUME NEW i \in DOMAIN s, s[i].op = "queue"
               PROVE  i + 1 \in DOMAIN s /\ s[i + 1] = Op("post", s[i].on, "NORM")
    BY DEF Paired
  <2>1. PICK j \in 1 .. k :
          \/ i = 2 * j - 1 /\ s[i] = Op("queue", t[j], Msg("DATA", t[j][1]))
          \/ i = 2 * j /\ s[i] = Op("post", t[j], "NORM")
    BY <1>1
  <2>2. s[i] # Op("post", t[j], "NORM")
    <3>1. Op("post", t[j], "NORM").op = "post"
      BY DEF Op
    <3> QED BY <3>1
  <2>3. i = 2 * j - 1 /\ s[i] = Op("queue", t[j], Msg("DATA", t[j][1]))
    BY <2>1, <2>2
  <2>4. i + 1 = 2 * j /\ i + 1 \in 1 .. 2 * k
    BY <1>1, <2>3
  <2>5. s[i + 1] = Op("post", t[j], "NORM")
    <3>1. PICK l \in 1 .. k :
            i + 1 = 2 * l - 1 \/ (i + 1 = 2 * l /\ s[i + 1] = Op("post", t[l], "NORM"))
      BY <1>1, <2>4
    <3>2. l = j /\ i + 1 # 2 * l - 1
      BY <2>4, <3>1
    <3> QED BY <3>1, <3>2
  <2>6. s[i].on = t[j]
    BY <2>3 DEF Op
  <2> QED BY <1>1, <2>4, <2>5, <2>6
<1> QED BY <1>4, <1>5 DEF Plans

LEMMA ReturnFits ==
  ASSUME NEW th, NEW x \in Tasks, NEW ev \in Returns, x[2] = th, x[1] \in Known,
         ev = "NORM" \/ x \in Nodes \X Pollers
  PROVE  Return(x, ev) \in Plans(th)
<1>1. Op("return", x, ev) \in FittingOps(th)
  BY OpTypes DEF FittingOps, Op
<1>2. Paired(<<Op("return", x, ev)>>)
  BY DEF Paired, Op
<1> QED BY <1>1, <1>2 DEF Plans, Return

LEMMA ConcatFits ==
  ASSUME NEW th, NEW s \in Plans(th), NEW t \in Plans(th)
  PROVE  s \o t \in Plans(th)
BY PairedConcat, SeqParts DEF Plans

LEMMA TailFits ==
  ASSUME NEW th, NEW s \in Plans(th), s # <<>>
  PROVE  Tail(s) \in Plans(th) /\ Head(s) \in FittingOps(th)
BY PairedTail, SeqParts DEF Plans

\* Plans go on to fit as connections are accepted.
LEMMA FitsOn ==
  ASSUME NEW th, born \subseteq born'
  PROVE  Plans(th) \subseteq Plans(th)'
<1>1. FittingOps(th) \subseteq FittingOps(th)'
  BY DEF FittingOps, Known
<1>2. \A s \in Seq(FittingOps(th)) : s \in Seq(FittingOps(th)')
  BY <1>1
<1> QED BY <1>2 DEF Plans, Paired

LEMMA PlanGoesOn ==
  ASSUME PlanOK, NEW th \in Threads, plan[th] # <<>>, NEW ops \in Plans(th),
         GoOn(th, ops), UNCHANGED born
  PROVE  PlanOK'
<1>1. ops \o Tail(plan[th]) \in Plans(th)
  BY TailFits, ConcatFits DEF PlanOK
<1>2. ops \o Tail(plan[th]) \in Seq(Ops)
  BY <1>1 DEF Plans, FittingOps
<1>3. \A t \in Threads : plan'[t] \in Plans(t)
  BY <1>1 DEF PlanOK, GoOn
<1>4. \A t \in Threads : Plans(t) \subseteq Plans(t)'
  BY FitsOn
<1> QED BY <1>2, <1>3, <1>4 DEF PlanOK, GoOn

LEMMA PlanStarts ==
  ASSUME PlanOK, NEW th \in Threads, NEW ops \in Plans(th)',
         Start(th, ops), born \subseteq born'
  PROVE  PlanOK'
<1>1. ops \in Seq(Ops)
  BY DEF Plans, FittingOps
<1>2. \A t \in Threads : Plans(t) \subseteq Plans(t)'
  BY FitsOn
<1> QED BY <1>1, <1>2 DEF PlanOK, Start

LEMMA PlanKept == ASSUME PlanOK, UNCHANGED <<plan, born>> PROVE PlanOK'
<1>1. \A t \in Threads : Plans(t) \subseteq Plans(t)'
  BY FitsOn
<1> QED BY <1>1 DEF PlanOK

-----------------------------------------------------------------------------
(* Every step keeps the types.                                             *)

LEMMA WordOps ==
  /\ Zero \in Words /\ Locked \in Words
  /\ \A w \in Words, ev \in Events \cup {"END"} : CheckinWord(w, ev) \in Words
  /\ \A w \in Words, c \in Conds : CheckoutWord(w, c) \in Words
  /\ \A w \in Words : ReleaseWord(w) \in Words
BY DEF Words, Zero, Locked, AllLow, LowBits, Events, CheckinWord, CheckoutWord,
       ReleaseWord, ReleaseLeaves

\* What the next operation of a thread is like.
LEMMA HeadFits ==
  ASSUME PlanOK, NEW th \in Threads, NEW op, Doing(th, op)
  PROVE  /\ plan[th] # <<>> /\ On(th) \in Tasks /\ Head(plan[th]) \in FittingOps(th)
         /\ op = "queue" => Arg(th) \in Messages /\ On(th) \notin Nodes \X {"rcv"}
         /\ op = "post" => Arg(th) \in Events \cup {"END"}
         /\ op = "return" => /\ Arg(th) \in Returns
                             /\ On(th)[2] = th /\ On(th)[1] \in Known
                             /\ Arg(th) # "NORM" => On(th) \in Nodes \X Pollers
         /\ op = "msg" => Arg(th) \in Messages /\ On(th)[2] = th /\ On(th)[1] \in Known
<1>1. Head(plan[th]) \in FittingOps(th) /\ plan[th] # <<>> /\ Head(plan[th]).op = op
  BY TailFits DEF PlanOK, Doing
<1> QED BY <1>1 DEF FittingOps, Ops, On, Arg

LEMMA QueueTypes ==
  ASSUME TypeInv, NEW th \in Threads, Queue(th) PROVE TypeInv'
<1>1. On(th) \in Tasks /\ Arg(th) \in Messages /\ plan[th] # <<>>
  BY HeadFits DEF Queue, TypeInv
<1>2. PlanOK'
  BY <1>1, NothingFits, PlanGoesOn DEF Queue, TypeInv, life
<1>3. msgs' \in [Tasks -> Seq(Messages)]
  BY <1>1 DEF Queue, TypeInv, StateOK
<1> QED BY <1>2, <1>3 DEF Queue, TypeInv, StateOK, Known, fields, life

LEMMA PostTypes ==
  ASSUME TypeInv, NEW th \in Threads, Post(th) PROVE TypeInv'
<1>1. On(th) \in Tasks /\ Arg(th) \in Events \cup {"END"} /\ plan[th] # <<>>
  BY HeadFits DEF Post, TypeInv
<1>2. PlanOK'
  BY <1>1, NothingFits, PlanGoesOn DEF Post, TypeInv, life
<1>3. word' \in [Tasks -> Words] /\ pool' \subseteq Tasks
  <2>1. word[On(th)] \in Words
    BY <1>1 DEF TypeInv, StateOK
  <2>2. CheckinWord(word[On(th)], Arg(th)) \in Words
    BY <1>1, <2>1, WordOps
  <2> QED BY <1>1, <2>2 DEF Post, TypeInv, StateOK
<1>4. \A x \in pool' : x[1] \in Known
  BY <1>1 DEF Post, TypeInv, StateOK, Alive, Known
<1> QED BY <1>2, <1>3, <1>4 DEF Post, TypeInv, StateOK, Known, fields, life

LEMMA ReturnTypes ==
  ASSUME TypeInv, NEW th \in Threads, Returned(th) PROVE TypeInv'
<1>1. On(th) \in Tasks /\ Arg(th) \in Returns /\ On(th)[1] \in Known /\ plan[th] # <<>>
  BY HeadFits DEF Returned, TypeInv
<1>2. PlanOK'
  BY <1>1, NothingFits, PlanGoesOn DEF Returned, TypeInv, life
<1>3. \E w \in Words : word' = [word EXCEPT ![On(th)] = w]
  <2>1. word[On(th)] \in Words
    BY <1>1 DEF TypeInv, StateOK
  <2>2. CASE Arg(th) = "NORM"
    <3>1. ReleaseWord(word[On(th)]) \in Words
      BY <2>1, WordOps
    <3> QED BY <2>2, <3>1, CondsAssumption DEF Returned
  <2>3. CASE Arg(th) # "NORM" /\ Arg(th) \in Conds
    <3>1. CheckoutWord(word[On(th)], Arg(th)) \in Words
      BY <2>1, <2>3, WordOps
    <3> QED BY <2>3, <3>1, CondsAssumption DEF Returned
  <2>4. CASE Arg(th) # "NORM" /\ Arg(th) \notin Conds
    BY <2>1, <2>4 DEF Returned
  <2> QED BY <2>2, <2>3, <2>4
<1>4. word' \in [Tasks -> Words]
  BY <1>3 DEF TypeInv, StateOK
<1>5. pool' = pool \/ pool' = pool \cup {On(th)}
  BY DEF Returned
<1> QED BY <1>1, <1>2, <1>4, <1>5 DEF Returned, TypeInv, StateOK, Known, fields, life

\* A task is taken from the pool.
LEMMA TakeTypes ==
  ASSUME TypeInv, NEW x \in Tasks, Take(x)
  PROVE  /\ word' \in [Tasks -> Words] /\ pool' \subseteq pool
         /\ x[1] \in Known /\ x[2] \in Threads /\ plan[x[2]] = <<>>
BY WordOps DEF Take, TypeInv, StateOK, Tasks, Threads, Pollers

LEMMA DrainTypes ==
  ASSUME TypeInv, NEW x \in Tasks, Drain(x) PROVE TypeInv'
<1> DEFINE q == msgs[x]
           work == [i \in DOMAIN q |-> Op("msg", x, q[i])]
<1>1. Take(x) /\ born' = born
  BY DEF Drain, TakeLive, life
<1>2. q \in Seq(Messages) /\ x[1] \in Known /\ x[2] \in Threads
  BY <1>1, TakeTypes DEF TypeInv, StateOK
<1>3. \A m \in Messages : Op("msg", x, m) \in FittingOps(x[2])
  BY <1>2, OpTypes DEF FittingOps, Op
<1>4. work \in Plans(x[2])
  <2>1. q \in [1 .. Len(q) -> Messages] /\ Len(q) \in Nat /\ DOMAIN q = 1 .. Len(q)
    BY <1>2
  <2>2. work \in [1 .. Len(q) -> FittingOps(x[2])]
    BY <1>3, <2>1
  <2>3. work \in Seq(FittingOps(x[2]))
    BY <2>1, <2>2
  <2>4. \A i \in DOMAIN work : work[i].op # "queue"
    BY DEF Op
  <2> QED BY <2>3, <2>4 DEF Plans, Paired
<1>5. Return(x, "NORM") \in Plans(x[2])
  BY <1>2, ReturnFits DEF Returns
<1>6. work \o Return(x, "NORM") \in Plans(x[2])
  BY <1>4, <1>5, ConcatFits
<1>7. work \o Return(x, "NORM") \in Plans(x[2])'
  BY <1>1, <1>6, FitsOn
<1>8. Start(x[2], work \o Return(x, "NORM"))
  BY DEF Drain
<1>9. PlanOK'
  <2> HIDE DEF work
  <2> QED BY <1>1, <1>2, <1>7, <1>8, PlanStarts DEF TypeInv
<1>10. msgs' \in [Tasks -> Seq(Messages)]
  BY DEF Drain, TypeInv, StateOK
<1> QED
  BY <1>1, <1>9, <1>10, TakeTypes
  DEF Drain, TakeLive, TypeInv, StateOK, Known, fields, life

LEMMA AnswerTypes ==
  ASSUME NEW n \in Nodes, NEW th \in Pollers
  PROVE  Answers(n, th) \subseteq {"NORM", "IN", "WRITE", "ERROR"}
BY DEF Answers

LEMMA AnswersReturn == {"NORM", "IN", "WRITE", "ERROR"} \subseteq Returns
BY LifeAssumption DEF Returns

\* What a write leaves of a queue.
LEMMA UnsentTypes ==
  ASSUME NEW q \in Seq(Messages), NEW ev \in {"NORM", "IN", "WRITE", "ERROR"},
         NEW r \in Unsent(q, ev)
  PROVE  r \in Seq(Messages)
<1>1. \A i \in 1 .. Len(q) : SubSeq(q, i, Len(q)) \in Seq(Messages)
  OBVIOUS
<1>2. Len(q) \in Nat
  OBVIOUS
<1>3. CASE ev = "NORM"
  BY <1>3 DEF Unsent
<1>4. CASE ev = "IN"
  <2>1. \E i \in 2 .. Len(q) : r = SubSeq(q, i, Len(q))
    BY <1>4 DEF Unsent
  <2> QED BY <1>1, <1>2, <2>1
<1>5. CASE ev = "WRITE"
  <2>1. \E i \in 1 .. Len(q) : r = SubSeq(q, i, Len(q))
    BY <1>5 DEF Unsent
  <2> QED BY <1>1, <2>1
<1>6. CASE ev = "ERROR"
  <2>1. r = q
    BY <1>6 DEF Unsent
  <2> QED BY <2>1
<1> QED BY <1>3, <1>4, <1>5, <1>6

LEMMA WriteNodeTypes ==
  ASSUME StateOK, NEW n \in Nodes, NEW ev \in {"NORM", "IN", "WRITE", "ERROR"},
         WriteNode(n, ev)
  PROVE  msgs' \in [Tasks -> Seq(Messages)] /\ can' \in [Pollers -> SUBSET Nodes]
<1>1. <<n, "snd">> \in Tasks
  BY NodeTasks DEF Threads
<1>2. PICK q \in Unsent(msgs[<<n, "snd">>], ev) :
        msgs' = [msgs EXCEPT ![<<n, "snd">>] = q]
  BY DEF WriteNode
<1>3. q \in Seq(Messages)
  BY <1>1, UnsentTypes DEF StateOK
<1> QED BY <1>2, <1>3 DEF WriteNode, StateOK, Pollers

LEMMA ForgetTypes ==
  ASSUME StateOK, NEW th \in Pollers, NEW n \in Nodes, Forget(th, n)
  PROVE  run' \in [Pollers -> SUBSET Nodes]
BY DEF Forget, StateOK

LEMMA AcceptTypes == ASSUME TypeInv, NEW n \in Nodes, Accept(n) PROVE TypeInv'
<1>1. "rcv" \in Threads
  BY DEF Threads
<1>2. Give(<<n, "cmd">>, Msg("REGIST", n)) \in Plans("rcv")'
  BY SendsFit, FitsOn DEF Accept
<1>3. PlanOK'
  BY <1>1, <1>2, PlanStarts DEF Accept, TypeInv
<1> QED BY <1>3 DEF Accept, TypeInv, StateOK, Known, mail, fields

LEMMA PollTypes ==
  ASSUME TypeInv, NEW th \in Pollers, NEW n \in Nodes,
         PollReady(th, n) \/ PollError(th, n)
  PROVE  TypeInv'
<1>1. th \in Threads /\ <<n, th>> \in Tasks
  BY NodeTasks DEF Threads, Pollers
<1>2. Event(th) \in Events
  BY LifeAssumption DEF Event, Events
<1>3. CASE PollReady(th, n)
  <2>1. <<Op("post", <<n, th>>, Event(th))>> \in Plans(th)'
    BY <1>1, <1>2, <1>3, PostFits, FitsOn DEF PollReady, life
  <2>2. PlanOK'
    BY <1>1, <1>3, <2>1, PlanStarts DEF PollReady, TypeInv, life
  <2> QED BY <1>3, <2>2 DEF PollReady, TypeInv, StateOK, Known, mail, life
<1>4. CASE PollError(th, n)
  <2>1. Unreg(n) \in Plans(th)'
    BY <1>4, SendsFit, FitsOn DEF PollError, life
  <2>2. PlanOK'
    BY <1>1, <1>4, <2>1, PlanStarts DEF PollError, TypeInv, life
  <2> QED BY <1>4, <2>2 DEF PollError, Forget, TypeInv, StateOK, Known, mail, life
<1> QED BY <1>3, <1>4

LEMMA ReadTypes ==
  ASSUME TypeInv, NEW n \in Nodes, NEW ev \in Answers(n, "rcv"), Read(n, ev)
  PROVE  TypeInv'
<1> DEFINE x == <<n, "rcv">>
<1>1. x \in Tasks /\ "rcv" \in Threads /\ "rcv" \in Pollers /\ x \in Nodes \X Pollers
  BY NodeTasks DEF Threads, Pollers
<1>2. Take(x) /\ UNCHANGED born
  BY DEF Read, life
<1>3. x[1] \in Known /\ pool' \subseteq pool /\ word' \in [Tasks -> Words]
  BY <1>1, <1>2, TakeTypes
<1>4. Return(x, ev) \in Plans("rcv")
  <2>1. ev \in Returns
    BY <1>1, AnswerTypes, AnswersReturn
  <2> QED BY <1>1, <1>3, <2>1, ReturnFits
<1>5. PICK k \in 0 .. MaxData - data : \E t \in [1 .. k -> {n} \X {"snd", "deal"}] :
        /\ data' = data + k
        /\ Start("rcv", Deliver(t) \o (IF ev = "ERROR" THEN Unreg(n) ELSE <<>>)
                                   \o Return(x, ev))
  BY DEF Read
<1>6. PICK t \in [1 .. k -> {n} \X {"snd", "deal"}] :
        /\ data' = data + k
        /\ Start("rcv", Deliver(t) \o (IF ev = "ERROR" THEN Unreg(n) ELSE <<>>)
                                   \o Return(x, ev))
  BY <1>5
<1>7. Deliver(t) \in Plans("rcv") /\ (IF ev = "ERROR" THEN Unreg(n) ELSE <<>>) \in Plans("rcv")
  <2>1. {n} \X {"snd", "deal"} \subseteq Nodes \X {"snd", "deal"} /\ k \in Nat
    OBVIOUS
  <2> QED BY <2>1, DeliverFits, SendsFit, NothingFits
<1>8. Deliver(t) \o (IF ev = "ERROR" THEN Unreg(n) ELSE <<>>) \o Return(x, ev) \in Plans("rcv")
  BY <1>4, <1>7, ConcatFits
<1>9. PlanOK'
  BY <1>1, <1>2, <1>6, <1>8, FitsOn, PlanStarts DEF TypeInv
<1>10. data' \in 0 .. MaxData
  BY <1>6, LifeAssumption DEF TypeInv, StateOK
<1>11. run' \in [Pollers -> SUBSET Nodes] /\ can' \in [Pollers -> SUBSET Nodes]
  <2>1. run' \in [Pollers -> SUBSET Nodes]
    BY <1>1, ForgetTypes DEF Read, TypeInv, StateOK
  <2>2. can' \in [Pollers -> SUBSET Nodes]
    BY <1>1 DEF Read, TypeInv, StateOK
  <2> QED BY <2>1, <2>2
<1>12. UNCHANGED <<msgs, reason, status, stopDeal, cmdList, life>>
  BY DEF Read
<1> QED BY <1>3, <1>9, <1>10, <1>11, <1>12 DEF TypeInv, StateOK, Known, life

LEMMA WriteTypes ==
  ASSUME TypeInv, NEW n \in Nodes, NEW ev \in Answers(n, "snd"), Write(n, ev)
  PROVE  TypeInv'
<1> DEFINE x == <<n, "snd">>
<1>1. x \in Tasks /\ "snd" \in Threads /\ "snd" \in Pollers /\ x \in Nodes \X Pollers
  BY NodeTasks DEF Threads, Pollers
<1>2. Take(x) /\ UNCHANGED born
  BY DEF Write, TakeLive, life
<1>3. x[1] \in Known /\ pool' \subseteq pool /\ word' \in [Tasks -> Words]
  BY <1>1, <1>2, TakeTypes
<1>4. ev \in {"NORM", "IN", "WRITE", "ERROR"} /\ ev \in Returns
  BY <1>1, AnswerTypes, AnswersReturn
<1>5. Return(x, ev) \in Plans("snd")
  BY <1>1, <1>3, <1>4, ReturnFits
<1>6. (IF ev = "ERROR" THEN Unreg(n) ELSE <<>>) \o Return(x, ev) \in Plans("snd")
  BY <1>5, SendsFit, NothingFits, ConcatFits
<1>7. PlanOK'
  BY <1>1, <1>2, <1>6, FitsOn, PlanStarts DEF TypeInv, Write
<1>8. msgs' \in [Tasks -> Seq(Messages)] /\ can' \in [Pollers -> SUBSET Nodes]
  BY <1>4, WriteNodeTypes DEF Write, TypeInv, StateOK
<1>9. run' \in [Pollers -> SUBSET Nodes]
  BY <1>1, ForgetTypes DEF Write, TypeInv, StateOK
<1>10. UNCHANGED <<reason, status, stopDeal, cmdList, life, data>>
  BY DEF Write, TakeLive
<1>11. StateOK'
  BY <1>3, <1>8, <1>9, <1>10 DEF TypeInv, StateOK, Known, life
<1> QED BY <1>7, <1>11 DEF TypeInv

\* The tasks of pollers and dealer end.
LEMMA EndTypes ==
  ASSUME TypeInv, NEW n \in Nodes, ReadEnd(n) \/ WriteEnd(n) \/ DealEnd(n)
  PROVE  TypeInv'
<1>1. /\ \A th \in {"rcv", "snd", "deal"} : <<n, th>> \in Tasks /\ th \in Threads
      /\ {"rcv", "snd"} = Pollers
  BY NodeTasks DEF Threads, Pollers
<1>2. CASE ReadEnd(n)
  <2>1. Stop(n, "STOP_RCV") \in Plans("rcv")'
    BY <1>2, SendsFit, FitsOn DEF ReadEnd, TakeEof
  <2>2. PlanOK'
    BY <1>1, <1>2, <2>1, PlanStarts DEF ReadEnd, TakeEof, TypeInv
  <2>3. pool' \subseteq pool /\ word' \in [Tasks -> Words]
    BY <1>1, <1>2, TakeTypes DEF ReadEnd, TakeEof
  <2>4. run' \in [Pollers -> SUBSET Nodes]
    BY <1>1, <1>2, ForgetTypes DEF ReadEnd, TypeInv
  <2> QED BY <1>1, <1>2, <2>2, <2>3, <2>4 DEF ReadEnd, TakeEof, TypeInv, StateOK, Known
<1>3. CASE DealEnd(n)
  <2>1. Stop(n, "STOP_DEAL") \in Plans("deal")'
    BY <1>3, SendsFit, FitsOn DEF DealEnd, TakeEof
  <2>2. PlanOK'
    BY <1>1, <1>3, <2>1, PlanStarts DEF DealEnd, TakeEof, TypeInv
  <2>3. pool' \subseteq pool /\ word' \in [Tasks -> Words]
    BY <1>1, <1>3, TakeTypes DEF DealEnd, TakeEof
  <2> QED BY <1>1, <1>3, <2>2, <2>3 DEF DealEnd, TakeEof, TypeInv, StateOK, Known, fields
<1>4. CASE WriteEnd(n)
  <2>1. \A ev : (IF ev = "ERROR" THEN Unreg(n) ELSE <<>>) \o Stop(n, "STOP_SND")
                   \in Plans("snd")
    BY SendsFit, NothingFits, ConcatFits
  <2>2. UNCHANGED born
    BY <1>4 DEF WriteEnd, TakeEof
  <2>3. PlanOK'
    <3>1. Stop(n, "STOP_SND") \in Plans("snd")
      BY SendsFit
    <3>2. \E ops \in Plans("snd") : Start("snd", ops)
      BY <1>4, <2>1, <3>1 DEF WriteEnd
    <3> QED BY <1>1, <2>2, <3>2, FitsOn, PlanStarts DEF TypeInv
  <2>4. msgs' \in [Tasks -> Seq(Messages)] /\ can' \in [Pollers -> SUBSET Nodes]
    <3>1. \A ev \in Answers(n, "snd") : ev \in {"NORM", "IN", "WRITE", "ERROR"}
      BY <1>1, AnswerTypes
    <3> QED BY <1>4, <3>1, WriteNodeTypes DEF WriteEnd, TypeInv, StateOK
  <2>5. pool' \subseteq pool /\ word' \in [Tasks -> Words]
    BY <1>1, <1>4, TakeTypes DEF WriteEnd, TakeEof
  <2>6. run' \in [Pollers -> SUBSET Nodes]
    BY <1>1, <1>4, ForgetTypes DEF WriteEnd, TypeInv
  <2> QED
    BY <1>1, <1>4, <2>3, <2>4, <2>5, <2>6 DEF WriteEnd, TakeEof, TypeInv, StateOK, Known
<1> QED BY <1>2, <1>3, <1>4

\* A thread handles a message: what is left to show of such a step.
LEMMA HandlingTypes ==
  ASSUME TypeInv, NEW th \in Threads, NEW x, NEW type, Handling(th, x, type)
  PROVE  /\ plan[th] # <<>> /\ On(th) = x /\ Arg(th) \in Messages
         /\ Arg(th).type = type /\ x[1] \in Known
         /\ type # "STOP" => Arg(th).val \in Nodes
         /\ type = "STOP" => Arg(th).val \in {"STOP_RCV", "STOP_DEAL", "STOP_SND", "CLOSED"}
         /\ UNCHANGED <<word, pool, msgs, born, gone, ended>>
<1>1. /\ plan[th] # <<>> /\ On(th) = x /\ Arg(th) \in Messages
      /\ Arg(th).type = type /\ x[1] \in Known
  BY HeadFits DEF Handling, TypeInv
<1>2. {FdStatus[i] : i \in 3 .. 6} = {"STOP_RCV", "STOP_DEAL", "STOP_SND", "CLOSED"}
  BY DEF FdStatus
<1>3. /\ type # "STOP" => Arg(th).val \in Nodes
      /\ type = "STOP" => Arg(th).val \in {"STOP_RCV", "STOP_DEAL", "STOP_SND", "CLOSED"}
  BY <1>1, <1>2 DEF Messages
<1> QED BY <1>1, <1>3 DEF Handling, mail

\* The messages the threads handle.
HandleMsg(th) ==
  \/ th \in Pollers /\ (CtrlAdd(th) \/ CtrlDel(th))
  \/ th = "deal" /\ \E n \in Nodes :
       DealStop(n) \/ DealExit(n) \/ \E ok \in BOOLEAN : DealMsg(n, ok)
  \/ th = "cmd" /\ \E n \in Nodes : CmdRegist(n) \/ CmdUnreg(n) \/ CmdStop(n)

LEMMA DealMsgGoesOn ==
  ASSUME TypeInv, NEW n \in Nodes, NEW ok \in BOOLEAN, DealMsg(n, ok)
  PROVE  \E ops \in Plans("deal") : GoOn("deal", ops)
<1>1. CASE n \in stopDeal
  BY <1>1, NothingFits DEF DealMsg
<1>2. CASE n \notin stopDeal
  <2>1. PICK k \in 0 .. MaxData - data : \E t \in [1 .. k -> Reachable \X {"snd", "deal"}] :
          GoOn("deal", Deliver(t) \o (IF ok THEN <<>> ELSE Unreg(n)))
    BY <1>2 DEF DealMsg
  <2>2. PICK t \in [1 .. k -> Reachable \X {"snd", "deal"}] :
          GoOn("deal", Deliver(t) \o (IF ok THEN <<>> ELSE Unreg(n)))
    BY <2>1
  <2>3. k \in Nat /\ Reachable \X {"snd", "deal"} \subseteq Nodes \X {"snd", "deal"}
    BY DEF Reachable, TypeInv, StateOK
  <2>4. Deliver(t) \in Plans("deal") /\ Unreg(n) \in Plans("deal") /\ <<>> \in Plans("deal")
    BY <2>3, DeliverFits, SendsFit, NothingFits
  <2>5. Deliver(t) \o (IF ok THEN <<>> ELSE Unreg(n)) \in Plans("deal")
    BY <2>4, ConcatFits
  <2> QED BY <2>2, <2>5
<1> QED BY <1>1, <1>2

LEMMA CmdGoesOn ==
  ASSUME TypeInv, NEW n \in Nodes, CmdRegist(n) \/ CmdUnreg(n) \/ CmdStop(n)
  PROVE  \E ops \in Plans("cmd") : GoOn("cmd", ops)
<1>1. "cmd" \in Threads /\ <<n, "cmd">> \in Tasks /\ {"rcv", "snd"} = Pollers
  BY NodeTasks DEF Threads, Pollers
<1>2. CASE CmdRegist(n)
  <2>1. Give(<<Ctrl, "rcv">>, Msg("ADD_FD", n)) \o Give(<<Ctrl, "snd">>, Msg("ADD_FD", n))
          \in Plans("cmd")
    BY <1>1, SendsFit, ConcatFits
  <2> QED BY <1>2, <2>1 DEF CmdRegist
<1>3. CASE CmdUnreg(n)
  BY <1>1, <1>3, NothingFits, SendsFit DEF CmdUnreg
<1>4. CASE CmdStop(n)
  <2> DEFINE s == Arg("cmd").val
  <2>1. s \in {"STOP_RCV", "STOP_DEAL", "STOP_SND", "CLOSED"}
    BY <1>1, <1>4, HandlingTypes DEF CmdStop
  <2>2. EndTask(<<n, "cmd">>) \in Plans("cmd")
    BY <1>1, EndTaskFits
  <2>3. NextStop(n, s) \in Plans("cmd")
    BY <1>1, <2>1, <2>2, SendsFit DEF NextStop
  <2> QED BY <1>4, <2>3, NothingFits DEF CmdStop
<1> QED BY <1>2, <1>3, <1>4

LEMMA HandlerGoesOn ==
  ASSUME TypeInv, NEW th \in Threads, HandleMsg(th)
  PROVE  /\ plan[th] # <<>> /\ UNCHANGED <<word, pool, msgs, born, gone, ended>>
         /\ Doing(th, "msg")
         /\ \E ops \in Plans(th) : GoOn(th, ops)
<1>1. CASE th \in Pollers /\ CtrlAdd(th)
  BY <1>1, HandlingTypes, NothingFits DEF CtrlAdd, Handling
<1>2. CASE th \in Pollers /\ CtrlDel(th)
  <2>1. Arg(th).val \in Nodes
    BY <1>2, HandlingTypes DEF CtrlDel
  <2>2. EndTask(<<Arg(th).val, th>>) \in Plans(th)
    BY <1>2, <2>1, NodeTasks, EndTaskFits
  <2> QED BY <1>2, <2>2, HandlingTypes DEF CtrlDel, Handling
<1>3. ASSUME NEW n \in Nodes, th = "deal", DealStop(n) \/ DealExit(n)
      PROVE  /\ plan[th] # <<>> /\ UNCHANGED <<word, pool, msgs, born, gone, ended>>
             /\ Doing(th, "msg")
             /\ \E ops \in Plans(th) : GoOn(th, ops)
  <2>1. EndTask(<<n, "deal">>) \in Plans(th)
    BY <1>3, NodeTasks, EndTaskFits
  <2> QED BY <1>3, <2>1, SendsFit, HandlingTypes DEF DealStop, DealExit, Handling
<1>4. ASSUME NEW n \in Nodes, NEW ok \in BOOLEAN, th = "deal", DealMsg(n, ok)
      PROVE  /\ plan[th] # <<>> /\ UNCHANGED <<word, pool, msgs, born, gone, ended>>
             /\ Doing(th, "msg")
             /\ \E ops \in Plans(th) : GoOn(th, ops)
  <2>1. Handling(th, <<n, "deal">>, "DATA")
    BY <1>4 DEF DealMsg
  <2> QED BY <1>4, <2>1, DealMsgGoesOn, HandlingTypes DEF Handling
<1>5. ASSUME NEW n \in Nodes, th = "cmd", CmdRegist(n) \/ CmdUnreg(n) \/ CmdStop(n)
      PROVE  /\ plan[th] # <<>> /\ UNCHANGED <<word, pool, msgs, born, gone, ended>>
             /\ Doing(th, "msg")
             /\ \E ops \in Plans(th) : GoOn(th, ops)
  <2>1. \E type : Handling(th, <<n, "cmd">>, type)
    BY <1>5 DEF CmdRegist, CmdUnreg, CmdStop
  <2> QED BY <1>5, <2>1, CmdGoesOn, HandlingTypes DEF Handling
<1> QED BY <1>1, <1>2, <1>3, <1>4, <1>5 DEF HandleMsg

LEMMA StatusTypes ==
  {"CLOSING", "STOP_RCV", "STOP_DEAL", "STOP_SND", "CLOSED", "NORMAL"}
    \subseteq {FdStatus[i] : i \in 1 .. 6}
BY DEF FdStatus

LEMMA HandleTypes == ASSUME TypeInv, NEW th \in Threads, HandleMsg(th) PROVE TypeInv'
<1>1. UNCHANGED <<word, pool, msgs, born, gone, ended>>
  BY HandlerGoesOn
<1>2. PlanOK'
  BY HandlerGoesOn, PlanGoesOn DEF TypeInv
<1>3. CASE th \in Pollers /\ CtrlAdd(th)
  <2>1. Arg(th).val \in Nodes
    BY <1>3, HandlingTypes DEF CtrlAdd
  <2> QED BY <1>1, <1>2, <1>3, <2>1 DEF CtrlAdd, TypeInv, StateOK, Known
<1>4. CASE th \in Pollers /\ CtrlDel(th)
  BY <1>1, <1>2, <1>4 DEF CtrlDel, TypeInv, StateOK, Known, fields
<1>5. ASSUME NEW n \in Nodes, th = "deal", DealStop(n) PROVE TypeInv'
  <2>1. n \in Known
    BY <1>5, HandlingTypes DEF DealStop
  <2>2. n \in born
    BY <2>1, NodeTasks DEF Known
  <2> QED BY <1>1, <1>2, <1>5, <2>2 DEF DealStop, TypeInv, StateOK, Known
<1>6. ASSUME NEW n \in Nodes, DealExit(n) PROVE TypeInv'
  BY <1>1, <1>2, <1>6 DEF DealExit, TypeInv, StateOK, Known, fields
<1>7. ASSUME NEW n \in Nodes, NEW ok \in BOOLEAN, DealMsg(n, ok) PROVE TypeInv'
  <2>1. data' \in 0 .. MaxData
    BY <1>7, LifeAssumption DEF DealMsg, TypeInv, StateOK
  <2>2. stopDeal' \subseteq Nodes
    BY <1>7 DEF DealMsg, TypeInv, StateOK
  <2>3. UNCHANGED <<run, can, reason, status, cmdList, closed>>
    BY <1>7 DEF DealMsg
  <2> QED BY <1>1, <1>2, <2>1, <2>2, <2>3 DEF TypeInv, StateOK, Known
<1>8. ASSUME NEW n \in Nodes, CmdRegist(n) PROVE TypeInv'
  BY <1>1, <1>2, <1>8 DEF CmdRegist, TypeInv, StateOK, Known
<1>9. ASSUME NEW n \in Nodes, CmdUnreg(n) PROVE TypeInv'
  <2>1. reason' \subseteq Nodes /\ status' \in [Nodes -> {FdStatus[i] : i \in 1 .. 6}]
    BY <1>9, StatusTypes DEF CmdUnreg, TypeInv, StateOK
  <2> QED BY <1>1, <1>2, <1>9, <2>1 DEF CmdUnreg, TypeInv, StateOK, Known
<1>10. ASSUME NEW n \in Nodes, th = "cmd", CmdStop(n) PROVE TypeInv'
  <2>1. Arg("cmd").val \in {"STOP_RCV", "STOP_DEAL", "STOP_SND", "CLOSED"}
    BY <1>10, HandlingTypes DEF CmdStop
  <2>2. status' \in [Nodes -> {FdStatus[i] : i \in 1 .. 6}]
    BY <1>10, <2>1, StatusTypes DEF CmdStop, TypeInv, StateOK
  <2> QED BY <1>1, <1>2, <1>10, <2>2 DEF CmdStop, TypeInv, StateOK, Known
<1> QED BY <1>3, <1>4, <1>5, <1>6, <1>7, <1>8, <1>9, <1>10 DEF HandleMsg

LEMMA CmdEndTypes == ASSUME TypeInv, NEW n \in Nodes, CmdEnd(n) PROVE TypeInv'
<1>1. <<n, "cmd">> \in Tasks
  BY NodeTasks DEF Threads
<1>2. pool' \subseteq pool /\ word' \in [Tasks -> Words] /\ n \in Known
  BY <1>1, TakeTypes DEF CmdEnd, TakeEof
<1>3. n \in born
  BY <1>2, NodeTasks DEF Known
<1>4. PlanOK'
  BY PlanKept DEF CmdEnd, TakeEof, TypeInv
<1>5. msgs' \in [Tasks -> Seq(Messages)]
  <2>1. <<>> \in Seq(Messages)
    OBVIOUS
  <2> QED BY <2>1 DEF CmdEnd, TypeInv, StateOK
<1> QED
  BY <1>1, <1>2, <1>3, <1>4, <1>5 DEF CmdEnd, TakeEof, TypeInv, StateOK, Known

LEMMA TypeInit == Init => TypeInv
<1> SUFFICES ASSUME Init PROVE TypeInv
  OBVIOUS
<1>1. word \in [Tasks -> Words]
  <2>1. {"READ", "WRITE"} \subseteq Conds
    BY LifeAssumption
  <2>2. CheckoutWord(Zero, "READ") \in Words /\ CheckoutWord(Zero, "WRITE") \in Words
    BY <2>1, WordOps
  <2> QED BY <2>2, WordOps DEF Init
<1>2. PlanOK
  <2>1. <<>> \in Seq(Ops)
    OBVIOUS
  <2> QED BY <2>1, NothingFits DEF Init, PlanOK
<1>3. msgs \in [Tasks -> Seq(Messages)]
  <2>1. <<>> \in Seq(Messages)
    OBVIOUS
  <2> QED BY <2>1 DEF Init
<1>4. status \in [Nodes -> {FdStatus[i] : i \in 1 .. 6}]
  BY StatusTypes DEF Init
<1>5. data \in 0 .. MaxData
  BY LifeAssumption DEF Init
<1> QED BY <1>1, <1>2, <1>3, <1>4, <1>5 DEF Init, TypeInv, StateOK

LEMMA ServeTypes == ASSUME TypeInv, NEW x \in Tasks, Serve(x) PROVE TypeInv'
<1> DEFINE n == x[1]
<1>1. n # Ctrl => n \in Nodes
  BY DEF Tasks
<1> QED
  BY <1>1, DrainTypes, ReadTypes, WriteTypes, EndTypes, CmdEndTypes DEF Serve

LEMMA ProceedSteps ==
  ASSUME NEW th \in Threads, Proceed(th)
  PROVE  Queue(th) \/ Post(th) \/ Returned(th) \/ HandleMsg(th)
BY DEF Proceed, HandleMsg

LEMMA ProceedTypes == ASSUME TypeInv, NEW th \in Threads, Proceed(th) PROVE TypeInv'
BY ProceedSteps, QueueTypes, PostTypes, ReturnTypes, HandleTypes

LEMMA TypeNext == TypeInv /\ [Next]_vars => TypeInv'
<1> SUFFICES ASSUME TypeInv, [Next]_vars PROVE TypeInv'
  OBVIOUS
<1>1. CASE Next
  BY <1>1, AcceptTypes, PollTypes, ServeTypes, ProceedTypes DEF Next
<1>2. CASE UNCHANGED vars
  <2>1. PlanOK'
    BY <1>2, PlanKept DEF vars, life, TypeInv
  <2> QED BY <1>2, <2>1 DEF vars, mail, fields, life, TypeInv, StateOK, Known
<1> QED BY <1>1, <1>2

LEMMA TypeInvHolds == Spec => []TypeInv
BY TypeInit, TypeNext, PTL DEF Spec

LEMMA InvTypes == TypeInv => TypeOK
<1> SUFFICES ASSUME TypeInv PROVE TypeOK
  OBVIOUS
<1>1. \A x \in Tasks : \A i \in DOMAIN msgs[x] : msgs[x][i] \in Messages
  BY DEF TypeInv, StateOK
<1>2. ASSUME NEW th \in Threads, NEW i \in DOMAIN plan[th]
      PROVE  plan[th][i] \in FittingOps(th)
  BY DEF TypeInv, PlanOK, Plans
<1>3. \A n \in Nodes : \E i \in 1 .. 6 : status[n] = FdStatus[i]
  BY DEF TypeInv, StateOK
<1> QED BY <1>1, <1>2, <1>3 DEF TypeInv, StateOK, TypeOK, FittingOps

(* Types: every message and every planned operation is one its queue or    *)
(* its thread can have, for any connections that fail anywhere.            *)
THEOREM TypeCorrect == Spec => []TypeOK
BY TypeInvHolds, InvTypes, PTL

-----------------------------------------------------------------------------
(* No message is stranded.  MailHasBell is not inductive: a handler that   *)
(* is about to return may have emptied the queue or not.  BellInv says     *)
(* when its return alone is a reason to expect that the task is served     *)
(* again: not when it returns NORM, for then it has emptied the queue.     *)

\* A thread is to post the task x, or to return it with more to do.
Rings(o, x) ==
  o.on = x /\ (o.op = "post" \/ (o.op = "return" /\ o.arg # "NORM"))

Rung(x) == \E th \in Threads : \E i \in DOMAIN plan[th] : Rings(plan[th][i], x)

Bell(x) ==
  \/ msgs[x] = <<>>
  \/ word[x].low \ {"LOCK"} # {}
  \/ x \in pool
  \/ Rung(x)
  \/ x[2] = "snd" /\ Awaited(word[x]) # {}

\* Nothing is in the queues of a node that does not exist, nor in that of the
\* receiver's task of a connection.
MailboxesOK ==
  \A n \in Nodes :
    /\ n \notin born \ gone => \A th \in Threads : msgs[<<n, th>>] = <<>>
    /\ msgs[<<n, "rcv">>] = <<>>

BellInv == MailboxesOK /\ \A x \in Tasks \ ended : Bell(x)

\* Any word that an event has come to has a bit of it.
LEMMA EventStays ==
  ASSUME NEW w \in Words, NEW ev \in Events \cup {"END"}
  PROVE  CheckinWord(w, ev).low \ {"LOCK"} # {}
BY CondsAssumption DEF CheckinWord, AllLow, LowBits, Words, Events

\* A checkout either finds the event there or waits for it.
LEMMA CheckoutWaits ==
  ASSUME NEW w \in Words, NEW c \in Conds
  PROVE  CheckoutWord(w, c).low \ {"LOCK"} # {} \/ Awaited(CheckoutWord(w, c)) # {}
BY CondsAssumption DEF CheckoutWord, Awaited, Words

\* A plan that goes on keeps all but its first operation; whoever was to be
\* rung by the others still is.
LEMMA RungGoesOn ==
  ASSUME PlanOK, NEW th \in Threads, plan[th] # <<>>, NEW ops \in Seq(Ops),
         GoOn(th, ops), NEW x, Rung(x), ~ Rings(Head(plan[th]), x)
  PROVE  Rung(x)'
<1>0. PICK t \in Threads : \E i \in DOMAIN plan[t] : Rings(plan[t][i], x)
  BY DEF Rung
<1>1. PICK i \in DOMAIN plan[t] : Rings(plan[t][i], x)
  BY <1>0
<1>2. CASE t # th
  <2>1. plan'[t] = plan[t]
    BY <1>2 DEF GoOn, PlanOK
  <2> QED BY <1>1, <2>1 DEF Rung, Rings
<1>3. CASE t = th
  <2> DEFINE s == plan[th]
  <2>1. s \in Seq(Ops) /\ s # <<>>
    BY DEF PlanOK
  <2>2. i # 1
    BY <1>1, <1>3, <2>1
  <2>3. plan'[th] = ops \o Tail(s)
    BY DEF GoOn, PlanOK
  <2> DEFINE j == Len(ops) + i - 1
  <2>4. j \in DOMAIN (ops \o Tail(s)) /\ (ops \o Tail(s))[j] = s[i]
    <3>1. i \in 2 .. Len(s) /\ Len(s) \in Nat /\ Len(ops) \in Nat
      BY <1>1, <1>3, <2>1, <2>2
    <3>2. Tail(s) \in Seq(Ops) /\ Len(Tail(s)) = Len(s) - 1 /\ Tail(s)[i - 1] = s[i]
      BY <2>1, <3>1
    <3> HIDE DEF s
    <3> QED BY <3>1, <3>2
  <2> QED BY <1>1, <1>3, <2>3, <2>4 DEF Rung, Rings
<1> QED BY <1>2, <1>3

LEMMA RungStarts ==
  ASSUME PlanOK, NEW th \in Threads, plan[th] = <<>>, NEW ops, Start(th, ops),
         NEW x, Rung(x)
  PROVE  Rung(x)'
<1>0. PICK t \in Threads : \E i \in DOMAIN plan[t] : Rings(plan[t][i], x)
  BY DEF Rung
<1>1. PICK i \in DOMAIN plan[t] : Rings(plan[t][i], x)
  BY <1>0
<1>2. t # th
  BY <1>1
<1>3. plan'[t] = plan[t]
  BY <1>2 DEF Start, PlanOK
<1> QED BY <1>1, <1>3 DEF Rung, Rings

\* A task that a step does not touch.
LEMMA BellKept ==
  ASSUME NEW x, Bell(x), msgs'[x] \in {msgs[x], <<>>}, word'[x] = word[x],
         x \in pool => x \in pool', Rung(x) => Rung(x)'
  PROVE  Bell(x)'
BY DEF Bell

\* A step that handles a message or makes another plan touches no task.
LEMMA BellsKept ==
  ASSUME TypeInv, BellInv, UNCHANGED <<word, pool, msgs, ended>>,
         born \ gone \subseteq born' \ gone', \A x : Rung(x) => Rung(x)'
  PROVE  BellInv'
<1>1. MailboxesOK'
  BY DEF BellInv, MailboxesOK
<1>2. \A x \in Tasks \ ended' : Bell(x)'
  BY BellKept DEF BellInv
<1> QED BY <1>1, <1>2 DEF BellInv

\* The message handled rings nobody.
LEMMA HandleBells == ASSUME TypeInv, BellInv, NEW th \in Threads, HandleMsg(th) PROVE BellInv'
<1>1. /\ plan[th] # <<>> /\ UNCHANGED <<word, pool, msgs, born, gone, ended>>
      /\ ~ \E x : Rings(Head(plan[th]), x)
  BY HandlerGoesOn DEF Doing, Rings
<1>2. PICK ops \in Plans(th) : GoOn(th, ops)
  BY HandlerGoesOn
<1>3. ops \in Seq(Ops)
  BY DEF Plans, FittingOps
<1>4. \A x : Rung(x) => Rung(x)'
  BY <1>1, <1>2, <1>3, RungGoesOn DEF TypeInv
<1> QED BY <1>1, <1>4, BellsKept

LEMMA QueueBells == ASSUME TypeInv, BellInv, NEW th \in Threads, Queue(th) PROVE BellInv'
<1>1. PICK x \in Tasks :
      /\ On(th) = x /\ x \notin Nodes \X {"rcv"} /\ plan[th] # <<>>
      /\ Head(plan[th]).op = "queue" /\ plan[th] \in Plans(th)
  BY HeadFits DEF Queue, Doing, TypeInv, PlanOK
<1>2. UNCHANGED <<word, pool, born, gone, ended>> /\ GoOn(th, <<>>)
  BY DEF Queue, life
<1>3. \A y : Rung(y) => Rung(y)'
  <2>1. <<>> \in Seq(Ops) /\ \A y : ~ Rings(Head(plan[th]), y)
    BY <1>1 DEF Rings
  <2> QED BY <1>1, <1>2, <2>1, RungGoesOn DEF TypeInv
<1>4. Rung(x)'
  <2> DEFINE s == plan[th]
  <2>1. s \in Seq(Ops) /\ s # <<>> /\ Head(s) = s[1] /\ 1 \in DOMAIN s
    BY <1>1 DEF TypeInv, PlanOK
  <2>2. 2 \in DOMAIN s /\ s[2] = Op("post", x, "NORM")
    <3>1. s[1].op = "queue" /\ s[1].on = x
      BY <1>1, <2>1 DEF On
    <3>2. 1 + 1 = 2
      OBVIOUS
    <3> QED BY <1>1, <2>1, <3>1, <3>2 DEF Plans, Paired
  <2>3. plan'[th] = <<>> \o Tail(s)
    BY <1>2 DEF GoOn, TypeInv, PlanOK
  <2>4. 1 \in DOMAIN (<<>> \o Tail(s)) /\ (<<>> \o Tail(s))[1] = s[2]
    <3> HIDE DEF s
    <3>1. Len(s) \in Nat /\ Len(s) >= 2
      BY <2>1, <2>2
    <3> QED BY <2>1, <2>2, <3>1
  <2>5. plan'[th][1] = Op("post", x, "NORM") /\ 1 \in DOMAIN plan'[th]
    BY <2>2, <2>3, <2>4
  <2>6. Rings(Op("post", x, "NORM"), x)
    BY DEF Rings, Op
  <2>7. \E i \in DOMAIN plan'[th] : Rings(plan'[th][i], x)
    BY <2>5, <2>6
  <2> QED BY <2>7 DEF Rung, Rings
<1>5. CASE Alive(x)
  <2>1. msgs' = [msgs EXCEPT ![x] = Append(@, Arg(th))]
    BY <1>1, <1>5 DEF Queue
  <2>2. MailboxesOK'
    <3>1. ASSUME NEW n \in Nodes, NEW t \in Threads, <<n, t>> = x
          PROVE  n \in born \ gone /\ t # "rcv"
      BY <1>1, <1>5, <3>1, NodeTasks DEF Alive
    <3>2. \A n \in Nodes, t \in Threads : <<n, t>> # x => msgs'[<<n, t>>] = msgs[<<n, t>>]
      BY <2>1, NodeTasks DEF TypeInv, StateOK
    <3>3. "rcv" \in Threads
      BY DEF Threads
    <3> QED BY <1>2, <3>1, <3>2, <3>3 DEF BellInv, MailboxesOK
  <2>3. ASSUME NEW y \in Tasks \ ended' PROVE Bell(y)'
    <3>1. CASE y = x
      BY <1>4, <3>1 DEF Bell
    <3>2. CASE y # x
      <4>1. msgs'[y] = msgs[y] /\ Bell(y)
        BY <1>2, <2>1, <3>2 DEF TypeInv, StateOK, BellInv
      <4> QED BY <1>2, <1>3, <4>1, BellKept
    <3> QED BY <3>1, <3>2
  <2> QED BY <2>2, <2>3 DEF BellInv
<1>6. CASE ~ Alive(x)
  BY <1>1, <1>2, <1>3, <1>6, BellsKept DEF Queue
<1> QED BY <1>5, <1>6

LEMMA PostBells == ASSUME TypeInv, BellInv, NEW th \in Threads, Post(th) PROVE BellInv'
<1>1. PICK x \in Tasks :
      /\ On(th) = x /\ plan[th] # <<>> /\ Head(plan[th]).on = x
      /\ Arg(th) \in Events \cup {"END"}
  BY HeadFits DEF Post, Doing, On, TypeInv
<1>2. UNCHANGED <<msgs, born, gone, ended>> /\ GoOn(th, <<>>) /\ pool \subseteq pool'
  BY DEF Post, life
<1>3. \A y : y # x /\ Rung(y) => Rung(y)'
  <2>1. <<>> \in Seq(Ops) /\ \A y : y # x => ~ Rings(Head(plan[th]), y)
    BY <1>1 DEF Rings
  <2> QED BY <1>1, <1>2, <2>1, RungGoesOn DEF TypeInv
<1>4. Bell(x)'
  <2>1. CASE Alive(x)
    <3>1. word'[x] = CheckinWord(word[x], Arg(th))
      BY <1>1, <2>1 DEF Post, TypeInv, StateOK
    <3>2. word'[x].low \ {"LOCK"} # {}
      BY <1>1, <3>1, EventStays DEF TypeInv, StateOK
    <3> QED BY <3>2 DEF Bell
  <2>2. CASE ~ Alive(x)
    <3>1. \E n \in Nodes, t \in Threads : x = <<n, t>> /\ n \notin born \ gone
      BY <1>1, <2>2 DEF Alive, Tasks
    <3>2. msgs[x] = <<>>
      BY <3>1 DEF BellInv, MailboxesOK
    <3> QED BY <1>2, <3>2 DEF Bell
  <2> QED BY <2>1, <2>2
<1>5. ASSUME NEW y \in Tasks \ ended', y # x PROVE Bell(y)'
  <2>1. word'[y] = word[y] /\ Bell(y)
    BY <1>1, <1>2, <1>5 DEF Post, TypeInv, StateOK, BellInv
  <2> QED BY <1>2, <1>3, <1>5, <2>1, BellKept
<1>6. MailboxesOK'
  BY <1>2 DEF BellInv, MailboxesOK
<1> QED BY <1>4, <1>5, <1>6 DEF BellInv

LEMMA ReturnBells == ASSUME TypeInv, BellInv, NEW th \in Threads, Returned(th) PROVE BellInv'
<1>1. PICK x \in Tasks :
      /\ On(th) = x /\ plan[th] # <<>> /\ Head(plan[th]).on = x
      /\ Head(plan[th]).op = "return" /\ Head(plan[th]).arg = Arg(th)
      /\ Arg(th) \in Returns
      /\ Arg(th) # "NORM" => x \in Nodes \X Pollers
  BY HeadFits DEF Returned, Doing, On, Arg, TypeInv
<1>2. UNCHANGED <<msgs, born, gone, ended>> /\ GoOn(th, <<>>) /\ pool \subseteq pool'
  BY DEF Returned, life
<1>3. \A y : Rung(y) /\ (y = x => Arg(th) = "NORM") => Rung(y)'
  <2>1. <<>> \in Seq(Ops)
        /\ \A y : (y = x => Arg(th) = "NORM") => ~ Rings(Head(plan[th]), y)
    BY <1>1 DEF Rings
  <2> QED BY <1>1, <1>2, <2>1, RungGoesOn DEF TypeInv
<1> DEFINE w == word[x]
<1>4. w \in Words
  BY <1>1 DEF TypeInv, StateOK
<1>5. ASSUME x \notin ended PROVE Bell(x)'
  <2>1. CASE Arg(th) = "NORM"
    <3>1. word'[x] = ReleaseWord(w)
      BY <1>1, <2>1, CondsAssumption DEF Returned, TypeInv, StateOK
    <3>2. word'[x] = w \/ w = Locked
      BY <3>1 DEF ReleaseWord, ReleaseLeaves
    <3>3. w = Locked => w.low \ {"LOCK"} = {} /\ Awaited(w) = {}
      BY DEF Locked, Awaited
    <3>4. Bell(x)
      BY <1>1, <1>5 DEF BellInv
    <3> QED BY <1>2, <1>3, <2>1, <3>2, <3>3, <3>4 DEF Bell
  <2>2. CASE Arg(th) # "NORM" /\ Arg(th) \in Conds
    <3>1. word'[x] = CheckoutWord(w, Arg(th))
      BY <1>1, <2>2, CondsAssumption DEF Returned, TypeInv, StateOK
    <3>2. CASE x \in Nodes \X {"rcv"}
      BY <1>2, <3>2 DEF BellInv, MailboxesOK, Bell
    <3>3. CASE x[2] = "snd"
      <4>1. \/ word'[x].low \ {"LOCK"} # {}
            \/ Awaited(word'[x]) # {}
        BY <1>4, <2>2, <3>1, CheckoutWaits
      <4> QED BY <3>3, <4>1 DEF Bell
    <3>4. x \in Nodes \X {"rcv"} \/ x[2] = "snd"
      <4>1. PICK n \in Nodes, p \in Pollers : x = <<n, p>>
        BY <1>1, <2>2
      <4>2. p = "rcv" \/ p = "snd"
        BY DEF Pollers
      <4> QED BY <4>1, <4>2
    <3> QED BY <3>2, <3>3, <3>4
  <2>3. CASE Arg(th) # "NORM" /\ Arg(th) \notin Conds
    <3>1. x \in pool'
      BY <1>1, <2>3, CondsAssumption DEF Returned
    <3> QED BY <3>1 DEF Bell
  <2> QED BY <2>1, <2>2, <2>3
<1>6. ASSUME NEW y \in Tasks \ ended', y # x PROVE Bell(y)'
  <2>1. word'[y] = word[y] /\ Bell(y)
    BY <1>1, <1>2, <1>6 DEF Returned, TypeInv, StateOK, BellInv
  <2> QED BY <1>2, <1>3, <1>6, <2>1, BellKept
<1>7. MailboxesOK'
  BY <1>2 DEF BellInv, MailboxesOK
<1> QED BY <1>2, <1>5, <1>6, <1>7 DEF BellInv

\* A task is taken: nothing else changes but its queue and what is planned.
LEMMA TakeBells ==
  ASSUME TypeInv, BellInv, NEW x \in Tasks, Take(x), NEW ops, Start(x[2], ops),
         msgs' \in [Tasks -> Seq(Messages)], \A y \in Tasks : y # x => msgs'[y] = msgs[y],
         msgs[x] = <<>> => msgs'[x] = <<>>,
         UNCHANGED <<born, gone>>, ended \subseteq ended', x \in ended' \/ Bell(x)'
  PROVE  BellInv'
<1>1. plan[x[2]] = <<>> /\ x[2] \in Threads
  BY TakeTypes
<1>2. \A y : Rung(y) => Rung(y)'
  BY <1>1, RungStarts DEF TypeInv
<1>3. ASSUME NEW y \in Tasks \ ended', y # x PROVE Bell(y)'
  <2>1. Bell(y) /\ word'[y] = word[y] /\ (y \in pool => y \in pool')
    BY <1>3 DEF BellInv, Take, TypeInv, StateOK
  <2> QED BY <1>2, <1>3, <2>1, BellKept
<1>4. MailboxesOK'
  <2>1. \A y \in Tasks : msgs[y] = <<>> => msgs'[y] = <<>>
    OBVIOUS
  <2>2. \A n \in Nodes, t \in Threads : <<n, t>> \in Tasks
    BY NodeTasks
  <2>3. "rcv" \in Threads
    BY DEF Threads
  <2> QED BY <2>1, <2>2, <2>3 DEF BellInv, MailboxesOK
<1> QED BY <1>3, <1>4 DEF BellInv

LEMMA DrainBells == ASSUME TypeInv, BellInv, NEW x \in Tasks, Drain(x) PROVE BellInv'
<1>1. msgs' = [msgs EXCEPT ![x] = <<>>]
  BY DEF Drain
<1>2. /\ msgs'[x] = <<>> /\ \A y \in Tasks : y # x => msgs'[y] = msgs[y]
      /\ msgs' \in [Tasks -> Seq(Messages)]
  BY <1>1 DEF TypeInv, StateOK
<1>3. Bell(x)'
  BY <1>2 DEF Bell
<1>4. Take(x) /\ UNCHANGED <<born, gone, ended>> /\ \E ops : Start(x[2], ops)
  BY DEF Drain, TakeLive, life
<1> QED BY <1>2, <1>3, <1>4, TakeBells

LEMMA ReadBells ==
  ASSUME TypeInv, BellInv, NEW n \in Nodes, NEW ev, Read(n, ev) PROVE BellInv'
<1> DEFINE x == <<n, "rcv">>
<1>1. x \in Tasks /\ x[2] = "rcv"
  BY NodeTasks DEF Threads
<1>2. Take(x) /\ UNCHANGED <<msgs, born, gone, ended>> /\ \E ops : Start(x[2], ops)
  BY DEF Read, life
<1>3. Bell(x)'
  BY <1>2 DEF Bell, BellInv, MailboxesOK
<1> QED BY <1>1, <1>2, <1>3, TakeBells DEF TypeInv, StateOK

\* A write puts nothing in an empty queue, and empties it if it returns NORM.
LEMMA WriteNodeEmpties ==
  ASSUME StateOK, NEW n \in Nodes, NEW ev \in {"NORM", "IN", "WRITE", "ERROR"},
         WriteNode(n, ev)
  PROVE  /\ \A y \in Tasks : y # <<n, "snd">> => msgs'[y] = msgs[y]
         /\ msgs[<<n, "snd">>] = <<>> => msgs'[<<n, "snd">>] = <<>>
         /\ ev = "NORM" => msgs'[<<n, "snd">>] = <<>>
<1> DEFINE x == <<n, "snd">>
<1>1. x \in Tasks
  BY NodeTasks DEF Threads
<1>2. PICK q \in Unsent(msgs[x], ev) : msgs' = [msgs EXCEPT ![x] = q]
  BY DEF WriteNode
<1>3. msgs'[x] = q /\ \A y \in Tasks : y # x => msgs'[y] = msgs[y]
  BY <1>1, <1>2 DEF StateOK
<1>4. ev = "NORM" => q = <<>>
  BY DEF Unsent
<1>5. msgs[x] = <<>> => q = <<>>
  <2> SUFFICES ASSUME msgs[x] = <<>> PROVE q = <<>>
    OBVIOUS
  <2>1. 1 .. Len(msgs[x]) = {} /\ 2 .. Len(msgs[x]) = {}
    OBVIOUS
  <2>2. ev \in {"IN", "WRITE"} => Unsent(msgs[x], ev) = {}
    BY <2>1 DEF Unsent
  <2>3. ev = "ERROR" => Unsent(msgs[x], ev) = {}
    BY DEF Unsent
  <2> QED BY <1>4, <2>2, <2>3
<1> QED BY <1>3, <1>4, <1>5

LEMMA WriteBells ==
  ASSUME TypeInv, BellInv, NEW n \in Nodes, NEW ev \in Answers(n, "snd"), Write(n, ev)
  PROVE  BellInv'
<1> DEFINE x == <<n, "snd">>
<1>1. x \in Tasks /\ x[2] = "snd" /\ "snd" \in Threads /\ "snd" \in Pollers
  BY NodeTasks DEF Threads, Pollers
<1>2. ev \in {"NORM", "IN", "WRITE", "ERROR"}
  BY <1>1, AnswerTypes
<1>3. Take(x) /\ UNCHANGED <<born, gone, ended>>
  BY DEF Write, TakeLive, life
<1>4. /\ \A y \in Tasks : y # x => msgs'[y] = msgs[y]
      /\ msgs[x] = <<>> => msgs'[x] = <<>>
      /\ ev = "NORM" => msgs'[x] = <<>>
      /\ msgs' \in [Tasks -> Seq(Messages)]
  <2>1. CASE n \in can["snd"]
    <3>1. WriteNode(n, ev)
      BY <2>1 DEF Write
    <3> QED BY <1>2, <3>1, WriteNodeEmpties, WriteNodeTypes DEF TypeInv
  <2>2. CASE n \notin can["snd"]
    BY <2>2 DEF Write, TypeInv, StateOK
  <2> QED BY <2>1, <2>2
<1>5. PICK ops \in Seq(Ops) : Start("snd", ops \o Return(x, ev))
  <2>1. (IF ev = "ERROR" THEN Unreg(n) ELSE <<>>) \in Plans("snd")
    BY SendsFit, NothingFits
  <2>2. (IF ev = "ERROR" THEN Unreg(n) ELSE <<>>) \in Seq(Ops)
    BY <2>1 DEF Plans, FittingOps
  <2> QED BY <2>2 DEF Write
<1>6. Bell(x)'
  <2>1. CASE ev = "NORM"
    BY <1>4, <2>1 DEF Bell
  <2>2. CASE ev # "NORM"
    <3>1. plan'["snd"] = ops \o <<Op("return", x, ev)>>
      BY <1>1, <1>5 DEF Start, Return, TypeInv, PlanOK
    <3>2. \E i \in DOMAIN plan'["snd"] : plan'["snd"][i] = Op("return", x, ev)
      <4> DEFINE o == Op("return", x, ev)
      <4>1. Len(ops) \in Nat
        OBVIOUS
      <4> HIDE DEF o, x
      <4>2. /\ Len(ops) + 1 \in DOMAIN (ops \o <<o>>)
            /\ (ops \o <<o>>)[Len(ops) + 1] = o
        BY <4>1
      <4> QED BY <3>1, <4>2 DEF o
    <3>3. Rings(Op("return", x, ev), x)
      BY <2>2 DEF Rings, Op
    <3>4. \E i \in DOMAIN plan'["snd"] : Rings(plan'["snd"][i], x)
      BY <3>2, <3>3
    <3>5. Rung(x)'
      BY <1>1, <3>4 DEF Rung, Rings
    <3> QED BY <3>5 DEF Bell
  <2> QED BY <2>1, <2>2
<1> QED BY <1>1, <1>3, <1>4, <1>5, <1>6, TakeBells

LEMMA EndBells ==
  ASSUME TypeInv, BellInv, NEW n \in Nodes, ReadEnd(n) \/ WriteEnd(n) \/ DealEnd(n)
  PROVE  BellInv'
<1>1. \A th \in {"rcv", "snd", "deal"} : <<n, th>> \in Tasks
  BY NodeTasks DEF Threads
<1>2. CASE ReadEnd(n) \/ DealEnd(n)
  <2>1. \E th \in {"rcv", "deal"} :
          /\ Take(<<n, th>>) /\ ended' = ended \cup {<<n, th>>}
          /\ UNCHANGED <<msgs, born, gone>> /\ \E ops : Start(th, ops)
    BY <1>2 DEF ReadEnd, DealEnd, TakeEof
  <2> QED BY <1>1, <2>1, TakeBells DEF TypeInv, StateOK
<1>3. CASE WriteEnd(n)
  <2> DEFINE x == <<n, "snd">>
  <2>1. Take(x) /\ ended' = ended \cup {x} /\ UNCHANGED <<born, gone>>
        /\ \E ops : Start(x[2], ops)
    BY <1>3 DEF WriteEnd, TakeEof
  <2>2. /\ \A y \in Tasks : y # x => msgs'[y] = msgs[y]
        /\ msgs[x] = <<>> => msgs'[x] = <<>>
        /\ msgs' \in [Tasks -> Seq(Messages)]
    <3>1. \A ev \in Answers(n, "snd") : ev \in {"NORM", "IN", "WRITE", "ERROR"}
      BY AnswerTypes DEF Pollers
    <3>2. UNCHANGED msgs \/ \E ev \in Answers(n, "snd") : WriteNode(n, ev)
      BY <1>3 DEF WriteEnd
    <3> QED BY <3>1, <3>2, WriteNodeEmpties, WriteNodeTypes DEF TypeInv, StateOK
  <2> QED BY <1>1, <2>1, <2>2, TakeBells
<1> QED BY <1>2, <1>3

\* The queues of a node that is destroyed are emptied.
LEMMA CmdEndBells ==
  ASSUME TypeInv, BellInv, NEW n \in Nodes, CmdEnd(n) PROVE BellInv'
<1> DEFINE x == <<n, "cmd">>
<1>1. x \in Tasks
  BY NodeTasks DEF Threads
<1>2. Take(x) /\ ended' = ended \cup {x} /\ UNCHANGED <<born, plan>>
      /\ gone' = gone \cup {n}
      /\ msgs' = [y \in Tasks |-> IF y[1] = n THEN <<>> ELSE msgs[y]]
  BY DEF CmdEnd, TakeEof
<1>3. ASSUME NEW y \in Tasks \ ended' PROVE Bell(y)'
  <2>1. Bell(y) /\ y # x
    BY <1>2, <1>3 DEF BellInv
  <2>2. word'[y] = word[y] /\ (y \in pool => y \in pool') /\ msgs'[y] \in {msgs[y], <<>>}
    BY <1>2, <2>1 DEF Take, TypeInv, StateOK
  <2>3. Rung(y) => Rung(y)'
    BY <1>2 DEF Rung, Rings
  <2> QED BY <2>1, <2>2, <2>3, BellKept
<1>4. MailboxesOK'
  <2>1. \A m \in Nodes, t \in Threads : <<m, t>> \in Tasks
    BY NodeTasks
  <2>2. "rcv" \in Threads
    BY DEF Threads
  <2>3. ASSUME NEW m \in Nodes, NEW t \in Threads
        PROVE  msgs'[<<m, t>>] = IF m = n THEN <<>> ELSE msgs[<<m, t>>]
    BY <1>2, <2>1
  <2> QED BY <1>2, <2>2, <2>3 DEF BellInv, MailboxesOK
<1> QED BY <1>3, <1>4 DEF BellInv

LEMMA ServeBells == ASSUME TypeInv, BellInv, NEW x \in Tasks, Serve(x) PROVE BellInv'
<1>1. x[1] # Ctrl => x[1] \in Nodes
  BY DEF Tasks
<1> QED
  BY <1>1, DrainBells, ReadBells, WriteBells, EndBells, CmdEndBells DEF Serve

\* A poller finds a node, or the receiver accepts one.
LEMMA PollBells ==
  ASSUME TypeInv, BellInv, NEW n \in Nodes,
         Accept(n) \/ \E th \in Pollers : PollReady(th, n) \/ PollError(th, n)
  PROVE  BellInv'
<1>1. /\ UNCHANGED <<word, pool, msgs, ended>> /\ born \ gone \subseteq born' \ gone'
      /\ \E th \in Threads : plan[th] = <<>> /\ \E ops : Start(th, ops)
  BY DEF Accept, PollReady, PollError, Polled, mail, life, Threads, Pollers
<1>2. \A x : Rung(x) => Rung(x)'
  BY <1>1, RungStarts DEF TypeInv
<1> QED BY <1>1, <1>2, BellsKept

LEMMA BellInit == Init => BellInv
<1> SUFFICES ASSUME Init PROVE BellInv
  OBVIOUS
<1>1. \A n \in Nodes, th \in Threads : <<n, th>> \in Tasks
  BY NodeTasks
<1>2. "rcv" \in Threads
  BY DEF Threads
<1>3. \A x \in Tasks : msgs[x] = <<>>
  BY DEF Init
<1> QED BY <1>1, <1>2, <1>3 DEF BellInv, MailboxesOK, Bell

LEMMA BellNext == TypeInv /\ BellInv /\ [Next]_vars => BellInv'
<1> SUFFICES ASSUME TypeInv, BellInv, [Next]_vars PROVE BellInv'
  OBVIOUS
<1>1. CASE Next
  BY <1>1, PollBells, ServeBells, ProceedSteps, QueueBells, PostBells, ReturnBells,
     HandleBells DEF Next
<1>2. CASE UNCHANGED vars
  <2>1. \A x : Rung(x) => Rung(x)'
    BY <1>2 DEF vars, Rung, Rings
  <2> QED BY <1>2, <2>1, BellsKept DEF vars, mail, life
<1> QED BY <1>1, <1>2

LEMMA BellHasMail == TypeInv /\ BellInv => MailHasBell
<1> SUFFICES ASSUME TypeInv, BellInv, NEW x \in Tasks \ ended, msgs[x] # <<>>,
                    ~ (word[x].low \ {"LOCK"} # {}), x \notin pool,
                    ~ (x[2] = "snd" /\ Awaited(word[x]) # {})
             PROVE  \E o \in Pending : o.op \in {"post", "return"} /\ o.on = x
  BY DEF MailHasBell
<1>1. Rung(x)
  BY DEF BellInv, Bell
<1>2. PICK th \in Threads : \E i \in DOMAIN plan[th] : Rings(plan[th][i], x)
  BY <1>1 DEF Rung
<1>3. PICK i \in DOMAIN plan[th] : Rings(plan[th][i], x)
  BY <1>2
<1>4. plan[th][i] \in Pending
  BY DEF Pending
<1> QED BY <1>3, <1>4 DEF Rings

(* No message is stranded: whatever the four threads do to how many        *)
(* connections, a queue that holds one belongs to a task that will be      *)
(* served again.                                                           *)
THEOREM NoStrandedMail == Spec => []MailHasBell
<1>1. TypeInv /\ BellInv /\ [Next]_vars => (TypeInv /\ BellInv)'
  BY TypeNext, BellNext
<1>2. Spec => [](TypeInv /\ BellInv)
  BY <1>1, TypeInit, BellInit, PTL DEF Spec
<1> QED BY <1>2, BellHasMail, PTL

-----------------------------------------------------------------------------
(* Where the elements of a set occur in a sequence.                        *)

Has(E, s) == \E i \in DOMAIN s : s[i] \in E
One(E, s) == \A i, j \in DOMAIN s : s[i] \in E /\ s[j] \in E => i = j

LEMMA HasNothing == ASSUME NEW E PROVE ~ Has(E, <<>>) /\ One(E, <<>>)
BY DEF Has, One

LEMMA HasSingle ==
  ASSUME NEW E, NEW a
  PROVE  (Has(E, <<a>>) <=> a \in E) /\ One(E, <<a>>)
BY DEF Has, One

LEMMA HasPair ==
  ASSUME NEW E, NEW a, NEW b
  PROVE  /\ Has(E, <<a, b>>) <=> a \in E \/ b \in E
         /\ b \notin E => One(E, <<a, b>>)
<1> DEFINE s == <<a, b>>
<1>1. DOMAIN s = {1, 2} /\ s[1] = a /\ s[2] = b
  OBVIOUS
<1> HIDE DEF s
<1> QED BY <1>1 DEF Has, One, s

LEMMA HasConcat ==
  ASSUME NEW S, NEW s \in Seq(S), NEW t \in Seq(S), NEW E
  PROVE  /\ Has(E, s \o t) <=> Has(E, s) \/ Has(E, t)
         /\ One(E, s) /\ One(E, t) /\ ~ (Has(E, s) /\ Has(E, t)) => One(E, s \o t)
<1>1. /\ DOMAIN s = 1 .. Len(s) /\ DOMAIN t = 1 .. Len(t)
      /\ DOMAIN (s \o t) = 1 .. Len(s) + Len(t)
      /\ Len(s) \in Nat /\ Len(t) \in Nat
  OBVIOUS
<1>2. \A i \in 1 .. Len(s) : (s \o t)[i] = s[i]
  BY <1>1
<1>3. \A i \in 1 .. Len(s) + Len(t) : i \notin 1 .. Len(s) =>
        i - Len(s) \in 1 .. Len(t) /\ (s \o t)[i] = t[i - Len(s)]
  BY <1>1
<1>4. \A i \in 1 .. Len(t) :
        i + Len(s) \in 1 .. Len(s) + Len(t) /\ (s \o t)[i + Len(s)] = t[i]
  BY <1>1
<1> DEFINE u == s \o t
<1> HIDE DEF u
<1>5. Has(E, u) <=> Has(E, s) \/ Has(E, t)
  <2>1. ASSUME Has(E, u) PROVE Has(E, s) \/ Has(E, t)
    <3>1. PICK i \in 1 .. Len(s) + Len(t) : u[i] \in E
      BY <1>1, <2>1 DEF Has, u
    <3>2. CASE i \in 1 .. Len(s)
      BY <1>1, <1>2, <3>1, <3>2 DEF Has, u
    <3>3. CASE i \notin 1 .. Len(s)
      BY <1>1, <1>3, <3>1, <3>3 DEF Has, u
    <3> QED BY <3>2, <3>3
  <2>2. ASSUME Has(E, s) PROVE Has(E, u)
    <3>1. PICK i \in 1 .. Len(s) : s[i] \in E
      BY <1>1, <2>2 DEF Has
    <3>2. i \in 1 .. Len(s) + Len(t)
      BY <1>1
    <3> QED BY <1>1, <1>2, <3>1, <3>2 DEF Has, u
  <2>3. ASSUME Has(E, t) PROVE Has(E, u)
    BY <1>1, <1>4, <2>3 DEF Has, u
  <2> QED BY <2>1, <2>2, <2>3
<1>6. ASSUME One(E, s), One(E, t), ~ (Has(E, s) /\ Has(E, t)),
             NEW i \in 1 .. Len(s) + Len(t), NEW j \in 1 .. Len(s) + Len(t),
             u[i] \in E, u[j] \in E
      PROVE  i = j
  <2>1. CASE Has(E, s)
    <3>1. i \in 1 .. Len(s) /\ j \in 1 .. Len(s)
      BY <1>1, <1>3, <1>6, <2>1 DEF Has, u
    <3> QED BY <1>1, <1>2, <1>6, <3>1 DEF One, u
  <2>2. CASE ~ Has(E, s)
    <3>1. i \notin 1 .. Len(s) /\ j \notin 1 .. Len(s)
      BY <1>1, <1>2, <1>6, <2>2 DEF Has, u
    <3>2. i - Len(s) = j - Len(s)
      BY <1>1, <1>3, <1>6, <3>1 DEF One, u
    <3> QED BY <1>1, <3>2
  <2> QED BY <2>1, <2>2
<1> QED BY <1>1, <1>5, <1>6 DEF One, u

LEMMA HasTail ==
  ASSUME NEW S, NEW s \in Seq(S), s # <<>>, NEW E
  PROVE  /\ Has(E, s) <=> Head(s) \in E \/ Has(E, Tail(s))
         /\ One(E, s) => One(E, Tail(s)) /\ (Head(s) \in E => ~ Has(E, Tail(s)))
<1> DEFINE t == Tail(s)
<1>1. /\ DOMAIN s = 1 .. Len(s) /\ DOMAIN t = 1 .. Len(s) - 1 /\ Len(s) \in Nat \ {0}
      /\ Head(s) = s[1]
  OBVIOUS
<1>2. \A i \in 1 .. Len(s) - 1 : i + 1 \in 1 .. Len(s) /\ t[i] = s[i + 1]
  BY <1>1
<1>3. \A i \in 1 .. Len(s) : i # 1 => i - 1 \in 1 .. Len(s) - 1 /\ t[i - 1] = s[i]
  <2> TAKE i \in 1 .. Len(s)
  <2> HAVE i # 1
  <2>1. i - 1 \in 1 .. Len(s) - 1 /\ (i - 1) + 1 = i
    BY <1>1
  <2> QED BY <1>2, <2>1
<1> HIDE DEF t
<1>4. Has(E, s) <=> s[1] \in E \/ Has(E, t)
  <2>1. ASSUME Has(E, s), s[1] \notin E PROVE Has(E, t)
    BY <1>1, <1>3, <2>1 DEF Has
  <2>2. 1 \in 1 .. Len(s)
    BY <1>1
  <2> QED BY <1>1, <1>2, <2>1, <2>2 DEF Has
<1>5. ASSUME One(E, s) PROVE One(E, t) /\ (s[1] \in E => ~ Has(E, t))
  <2>1. ASSUME NEW i \in 1 .. Len(s) - 1, NEW j \in 1 .. Len(s) - 1, t[i] \in E, t[j] \in E
        PROVE  i = j
    <3>1. i + 1 = j + 1
      BY <1>1, <1>2, <1>5, <2>1 DEF One
    <3> QED BY <3>1
  <2>2. ASSUME s[1] \in E, NEW i \in 1 .. Len(s) - 1, t[i] \in E PROVE FALSE
    <3>1. 1 \in 1 .. Len(s) /\ i + 1 \in 1 .. Len(s) /\ s[i + 1] \in E
      BY <1>1, <1>2, <2>2
    <3>2. i + 1 = 1
      BY <1>1, <1>5, <2>2, <3>1 DEF One
    <3> QED BY <3>2
  <2> QED BY <1>1, <2>1, <2>2 DEF One, Has
<1> QED BY <1>1, <1>4, <1>5 DEF t

LEMMA HasAppend ==
  ASSUME NEW S, NEW s \in Seq(S), NEW a \in S, NEW E
  PROVE  /\ Has(E, Append(s, a)) <=> a \in E \/ Has(E, s)
         /\ One(E, s) /\ (a \in E => ~ Has(E, s)) => One(E, Append(s, a))
<1> DEFINE t == <<a>>
<1>1. Append(s, a) = s \o t /\ t \in Seq(S)
  OBVIOUS
<1>2. (Has(E, t) <=> a \in E) /\ One(E, t)
  BY HasSingle
<1> HIDE DEF t
<1>3. /\ Has(E, s \o t) <=> Has(E, s) \/ Has(E, t)
      /\ One(E, s) /\ One(E, t) /\ ~ (Has(E, s) /\ Has(E, t)) => One(E, s \o t)
  BY <1>1, HasConcat
<1> QED BY <1>1, <1>2, <1>3

-----------------------------------------------------------------------------
(* A letter is a message of the close protocol on its way: thread by queues *)
(* one of mail for the task to, and the thread of that task handles it.    *)

Letter(by, to, mailed, stage) == [by |-> by, to |-> to, mail |-> mailed, stage |-> stage]

LetterType == [by : Threads, to : Tasks, mail : SUBSET Messages, stage : 1 .. 8]

WriteOps(k) == {Op("queue", k.to, m) : m \in k.mail}
ReadOps(k)  == {Op("msg", k.to, m) : m \in k.mail}

Out(k) ==
  \/ Has(WriteOps(k), plan[k.by])
  \/ Has(k.mail, msgs[k.to])
  \/ Has(ReadOps(k), plan[k.to[2]])

\* It is on its way at most once.
Once(k) ==
  /\ One(WriteOps(k), plan[k.by]) /\ One(k.mail, msgs[k.to])
  /\ One(ReadOps(k), plan[k.to[2]])
  /\ ~ (Has(WriteOps(k), plan[k.by]) /\ Has(k.mail, msgs[k.to]))
  /\ ~ (Has(WriteOps(k), plan[k.by]) /\ Has(ReadOps(k), plan[k.to[2]]))
  /\ ~ (Has(k.mail, msgs[k.to]) /\ Has(ReadOps(k), plan[k.to[2]]))
  /\ \A th \in Threads \ {k.by} : ~ Has(WriteOps(k), plan[th])

\* A thread does its next operation, if it has one, and plans ops before the
\* rest.
Rest(th)      == IF plan[th] = <<>> THEN <<>> ELSE Tail(plan[th])
Goes(th, ops) == plan' = [plan EXCEPT ![th] = ops \o Rest(th)]

LEMMA KindsApart ==
  ASSUME NEW k
  PROVE  /\ \A o \in WriteOps(k) : o.op = "queue"
         /\ \A o \in ReadOps(k) : o.op = "msg"
BY DEF WriteOps, ReadOps, Op

LEMMA StartGoes ==
  ASSUME PlanOK, NEW th \in Threads, plan[th] = <<>>, NEW ops \in Seq(Ops), Start(th, ops)
  PROVE  Goes(th, ops)
<1>1. ops \o <<>> = ops
  OBVIOUS
<1> QED BY <1>1 DEF Start, Goes, Rest

LEMMA GoOnGoes ==
  ASSUME PlanOK, NEW th \in Threads, plan[th] # <<>>, NEW ops, GoOn(th, ops)
  PROVE  Goes(th, ops)
BY DEF GoOn, Goes, Rest, PlanOK

LEMMA GoesHas ==
  ASSUME PlanOK, NEW th \in Threads, NEW ops \in Seq(Ops), Goes(th, ops), NEW E
  PROVE  /\ \A t \in Threads : t # th => plan'[t] = plan[t]
         /\ Has(E, plan'[th]) <=> Has(E, ops) \/ Has(E, Rest(th))
         /\ Has(E, Rest(th)) => Has(E, plan[th])
         /\ One(E, plan[th]) =>
              /\ One(E, Rest(th))
              /\ plan[th] # <<>> /\ Head(plan[th]) \in E => ~ Has(E, Rest(th))
              /\ One(E, ops) /\ ~ (Has(E, ops) /\ Has(E, Rest(th))) => One(E, plan'[th])
<1>1. plan[th] \in Seq(Ops) /\ Rest(th) \in Seq(Ops)
  BY DEF PlanOK, Rest
<1>2. plan'[th] = ops \o Rest(th) /\ \A t \in Threads : t # th => plan'[t] = plan[t]
  BY DEF Goes, PlanOK
<1>3. plan[th] = <<>> => ~ Has(E, Rest(th)) /\ One(E, Rest(th))
  BY HasNothing DEF Rest
<1>4. plan[th] # <<>> =>
        /\ Has(E, Rest(th)) => Has(E, plan[th])
        /\ One(E, plan[th]) =>
             One(E, Rest(th)) /\ (Head(plan[th]) \in E => ~ Has(E, Rest(th)))
  BY <1>1, HasTail DEF Rest
<1>5. /\ Has(E, ops \o Rest(th)) <=> Has(E, ops) \/ Has(E, Rest(th))
      /\ One(E, ops) /\ One(E, Rest(th)) /\ ~ (Has(E, ops) /\ Has(E, Rest(th)))
           => One(E, ops \o Rest(th))
  BY <1>1, HasConcat
<1> QED BY <1>2, <1>3, <1>4, <1>5

LEMMA GoesNothing ==
  ASSUME PlanOK, NEW th \in Threads, Goes(th, <<>>), NEW E
  PROVE  /\ \A t \in Threads : t # th => plan'[t] = plan[t]
         /\ Has(E, plan'[th]) <=> Has(E, Rest(th))
         /\ Has(E, Rest(th)) => Has(E, plan[th])
         /\ One(E, plan[th]) =>
              /\ One(E, plan'[th])
              /\ plan[th] # <<>> /\ Head(plan[th]) \in E => ~ Has(E, Rest(th))
<1> DEFINE none == <<>>
<1>1. none \in Seq(Ops) /\ ~ Has(E, none) /\ One(E, none)
  BY HasNothing
<1> HIDE DEF none
<1>2. Goes(th, none)
  BY DEF none
<1> QED BY <1>1, <1>2, GoesHas

\* A handler goes on: its plan has no message to handle that it had not, and
\* no queue has more in it.
LEMMA LetterStep ==
  ASSUME PlanOK, NEW k \in LetterType, Once(k),
         NEW th \in Threads, NEW ops \in Seq(Ops), Goes(th, ops),
         ~ Has(ReadOps(k), ops), msgs'[k.to] \in {msgs[k.to], <<>>}
  PROVE  /\ ~ Has(WriteOps(k), ops) => Once(k)' /\ (Out(k)' => Out(k))
         /\ /\ plan[th] # <<>> /\ Head(plan[th]) \in ReadOps(k) /\ th = k.to[2]
            /\ ~ Has(WriteOps(k), ops)
            => ~ Out(k)'
         /\ ~ Out(k) /\ th = k.by /\ One(WriteOps(k), ops) => Once(k)'
<1> DEFINE W == WriteOps(k)
           R == ReadOps(k)
           to2 == k.to[2]
<1>1. k.by \in Threads /\ to2 \in Threads
  BY DEF LetterType, Tasks, Threads, Pollers
<1>2. ~ Has(k.mail, <<>>) /\ One(k.mail, <<>>)
  BY HasNothing
<1>3. /\ Has(k.mail, msgs'[k.to]) => Has(k.mail, msgs[k.to])
      /\ One(k.mail, msgs[k.to]) => One(k.mail, msgs'[k.to])
  BY <1>2
<1>4. \A t \in Threads : t # th => plan'[t] = plan[t]
  BY GoesHas
<1>5. /\ Has(W, plan'[th]) <=> Has(W, ops) \/ Has(W, Rest(th))
      /\ Has(W, Rest(th)) => Has(W, plan[th])
      /\ One(W, plan[th]) =>
           (One(W, ops) /\ ~ (Has(W, ops) /\ Has(W, Rest(th))) => One(W, plan'[th]))
  BY GoesHas
<1>6. /\ Has(R, plan'[th]) <=> Has(R, Rest(th))
      /\ Has(R, Rest(th)) => Has(R, plan[th])
      /\ One(R, plan[th]) =>
           /\ plan[th] # <<>> /\ Head(plan[th]) \in R => ~ Has(R, Rest(th))
           /\ One(R, plan'[th])
  <2>1. ~ Has(R, ops) /\ One(R, ops)
    BY DEF Has, One
  <2> QED BY <2>1, GoesHas
<1>7. ~ Has(W, ops) => One(W, ops)
  BY DEF Has, One
<1> HIDE DEF W, R, to2
<1>8. /\ One(W, plan[k.by]) /\ One(k.mail, msgs[k.to]) /\ One(R, plan[to2])
      /\ ~ (Has(W, plan[k.by]) /\ Has(k.mail, msgs[k.to]))
      /\ ~ (Has(W, plan[k.by]) /\ Has(R, plan[to2]))
      /\ ~ (Has(k.mail, msgs[k.to]) /\ Has(R, plan[to2]))
      /\ \A t \in Threads \ {k.by} : ~ Has(W, plan[t])
  BY DEF Once, W, R, to2
<1>9. Out(k) <=> Has(W, plan[k.by]) \/ Has(k.mail, msgs[k.to]) \/ Has(R, plan[to2])
  BY DEF Out, W, R, to2
<1>10. Out(k)' <=> Has(W, plan'[k.by]) \/ Has(k.mail, msgs'[k.to]) \/ Has(R, plan'[to2])
  BY DEF Out, W, R, to2, WriteOps, ReadOps, Has
<1>11. /\ One(W, plan'[k.by]) /\ One(k.mail, msgs'[k.to]) /\ One(R, plan'[to2])
       /\ ~ (Has(W, plan'[k.by]) /\ Has(k.mail, msgs'[k.to]))
       /\ ~ (Has(W, plan'[k.by]) /\ Has(R, plan'[to2]))
       /\ ~ (Has(k.mail, msgs'[k.to]) /\ Has(R, plan'[to2]))
       /\ \A t \in Threads \ {k.by} : ~ Has(W, plan'[t])
       => Once(k)'
  BY DEF Once, W, R, to2, WriteOps, ReadOps, Has, One
<1>12. Has(R, plan'[to2]) => Has(R, plan[to2])
  BY <1>1, <1>4, <1>6
<1>13. One(R, plan'[to2])
  BY <1>1, <1>4, <1>6, <1>8
<1>14. ASSUME ~ Has(W, ops) PROVE Once(k)' /\ (Out(k)' => Out(k))
  <2>1. One(W, plan'[k.by]) /\ \A t \in Threads : Has(W, plan'[t]) => Has(W, plan[t])
    BY <1>1, <1>4, <1>5, <1>7, <1>8, <1>14
  <2> QED BY <1>1, <1>3, <1>8, <1>9, <1>10, <1>11, <1>12, <1>13, <2>1
<1>15. ASSUME plan[th] # <<>>, Head(plan[th]) \in R, th = to2, ~ Has(W, ops)
       PROVE  ~ Out(k)'
  <2>1. Has(R, plan[to2])
    <3>1. plan[th] \in Seq(Ops)
      BY DEF PlanOK
    <3> QED BY <1>15, <3>1, HasTail
  <2>2. ~ Has(R, plan'[to2])
    BY <1>6, <1>8, <1>15
  <2>3. Has(W, plan'[k.by]) => Has(W, plan[k.by])
    BY <1>1, <1>4, <1>5, <1>15
  <2> QED BY <1>3, <1>8, <1>10, <2>1, <2>2, <2>3
<1>16. ASSUME ~ Out(k), th = k.by, One(W, ops) PROVE Once(k)'
  <2>1. ~ Has(W, Rest(th))
    BY <1>5, <1>9, <1>16
  <2>2. One(W, plan'[k.by])
    BY <1>5, <1>8, <1>16, <2>1
  <2>3. \A t \in Threads \ {k.by} : ~ Has(W, plan'[t])
    BY <1>4, <1>8, <1>16
  <2> QED BY <1>3, <1>8, <1>9, <1>11, <1>12, <1>13, <1>16, <2>2, <2>3
<1> QED BY <1>14, <1>15, <1>16 DEF W, R, to2

\* A message is queued: if it is the letter, it is written no more.
LEMMA LetterQueue ==
  ASSUME TypeInv, NEW k \in LetterType, Once(k), NEW th \in Threads, Queue(th)
  PROVE  Once(k)' /\ (Out(k)' => Out(k))
<1> DEFINE W == WriteOps(k)
           R == ReadOps(k)
           to2 == k.to[2]
           M == k.mail
           m == Arg(th)
<1>1. k.by \in Threads /\ to2 \in Threads /\ k.to \in Tasks
  BY DEF LetterType, Tasks, Threads, Pollers
<1>2. /\ PlanOK /\ plan[th] # <<>> /\ plan[th] \in Seq(Ops) /\ m \in Messages
      /\ Head(plan[th]) = Op("queue", On(th), m) /\ Goes(th, <<>>)
  <2>1. PlanOK /\ plan[th] # <<>> /\ Head(plan[th]) \in Ops /\ Head(plan[th]).op = "queue"
        /\ m \in Messages
    BY HeadFits DEF Queue, Doing, TypeInv, FittingOps
  <2>2. Head(plan[th]) = Op("queue", On(th), m)
    BY <2>1 DEF Ops, Op, On, Arg
  <2> QED BY <2>1, <2>2, GoOnGoes DEF Queue, PlanOK
<1>3. \A t \in Threads : t # th => plan'[t] = plan[t]
  BY <1>2, GoesNothing
<1>4. /\ Has(W, plan'[th]) <=> Has(W, Rest(th))
      /\ Has(R, plan'[th]) <=> Has(R, Rest(th))
  BY <1>2, GoesNothing
<1>5. /\ Has(W, Rest(th)) => Has(W, plan[th])
      /\ One(W, plan[th]) =>
           /\ One(W, plan'[th])
           /\ Head(plan[th]) \in W => ~ Has(W, Rest(th))
  BY <1>2, GoesNothing
<1>6. /\ Has(R, Rest(th)) => Has(R, plan[th])
      /\ One(R, plan[th]) => One(R, plan'[th])
  BY <1>2, GoesNothing
<1>7. Head(plan[th]) \in W <=> On(th) = k.to /\ m \in M
  BY <1>2 DEF WriteOps, Op
<1>8. Head(plan[th]) \in W => Has(W, plan[th])
  BY <1>2, HasTail
<1>9. msgs[k.to] \in Seq(Messages)
  BY <1>1 DEF TypeInv, StateOK
<1>10. \/ msgs'[k.to] = msgs[k.to]
       \/ On(th) = k.to /\ msgs'[k.to] = Append(msgs[k.to], m)
  BY <1>1 DEF Queue, TypeInv, StateOK
<1>11. /\ Has(M, msgs'[k.to]) => Has(M, msgs[k.to]) \/ Head(plan[th]) \in W
       /\ One(M, msgs[k.to]) /\ (Head(plan[th]) \in W => ~ Has(M, msgs[k.to]))
            => One(M, msgs'[k.to])
  BY <1>2, <1>7, <1>9, <1>10, HasAppend
<1> HIDE DEF W, R, to2, M, m
<1>12. /\ One(W, plan[k.by]) /\ One(M, msgs[k.to]) /\ One(R, plan[to2])
       /\ ~ (Has(W, plan[k.by]) /\ Has(M, msgs[k.to]))
       /\ ~ (Has(W, plan[k.by]) /\ Has(R, plan[to2]))
       /\ ~ (Has(M, msgs[k.to]) /\ Has(R, plan[to2]))
       /\ \A t \in Threads \ {k.by} : ~ Has(W, plan[t])
  BY DEF Once, W, R, to2, M
<1>13. Out(k) <=> Has(W, plan[k.by]) \/ Has(M, msgs[k.to]) \/ Has(R, plan[to2])
  BY DEF Out, W, R, to2, M
<1>14. Out(k)' <=> Has(W, plan'[k.by]) \/ Has(M, msgs'[k.to]) \/ Has(R, plan'[to2])
  BY DEF Out, W, R, to2, M, WriteOps, ReadOps, Has
<1>15. /\ One(W, plan'[k.by]) /\ One(M, msgs'[k.to]) /\ One(R, plan'[to2])
       /\ ~ (Has(W, plan'[k.by]) /\ Has(M, msgs'[k.to]))
       /\ ~ (Has(W, plan'[k.by]) /\ Has(R, plan'[to2]))
       /\ ~ (Has(M, msgs'[k.to]) /\ Has(R, plan'[to2]))
       /\ \A t \in Threads \ {k.by} : ~ Has(W, plan'[t])
       => Once(k)'
  BY DEF Once, W, R, to2, M, WriteOps, ReadOps, Has, One
<1>16. /\ Has(R, plan'[to2]) => Has(R, plan[to2])
       /\ One(R, plan'[to2]) /\ One(W, plan'[k.by])
       /\ \A t \in Threads : Has(W, plan'[t]) => Has(W, plan[t])
  BY <1>1, <1>3, <1>4, <1>5, <1>6, <1>12
<1>17. CASE Head(plan[th]) \in W
  <2>1. th = k.by /\ ~ Has(W, plan'[th]) /\ Has(W, plan[k.by])
    BY <1>4, <1>5, <1>8, <1>12, <1>17
  <2> QED BY <1>11, <1>12, <1>13, <1>14, <1>15, <1>16, <1>17, <2>1
<1>18. CASE Head(plan[th]) \notin W
  BY <1>1, <1>11, <1>12, <1>13, <1>14, <1>15, <1>16, <1>18
<1> QED BY <1>17, <1>18

\* A queue is drained: if the letter is in it, it is handled next.
LEMMA LetterDrain ==
  ASSUME TypeInv, NEW k \in LetterType, Once(k), NEW x \in Tasks, Drain(x)
  PROVE  Once(k)' /\ (Out(k)' => Out(k))
<1> DEFINE W == WriteOps(k)
           R == ReadOps(k)
           to2 == k.to[2]
           M == k.mail
           th == x[2]
           q == msgs[x]
           work == [i \in DOMAIN q |-> Op("msg", x, q[i])]
           ret == Return(x, "NORM")
<1>1. k.by \in Threads /\ to2 \in Threads /\ k.to \in Tasks
  BY DEF LetterType, Tasks, Threads, Pollers
<1>2. th \in Threads /\ plan[th] = <<>> /\ PlanOK
  BY TakeTypes DEF Drain, TakeLive, TypeInv
<1>3. plan'[th] = work \o ret /\ \A t \in Threads : t # th => plan'[t] = plan[t]
  BY <1>2 DEF Drain, Start, PlanOK
<1>4. msgs'[x] = <<>> /\ \A y \in Tasks : y # x => msgs'[y] = msgs[y]
  BY DEF Drain, TypeInv, StateOK
<1>5. q \in Seq(Messages) /\ Len(q) \in Nat /\ DOMAIN q = 1 .. Len(q)
  BY DEF TypeInv, StateOK
<1>6. work \in Seq(Ops) /\ ret \in Seq(Ops)
  <2>1. \A i \in DOMAIN q : Op("msg", x, q[i]) \in Ops
    BY <1>5, OpTypes
  <2>2. work \in [1 .. Len(q) -> Ops]
    BY <1>5, <2>1
  <2>3. Op("return", x, "NORM") \in Ops
    BY OpTypes DEF Returns
  <2> QED BY <1>5, <2>2, <2>3 DEF Return
<1>7. /\ Has(W, work \o ret) <=> Has(W, work) \/ Has(W, ret)
      /\ One(W, work) /\ One(W, ret) /\ ~ (Has(W, work) /\ Has(W, ret))
           => One(W, work \o ret)
  <2> HIDE DEF work, ret, W
  <2> QED BY <1>6, HasConcat
<1>8. /\ Has(R, work \o ret) <=> Has(R, work) \/ Has(R, ret)
      /\ One(R, work) /\ One(R, ret) /\ ~ (Has(R, work) /\ Has(R, ret))
           => One(R, work \o ret)
  <2> HIDE DEF work, ret, R
  <2> QED BY <1>6, HasConcat
<1>9. ~ Has(W, work) /\ One(W, work)
  <2>1. \A i \in DOMAIN work : work[i].op = "msg"
    BY DEF Op
  <2> HIDE DEF work, W
  <2> QED BY <2>1, KindsApart DEF Has, One, W
<1>10. ~ Has(W, ret) /\ One(W, ret) /\ ~ Has(R, ret) /\ One(R, ret)
  <2>1. Op("return", x, "NORM").op = "return"
    BY DEF Op
  <2>2. Op("return", x, "NORM") \notin W /\ Op("return", x, "NORM") \notin R
    BY <2>1, KindsApart
  <2> HIDE DEF W, R
  <2> QED BY <2>2, HasSingle DEF Return
<1>11. x # k.to => ~ Has(R, work) /\ One(R, work)
  <2> SUFFICES ASSUME x # k.to PROVE ~ Has(R, work) /\ One(R, work)
    OBVIOUS
  <2>1. \A i \in DOMAIN work : work[i].on = x
    BY DEF Op
  <2>2. \A o \in R : o.on = k.to
    BY DEF ReadOps, Op
  <2> HIDE DEF work, R
  <2> QED BY <2>1, <2>2 DEF Has, One
<1>12. x = k.to => (Has(R, work) <=> Has(M, q)) /\ (One(M, q) => One(R, work))
  <2> SUFFICES ASSUME x = k.to
               PROVE  (Has(R, work) <=> Has(M, q)) /\ (One(M, q) => One(R, work))
    OBVIOUS
  <2>1. DOMAIN work = DOMAIN q
    OBVIOUS
  <2>2. ASSUME NEW i \in DOMAIN q PROVE work[i] \in R <=> q[i] \in M
    <3>1. work[i] = Op("msg", x, q[i])
      OBVIOUS
    <3>2. ASSUME NEW m \in M, Op("msg", x, q[i]) = Op("msg", x, m) PROVE q[i] = m
      BY <3>2 DEF Op
    <3> QED BY <3>1, <3>2 DEF ReadOps
  <2> HIDE DEF R, M, work, q
  <2> QED BY <2>1, <2>2 DEF Has, One
<1>13. ~ Has(W, <<>>) /\ ~ Has(R, <<>>) /\ ~ Has(M, <<>>) /\ One(M, <<>>)
  BY HasNothing
<1> HIDE DEF W, R, M, work, ret
<1>14. ~ Has(W, plan'[th]) /\ One(W, plan'[th])
  BY <1>3, <1>7, <1>9, <1>10
<1>15. /\ x # k.to => ~ Has(R, plan'[th]) /\ One(R, plan'[th])
       /\ x = k.to => (Has(R, plan'[th]) <=> Has(M, q)) /\ (One(M, q) => One(R, plan'[th]))
  BY <1>3, <1>8, <1>10, <1>11, <1>12
<1> HIDE DEF to2, th, q
<1>16. x = k.to => th = to2 /\ q = msgs[k.to]
  BY DEF th, to2, q
<1>17. x # k.to => msgs'[k.to] = msgs[k.to]
  BY <1>1, <1>4
<1>18. x = k.to => ~ Has(M, msgs'[k.to]) /\ One(M, msgs'[k.to])
  BY <1>4, <1>13
<1>19. /\ One(W, plan[k.by]) /\ One(M, msgs[k.to]) /\ One(R, plan[to2])
       /\ ~ (Has(W, plan[k.by]) /\ Has(M, msgs[k.to]))
       /\ ~ (Has(W, plan[k.by]) /\ Has(R, plan[to2]))
       /\ ~ (Has(M, msgs[k.to]) /\ Has(R, plan[to2]))
       /\ \A t \in Threads \ {k.by} : ~ Has(W, plan[t])
  BY DEF Once, W, R, to2, M
<1>20. Out(k) <=> Has(W, plan[k.by]) \/ Has(M, msgs[k.to]) \/ Has(R, plan[to2])
  BY DEF Out, W, R, to2, M
<1>21. Out(k)' <=> Has(W, plan'[k.by]) \/ Has(M, msgs'[k.to]) \/ Has(R, plan'[to2])
  BY DEF Out, W, R, to2, M, WriteOps, ReadOps, Has
<1>22. /\ One(W, plan'[k.by]) /\ One(M, msgs'[k.to]) /\ One(R, plan'[to2])
       /\ ~ (Has(W, plan'[k.by]) /\ Has(M, msgs'[k.to]))
       /\ ~ (Has(W, plan'[k.by]) /\ Has(R, plan'[to2]))
       /\ ~ (Has(M, msgs'[k.to]) /\ Has(R, plan'[to2]))
       /\ \A t \in Threads \ {k.by} : ~ Has(W, plan'[t])
       => Once(k)'
  BY DEF Once, W, R, to2, M, WriteOps, ReadOps, Has, One
<1>23. /\ One(W, plan'[k.by])
       /\ \A t \in Threads : Has(W, plan'[t]) => Has(W, plan[t])
  BY <1>1, <1>3, <1>14, <1>19
<1>24. CASE x = k.to
  BY <1>1, <1>15, <1>16, <1>18, <1>19, <1>20, <1>21, <1>22, <1>23, <1>24
<1>25. CASE x # k.to
  <2>1. One(R, plan'[to2]) /\ (Has(R, plan'[to2]) => Has(R, plan[to2]))
    BY <1>1, <1>3, <1>15, <1>19, <1>25
  <2> QED BY <1>1, <1>17, <1>19, <1>20, <1>21, <1>22, <1>23, <1>25, <2>1
<1> QED BY <1>24, <1>25

-----------------------------------------------------------------------------
(* The stages of a close, and the one letter of each.                      *)

StopOf(n, by, s, stage) == Letter(by, <<n, "cmd">>, {Msg("STOP", s)}, stage)
DelFd(n, th, stage)     == Letter("cmd", <<Ctrl, th>>, {Msg("DEL_FD", n)}, stage)
ToDealer(n, by, type, stage) ==
  Letter(by, <<n, "deal">>, {m \in Messages : m.type = type}, stage)

Letters(n) ==
  {DelFd(n, "rcv", 1), StopOf(n, "rcv", "STOP_RCV", 2),
   ToDealer(n, "cmd", "STOP", 3), ToDealer(n, "deal", "ALLOW_EXIT", 4),
   StopOf(n, "deal", "STOP_DEAL", 5), DelFd(n, "snd", 6),
   StopOf(n, "snd", "STOP_SND", 7), StopOf(n, "cmd", "CLOSED", 8)}

\* How far the close of a node is.
Stage(n) ==
  IF n \in gone THEN 10
  ELSE IF n \notin reason THEN 0
  ELSE IF status[n] = "CLOSED" THEN 9
  ELSE IF status[n] = "STOP_SND" THEN 8
  ELSE IF status[n] = "STOP_DEAL" THEN (IF <<n, "snd">> \in ended THEN 7 ELSE 6)
  ELSE IF status[n] = "STOP_RCV"
       THEN (IF <<n, "deal">> \in ended THEN 5 ELSE IF n \in closed THEN 4 ELSE 3)
  ELSE IF <<n, "rcv">> \in ended THEN 2 ELSE 1

\* The marks of the stages fit together.
StageOK(n) ==
  /\ n \in gone => n \in reason
  /\ n \in reason => n \in born
  /\ <<n, "rcv">> \in ended <=> Stage(n) >= 2
  /\ n \in closed <=> Stage(n) >= 4
  /\ <<n, "deal">> \in ended <=> Stage(n) >= 5
  /\ <<n, "snd">> \in ended <=> Stage(n) >= 7

\* The END of a task is on its way.
EndStage == [th \in Threads |->
  CASE th = "rcv" -> 1 [] th = "deal" -> 4 [] th = "snd" -> 6 [] th = "cmd" -> 9]

EndOps(n, th) == {Op("post", <<n, th>>, "END")}
Ending(n, th) == Has(EndOps(n, th), plan[th]) \/ IsEof(word[<<n, th>>])

CloseOK(n) ==
  /\ StageOK(n)
  /\ \A k \in Letters(n) : Once(k) /\ (Out(k) => Stage(n) = k.stage)
  /\ \A th \in Threads : Ending(n, th) =>
       Stage(n) = EndStage[th] /\ \A k \in Letters(n) : ~ Out(k)
  /\ \A th \in Threads, t \in Threads : th # t => ~ Has(EndOps(n, th), plan[t])

LEMMA LetterTypes ==
  ASSUME NEW n \in Nodes
  PROVE  /\ Letters(n) \subseteq LetterType
         /\ \A k, l \in Letters(n) : k.stage = l.stage => k = l
<1>1. /\ {"rcv", "snd", "deal", "cmd"} = Threads
      /\ {<<n, "cmd">>, <<n, "deal">>, <<Ctrl, "rcv">>, <<Ctrl, "snd">>} \subseteq Tasks
  BY DEF Threads, Tasks, Pollers
<1>2. /\ Msg("DEL_FD", n) \in Messages
      /\ \A s \in {"STOP_RCV", "STOP_DEAL", "STOP_SND", "CLOSED"} : Msg("STOP", s) \in Messages
  BY MsgTypes
<1>3. ASSUME NEW k \in Letters(n) PROVE k \in LetterType
  BY <1>1, <1>2, <1>3 DEF Letters, LetterType, Letter, StopOf, DelFd, ToDealer
<1>4. ASSUME NEW k \in Letters(n), NEW l \in Letters(n), k.stage = l.stage PROVE k = l
  BY <1>4 DEF Letters, Letter, StopOf, DelFd, ToDealer
<1> QED BY <1>3, <1>4

LEMMA StageTypes ==
  ASSUME NEW n
  PROVE  /\ Stage(n) \in 0 .. 10
         /\ Stage(n) >= 1 => n \in gone \/ n \in reason
BY DEF Stage

\* Operations that do not advance the close of n.
CalmOp(o, n) ==
  /\ o.op # "msg"
  /\ \A k \in Letters(n) : o \notin WriteOps(k)
  /\ \A th \in Threads : o \notin EndOps(n, th)

Calm(ops, n) == \A i \in DOMAIN ops : CalmOp(ops[i], n)

LEMMA CalmHas ==
  ASSUME NEW ops, NEW n, Calm(ops, n)
  PROVE  /\ \A k \in Letters(n) : ~ Has(WriteOps(k), ops) /\ ~ Has(ReadOps(k), ops)
         /\ \A th \in Threads : ~ Has(EndOps(n, th), ops)
BY KindsApart DEF Calm, CalmOp, Has

LEMMA CalmConcat ==
  ASSUME NEW n, NEW s \in Seq(Ops), NEW t \in Seq(Ops), Calm(s, n), Calm(t, n)
  PROVE  s \o t \in Seq(Ops) /\ Calm(s \o t, n)
<1>1. \A i \in DOMAIN (s \o t) :
        (\E j \in DOMAIN s : (s \o t)[i] = s[j]) \/ (\E j \in DOMAIN t : (s \o t)[i] = t[j])
  <2> TAKE i \in DOMAIN (s \o t)
  <2>1. DOMAIN s = 1 .. Len(s) /\ DOMAIN t = 1 .. Len(t) /\ Len(s) \in Nat /\ Len(t) \in Nat
        /\ i \in 1 .. Len(s) + Len(t)
    OBVIOUS
  <2>2. CASE i <= Len(s)
    BY <2>1, <2>2
  <2>3. CASE i > Len(s)
    <3>1. i - Len(s) \in DOMAIN t /\ (s \o t)[i] = t[i - Len(s)]
      BY <2>1, <2>3
    <3> QED BY <3>1
  <2> QED BY <2>1, <2>2, <2>3
<1> QED BY <1>1 DEF Calm

LEMMA CalmNothing == ASSUME NEW n PROVE <<>> \in Seq(Ops) /\ Calm(<<>>, n)
BY DEF Calm

\* A step of a handler, as the close sees it.
Step(th, ops) ==
  /\ Goes(th, ops)
  /\ \A x \in Tasks : x \notin Nodes \X {"snd"} => msgs'[x] \in {msgs[x], <<>>}

SameMarks(n) ==
  /\ n \in gone' <=> n \in gone
  /\ n \in reason' <=> n \in reason
  /\ n \in closed' <=> n \in closed
  /\ status'[n] = status[n]
  /\ born \subseteq born'
  /\ \A th \in {"rcv", "snd", "deal"} : <<n, th>> \in ended' <=> <<n, th>> \in ended

LEMMA StageKept ==
  ASSUME NEW n, StageOK(n), SameMarks(n)
  PROVE  StageOK(n)' /\ Stage(n)' = Stage(n)
<1>1. Stage(n)' = Stage(n)
  BY DEF Stage, SameMarks
<1> QED BY <1>1 DEF StageOK, SameMarks

\* The end of a task is on its way only if it was, or is planned now.
LEMMA NoEndYet ==
  ASSUME PlanOK, NEW n \in Nodes, CloseOK(n), NEW th \in Threads, NEW ops \in Seq(Ops),
         Goes(th, ops), NEW t \in Threads,
         IsEof(word'[<<n, t>>]) => Ending(n, t)
  PROVE  /\ ~ Has(EndOps(n, t), ops) =>
              /\ Ending(n, t)' => Ending(n, t)
              /\ \A u \in Threads : t # u => ~ Has(EndOps(n, t), plan'[u])
         /\ t = th => \A u \in Threads : t # u => ~ Has(EndOps(n, t), plan'[u])
<1> DEFINE E == EndOps(n, t)
<1>1. /\ \A u \in Threads : u # th => plan'[u] = plan[u]
      /\ Has(E, plan'[th]) <=> Has(E, ops) \/ Has(E, Rest(th))
      /\ Has(E, Rest(th)) => Has(E, plan[th])
  BY GoesHas
<1>2. ~ Has(E, ops) => \A u \in Threads : Has(E, plan'[u]) => Has(E, plan[u])
  BY <1>1
<1>3. \A u \in Threads : t # u => ~ Has(E, plan[u])
  BY DEF CloseOK
<1>4. Ending(n, t)' <=> Has(E, plan'[t]) \/ IsEof(word'[<<n, t>>])
  BY DEF Ending, EndOps, Has, IsEof
<1> QED BY <1>1, <1>2, <1>3, <1>4 DEF Ending

LEMMA LetterMail ==
  ASSUME NEW n \in Nodes, NEW k \in Letters(n)
  PROVE  /\ k.to \in Tasks /\ k.to \notin Nodes \X {"snd"}
         /\ \A m \in k.mail :
              \/ m.type = "DEL_FD" /\ m.val = n /\ k.to[1] = Ctrl
              \/ m.type \in {"STOP", "ALLOW_EXIT"} /\ k.to[1] = n
<1>1. /\ \A th \in Threads : <<n, th>> \in Tasks
      /\ \A th \in Pollers : <<Ctrl, th>> \in Tasks
      /\ Ctrl \notin Nodes
  BY NodeTasks, LifeAssumption
<1>2. {"cmd", "deal"} \subseteq Threads /\ {"rcv", "snd"} \subseteq Pollers
  BY DEF Threads, Pollers
<1>3. \A s : Msg("STOP", s).type = "STOP"
  BY DEF Msg
<1>4. Msg("DEL_FD", n).type = "DEL_FD" /\ Msg("DEL_FD", n).val = n
  BY DEF Msg
<1> QED BY <1>1, <1>2, <1>3, <1>4 DEF Letters, Letter, StopOf, DelFd, ToDealer

\* What leaves the close of n alone.
LEMMA CalmOps ==
  ASSUME NEW n \in Nodes
  PROVE  /\ \A x \in Tasks : \A ev : Calm(Return(x, ev), n)
         /\ \A x \in Tasks : \A ev : ev # "END" \/ x[1] # n => Calm(<<Op("post", x, ev)>>, n)
         /\ \A x \in Tasks, m \in Messages :
              \/ m.type \notin {"DEL_FD", "STOP", "ALLOW_EXIT"}
              \/ x[1] \notin {n, Ctrl}
              \/ m.type = "DEL_FD" /\ m.val # n
              => Calm(Give(x, m), n)
<1>1. ASSUME NEW x \in Tasks, NEW ev PROVE CalmOp(Op("return", x, ev), n)
  <2>1. Op("return", x, ev).op = "return"
    BY DEF Op
  <2>2. \A th \in Threads : \A o \in EndOps(n, th) : o.op = "post"
    BY DEF EndOps, Op
  <2> QED BY <2>1, <2>2, KindsApart DEF CalmOp
<1>2. ASSUME NEW x \in Tasks, NEW ev, ev # "END" \/ x[1] # n
      PROVE  CalmOp(Op("post", x, ev), n)
  <2>1. Op("post", x, ev).op = "post"
    BY DEF Op
  <2>2. \A th \in Threads : Op("post", x, ev) \notin EndOps(n, th)
    BY <1>2 DEF EndOps, Op
  <2> QED BY <2>1, <2>2, KindsApart DEF CalmOp
<1>3. ASSUME NEW x \in Tasks, NEW m \in Messages,
             \/ m.type \notin {"DEL_FD", "STOP", "ALLOW_EXIT"}
             \/ x[1] \notin {n, Ctrl}
             \/ m.type = "DEL_FD" /\ m.val # n
      PROVE  CalmOp(Op("queue", x, m), n)
  <2>1. Op("queue", x, m).op = "queue"
    BY DEF Op
  <2>2. \A th \in Threads : \A o \in EndOps(n, th) : o.op = "post"
    BY DEF EndOps, Op
  <2>3. ASSUME NEW k \in Letters(n), Op("queue", x, m) \in WriteOps(k) PROVE FALSE
    <3>1. x = k.to /\ m \in k.mail
      BY <2>3 DEF WriteOps, Op
    <3> QED BY <1>3, <3>1, LetterMail
  <2> QED BY <2>1, <2>2, <2>3 DEF CalmOp
<1>4. ASSUME NEW a, CalmOp(a, n) PROVE Calm(<<a>>, n)
  BY <1>4 DEF Calm
<1>5. ASSUME NEW a, NEW b, CalmOp(a, n), CalmOp(b, n) PROVE Calm(<<a, b>>, n)
  <2> DEFINE s == <<a, b>>
  <2>1. \A i \in DOMAIN s : s[i] = a \/ s[i] = b
    OBVIOUS
  <2> HIDE DEF s
  <2>2. Calm(s, n)
    BY <1>5, <2>1 DEF Calm
  <2> QED BY <2>2 DEF s
<1>6. \A x \in Tasks : \A ev : Calm(Return(x, ev), n)
  BY <1>1, <1>4 DEF Return
<1>7. \A x \in Tasks : \A ev : ev # "END" \/ x[1] # n => Calm(<<Op("post", x, ev)>>, n)
  BY <1>2, <1>4
<1>8. ASSUME NEW x \in Tasks, NEW m \in Messages,
             \/ m.type \notin {"DEL_FD", "STOP", "ALLOW_EXIT"}
             \/ x[1] \notin {n, Ctrl}
             \/ m.type = "DEL_FD" /\ m.val # n
      PROVE  Calm(Give(x, m), n)
  <2>1. CalmOp(Op("queue", x, m), n) /\ CalmOp(Op("post", x, "NORM"), n)
    BY <1>2, <1>3, <1>8
  <2> QED BY <1>5, <2>1 DEF Give
<1> QED BY <1>6, <1>7, <1>8

-----------------------------------------------------------------------------
(* The kinds of steps, as the close of a node n sees them.                 *)

\* Every letter and every end of a task is as far as it was.
LEMMA CloseKept ==
  ASSUME NEW n \in Nodes, CloseOK(n), StageOK(n)', Stage(n)' = Stage(n),
         \A k \in Letters(n) : Once(k)' /\ (Out(k)' => Out(k)),
         \A t \in Threads : /\ Ending(n, t)' => Ending(n, t)
                            /\ \A u \in Threads : t # u => ~ Has(EndOps(n, t), plan'[u])
  PROVE  CloseOK(n)'
<1>1. \A t \in Threads, u \in Threads : t # u => ~ Has(EndOps(n, t), plan[u])'
  BY DEF EndOps, Has
<1>2. \A k \in Letters(n) : Once(k)' /\ (Out(k)' => Stage(n)' = k.stage)
  BY DEF CloseOK
<1>3. \A t \in Threads : Ending(n, t)' =>
        Stage(n)' = EndStage[t] /\ \A k \in Letters(n) : ~ Out(k)'
  BY DEF CloseOK
<1> QED BY <1>1, <1>2, <1>3 DEF CloseOK

LEMMA LetterMoves ==
  ASSUME NEW n \in Nodes, CloseOK(n), NEW th \in Threads, NEW ops, Step(th, ops),
         NEW k \in Letters(n)
  PROVE  /\ k \in LetterType /\ Once(k) /\ Goes(th, ops)
         /\ msgs'[k.to] \in {msgs[k.to], <<>>}
         /\ Out(k) => Stage(n) = k.stage
BY LetterMail, LetterTypes DEF Step, CloseOK

LEMMA QuietStep ==
  ASSUME PlanOK, NEW n \in Nodes, CloseOK(n), NEW th \in Threads,
         NEW ops \in Seq(Ops), Step(th, ops), Calm(ops, n), SameMarks(n),
         \A t \in Threads : IsEof(word'[<<n, t>>]) => Ending(n, t)
  PROVE  CloseOK(n)'
<1>1. StageOK(n)' /\ Stage(n)' = Stage(n)
  BY StageKept DEF CloseOK
<1>2. \A k \in Letters(n) : Once(k)' /\ (Out(k)' => Out(k))
  BY LetterMoves, LetterStep, CalmHas
<1>3. \A t \in Threads : /\ Ending(n, t)' => Ending(n, t)
                         /\ \A u \in Threads : t # u => ~ Has(EndOps(n, t), plan'[u])
  BY NoEndYet, CalmHas DEF Step
<1> QED BY <1>1, <1>2, <1>3, CloseKept

\* The thread handles a letter.
Consumes(th, k) == plan[th] # <<>> /\ Head(plan[th]) \in ReadOps(k) /\ th = k.to[2]

LEMMA Consuming ==
  ASSUME PlanOK, NEW n \in Nodes, CloseOK(n), NEW th \in Threads,
         NEW old \in Letters(n), Consumes(th, old)
  PROVE  /\ Stage(n) = old.stage
         /\ \A k \in Letters(n) : Out(k) => k = old
         /\ \A t \in Threads : ~ Ending(n, t)
<1>1. plan[th] \in Seq(Ops)
  BY DEF PlanOK
<1>2. Has(ReadOps(old), plan[th])
  BY <1>1, HasTail DEF Consumes
<1>3. Out(old)
  BY <1>2 DEF Out, Consumes
<1> QED BY <1>3, LetterTypes DEF CloseOK

\* A letter is handled, or a task has ended, and the next letter is planned.
LEMMA Advance ==
  ASSUME PlanOK, NEW n \in Nodes, CloseOK(n), NEW th \in Threads,
         NEW ops \in Seq(Ops), Step(th, ops),
         NEW new \in Letters(n), th = new.by, One(WriteOps(new), ops),
         \A k \in Letters(n) : k # new => ~ Has(WriteOps(k), ops),
         \A k \in Letters(n) : ~ Has(ReadOps(k), ops),
         \A t \in Threads : ~ Has(EndOps(n, t), ops),
         Stage(n) # new.stage, StageOK(n)', Stage(n)' = new.stage,
         \A k \in Letters(n) : Out(k) => Consumes(th, k),
         \A t \in Threads : ~ Has(EndOps(n, t), plan[t]) /\ ~ IsEof(word'[<<n, t>>])
  PROVE  CloseOK(n)'
<1>1. Once(new)'
  BY LetterMoves, LetterStep
<1>2. ASSUME NEW k \in Letters(n), k # new PROVE Once(k)' /\ ~ Out(k)'
  BY <1>2, LetterMoves, LetterStep DEF Consumes
<1>3. ASSUME NEW t \in Threads
      PROVE  ~ Ending(n, t)' /\ \A u \in Threads : t # u => ~ Has(EndOps(n, t), plan[u])'
  <2>1. /\ Ending(n, t)' => Ending(n, t)
        /\ \A u \in Threads : t # u => ~ Has(EndOps(n, t), plan'[u])
    BY NoEndYet DEF Step
  <2>2. Ending(n, t)' => Has(EndOps(n, t), plan'[t])
    BY DEF Ending, EndOps, Has, IsEof
  <2>3. ~ Has(EndOps(n, t), plan'[t])
    <3>1. /\ \A u \in Threads : u # th => plan'[u] = plan[u]
          /\ Has(EndOps(n, t), plan'[th])
               <=> Has(EndOps(n, t), ops) \/ Has(EndOps(n, t), Rest(th))
          /\ Has(EndOps(n, t), Rest(th)) => Has(EndOps(n, t), plan[th])
      BY GoesHas DEF Step
    <3> QED BY <3>1
  <2> QED BY <2>1, <2>2, <2>3 DEF EndOps, Has
<1>4. \A k \in Letters(n) : Once(k)' /\ (Out(k)' => Stage(n)' = k.stage)
  BY <1>1, <1>2
<1> QED BY <1>3, <1>4 DEF CloseOK

\* A letter is handled, and the task is to end.
LEMMA Finish ==
  ASSUME PlanOK, NEW n \in Nodes, CloseOK(n), NEW th \in Threads,
         Step(th, EndTask(<<n, th>>)), UNCHANGED word,
         NEW old \in Letters(n), Consumes(th, old),
         StageOK(n)', Stage(n)' = EndStage[th]
  PROVE  CloseOK(n)'
<1> DEFINE ops == EndTask(<<n, th>>)
           end == Op("post", <<n, th>>, "END")
<1>1. ops \in Seq(Ops)
  <2>1. end \in Ops
    BY NodeTasks, OpTypes
  <2> QED BY <2>1 DEF EndTask
<1>2. /\ \A k \in Letters(n) : end \notin WriteOps(k) /\ end \notin ReadOps(k)
      /\ \A t \in Threads : t # th => end \notin EndOps(n, t)
  <2>1. end.op = "post"
    BY DEF Op
  <2>2. \A t \in Threads : t # th => end \notin EndOps(n, t)
    BY DEF EndOps, Op
  <2> HIDE DEF end
  <2> QED BY <2>1, <2>2, KindsApart
<1>3. /\ \A k \in Letters(n) : ~ Has(WriteOps(k), ops) /\ ~ Has(ReadOps(k), ops)
      /\ \A t \in Threads : t # th => ~ Has(EndOps(n, t), ops)
  <2>1. ops = <<end>>
    BY DEF EndTask
  <2> HIDE DEF ops, end
  <2> QED BY <1>2, <2>1, HasSingle
<1> HIDE DEF ops, end
<1>4. Step(th, ops) /\ Goes(th, ops)
  BY DEF ops, Step
<1>5. \A t \in Threads : ~ Ending(n, t) /\ ~ IsEof(word'[<<n, t>>])
  BY Consuming DEF Ending
<1>6. \A k \in Letters(n) : Once(k)' /\ ~ Out(k)'
  <2>1. ASSUME NEW k \in Letters(n) PROVE Once(k)' /\ ~ Out(k)'
    <3>1. Out(k) => k = old
      BY Consuming
    <3>2. Once(k)' /\ (Out(k)' => Out(k)) /\ (k = old => ~ Out(k)')
      BY <1>1, <1>3, <1>4, LetterMoves, LetterStep DEF Consumes
    <3> QED BY <3>1, <3>2
  <2> QED BY <2>1
<1>7. \A t \in Threads : /\ t # th => ~ Ending(n, t)'
                         /\ \A u \in Threads : t # u => ~ Has(EndOps(n, t), plan'[u])
  BY <1>1, <1>3, <1>4, <1>5, NoEndYet
<1>8. \A t \in Threads, u \in Threads : t # u => ~ Has(EndOps(n, t), plan[u])'
  BY <1>7 DEF EndOps, Has
<1> QED BY <1>6, <1>7, <1>8 DEF CloseOK

LEMMA LettersApart ==
  ASSUME NEW n \in Nodes, NEW k \in Letters(n), NEW l \in Letters(n), k.to = l.to,
         NEW m \in k.mail, m \in l.mail
  PROVE  k = l
<1>1. \A s, t : Msg("STOP", s) = Msg("STOP", t) => s = t
  BY DEF Msg
<1> QED BY <1>1 DEF Letters, Letter, StopOf, DelFd, ToDealer

\* What a handler plans to send the letter new.
LEMMA GiveNew ==
  ASSUME NEW n \in Nodes, NEW new \in Letters(n), NEW m \in new.mail,
         NEW pre \in Seq(Ops), Calm(pre, n), NEW ops, ops = pre \o Give(new.to, m)
  PROVE  /\ ops \in Seq(Ops)
         /\ One(WriteOps(new), ops)
         /\ \A k \in Letters(n) : k # new => ~ Has(WriteOps(k), ops)
         /\ \A k \in Letters(n) : ~ Has(ReadOps(k), ops)
         /\ \A t \in Threads : ~ Has(EndOps(n, t), ops)
<1> DEFINE w == Op("queue", new.to, m)
           b == Op("post", new.to, "NORM")
           g == Give(new.to, m)
<1>1. g = <<w, b>>
  BY DEF Give
<1>2. m \in Messages /\ new.to \in Tasks
  BY LetterTypes DEF LetterType
<1>3. w \in Ops /\ b \in Ops
  BY <1>2, OpTypes DEF Events
<1>4. w.op = "queue" /\ b.op = "post" /\ b.arg = "NORM"
  BY DEF Op
<1>5. \A k \in Letters(n) : k # new => w \notin WriteOps(k)
  <2> SUFFICES ASSUME NEW k \in Letters(n), w \in WriteOps(k) PROVE k = new
    OBVIOUS
  <2>1. new.to = k.to /\ m \in k.mail
    BY DEF WriteOps, Op
  <2> QED BY <2>1, LettersApart
<1>6. \A t \in Threads : \A o \in EndOps(n, t) : o.op = "post" /\ o.arg = "END"
  BY DEF EndOps, Op
<1> HIDE DEF w, b, g
<1>7. /\ \A k \in Letters(n) : b \notin WriteOps(k) /\ b \notin ReadOps(k) /\ w \notin ReadOps(k)
      /\ \A t \in Threads : w \notin EndOps(n, t) /\ b \notin EndOps(n, t)
  BY <1>4, <1>6, KindsApart
<1>8. g \in Seq(Ops)
  BY <1>1, <1>3
<1>9. /\ One(WriteOps(new), g)
      /\ \A k \in Letters(n) : k # new => ~ Has(WriteOps(k), g)
      /\ \A k \in Letters(n) : ~ Has(ReadOps(k), g)
      /\ \A t \in Threads : ~ Has(EndOps(n, t), g)
  BY <1>1, <1>5, <1>7, HasPair
<1>10. /\ \A k \in Letters(n) : ~ Has(WriteOps(k), pre) /\ ~ Has(ReadOps(k), pre)
       /\ \A t \in Threads : ~ Has(EndOps(n, t), pre)
  BY CalmHas
<1>11. One(WriteOps(new), pre)
  BY <1>10 DEF Has, One
<1>12. ops = pre \o g
  BY DEF g
<1>13. \A E : /\ Has(E, ops) <=> Has(E, pre) \/ Has(E, g)
              /\ One(E, pre) /\ One(E, g) /\ ~ (Has(E, pre) /\ Has(E, g)) => One(E, ops)
  BY <1>8, <1>12, HasConcat
<1> QED BY <1>8, <1>9, <1>10, <1>11, <1>12, <1>13

-----------------------------------------------------------------------------
(* The actions that leave every close alone.                               *)

\* The words of a step that takes a task.
LEMMA TakenWords ==
  ASSUME TypeInv, NEW x \in Tasks, Take(x)
  PROVE  \A y \in Tasks : IsEof(word'[y]) => y # x /\ word'[y] = word[y]
BY DEF Take, TypeInv, StateOK, IsEof, Locked

LEMMA TakenEnds ==
  ASSUME TypeInv, NEW x \in Tasks, Take(x), NEW n \in Nodes
  PROVE  \A t \in Threads : IsEof(word'[<<n, t>>]) => Ending(n, t)
<1>1. \A t \in Threads : <<n, t>> \in Tasks
  BY NodeTasks
<1> QED BY <1>1, TakenWords DEF Ending, IsEof

\* A thread with an empty plan plans something new.
LEMMA Starts ==
  ASSUME PlanOK, NEW th \in Threads, plan[th] = <<>>, NEW ops \in Seq(Ops), Start(th, ops),
         \A x \in Tasks : x \notin Nodes \X {"snd"} => msgs'[x] \in {msgs[x], <<>>}
  PROVE  Step(th, ops)
BY StartGoes DEF Step

LEMMA GoesOn ==
  ASSUME PlanOK, NEW th \in Threads, plan[th] # <<>>, NEW ops, GoOn(th, ops), UNCHANGED msgs
  PROVE  Step(th, ops)
BY GoOnGoes DEF Step

\* Nothing a close depends on changes.
SameLife ==
  UNCHANGED <<reason, status, gone, ended, closed>> /\ born \subseteq born'

LEMMA LifeSame == ASSUME SameLife, NEW n PROVE SameMarks(n)
BY DEF SameLife, SameMarks

LEMMA PlansOps == ASSUME NEW th, NEW ops \in Plans(th) PROVE ops \in Seq(Ops)
BY DEF Plans, FittingOps

LEMMA CalmSends ==
  ASSUME NEW n \in Nodes, NEW m \in Nodes, NEW th
  PROVE  \A ops \in {Unreg(m), Give(<<m, "cmd">>, Msg("REGIST", m)),
                     Give(<<Ctrl, "rcv">>, Msg("ADD_FD", m)),
                     Give(<<Ctrl, "snd">>, Msg("ADD_FD", m))} :
           ops \in Seq(Ops) /\ Calm(ops, n)
<1>1. \A type \in {"UNREG", "DATA", "REGIST", "ADD_FD"} :
        Msg(type, m) \in Messages /\ Msg(type, m).type \notin {"DEL_FD", "STOP", "ALLOW_EXIT"}
  BY MsgTypes DEF Msg
<1>2. \A x \in {<<m, "cmd">>, <<m, "snd">>, <<m, "deal">>, <<Ctrl, "rcv">>, <<Ctrl, "snd">>} :
        x \in Tasks /\ x \notin Nodes \X {"rcv"}
  BY NodeTasks DEF Threads, Pollers, Tasks
<1>3. \A x \in {<<m, "cmd">>, <<m, "snd">>, <<m, "deal">>, <<Ctrl, "rcv">>, <<Ctrl, "snd">>},
         type \in {"UNREG", "DATA", "REGIST", "ADD_FD"} :
        Give(x, Msg(type, m)) \in Seq(Ops) /\ Calm(Give(x, Msg(type, m)), n)
  BY <1>1, <1>2, GiveFits, PlansOps, CalmOps
<1> QED BY <1>3 DEF Unreg

LEMMA CalmDeliver ==
  ASSUME NEW n \in Nodes, NEW k \in Nat, NEW X \in SUBSET (Nodes \X {"snd", "deal"}),
         NEW t \in [1 .. k -> X]
  PROVE  Deliver(t) \in Seq(Ops) /\ Calm(Deliver(t), n)
<1>1. Deliver(t) \in Seq(Ops)
  BY DeliverFits, PlansOps
<1>2. ASSUME NEW i \in DOMAIN Deliver(t) PROVE CalmOp(Deliver(t)[i], n)
  <2>1. PICK j \in 1 .. k :
          \/ Deliver(t)[i] = Op("queue", t[j], Msg("DATA", t[j][1]))
          \/ Deliver(t)[i] = Op("post", t[j], "NORM")
    <3>1. Delivered(Deliver(t), k, t)
      BY DeliverAt
    <3> QED BY <1>2, <3>1 DEF Delivered
  <2>2. t[j] \in Tasks /\ t[j][1] \in Nodes
    BY DEF Tasks, Threads
  <2>3. Msg("DATA", t[j][1]) \in Messages
        /\ Msg("DATA", t[j][1]).type \notin {"DEL_FD", "STOP", "ALLOW_EXIT"}
    BY <2>2, MsgTypes DEF Msg
  <2> DEFINE give == Give(t[j], Msg("DATA", t[j][1]))
  <2>4. Calm(give, n)
    BY <2>2, <2>3, CalmOps
  <2>5. /\ 1 \in DOMAIN give /\ give[1] = Op("queue", t[j], Msg("DATA", t[j][1]))
        /\ 2 \in DOMAIN give /\ give[2] = Op("post", t[j], "NORM")
    BY DEF Give
  <2> HIDE DEF give
  <2> QED BY <2>1, <2>4, <2>5 DEF Calm
<1> QED BY <1>1, <1>2 DEF Calm

LEMMA CloseAccept ==
  ASSUME TypeInv, NEW n \in Nodes, CloseOK(n), NEW m \in Nodes, Accept(m)
  PROVE  CloseOK(n)'
<1> DEFINE ops == Give(<<m, "cmd">>, Msg("REGIST", m))
<1>1. "rcv" \in Threads /\ PlanOK
  BY DEF Threads, TypeInv
<1>2. ops \in Seq(Ops) /\ Calm(ops, n)
  BY CalmSends
<1>3. Step("rcv", ops)
  BY <1>1, <1>2, Starts DEF Accept, mail
<1>4. SameMarks(n)
  BY LifeSame DEF Accept, SameLife, fields
<1>5. \A t \in Threads : IsEof(word'[<<n, t>>]) => Ending(n, t)
  BY DEF Accept, mail, Ending, IsEof
<1> QED BY <1>1, <1>2, <1>3, <1>4, <1>5, QuietStep

LEMMA ClosePoll ==
  ASSUME TypeInv, NEW n \in Nodes, CloseOK(n), NEW th \in Pollers, NEW m \in Nodes,
         PollReady(th, m) \/ PollError(th, m)
  PROVE  CloseOK(n)'
<1>1. th \in Threads /\ PlanOK /\ plan[th] = <<>>
  BY DEF Threads, Pollers, TypeInv, PollReady, PollError, Polled
<1>2. \E ops \in Seq(Ops) : Start(th, ops) /\ Calm(ops, n)
  <2>1. CASE PollReady(th, m)
    <3>1. <<m, th>> \in Tasks /\ Event(th) \in Events /\ Event(th) # "END"
      BY <1>1, NodeTasks, LifeAssumption DEF Event, Events
    <3>2. <<Op("post", <<m, th>>, Event(th))>> \in Seq(Ops)
      BY <3>1, PostFits, PlansOps
    <3> QED BY <2>1, <3>1, <3>2, CalmOps DEF PollReady
  <2>2. CASE PollError(th, m)
    BY <2>2, CalmSends DEF PollError
  <2> QED BY <2>1, <2>2
<1>3. UNCHANGED mail /\ SameLife
  BY DEF PollReady, PollError, SameLife, life
<1>4. \A t \in Threads : IsEof(word'[<<n, t>>]) => Ending(n, t)
  BY <1>3 DEF mail, Ending, IsEof
<1> QED BY <1>1, <1>2, <1>3, <1>4, LifeSame, Starts, QuietStep DEF mail

\* What readNode and writeNode return.
LEMMA CalmReturn ==
  ASSUME NEW n \in Nodes, NEW m \in Nodes, NEW th \in Pollers, NEW ev \in Answers(m, th)
  PROVE  LET x == <<m, th>> IN
         /\ Return(x, ev) \in Seq(Ops) /\ Calm(Return(x, ev), n)
         /\ LET ops == (IF ev = "ERROR" THEN Unreg(m) ELSE <<>>) IN
            ops \in Seq(Ops) /\ Calm(ops, n)
<1> DEFINE x == <<m, th>>
<1>1. x \in Tasks /\ ev \in Returns
  BY NodeTasks, AnswerTypes, AnswersReturn
<1>2. Return(x, ev) \in Seq(Ops)
  BY <1>1, OpTypes DEF Return
<1>3. Calm(Return(x, ev), n)
  BY <1>1, CalmOps
<1>4. /\ Unreg(m) \in Seq(Ops) /\ Calm(Unreg(m), n)
      /\ <<>> \in Seq(Ops) /\ Calm(<<>>, n)
  BY CalmSends, CalmNothing
<1> QED BY <1>2, <1>3, <1>4

LEMMA CloseRead ==
  ASSUME TypeInv, NEW n \in Nodes, CloseOK(n),
         NEW m \in Nodes, NEW ev \in Answers(m, "rcv"), Read(m, ev)
  PROVE  CloseOK(n)'
<1> DEFINE x == <<m, "rcv">>
<1>1. x \in Tasks /\ x[2] = "rcv" /\ "rcv" \in Threads /\ "rcv" \in Pollers /\ PlanOK
      /\ Take(x) /\ plan["rcv"] = <<>>
  BY NodeTasks DEF Threads, Pollers, TypeInv, Read, Take
<1>2. \E ops \in Seq(Ops) : Start("rcv", ops) /\ Calm(ops, n)
  <2>1. PICK k \in 0 .. MaxData - data : \E t \in [1 .. k -> {m} \X {"snd", "deal"}] :
          Start("rcv", Deliver(t) \o (IF ev = "ERROR" THEN Unreg(m) ELSE <<>>) \o Return(x, ev))
    BY DEF Read
  <2>2. PICK t \in [1 .. k -> {m} \X {"snd", "deal"}] :
          Start("rcv", Deliver(t) \o (IF ev = "ERROR" THEN Unreg(m) ELSE <<>>) \o Return(x, ev))
    BY <2>1
  <2> DEFINE out == Deliver(t)
             err == IF ev = "ERROR" THEN Unreg(m) ELSE <<>>
             ret == Return(x, ev)
  <2>3. k \in Nat /\ {m} \X {"snd", "deal"} \subseteq Nodes \X {"snd", "deal"}
    OBVIOUS
  <2>4. out \in Seq(Ops) /\ Calm(out, n)
    BY <2>3, CalmDeliver
  <2>5. err \in Seq(Ops) /\ Calm(err, n) /\ ret \in Seq(Ops) /\ Calm(ret, n)
    BY <1>1, CalmReturn
  <2>6. Start("rcv", out \o err \o ret)
    BY <2>2
  <2> HIDE DEF out, err, ret
  <2>7. out \o err \in Seq(Ops) /\ Calm(out \o err, n)
    BY <2>4, <2>5, CalmConcat
  <2>8. out \o err \o ret \in Seq(Ops) /\ Calm(out \o err \o ret, n)
    BY <2>5, <2>7, CalmConcat
  <2> QED BY <2>6, <2>8
<1>3. UNCHANGED msgs /\ SameLife
  BY DEF Read, SameLife, life
<1> QED BY <1>1, <1>2, <1>3, TakenEnds, LifeSame, Starts, QuietStep

LEMMA CloseWrite ==
  ASSUME TypeInv, NEW n \in Nodes, CloseOK(n),
         NEW m \in Nodes, NEW ev \in Answers(m, "snd"), Write(m, ev)
  PROVE  CloseOK(n)'
<1> DEFINE x == <<m, "snd">>
<1>1. x \in Tasks /\ x[2] = "snd" /\ "snd" \in Threads /\ "snd" \in Pollers /\ PlanOK
      /\ Take(x) /\ plan["snd"] = <<>>
  BY NodeTasks DEF Threads, Pollers, TypeInv, Write, TakeLive, Take
<1>2. \E ops \in Seq(Ops) : Start("snd", ops) /\ Calm(ops, n)
  <2> DEFINE err == IF ev = "ERROR" THEN Unreg(m) ELSE <<>>
             ret == Return(x, ev)
  <2>1. err \in Seq(Ops) /\ Calm(err, n) /\ ret \in Seq(Ops) /\ Calm(ret, n)
    BY <1>1, CalmReturn
  <2>2. Start("snd", err \o ret)
    BY DEF Write
  <2> HIDE DEF err, ret
  <2> QED BY <2>1, <2>2, CalmConcat
<1>3. \A y \in Tasks : y \notin Nodes \X {"snd"} => msgs'[y] = msgs[y]
  <2>1. WriteNode(m, ev) => \A y \in Tasks : y # x => msgs'[y] = msgs[y]
    BY <1>1, AnswerTypes, WriteNodeEmpties DEF TypeInv
  <2> QED BY <2>1 DEF Write
<1>4. SameLife
  BY DEF Write, TakeLive, SameLife, life
<1> QED BY <1>1, <1>2, <1>3, <1>4, TakenEnds, LifeSame, Starts, QuietStep

LEMMA CloseDrain ==
  ASSUME TypeInv, NEW n \in Nodes, CloseOK(n), NEW x \in Tasks, Drain(x)
  PROVE  CloseOK(n)'
<1> DEFINE th == x[2]
           work == [i \in DOMAIN msgs[x] |-> Op("msg", x, msgs[x][i])]
           ops == work \o Return(x, "NORM")
<1>1. th \in Threads /\ plan[th] = <<>> /\ PlanOK /\ Take(x)
  BY TakeTypes DEF Drain, TakeLive, TypeInv
<1>2. ops \in Seq(Ops) /\ \A i \in DOMAIN ops : ops[i].op # "post"
  <2>1. msgs[x] \in Seq(Messages) /\ DOMAIN msgs[x] = 1 .. Len(msgs[x])
        /\ Len(msgs[x]) \in Nat
    BY DEF TypeInv, StateOK
  <2>2. \A i \in DOMAIN msgs[x] : Op("msg", x, msgs[x][i]) \in {o \in Ops : o.op # "post"}
    <3>1. \A m \in Messages : Op("msg", x, m) \in Ops /\ Op("msg", x, m).op = "msg"
      BY OpTypes DEF Op
    <3> QED BY <2>1, <3>1
  <2>3. work \in [1 .. Len(msgs[x]) -> {o \in Ops : o.op # "post"}]
    BY <2>1, <2>2
  <2>4. work \in Seq({o \in Ops : o.op # "post"})
    BY <2>1, <2>3
  <2>5. Op("return", x, "NORM") \in {o \in Ops : o.op # "post"}
    BY OpTypes DEF Op, Returns
  <2>6. <<Op("return", x, "NORM")>> \in Seq({o \in Ops : o.op # "post"})
    BY <2>5
  <2> HIDE DEF work
  <2>7. ops \in Seq({o \in Ops : o.op # "post"})
    BY <2>4, <2>6 DEF Return
  <2> QED BY <2>7
<1>3. Start(th, ops)
  BY DEF Drain
<1> HIDE DEF ops
<1>4. \A t \in Threads : ~ Has(EndOps(n, t), ops)
  BY <1>2 DEF Has, EndOps, Op
<1>5. Goes(th, ops)
  BY <1>1, <1>2, <1>3, StartGoes
<1>6. \A t \in Threads : IsEof(word'[<<n, t>>]) => Ending(n, t)
  BY <1>1, TakenEnds
<1>7. \A k \in Letters(n) : Once(k)' /\ (Out(k)' => Out(k))
  BY LetterTypes, LetterDrain DEF CloseOK
<1>8. \A t \in Threads : /\ Ending(n, t)' => Ending(n, t)
                         /\ \A u \in Threads : t # u => ~ Has(EndOps(n, t), plan'[u])
  BY <1>1, <1>2, <1>4, <1>5, <1>6, NoEndYet
<1>9. SameMarks(n)
  BY LifeSame DEF Drain, TakeLive, SameLife, life, fields
<1> QED BY <1>7, <1>8, <1>9, StageKept, CloseKept DEF CloseOK

LEMMA CloseQueue ==
  ASSUME TypeInv, NEW n \in Nodes, CloseOK(n), NEW th \in Threads, Queue(th)
  PROVE  CloseOK(n)'
<1>1. PlanOK /\ plan[th] # <<>> /\ UNCHANGED word
  BY DEF Queue, Doing, TypeInv
<1>2. Goes(th, <<>>)
  BY <1>1, GoOnGoes DEF Queue
<1>3. \A k \in Letters(n) : Once(k)' /\ (Out(k)' => Out(k))
  BY LetterTypes, LetterQueue DEF CloseOK
<1>4. \A t \in Threads : /\ Ending(n, t)' => Ending(n, t)
                         /\ \A u \in Threads : t # u => ~ Has(EndOps(n, t), plan'[u])
  <2>1. \A t \in Threads : IsEof(word'[<<n, t>>]) => Ending(n, t)
    BY <1>1 DEF Ending, IsEof
  <2>2. <<>> \in Seq(Ops) /\ \A t \in Threads : ~ Has(EndOps(n, t), <<>>)
    BY HasNothing
  <2> QED BY <1>1, <1>2, <2>1, <2>2, NoEndYet
<1>5. SameMarks(n)
  BY LifeSame DEF Queue, SameLife, life, fields
<1> QED BY <1>3, <1>4, <1>5, StageKept, CloseKept DEF CloseOK

LEMMA ClosePost ==
  ASSUME TypeInv, NEW n \in Nodes, CloseOK(n), NEW th \in Threads, Post(th)
  PROVE  CloseOK(n)'
<1> DEFINE x == On(th)
           ev == Arg(th)
<1>1. PlanOK /\ plan[th] # <<>> /\ x \in Tasks /\ ev \in Events \cup {"END"}
      /\ Head(plan[th]) = Op("post", x, ev)
  <2>1. /\ PlanOK /\ plan[th] # <<>> /\ x \in Tasks /\ ev \in Events \cup {"END"}
        /\ Head(plan[th]) \in Ops /\ Head(plan[th]).op = "post"
    BY HeadFits DEF Post, Doing, TypeInv, FittingOps
  <2> QED BY <2>1 DEF Ops, Op, On, Arg
<1>2. Step(th, <<>>)
  BY <1>1, GoesOn DEF Post
<1>3. SameMarks(n)
  BY LifeSame DEF Post, SameLife, life, fields
<1>4. ASSUME NEW t \in Threads, IsEof(word'[<<n, t>>]) PROVE Ending(n, t)
  <2>1. <<n, t>> \in Tasks
    BY NodeTasks
  <2>2. CASE IsEof(word[<<n, t>>])
    BY <2>2 DEF Ending
  <2>3. CASE ~ IsEof(word[<<n, t>>])
    <3>1. x = <<n, t>> /\ word'[x] = CheckinWord(word[x], ev)
      BY <1>4, <2>1, <2>3 DEF Post, TypeInv, StateOK, IsEof
    <3>2. ev = "END"
      <4>1. word[x] \in Words
        BY <1>1 DEF TypeInv, StateOK
      <4> QED BY <1>4, <2>3, <3>1, <4>1 DEF CheckinWord, IsEof, Words
    <3>3. Head(plan[th]) \in EndOps(n, t)
      BY <1>1, <3>1, <3>2 DEF EndOps
    <3>4. Has(EndOps(n, t), plan[th])
      BY <1>1, <3>3, HasTail DEF PlanOK
    <3> QED BY <3>4 DEF CloseOK, Ending
  <2> QED BY <2>2, <2>3
<1> QED BY <1>1, <1>2, <1>3, <1>4, CalmNothing, QuietStep

LEMMA CloseReturned ==
  ASSUME TypeInv, NEW n \in Nodes, CloseOK(n), NEW th \in Threads, Returned(th)
  PROVE  CloseOK(n)'
<1>1. PlanOK /\ plan[th] # <<>> /\ On(th) \in Tasks
  BY HeadFits DEF Returned, Doing, TypeInv
<1>2. Step(th, <<>>)
  BY <1>1, GoesOn DEF Returned
<1>3. SameMarks(n)
  BY LifeSame DEF Returned, SameLife, life, fields
<1>4. \A y \in Tasks : IsEof(word'[y]) => IsEof(word[y])
  <2>1. \A w : w \in Words => /\ IsEof(ReleaseWord(w)) => IsEof(w)
                              /\ \A ev : IsEof(CheckoutWord(w, ev)) => IsEof(w)
    BY DEF Words, IsEof, ReleaseWord, CheckoutWord, Zero
  <2> QED BY <1>1, <2>1 DEF Returned, TypeInv, StateOK
<1>5. \A t \in Threads : IsEof(word'[<<n, t>>]) => Ending(n, t)
  BY <1>4, NodeTasks DEF Ending
<1> QED BY <1>1, <1>2, <1>3, <1>5, CalmNothing, QuietStep

-----------------------------------------------------------------------------
(* The tasks end.                                                          *)

LEMMA TheirStop ==
  ASSUME NEW n \in Nodes, NEW m \in Nodes, m # n, NEW th,
         NEW s \in {"STOP_RCV", "STOP_DEAL", "STOP_SND", "CLOSED"}
  PROVE  Stop(m, s) \in Seq(Ops) /\ Calm(Stop(m, s), n)
<1>1. <<m, "cmd">> \in Tasks /\ Msg("STOP", s) \in Messages /\ m # Ctrl
  BY NodeTasks, MsgTypes DEF Threads
<1>2. Stop(m, s) \in Seq(Ops)
  BY SendsFit, PlansOps
<1>3. Calm(Give(<<m, "cmd">>, Msg("STOP", s)), n)
  BY <1>1, CalmOps
<1> QED BY <1>2, <1>3 DEF Stop

\* The end of a task that is ended had been on its way alone.
LEMMA Ended ==
  ASSUME TypeInv, NEW n \in Nodes, CloseOK(n), NEW t \in Threads, TakeEof(<<n, t>>)
  PROVE  /\ Stage(n) = EndStage[t] /\ plan[t] = <<>> /\ PlanOK
         /\ \A k \in Letters(n) : ~ Out(k)
         /\ \A u \in Threads :
              ~ Has(EndOps(n, u), plan[u]) /\ ~ IsEof(word'[<<n, u>>])
<1>1. Take(<<n, t>>) /\ IsEof(word[<<n, t>>]) /\ \A u \in Threads : <<n, u>> \in Tasks
  BY NodeTasks DEF TakeEof
<1>2. Ending(n, t) /\ plan[t] = <<>>
  BY <1>1 DEF Ending, Take
<1>3. Stage(n) = EndStage[t] /\ \A k \in Letters(n) : ~ Out(k)
  BY <1>2 DEF CloseOK
<1>4. \A u \in Threads : u # t => EndStage[u] # EndStage[t]
  BY DEF EndStage, Threads
<1>5. \A u \in Threads : u # t => ~ Ending(n, u)
  BY <1>3, <1>4 DEF CloseOK
<1>6. ~ Has(EndOps(n, t), plan[t])
  BY <1>2, HasNothing
<1>7. \A u \in Threads : IsEof(word'[<<n, u>>]) => u # t /\ IsEof(word[<<n, u>>])
  <2>1. \A u \in Threads : IsEof(word'[<<n, u>>]) =>
          <<n, u>> # <<n, t>> /\ word'[<<n, u>>] = word[<<n, u>>]
    BY <1>1, TakenWords
  <2> QED BY <2>1
<1> QED BY <1>2, <1>3, <1>5, <1>6, <1>7 DEF Ending, TypeInv

\* Marks and mail of a step that ends the task of another node.
LEMMA TheirEnd ==
  ASSUME TypeInv, NEW n \in Nodes, CloseOK(n), NEW m \in Nodes, m # n,
         NEW t \in Threads, TakeEof(<<m, t>>), NEW ops \in Seq(Ops), Calm(ops, n),
         Step(t, ops), UNCHANGED <<reason, status>>, gone' \subseteq gone \cup {m},
         gone \subseteq gone'
  PROVE  CloseOK(n)'
<1>1. <<m, t>> \in Tasks /\ Take(<<m, t>>) /\ PlanOK
  BY NodeTasks DEF TakeEof, TypeInv
<1>2. SameMarks(n)
  BY DEF TakeEof, SameMarks
<1> QED BY <1>1, <1>2, TakenEnds, QuietStep

\* Marks of a step that ends a task of the node.
LEMMA OurEnd ==
  ASSUME NEW n \in Nodes, StageOK(n), NEW t \in {"rcv", "deal", "snd"},
         Stage(n) = EndStage[t], TakeEof(<<n, t>>), UNCHANGED <<reason, status, gone>>
  PROVE  StageOK(n)' /\ Stage(n)' = EndStage[t] + 1
<1>1. UNCHANGED <<born, closed>> /\ ended' = ended \cup {<<n, t>>}
  BY DEF TakeEof
<1>2. EndStage["rcv"] = 1 /\ EndStage["deal"] = 4 /\ EndStage["snd"] = 6
  BY DEF EndStage, Threads
<1>3. \A u \in {"rcv", "deal", "snd"} :
        <<n, u>> \in ended' <=> <<n, u>> \in ended \/ u = t
  BY <1>1
<1>4. CASE t = "rcv"
  <2>1. Stage(n)' = 2
    BY <1>1, <1>2, <1>3, <1>4 DEF Stage, StageOK
  <2> QED BY <1>1, <1>2, <1>3, <1>4, <2>1 DEF StageOK
<1>5. CASE t = "deal"
  <2>1. Stage(n)' = 5
    BY <1>1, <1>2, <1>3, <1>5 DEF Stage, StageOK
  <2> QED BY <1>1, <1>2, <1>3, <1>5, <2>1 DEF StageOK
<1>6. CASE t = "snd"
  <2>1. Stage(n)' = 7
    BY <1>1, <1>2, <1>3, <1>6 DEF Stage, StageOK
  <2> QED BY <1>1, <1>2, <1>3, <1>6, <2>1 DEF StageOK
<1> QED BY <1>4, <1>5, <1>6

\* The letter that tells the director of the end of a task.
EndLetter(n, t) ==
  CASE t = "rcv"  -> StopOf(n, t, "STOP_RCV", 2)
    [] t = "deal" -> StopOf(n, t, "STOP_DEAL", 5)
    [] t = "snd"  -> StopOf(n, t, "STOP_SND", 7)

LEMMA EndLetters ==
  ASSUME NEW n \in Nodes, NEW t \in {"rcv", "deal", "snd"}
  PROVE  LET k == EndLetter(n, t) IN
         /\ k \in Letters(n) /\ k.by = t /\ k.stage = EndStage[t] + 1 /\ k.to = <<n, "cmd">>
         /\ Msg("STOP", CASE t = "rcv" -> "STOP_RCV" [] t = "deal" -> "STOP_DEAL"
                          [] t = "snd" -> "STOP_SND") \in k.mail
<1>1. EndStage["rcv"] = 1 /\ EndStage["deal"] = 4 /\ EndStage["snd"] = 6
  BY DEF EndStage, Threads
<1>2. CASE t = "rcv"
  BY <1>1, <1>2 DEF EndLetter, Letters, StopOf, Letter
<1>3. CASE t = "deal"
  BY <1>1, <1>3 DEF EndLetter, Letters, StopOf, Letter
<1>4. CASE t = "snd"
  BY <1>1, <1>4 DEF EndLetter, Letters, StopOf, Letter
<1> QED BY <1>2, <1>3, <1>4

LEMMA OurStop ==
  ASSUME TypeInv, NEW n \in Nodes, CloseOK(n), NEW t \in {"rcv", "deal", "snd"},
         TakeEof(<<n, t>>), UNCHANGED <<reason, status, gone>>,
         NEW pre \in Seq(Ops), Calm(pre, n),
         NEW s, s = CASE t = "rcv" -> "STOP_RCV" [] t = "deal" -> "STOP_DEAL"
                      [] t = "snd" -> "STOP_SND",
         Start(t, pre \o Stop(n, s)),
         \A x \in Tasks : x \notin Nodes \X {"snd"} => msgs'[x] \in {msgs[x], <<>>}
  PROVE  CloseOK(n)'
<1> DEFINE new == EndLetter(n, t)
           ops == pre \o Stop(n, s)
<1>1. t \in Threads
  BY DEF Threads
<1>2. new \in Letters(n) /\ new.by = t /\ new.stage = EndStage[t] + 1
      /\ new.to = <<n, "cmd">> /\ Msg("STOP", s) \in new.mail
  BY EndLetters
<1>3. ops = pre \o Give(new.to, Msg("STOP", s))
  BY <1>2 DEF Stop
<1>4. /\ Stage(n) = EndStage[t] /\ plan[t] = <<>> /\ PlanOK
      /\ \A k \in Letters(n) : ~ Out(k)
      /\ \A u \in Threads :
           ~ Has(EndOps(n, u), plan[u]) /\ ~ IsEof(word'[<<n, u>>])
  BY <1>1, Ended
<1>5. StageOK(n)' /\ Stage(n)' = EndStage[t] + 1
  BY <1>4, OurEnd DEF CloseOK
<1>6. EndStage[t] \in Nat
  BY DEF EndStage, Threads
<1>7. Stage(n) # new.stage /\ Stage(n)' = new.stage
  BY <1>2, <1>4, <1>5, <1>6
<1> HIDE DEF new, ops
<1>8. /\ ops \in Seq(Ops)
      /\ One(WriteOps(new), ops)
      /\ \A k \in Letters(n) : k # new => ~ Has(WriteOps(k), ops)
      /\ \A k \in Letters(n) : ~ Has(ReadOps(k), ops)
      /\ \A u \in Threads : ~ Has(EndOps(n, u), ops)
  BY <1>2, <1>3, GiveNew
<1>9. Step(t, ops)
  BY <1>1, <1>4, <1>8, Starts DEF ops
<1> QED BY <1>1, <1>2, <1>4, <1>5, <1>7, <1>8, <1>9, Advance

LEMMA CloseReadEnd ==
  ASSUME TypeInv, NEW n \in Nodes, CloseOK(n), NEW m \in Nodes, ReadEnd(m)
  PROVE  CloseOK(n)'
<1>1. /\ TakeEof(<<m, "rcv">>) /\ UNCHANGED <<msgs, reason, status, gone>>
      /\ Start("rcv", Stop(m, "STOP_RCV")) /\ plan["rcv"] = <<>>
      /\ PlanOK /\ "rcv" \in Threads
  BY DEF ReadEnd, TakeEof, Take, TypeInv, Threads
<1>2. CASE m = n
  <2>1. Stop(n, "STOP_RCV") = <<>> \o Stop(n, "STOP_RCV")
    BY SendsFit, PlansOps
  <2> QED BY <1>1, <1>2, <2>1, CalmNothing, OurStop
<1>3. CASE m # n
  <2>1. Stop(m, "STOP_RCV") \in Seq(Ops) /\ Calm(Stop(m, "STOP_RCV"), n)
    BY <1>3, TheirStop
  <2>2. Step("rcv", Stop(m, "STOP_RCV"))
    BY <1>1, <2>1, Starts
  <2> QED BY <1>1, <1>3, <2>1, <2>2, TheirEnd
<1> QED BY <1>2, <1>3

LEMMA CloseDealEnd ==
  ASSUME TypeInv, NEW n \in Nodes, CloseOK(n), NEW m \in Nodes, DealEnd(m)
  PROVE  CloseOK(n)'
<1>1. /\ TakeEof(<<m, "deal">>) /\ UNCHANGED <<msgs, reason, status, gone>>
      /\ Start("deal", Stop(m, "STOP_DEAL")) /\ plan["deal"] = <<>>
      /\ PlanOK /\ "deal" \in Threads
  BY DEF DealEnd, TakeEof, Take, TypeInv, Threads, fields
<1>2. CASE m = n
  <2>1. Stop(n, "STOP_DEAL") = <<>> \o Stop(n, "STOP_DEAL")
    BY SendsFit, PlansOps
  <2> QED BY <1>1, <1>2, <2>1, CalmNothing, OurStop
<1>3. CASE m # n
  <2>1. Stop(m, "STOP_DEAL") \in Seq(Ops) /\ Calm(Stop(m, "STOP_DEAL"), n)
    BY <1>3, TheirStop
  <2>2. Step("deal", Stop(m, "STOP_DEAL"))
    BY <1>1, <2>1, Starts
  <2> QED BY <1>1, <1>3, <2>1, <2>2, TheirEnd
<1> QED BY <1>2, <1>3

LEMMA CloseWriteEnd ==
  ASSUME TypeInv, NEW n \in Nodes, CloseOK(n), NEW m \in Nodes, WriteEnd(m)
  PROVE  CloseOK(n)'
<1>1. /\ TakeEof(<<m, "snd">>) /\ UNCHANGED <<reason, status, gone>>
      /\ plan["snd"] = <<>> /\ PlanOK /\ "snd" \in Threads /\ "snd" \in Pollers
  BY DEF WriteEnd, TakeEof, Take, TypeInv, Threads, Pollers
<1>2. \A x \in Tasks : x \notin Nodes \X {"snd"} => msgs'[x] = msgs[x]
  <2>1. \A ev \in Answers(m, "snd") : WriteNode(m, ev) =>
          \A y \in Tasks : y # <<m, "snd">> => msgs'[y] = msgs[y]
    BY <1>1, AnswerTypes, WriteNodeEmpties DEF TypeInv
  <2> QED BY <2>1 DEF WriteEnd
<1>3. PICK pre \in {<<>>, Unreg(m)} : Start("snd", pre \o Stop(m, "STOP_SND"))
  <2>1. Stop(m, "STOP_SND") = <<>> \o Stop(m, "STOP_SND")
    BY SendsFit, PlansOps
  <2> QED BY <2>1 DEF WriteEnd
<1>4. pre \in Seq(Ops) /\ Calm(pre, n)
  BY CalmSends, CalmNothing
<1>5. CASE m = n
  BY <1>1, <1>2, <1>3, <1>4, <1>5, OurStop
<1>6. CASE m # n
  <2>1. Stop(m, "STOP_SND") \in Seq(Ops) /\ Calm(Stop(m, "STOP_SND"), n)
    BY <1>6, TheirStop
  <2>2. pre \o Stop(m, "STOP_SND") \in Seq(Ops) /\ Calm(pre \o Stop(m, "STOP_SND"), n)
    BY <1>4, <2>1, CalmConcat
  <2>3. Step("snd", pre \o Stop(m, "STOP_SND"))
    BY <1>1, <1>2, <1>3, <2>2, Starts
  <2> QED BY <1>1, <1>6, <2>2, <2>3, TheirEnd
<1> QED BY <1>5, <1>6

LEMMA CloseCmdEnd ==
  ASSUME TypeInv, NEW n \in Nodes, CloseOK(n), NEW m \in Nodes, CmdEnd(m)
  PROVE  CloseOK(n)'
<1>1. /\ TakeEof(<<m, "cmd">>) /\ UNCHANGED <<plan, reason, status>>
      /\ gone' = gone \cup {m} /\ plan["cmd"] = <<>> /\ PlanOK /\ "cmd" \in Threads
      /\ <<m, "cmd">> \in Tasks
  BY NodeTasks DEF CmdEnd, TakeEof, Take, TypeInv, Threads
<1>2. \A x \in Tasks : msgs'[x] \in {msgs[x], <<>>}
  BY DEF CmdEnd
<1>3. Step("cmd", <<>>)
  <2>1. Start("cmd", <<>>)
    BY <1>1 DEF Start, PlanOK
  <2> QED BY <1>1, <1>2, <2>1, CalmNothing, Starts
<1>4. CASE m # n
  BY <1>1, <1>3, <1>4, CalmNothing, TheirEnd
<1>5. CASE m = n
  <2>1. /\ Stage(n) = 9
        /\ \A k \in Letters(n) : ~ Out(k)
        /\ \A u \in Threads :
             ~ Has(EndOps(n, u), plan[u]) /\ ~ IsEof(word'[<<n, u>>])
    BY <1>1, <1>5, Ended DEF EndStage
  <2>2. Stage(n)' = 10 /\ StageOK(n)'
    <3>1. Stage(n)' = 10
      BY <1>1, <1>5 DEF Stage
    <3>2. \A t \in {"rcv", "deal", "snd"} : <<n, t>> \in ended' <=> <<n, t>> \in ended
      BY <1>1, <1>5 DEF TakeEof
    <3>3. n \in reason /\ UNCHANGED <<closed, born>>
      BY <1>1, <2>1 DEF Stage, CloseOK, StageOK, TakeEof
    <3> QED BY <1>1, <2>1, <3>1, <3>2, <3>3 DEF StageOK, CloseOK
  <2>3. \A k \in Letters(n) : Once(k)' /\ ~ Out(k)'
    <3>1. \A k \in Letters(n) : Once(k)' /\ (Out(k)' => Out(k))
      BY <1>1, <1>3, CalmNothing, CalmHas, LetterMoves, LetterStep
    <3> QED BY <2>1, <3>1
  <2>4. \A t \in Threads : ~ Ending(n, t)'
    BY <1>1, <2>1 DEF Ending, EndOps, Has, IsEof
  <2>5. \A t \in Threads, u \in Threads : t # u => ~ Has(EndOps(n, t), plan[u])'
    BY <1>1 DEF CloseOK, EndOps, Has
  <2> QED BY <2>2, <2>3, <2>4, <2>5 DEF CloseOK
<1> QED BY <1>4, <1>5

-----------------------------------------------------------------------------
(* The messages are handled.                                               *)

LEMMA Handled ==
  ASSUME TypeInv, NEW th \in Threads, NEW x, NEW type, Handling(th, x, type)
  PROVE  /\ plan[th] # <<>> /\ PlanOK /\ x \in Tasks /\ x[2] = th /\ x[1] \in Known
         /\ Head(plan[th]) = Op("msg", x, Arg(th))
         /\ Arg(th) \in Messages /\ Arg(th) = Msg(type, Arg(th).val)
         /\ type # "STOP" => Arg(th).val \in Nodes
         /\ type = "STOP" => Arg(th).val \in {"STOP_RCV", "STOP_DEAL", "STOP_SND", "CLOSED"}
         /\ UNCHANGED <<word, msgs, born, gone, ended>>
<1>1. /\ plan[th] # <<>> /\ PlanOK /\ x \in Tasks /\ x[2] = th /\ x[1] \in Known
      /\ Head(plan[th]) \in Ops /\ Head(plan[th]).op = "msg"
      /\ x = On(th) /\ Arg(th) \in Messages /\ Arg(th).type = type
  BY HeadFits DEF Handling, Doing, TypeInv, FittingOps
<1>2. Head(plan[th]) = Op("msg", x, Arg(th))
  BY <1>1 DEF Ops, Op, On, Arg
<1>3. Arg(th) = Msg(type, Arg(th).val)
  BY <1>1 DEF Messages, Msg
<1> QED BY <1>1, <1>2, <1>3, HandlingTypes

LEMMA HandledLetter ==
  ASSUME TypeInv, NEW th \in Threads, NEW x, NEW type, Handling(th, x, type),
         NEW n, NEW k \in Letters(n), k.to = x, Arg(th) \in k.mail
  PROVE  Consumes(th, k)
BY Handled DEF Consumes, ReadOps

LEMMA QuietHandler ==
  ASSUME TypeInv, NEW n \in Nodes, CloseOK(n), NEW th \in Threads, plan[th] # <<>>,
         NEW ops \in Seq(Ops), GoOn(th, ops), Calm(ops, n), UNCHANGED <<word, msgs>>,
         SameMarks(n)
  PROVE  CloseOK(n)'
<1>1. PlanOK /\ Step(th, ops)
  BY GoesOn DEF TypeInv
<1>2. \A t \in Threads : IsEof(word'[<<n, t>>]) => Ending(n, t)
  BY DEF Ending, IsEof
<1> QED BY <1>1, <1>2, QuietStep

\* One letter answers another.
LEMMA Answered ==
  ASSUME TypeInv, NEW n \in Nodes, CloseOK(n), NEW th \in Threads,
         NEW old \in Letters(n), Consumes(th, old),
         NEW new \in Letters(n), new.by = th, new.stage # old.stage, NEW m \in new.mail,
         GoOn(th, Give(new.to, m)), UNCHANGED <<word, msgs>>,
         StageOK(n)', Stage(n)' = new.stage
  PROVE  CloseOK(n)'
<1> DEFINE ops == Give(new.to, m)
<1>1. PlanOK /\ plan[th] # <<>>
  BY DEF TypeInv, Consumes
<1>2. /\ Stage(n) = old.stage
      /\ \A k \in Letters(n) : Out(k) => k = old
      /\ \A t \in Threads : ~ Ending(n, t)
  BY <1>1, Consuming
<1>3. ops = <<>> \o Give(new.to, m)
  BY DEF Give
<1>4. /\ ops \in Seq(Ops)
      /\ One(WriteOps(new), ops)
      /\ \A k \in Letters(n) : k # new => ~ Has(WriteOps(k), ops)
      /\ \A k \in Letters(n) : ~ Has(ReadOps(k), ops)
      /\ \A u \in Threads : ~ Has(EndOps(n, u), ops)
  <2> HIDE DEF ops
  <2> QED BY <1>3, CalmNothing, GiveNew
<1>5. Step(th, ops)
  BY <1>1, GoesOn
<1>6. \A t \in Threads : ~ Has(EndOps(n, t), plan[t]) /\ ~ IsEof(word'[<<n, t>>])
  BY <1>2 DEF Ending, IsEof
<1> HIDE DEF ops
<1> QED BY <1>1, <1>2, <1>4, <1>5, <1>6, Advance

\* A letter is answered by the end of the task.
LEMMA AnsweredEnd ==
  ASSUME TypeInv, NEW n \in Nodes, CloseOK(n), NEW th \in Threads,
         NEW old \in Letters(n), Consumes(th, old),
         GoOn(th, EndTask(<<n, th>>)), UNCHANGED <<word, msgs>>,
         StageOK(n)', Stage(n)' = EndStage[th]
  PROVE  CloseOK(n)'
<1>1. PlanOK /\ Step(th, EndTask(<<n, th>>))
  BY GoesOn DEF TypeInv, Consumes
<1> QED BY <1>1, Finish

LEMMA OthersTask ==
  ASSUME NEW n \in Nodes, NEW m \in Nodes, m # n, NEW th \in Threads
  PROVE  EndTask(<<m, th>>) \in Seq(Ops) /\ Calm(EndTask(<<m, th>>), n)
<1>1. <<m, th>> \in Tasks
  BY NodeTasks
<1>2. EndTask(<<m, th>>) \in Seq(Ops)
  BY <1>1, OpTypes DEF EndTask
<1> QED BY <1>1, <1>2, CalmOps DEF EndTask

LEMMA CloseCtrl ==
  ASSUME TypeInv, NEW n \in Nodes, CloseOK(n), NEW th \in Pollers, CtrlAdd(th) \/ CtrlDel(th)
  PROVE  CloseOK(n)'
<1>1. th \in Threads /\ th \in {"rcv", "snd"}
  BY DEF Threads, Pollers
<1>2. SameMarks(n)
  BY DEF CtrlAdd, CtrlDel, Handling, SameMarks, fields
<1>3. CASE CtrlAdd(th)
  <2>1. plan[th] # <<>> /\ UNCHANGED <<word, msgs>> /\ GoOn(th, <<>>)
    BY <1>1, <1>3, Handled DEF CtrlAdd
  <2> QED BY <1>1, <1>2, <2>1, CalmNothing, QuietHandler
<1>4. CASE CtrlDel(th)
  <2> DEFINE m == Arg(th).val
  <2>1. /\ plan[th] # <<>> /\ UNCHANGED <<word, msgs>> /\ GoOn(th, EndTask(<<m, th>>))
        /\ m \in Nodes /\ Arg(th) = Msg("DEL_FD", m)
    BY <1>1, <1>4, Handled DEF CtrlDel
  <2>2. CASE m # n
    BY <1>1, <1>2, <2>1, <2>2, OthersTask, QuietHandler
  <2>3. CASE m = n
    <3> DEFINE old == DelFd(n, th, EndStage[th])
    <3>1. EndStage["rcv"] = 1 /\ EndStage["snd"] = 6
      BY DEF EndStage, Threads
    <3>2. old \in Letters(n) /\ old.to = <<Ctrl, th>> /\ old.mail = {Msg("DEL_FD", n)}
          /\ old.stage = EndStage[th]
      BY <1>1, <3>1 DEF Letters, DelFd, Letter
    <3> HIDE DEF old
    <3>3. Consumes(th, old)
      BY <1>1, <1>4, <2>1, <2>3, <3>2, HandledLetter DEF CtrlDel
    <3>4. Stage(n) = EndStage[th]
      BY <1>1, <3>2, <3>3, Consuming DEF TypeInv
    <3>5. StageOK(n)' /\ Stage(n)' = EndStage[th]
      BY <1>2, <3>4, StageKept DEF CloseOK
    <3> QED BY <1>1, <2>1, <2>3, <3>2, <3>3, <3>5, AnsweredEnd
  <2> QED BY <2>2, <2>3
<1> QED BY <1>3, <1>4

LEMMA CloseDealMsg ==
  ASSUME TypeInv, NEW n \in Nodes, CloseOK(n), NEW m \in Nodes, NEW ok \in BOOLEAN,
         DealMsg(m, ok)
  PROVE  CloseOK(n)'
<1>1. "deal" \in Threads /\ Handling("deal", <<m, "deal">>, "DATA")
  BY DEF Threads, DealMsg
<1>2. plan["deal"] # <<>> /\ UNCHANGED <<word, msgs>>
  BY <1>1, Handled
<1>3. SameMarks(n)
  BY <1>1 DEF DealMsg, Handling, SameMarks
<1>4. \E ops \in Seq(Ops) : GoOn("deal", ops) /\ Calm(ops, n)
  <2>1. CASE m \in stopDeal
    BY <2>1, CalmNothing DEF DealMsg
  <2>2. CASE m \notin stopDeal
    <3>1. PICK k \in 0 .. MaxData - data : \E t \in [1 .. k -> Reachable \X {"snd", "deal"}] :
            GoOn("deal", Deliver(t) \o (IF ok THEN <<>> ELSE Unreg(m)))
      BY <2>2 DEF DealMsg
    <3>2. PICK t \in [1 .. k -> Reachable \X {"snd", "deal"}] :
            GoOn("deal", Deliver(t) \o (IF ok THEN <<>> ELSE Unreg(m)))
      BY <3>1
    <3>3. k \in Nat /\ Reachable \X {"snd", "deal"} \subseteq Nodes \X {"snd", "deal"}
      BY DEF Reachable, TypeInv, StateOK
    <3> DEFINE err == IF ok THEN <<>> ELSE Unreg(m)
    <3>4. Deliver(t) \in Seq(Ops) /\ Calm(Deliver(t), n)
      BY <3>3, CalmDeliver
    <3>5. err \in Seq(Ops) /\ Calm(err, n)
      BY CalmSends, CalmNothing
    <3>6. Deliver(t) \o err \in Seq(Ops) /\ Calm(Deliver(t) \o err, n)
      BY <3>4, <3>5, CalmConcat
    <3> QED BY <3>2, <3>6
  <2> QED BY <2>1, <2>2
<1> QED BY <1>1, <1>2, <1>3, <1>4, QuietHandler

LEMMA CloseDealStop ==
  ASSUME TypeInv, NEW n \in Nodes, CloseOK(n), NEW m \in Nodes, DealStop(m)
  PROVE  CloseOK(n)'
<1> DEFINE give == Give(<<m, "deal">>, Msg("ALLOW_EXIT", m))
<1>1. "deal" \in Threads /\ Handling("deal", <<m, "deal">>, "STOP")
  BY DEF Threads, DealStop
<1>2. plan["deal"] # <<>> /\ PlanOK /\ UNCHANGED <<word, msgs, born, gone, ended>>
      /\ Arg("deal") \in Messages /\ Arg("deal").type = "STOP"
  BY <1>1, Handled DEF Msg
<1>3. GoOn("deal", give) /\ closed' = closed \cup {m} /\ UNCHANGED <<reason, status>>
  BY DEF DealStop
<1>4. Msg("ALLOW_EXIT", m) \in Messages /\ <<m, "deal">> \in Tasks /\ m # Ctrl
  BY <1>1, MsgTypes, NodeTasks
<1>5. CASE m # n
  <2>1. give \in Seq(Ops)
    BY SendsFit, PlansOps
  <2>2. Calm(give, n)
    BY <1>4, <1>5, CalmOps
  <2>3. SameMarks(n)
    BY <1>2, <1>3, <1>5 DEF SameMarks
  <2> QED BY <1>1, <1>2, <1>3, <2>1, <2>2, <2>3, QuietHandler
<1>6. CASE m = n
  <2> DEFINE old == ToDealer(n, "cmd", "STOP", 3)
             new == ToDealer(n, "deal", "ALLOW_EXIT", 4)
  <2>1. /\ old \in Letters(n) /\ old.to = <<n, "deal">> /\ Arg("deal") \in old.mail
        /\ old.stage = 3
    BY <1>2 DEF Letters, ToDealer, Letter
  <2>2. /\ new \in Letters(n) /\ new.to = <<n, "deal">> /\ Msg("ALLOW_EXIT", n) \in new.mail
        /\ new.by = "deal" /\ new.stage = 4
    BY <1>4, <1>6 DEF Letters, ToDealer, Letter, Msg
  <2> HIDE DEF old, new
  <2>3. Consumes("deal", old)
    BY <1>1, <1>6, <2>1, HandledLetter
  <2>4. Stage(n) = 3
    BY <1>1, <1>2, <2>1, <2>3, Consuming
  <2>5. Stage(n)' = 4
    BY <1>2, <1>3, <1>6, <2>4 DEF Stage, StageOK, CloseOK
  <2>6. StageOK(n)'
    BY <1>2, <1>3, <1>6, <2>4, <2>5 DEF StageOK, CloseOK
  <2> QED BY <1>1, <1>2, <1>3, <1>6, <2>1, <2>2, <2>3, <2>5, <2>6, Answered
<1> QED BY <1>5, <1>6

LEMMA CloseDealExit ==
  ASSUME TypeInv, NEW n \in Nodes, CloseOK(n), NEW m \in Nodes, DealExit(m)
  PROVE  CloseOK(n)'
<1>1. "deal" \in Threads /\ Handling("deal", <<m, "deal">>, "ALLOW_EXIT")
  BY DEF Threads, DealExit
<1>2. plan["deal"] # <<>> /\ PlanOK /\ UNCHANGED <<word, msgs>>
      /\ Arg("deal") \in Messages /\ Arg("deal").type = "ALLOW_EXIT"
  BY <1>1, Handled DEF Msg
<1>3. GoOn("deal", EndTask(<<m, "deal">>))
  BY DEF DealExit
<1>4. SameMarks(n)
  BY DEF DealExit, Handling, SameMarks, fields
<1>5. CASE m # n
  BY <1>1, <1>2, <1>3, <1>4, <1>5, OthersTask, QuietHandler
<1>6. CASE m = n
  <2> DEFINE old == ToDealer(n, "deal", "ALLOW_EXIT", 4)
  <2>1. /\ old \in Letters(n) /\ old.to = <<n, "deal">> /\ Arg("deal") \in old.mail
        /\ old.stage = 4
    BY <1>2 DEF Letters, ToDealer, Letter
  <2> HIDE DEF old
  <2>2. Consumes("deal", old)
    BY <1>1, <1>6, <2>1, HandledLetter
  <2>3. Stage(n) = 4 /\ EndStage["deal"] = 4
    BY <1>1, <1>2, <2>1, <2>2, Consuming DEF EndStage
  <2>4. StageOK(n)' /\ Stage(n)' = EndStage["deal"]
    BY <1>4, <2>3, StageKept DEF CloseOK
  <2> QED BY <1>1, <1>2, <1>3, <1>6, <2>1, <2>2, <2>4, AnsweredEnd
<1> QED BY <1>5, <1>6

LEMMA CloseRegist ==
  ASSUME TypeInv, NEW n \in Nodes, CloseOK(n), NEW m \in Nodes, CmdRegist(m)
  PROVE  CloseOK(n)'
<1> DEFINE a == Give(<<Ctrl, "rcv">>, Msg("ADD_FD", m))
           b == Give(<<Ctrl, "snd">>, Msg("ADD_FD", m))
<1>1. "cmd" \in Threads /\ Handling("cmd", <<m, "cmd">>, "REGIST")
  BY DEF Threads, CmdRegist
<1>2. plan["cmd"] # <<>> /\ UNCHANGED <<word, msgs>> /\ GoOn("cmd", a \o b)
  BY <1>1, Handled DEF CmdRegist
<1>3. a \in Seq(Ops) /\ Calm(a, n) /\ b \in Seq(Ops) /\ Calm(b, n)
  BY CalmSends
<1>4. SameMarks(n)
  BY <1>1 DEF CmdRegist, Handling, SameMarks
<1> HIDE DEF a, b
<1>5. a \o b \in Seq(Ops) /\ Calm(a \o b, n)
  BY <1>3, CalmConcat
<1> QED BY <1>1, <1>2, <1>4, <1>5, QuietHandler

\* The first request closes the node.
LEMMA FirstUnreg ==
  ASSUME TypeInv, NEW n \in Nodes, CloseOK(n), CmdUnreg(n), n \notin reason
  PROVE  CloseOK(n)'
<1> DEFINE new == DelFd(n, "rcv", 1)
           give == Give(<<Ctrl, "rcv">>, Msg("DEL_FD", n))
<1>1. "cmd" \in Threads /\ Handling("cmd", <<n, "cmd">>, "UNREG")
  BY DEF Threads, CmdUnreg
<1>2. /\ plan["cmd"] # <<>> /\ PlanOK /\ n \in Known
      /\ UNCHANGED <<word, msgs, born, gone, ended>>
  BY <1>1, Handled
<1>3. /\ GoOn("cmd", give) /\ reason' = reason \cup {n} /\ UNCHANGED closed
      /\ status' = [status EXCEPT ![n] = "CLOSING"]
  BY DEF CmdUnreg
<1>4. n \in born
  BY <1>2, NodeTasks DEF Known
<1>5. status'[n] = "CLOSING"
  BY <1>3 DEF TypeInv, StateOK
<1>6. Stage(n) = 0
  BY DEF Stage, StageOK, CloseOK
<1>7. Stage(n)' = 1
  BY <1>2, <1>3, <1>5, <1>6 DEF Stage, StageOK, CloseOK
<1>8. StageOK(n)'
  BY <1>2, <1>3, <1>4, <1>6, <1>7 DEF StageOK, CloseOK
<1>9. /\ new \in Letters(n) /\ new.by = "cmd" /\ new.to = <<Ctrl, "rcv">> /\ new.stage = 1
      /\ Msg("DEL_FD", n) \in new.mail
  BY DEF Letters, DelFd, Letter
<1>10. give = <<>> \o Give(new.to, Msg("DEL_FD", n))
  BY <1>9 DEF Give
<1> HIDE DEF new, give
<1>11. /\ give \in Seq(Ops)
       /\ One(WriteOps(new), give)
       /\ \A k \in Letters(n) : k # new => ~ Has(WriteOps(k), give)
       /\ \A k \in Letters(n) : ~ Has(ReadOps(k), give)
       /\ \A u \in Threads : ~ Has(EndOps(n, u), give)
  BY <1>9, <1>10, CalmNothing, GiveNew
<1>12. Step("cmd", give)
  BY <1>1, <1>2, <1>3, GoesOn
<1>13. \A k \in Letters(n) : ~ Out(k)
  BY <1>6, LetterTypes DEF CloseOK, LetterType
<1>14. \A t \in Threads : ~ Ending(n, t)
  BY <1>6 DEF CloseOK, EndStage, Threads
<1>15. \A t \in Threads : ~ Has(EndOps(n, t), plan[t]) /\ ~ IsEof(word'[<<n, t>>])
  BY <1>2, <1>14 DEF Ending, IsEof
<1> QED BY <1>1, <1>2, <1>6, <1>7, <1>8, <1>9, <1>11, <1>12, <1>13, <1>15, Advance

LEMMA CloseUnreg ==
  ASSUME TypeInv, NEW n \in Nodes, CloseOK(n), NEW m \in Nodes, CmdUnreg(m)
  PROVE  CloseOK(n)'
<1>1. "cmd" \in Threads /\ Handling("cmd", <<m, "cmd">>, "UNREG")
  BY DEF Threads, CmdUnreg
<1>2. plan["cmd"] # <<>> /\ UNCHANGED <<word, msgs, born, gone, ended>>
  BY <1>1, Handled
<1>3. CASE m = n /\ n \notin reason
  BY <1>3, FirstUnreg
<1>4. CASE m # n \/ n \in reason
  <2>1. SameMarks(n)
    BY <1>2, <1>4 DEF CmdUnreg, SameMarks, TypeInv, StateOK
  <2>2. \E ops \in Seq(Ops) : GoOn("cmd", ops) /\ Calm(ops, n)
    <3>1. CASE m \in reason
      BY <3>1, CalmNothing DEF CmdUnreg
    <3>2. CASE m \notin reason
      <4> DEFINE give == Give(<<Ctrl, "rcv">>, Msg("DEL_FD", m))
      <4>1. give \in Seq(Ops)
        BY SendsFit, PlansOps DEF Pollers
      <4>2. Msg("DEL_FD", m) \in Messages /\ <<Ctrl, "rcv">> \in Tasks
            /\ Msg("DEL_FD", m).type = "DEL_FD" /\ Msg("DEL_FD", m).val # n
        BY <1>4, <3>2, MsgTypes, NodeTasks DEF Msg, Pollers
      <4>3. Calm(give, n)
        BY <4>2, CalmOps
      <4> QED BY <3>2, <4>1, <4>3 DEF CmdUnreg
    <3> QED BY <3>1, <3>2
  <2> QED BY <1>1, <1>2, <2>1, <2>2, QuietHandler
<1> QED BY <1>3, <1>4

\* What a stop that is not the last is answered with.
StopLetter(n, s) ==
  CASE s = "STOP_RCV"  -> StopOf(n, "rcv", s, 2)
    [] s = "STOP_DEAL" -> StopOf(n, "deal", s, 5)
    [] s = "STOP_SND"  -> StopOf(n, "snd", s, 7)
    [] s = "CLOSED"    -> StopOf(n, "cmd", s, 8)

NextLetter(n, s) ==
  CASE s = "STOP_RCV"  -> ToDealer(n, "cmd", "STOP", 3)
    [] s = "STOP_DEAL" -> DelFd(n, "snd", 6)
    [] s = "STOP_SND"  -> StopOf(n, "cmd", "CLOSED", 8)

NextMsg(n, s) ==
  CASE s = "STOP_RCV"  -> Msg("STOP", "STOP_DEAL")
    [] s = "STOP_DEAL" -> Msg("DEL_FD", n)
    [] s = "STOP_SND"  -> Msg("STOP", "CLOSED")

LEMMA StopLetters ==
  ASSUME NEW n \in Nodes
  PROVE  /\ \A s \in {"STOP_RCV", "STOP_DEAL", "STOP_SND", "CLOSED"} :
              LET k == StopLetter(n, s) IN
              /\ k \in Letters(n) /\ k.to = <<n, "cmd">> /\ Msg("STOP", s) \in k.mail
              /\ k.stage = CASE s = "STOP_RCV" -> 2 [] s = "STOP_DEAL" -> 5
                             [] s = "STOP_SND" -> 7 [] s = "CLOSED" -> 8
         /\ \A s \in {"STOP_RCV", "STOP_DEAL", "STOP_SND"} :
              LET k == NextLetter(n, s) IN
              /\ k \in Letters(n) /\ k.by = "cmd" /\ NextMsg(n, s) \in k.mail
              /\ NextStop(n, s) = Give(k.to, NextMsg(n, s))
              /\ k.stage = CASE s = "STOP_RCV" -> 3 [] s = "STOP_DEAL" -> 6
                             [] s = "STOP_SND" -> 8
<1>1. ASSUME NEW s \in {"STOP_RCV", "STOP_DEAL", "STOP_SND", "CLOSED"}
      PROVE  LET k == StopLetter(n, s) IN
              /\ k \in Letters(n) /\ k.to = <<n, "cmd">> /\ Msg("STOP", s) \in k.mail
              /\ k.stage = CASE s = "STOP_RCV" -> 2 [] s = "STOP_DEAL" -> 5
                             [] s = "STOP_SND" -> 7 [] s = "CLOSED" -> 8
  BY DEF StopLetter, Letters, StopOf, Letter
<1>2. Msg("STOP", "STOP_DEAL") \in Messages /\ Msg("STOP", "STOP_DEAL").type = "STOP"
  BY MsgTypes DEF Msg
<1> DEFINE k(s) == NextLetter(n, s)
<1>3. /\ k("STOP_RCV") \in Letters(n) /\ k("STOP_RCV").by = "cmd"
      /\ k("STOP_RCV").to = <<n, "deal">> /\ k("STOP_RCV").stage = 3
      /\ NextMsg(n, "STOP_RCV") = Msg("STOP", "STOP_DEAL")
      /\ NextMsg(n, "STOP_RCV") \in k("STOP_RCV").mail
      /\ NextStop(n, "STOP_RCV") = Give(<<n, "deal">>, Msg("STOP", "STOP_DEAL"))
  BY <1>2 DEF NextLetter, NextMsg, NextStop, Letters, ToDealer, Letter
<1>4. /\ k("STOP_DEAL") \in Letters(n) /\ k("STOP_DEAL").by = "cmd"
      /\ k("STOP_DEAL").to = <<Ctrl, "snd">> /\ k("STOP_DEAL").stage = 6
      /\ NextMsg(n, "STOP_DEAL") = Msg("DEL_FD", n)
      /\ NextMsg(n, "STOP_DEAL") \in k("STOP_DEAL").mail
      /\ NextStop(n, "STOP_DEAL") = Give(<<Ctrl, "snd">>, Msg("DEL_FD", n))
  BY DEF NextLetter, NextMsg, NextStop, Letters, DelFd, Letter
<1>5. /\ k("STOP_SND") \in Letters(n) /\ k("STOP_SND").by = "cmd"
      /\ k("STOP_SND").to = <<n, "cmd">> /\ k("STOP_SND").stage = 8
      /\ NextMsg(n, "STOP_SND") = Msg("STOP", "CLOSED")
      /\ NextMsg(n, "STOP_SND") \in k("STOP_SND").mail
      /\ NextStop(n, "STOP_SND") = Give(<<n, "cmd">>, Msg("STOP", "CLOSED"))
  BY DEF NextLetter, NextMsg, NextStop, Letters, StopOf, Letter, Stop
<1> QED BY <1>1, <1>3, <1>4, <1>5

\* A stop of the node counts: the next part of it is stopped.
LEMMA StopCounts ==
  ASSUME TypeInv, NEW n \in Nodes, CloseOK(n),
         NEW s \in {"STOP_RCV", "STOP_DEAL", "STOP_SND", "CLOSED"},
         Handling("cmd", <<n, "cmd">>, "STOP"), Arg("cmd").val = s,
         status' = [status EXCEPT ![n] = s], GoOn("cmd", NextStop(n, s)),
         UNCHANGED <<reason, closed>>
  PROVE  CloseOK(n)'
<1> DEFINE old == StopLetter(n, s)
<1>1. "cmd" \in Threads
  BY DEF Threads
<1>2. /\ plan["cmd"] # <<>> /\ PlanOK /\ Arg("cmd") = Msg("STOP", s)
      /\ UNCHANGED <<word, msgs, born, gone, ended>>
  BY <1>1, Handled
<1>3. /\ old \in Letters(n) /\ old.to = <<n, "cmd">> /\ Msg("STOP", s) \in old.mail
      /\ old.stage = CASE s = "STOP_RCV" -> 2 [] s = "STOP_DEAL" -> 5
                       [] s = "STOP_SND" -> 7 [] s = "CLOSED" -> 8
  BY StopLetters
<1> HIDE DEF old
<1>4. Consumes("cmd", old)
  BY <1>1, <1>2, <1>3, HandledLetter
<1>5. Stage(n) = old.stage
  BY <1>1, <1>2, <1>3, <1>4, Consuming
<1>6. status'[n] = s
  BY DEF TypeInv, StateOK
<1>7. /\ StageOK(n)
      /\ n \in reason /\ n \notin gone /\ UNCHANGED <<reason, gone, closed, born, ended>>
  BY <1>2, <1>3, <1>5 DEF Stage, CloseOK
<1>8. Stage(n)' = CASE s = "STOP_RCV" -> 3 [] s = "STOP_DEAL" -> 6
                    [] s = "STOP_SND" -> 8 [] s = "CLOSED" -> 9
  <2>1. CASE s = "STOP_RCV"
    <3>1. Stage(n) = 2
      BY <1>3, <1>5, <2>1
    <3>2. n \notin closed /\ <<n, "deal">> \notin ended
      BY <1>7, <3>1 DEF StageOK
    <3> QED BY <1>6, <1>7, <2>1, <3>2 DEF Stage
  <2>2. CASE s = "STOP_DEAL"
    <3>1. Stage(n) = 5
      BY <1>3, <1>5, <2>2
    <3>2. <<n, "snd">> \notin ended
      BY <1>7, <3>1 DEF StageOK
    <3> QED BY <1>6, <1>7, <2>2, <3>2 DEF Stage
  <2>3. CASE s = "STOP_SND" \/ s = "CLOSED"
    BY <1>6, <1>7, <2>3 DEF Stage
  <2> QED BY <2>1, <2>2, <2>3
<1>9. StageOK(n)'
  BY <1>3, <1>5, <1>7, <1>8 DEF StageOK
<1>10. CASE s = "CLOSED"
  <2>1. NextStop(n, s) = EndTask(<<n, "cmd">>) /\ EndStage["cmd"] = 9
    BY <1>10 DEF NextStop, EndStage, Threads
  <2> QED BY <1>1, <1>2, <1>3, <1>4, <1>8, <1>9, <1>10, <2>1, AnsweredEnd
<1>11. CASE s # "CLOSED"
  <2> DEFINE new == NextLetter(n, s)
             m == NextMsg(n, s)
  <2>1. /\ new \in Letters(n) /\ new.by = "cmd" /\ m \in new.mail
        /\ NextStop(n, s) = Give(new.to, m)
        /\ new.stage = CASE s = "STOP_RCV" -> 3 [] s = "STOP_DEAL" -> 6
                         [] s = "STOP_SND" -> 8
    BY <1>11, StopLetters
  <2> HIDE DEF new, m
  <2>2. new.stage # old.stage /\ Stage(n)' = new.stage
    BY <1>3, <1>8, <1>11, <2>1
  <2> QED BY <1>1, <1>2, <1>3, <1>4, <1>9, <2>1, <2>2, Answered
<1> QED BY <1>10, <1>11

LEMMA CloseCmdStop ==
  ASSUME TypeInv, NEW n \in Nodes, CloseOK(n), NEW m \in Nodes, CmdStop(m)
  PROVE  CloseOK(n)'
<1> DEFINE s == Arg("cmd").val
<1>1. "cmd" \in Threads /\ Handling("cmd", <<m, "cmd">>, "STOP")
  BY DEF Threads, CmdStop
<1>2. /\ plan["cmd"] # <<>> /\ UNCHANGED <<word, msgs, born, gone, ended>>
      /\ s \in {"STOP_RCV", "STOP_DEAL", "STOP_SND", "CLOSED"}
  BY <1>1, Handled
<1>3. UNCHANGED <<reason, closed>>
  BY DEF CmdStop
<1>4. CASE UNCHANGED status /\ GoOn("cmd", <<>>)
  <2>1. SameMarks(n)
    BY <1>2, <1>3, <1>4 DEF SameMarks
  <2> QED BY <1>1, <1>2, <1>4, <2>1, CalmNothing, QuietHandler
<1>5. CASE status' = [status EXCEPT ![m] = s] /\ GoOn("cmd", NextStop(m, s))
  <2>1. CASE m = n
    BY <1>1, <1>2, <1>3, <1>5, <2>1, StopCounts
  <2>2. CASE m # n
    <3>1. SameMarks(n)
      BY <1>2, <1>3, <1>5, <2>2 DEF SameMarks, TypeInv, StateOK
    <3>2. NextStop(m, s) \in Seq(Ops) /\ Calm(NextStop(m, s), n)
      <4>1. /\ <<m, "deal">> \in Tasks /\ <<Ctrl, "snd">> \in Tasks /\ m # Ctrl
            /\ Msg("STOP", "STOP_DEAL") \in Messages
            /\ Msg("DEL_FD", m) \in Messages /\ Msg("DEL_FD", m).type = "DEL_FD"
            /\ Msg("DEL_FD", m).val # n
        BY <2>2, NodeTasks, MsgTypes DEF Threads, Pollers, Msg
      <4>2. CASE s = "STOP_RCV"
        <5>1. Give(<<m, "deal">>, Msg("STOP", "STOP_DEAL")) \in Seq(Ops)
          BY SendsFit, PlansOps
        <5>2. Calm(Give(<<m, "deal">>, Msg("STOP", "STOP_DEAL")), n)
          BY <2>2, <4>1, CalmOps
        <5> QED BY <4>2, <5>1, <5>2 DEF NextStop
      <4>3. CASE s = "STOP_DEAL"
        <5>1. Give(<<Ctrl, "snd">>, Msg("DEL_FD", m)) \in Seq(Ops)
          BY SendsFit, PlansOps DEF Pollers
        <5>2. Calm(Give(<<Ctrl, "snd">>, Msg("DEL_FD", m)), n)
          BY <4>1, CalmOps
        <5> QED BY <4>3, <5>1, <5>2 DEF NextStop
      <4>4. CASE s = "STOP_SND"
        BY <2>2, <4>4, TheirStop DEF NextStop
      <4>5. CASE s = "CLOSED"
        BY <1>1, <2>2, <4>5, OthersTask DEF NextStop
      <4> QED BY <1>2, <4>2, <4>3, <4>4, <4>5
    <3> QED BY <1>1, <1>2, <1>5, <3>1, <3>2, QuietHandler
  <2> QED BY <2>1, <2>2
<1> QED BY <1>4, <1>5 DEF CmdStop

-----------------------------------------------------------------------------
(* Every connection is closed stage by stage.                              *)

LEMMA CloseInit == Init => \A n \in Nodes : CloseOK(n)
<1> SUFFICES ASSUME Init, NEW n \in Nodes PROVE CloseOK(n)
  OBVIOUS
<1>1. Stage(n) = 0 /\ StageOK(n)
  BY DEF Init, Stage, StageOK
<1>2. \A E : \A th \in Threads : ~ Has(E, plan[th]) /\ One(E, plan[th])
  BY HasNothing DEF Init
<1>3. \A E : \A x \in Tasks : ~ Has(E, msgs[x]) /\ One(E, msgs[x])
  BY HasNothing DEF Init
<1>4. ASSUME NEW k \in Letters(n) PROVE Once(k) /\ ~ Out(k)
  <2>1. k.by \in Threads /\ k.to \in Tasks /\ k.to[2] \in Threads
    BY LetterTypes DEF LetterType, Tasks, Threads, Pollers
  <2> QED BY <1>2, <1>3, <2>1 DEF Once, Out
<1>5. ASSUME NEW t \in Threads PROVE ~ Ending(n, t)
  <2>1. <<n, t>> \in Tasks /\ \A c : ~ IsEof(Zero) /\ ~ IsEof(CheckoutWord(Zero, c))
    BY NodeTasks DEF IsEof, Zero, CheckoutWord
  <2>2. ~ IsEof(word[<<n, t>>])
    BY <2>1 DEF Init
  <2> QED BY <1>2, <2>2 DEF Ending
<1> QED BY <1>1, <1>2, <1>4, <1>5 DEF CloseOK

LEMMA CloseServe ==
  ASSUME TypeInv, NEW n \in Nodes, CloseOK(n), NEW x \in Tasks, Serve(x)
  PROVE  CloseOK(n)'
<1>1. x[1] # Ctrl => x[1] \in Nodes
  BY DEF Tasks
<1> QED
  BY <1>1, CloseDrain, CloseReadEnd, CloseRead, CloseWriteEnd, CloseWrite, CloseDealEnd,
     CloseCmdEnd
  DEF Serve

LEMMA CloseHandle ==
  ASSUME TypeInv, NEW n \in Nodes, CloseOK(n), NEW th \in Threads, HandleMsg(th)
  PROVE  CloseOK(n)'
BY CloseCtrl, CloseDealStop, CloseDealExit, CloseDealMsg, CloseRegist, CloseUnreg,
   CloseCmdStop
DEF HandleMsg

LEMMA CloseStutters ==
  ASSUME NEW n \in Nodes, CloseOK(n), UNCHANGED vars PROVE CloseOK(n)'
<1>1. UNCHANGED <<word, msgs, plan, reason, status, born, gone, ended, closed>>
  BY DEF vars, mail, fields, life
<1>2. Stage(n)' = Stage(n) /\ StageOK(n)'
  BY <1>1, LifeSame, StageKept DEF CloseOK, SameLife
<1>3. \A k \in Letters(n) : Once(k)' /\ (Out(k)' => Out(k))
  <2>1. \A E, th : /\ Has(E, plan'[th]) <=> Has(E, plan[th])
                   /\ One(E, plan'[th]) <=> One(E, plan[th])
    BY <1>1
  <2>2. \A E, x : /\ Has(E, msgs'[x]) <=> Has(E, msgs[x])
                  /\ One(E, msgs'[x]) <=> One(E, msgs[x])
    BY <1>1
  <2>3. \A k : Out(k)' <=> \/ Has(WriteOps(k), plan'[k.by])
                           \/ Has(k.mail, msgs'[k.to])
                           \/ Has(ReadOps(k), plan'[k.to[2]])
    BY DEF Out, Has, WriteOps, ReadOps
  <2>4. \A k : Out(k)' => Out(k)
    BY <2>1, <2>2, <2>3 DEF Out
  <2>5. ASSUME NEW k, Once(k) PROVE Once(k)'
    <3> DEFINE W == WriteOps(k)
               R == ReadOps(k)
    <3>1. W' = W /\ R' = R
      BY DEF WriteOps, ReadOps
    <3>2. /\ One(W, plan'[k.by]) /\ One(k.mail, msgs'[k.to]) /\ One(R, plan'[k.to[2]])
          /\ ~ (Has(W, plan'[k.by]) /\ Has(k.mail, msgs'[k.to]))
          /\ ~ (Has(W, plan'[k.by]) /\ Has(R, plan'[k.to[2]]))
          /\ ~ (Has(k.mail, msgs'[k.to]) /\ Has(R, plan'[k.to[2]]))
          /\ \A th \in Threads \ {k.by} : ~ Has(W, plan'[th])
      BY <2>1, <2>2, <2>5 DEF Once
    <3> HIDE DEF W, R
    <3> QED BY <3>1, <3>2 DEF Once, Has, One, W, R
  <2> QED BY <2>4, <2>5 DEF CloseOK
<1>4. \A t \in Threads : /\ Ending(n, t)' => Ending(n, t)
                         /\ \A u \in Threads : t # u => ~ Has(EndOps(n, t), plan'[u])
  BY <1>1 DEF CloseOK, Ending, Has, EndOps, IsEof
<1> QED BY <1>2, <1>3, <1>4, CloseKept

LEMMA CloseNext ==
  TypeInv /\ (\A n \in Nodes : CloseOK(n)) /\ [Next]_vars => (\A n \in Nodes : CloseOK(n))'
<1> SUFFICES ASSUME TypeInv, \A n \in Nodes : CloseOK(n), [Next]_vars, NEW n \in Nodes
             PROVE  CloseOK(n)'
  OBVIOUS
<1>1. CloseOK(n)
  OBVIOUS
<1>2. CASE \E m \in Nodes : Accept(m)
  BY <1>1, <1>2, CloseAccept
<1>3. CASE \E th \in Pollers, m \in Nodes : PollReady(th, m) \/ PollError(th, m)
  BY <1>1, <1>3, ClosePoll
<1>4. CASE \E x \in Tasks : Serve(x)
  BY <1>1, <1>4, CloseServe
<1>5. CASE \E th \in Threads : Proceed(th)
  BY <1>1, <1>5, ProceedSteps, CloseQueue, ClosePost, CloseReturned, CloseHandle
<1>6. CASE UNCHANGED vars
  BY <1>1, <1>6, CloseStutters
<1> QED BY <1>2, <1>3, <1>4, <1>5, <1>6 DEF Next

Closes == TypeInv /\ \A n \in Nodes : CloseOK(n)

LEMMA ClosesHolds == Spec => []Closes
<1>1. Init => Closes
  BY TypeInit, CloseInit DEF Closes
<1>2. Closes /\ [Next]_vars => Closes'
  BY TypeNext, CloseNext DEF Closes
<1> QED BY <1>1, <1>2, PTL DEF Spec

-----------------------------------------------------------------------------
(* The phases of NodeClose.                                                *)

LEMMA PhaseOfStage ==
  ASSUME NEW n, StageOK(n)
  PROVE  Phase(n) = CASE Stage(n) = 10 -> "destroyed"
                      [] Stage(n) \in 7 .. 9 -> "sndEnded"
                      [] Stage(n) \in 5 .. 6 -> "dealEnded"
                      [] Stage(n) = 4 -> "closed"
                      [] Stage(n) \in 2 .. 3 -> "rcvEnded"
                      [] Stage(n) \in 0 .. 1 -> IF n \in born THEN "open" ELSE "none"
<1>1. Stage(n) \in 0 .. 10
  BY StageTypes
<1>2. n \in gone <=> Stage(n) = 10
  BY DEF Stage
<1>3. /\ <<n, "rcv">> \in ended <=> Stage(n) >= 2
      /\ n \in closed <=> Stage(n) >= 4
      /\ <<n, "deal">> \in ended <=> Stage(n) >= 5
      /\ <<n, "snd">> \in ended <=> Stage(n) >= 7
  BY DEF StageOK
<1> QED BY <1>1, <1>2, <1>3 DEF Phase

\* Who has moved from one phase to the next, while nobody else has.
Moves(m, from, to) ==
  /\ Phase(m) = from /\ Phase(m)' = to
  /\ \A n \in Nodes : n # m => Phase(n)' = Phase(n)

LEMMA PhaseMoves ==
  ASSUME NEW m \in Nodes, NEW from, NEW to, Moves(m, from, to)
  PROVE  Order!Advance(m, from, to)
<1> DEFINE phase == [n \in Nodes |-> Phase(n)]
<1>1. phase[m] = from
  BY DEF Moves
<1>2. phase' = [phase EXCEPT ![m] = to]
  BY DEF Moves
<1> QED BY <1>1, <1>2 DEF Order!Advance

LEMMA PhasesKept ==
  ASSUME UNCHANGED <<born, gone, ended, closed>>
  PROVE  UNCHANGED [n \in Nodes |-> Phase(n)]
BY DEF Phase

\* A task of m has ended: nobody else has moved.
LEMMA OthersStay ==
  ASSUME NEW m \in Nodes, NEW t \in Threads, TakeEof(<<m, t>>), gone' \subseteq gone \cup {m},
         gone \subseteq gone'
  PROVE  \A n \in Nodes : n # m => Phase(n)' = Phase(n)
<1> SUFFICES ASSUME NEW n \in Nodes, n # m PROVE Phase(n)' = Phase(n)
  OBVIOUS
<1>1. UNCHANGED <<born, closed>> /\ ended' = ended \cup {<<m, t>>}
  BY DEF TakeEof
<1>2. (n \in gone' <=> n \in gone) /\ \A u : <<n, u>> \in ended' <=> <<n, u>> \in ended
  BY <1>1
<1> QED BY <1>1, <1>2 DEF Phase

LEMMA OrderAccept ==
  ASSUME Closes, NEW m \in Nodes, Accept(m) PROVE Order!Next
<1>1. m \notin born /\ born' = born \cup {m} /\ UNCHANGED <<gone, ended, closed>>
  BY DEF Accept
<1>2. Stage(m) = 0 /\ StageOK(m)
  BY <1>1 DEF Closes, CloseOK, Stage, StageOK
<1>3. Phase(m) = "none"
  BY <1>1, <1>2, PhaseOfStage
<1>4. Phase(m)' = "open"
  BY <1>1, <1>3 DEF Phase
<1>5. \A n \in Nodes : n # m => Phase(n)' = Phase(n)
  BY <1>1 DEF Phase
<1> QED BY <1>3, <1>4, <1>5, PhaseMoves DEF Moves, Order!Next, Order!Accept

LEMMA OrderEnd ==
  ASSUME Closes, NEW m \in Nodes, ReadEnd(m) \/ DealEnd(m) \/ WriteEnd(m) PROVE Order!Next
<1>1. PICK t \in {"rcv", "deal", "snd"} :
        /\ TakeEof(<<m, t>>) /\ UNCHANGED <<reason, status, gone>>
        /\ t \in Threads
  BY DEF ReadEnd, DealEnd, WriteEnd, fields, Threads
<1>2. EndStage["rcv"] = 1 /\ EndStage["deal"] = 4 /\ EndStage["snd"] = 6
  BY DEF EndStage, Threads
<1>3. TypeInv /\ CloseOK(m) /\ StageOK(m)
  BY DEF Closes, CloseOK
<1>4. Stage(m) = EndStage[t]
  BY <1>1, <1>3, Ended
<1>5. StageOK(m)' /\ Stage(m)' = EndStage[t] + 1
  BY <1>1, <1>3, <1>4, OurEnd
<1>6. m \in born /\ UNCHANGED born
  BY <1>1, <1>2, <1>3, <1>4 DEF StageOK, Stage, TakeEof
<1>7. \A n \in Nodes : n # m => Phase(n)' = Phase(n)
  BY <1>1, OthersStay
<1>8. Phase(m)' = CASE t = "rcv" -> "rcvEnded" [] t = "deal" -> "dealEnded"
                    [] t = "snd" -> "sndEnded"
  <2>1. /\ m \notin gone' /\ <<m, t>> \in ended'
        /\ <<m, "snd">> \in ended' <=> Stage(m)' >= 7
        /\ <<m, "deal">> \in ended' <=> Stage(m)' >= 5
        /\ m \in closed' <=> Stage(m)' >= 4
    BY <1>1, <1>2, <1>4, <1>5 DEF StageOK, Stage, TakeEof
  <2> QED BY <1>2, <1>5, <2>1 DEF Phase
<1>9. Phase(m) = CASE t = "rcv" -> "open" [] t = "deal" -> "closed" [] t = "snd" -> "dealEnded"
  BY <1>2, <1>3, <1>4, <1>6, PhaseOfStage
<1>10. CASE t = "rcv"
  BY <1>7, <1>8, <1>9, <1>10, PhaseMoves DEF Moves, Order!Next, Order!EndRcv
<1>11. CASE t = "deal"
  BY <1>7, <1>8, <1>9, <1>11, PhaseMoves DEF Moves, Order!Next, Order!Closing, Order!EndDeal
<1>12. CASE t = "snd"
  BY <1>7, <1>8, <1>9, <1>12, PhaseMoves DEF Moves, Order!Next, Order!Closing, Order!EndSnd
<1> QED BY <1>10, <1>11, <1>12

LEMMA OrderDestroy ==
  ASSUME Closes, NEW m \in Nodes, CmdEnd(m) PROVE Order!Next
<1>1. /\ "cmd" \in Threads /\ TakeEof(<<m, "cmd">>) /\ gone' = gone \cup {m}
      /\ EndStage["cmd"] = 9
  BY DEF CmdEnd, EndStage, Threads
<1>2. Stage(m) = 9 /\ StageOK(m)
  BY <1>1, Ended DEF Closes, CloseOK
<1>3. Phase(m) = "sndEnded"
  BY <1>2, PhaseOfStage
<1>4. Phase(m)' = "destroyed"
  BY <1>1 DEF Phase
<1>5. \A n \in Nodes : n # m => Phase(n)' = Phase(n)
  BY <1>1, OthersStay
<1> QED
  BY <1>3, <1>4, <1>5, PhaseMoves DEF Moves, Order!Next, Order!Closing, Order!Destroy

LEMMA OrderClose ==
  ASSUME Closes, NEW m \in Nodes, DealStop(m) PROVE Order!Next
<1> DEFINE old == ToDealer(m, "cmd", "STOP", 3)
<1>1. "deal" \in Threads /\ Handling("deal", <<m, "deal">>, "STOP") /\ TypeInv /\ CloseOK(m)
  BY DEF Threads, DealStop, Closes
<1>2. /\ UNCHANGED <<born, gone, ended>> /\ closed' = closed \cup {m} /\ PlanOK
      /\ Arg("deal") \in Messages /\ Arg("deal").type = "STOP"
  BY <1>1, Handled DEF Msg, DealStop
<1>3. /\ old \in Letters(m) /\ old.to = <<m, "deal">> /\ Arg("deal") \in old.mail
      /\ old.stage = 3
  BY <1>2 DEF Letters, ToDealer, Letter
<1> HIDE DEF old
<1>4. Consumes("deal", old)
  BY <1>1, <1>3, HandledLetter
<1>5. Stage(m) = 3 /\ StageOK(m)
  BY <1>1, <1>2, <1>3, <1>4, Consuming DEF CloseOK
<1>6. Phase(m) = "rcvEnded"
  BY <1>5, PhaseOfStage
<1>7. Phase(m)' = "closed"
  <2>1. m \notin gone /\ <<m, "snd">> \notin ended /\ <<m, "deal">> \notin ended
    BY <1>5 DEF StageOK, Stage
  <2> QED BY <1>2, <2>1 DEF Phase
<1>8. \A n \in Nodes : n # m => Phase(n)' = Phase(n)
  BY <1>2 DEF Phase
<1> QED BY <1>6, <1>7, <1>8, PhaseMoves DEF Moves, Order!Next, Order!Closing, Order!Close

LEMMA OrderServe ==
  ASSUME Closes, NEW x \in Tasks, Serve(x)
  PROVE  Order!Next \/ UNCHANGED [n \in Nodes |-> Phase(n)]
<1>1. x[1] # Ctrl => x[1] \in Nodes
  BY DEF Tasks
<1>2. CASE Drain(x)
  BY <1>2, PhasesKept DEF Drain, TakeLive, life
<1>3. ASSUME NEW m \in Nodes, NEW ev, Read(m, ev) \/ Write(m, ev)
      PROVE  UNCHANGED [n \in Nodes |-> Phase(n)]
  <2>1. UNCHANGED life
    BY <1>3 DEF Read, Write, TakeLive
  <2> QED BY <2>1, PhasesKept DEF life
<1> QED BY <1>1, <1>2, <1>3, OrderEnd, OrderDestroy DEF Serve

LEMMA OrderHandle ==
  ASSUME Closes, NEW th \in Threads, HandleMsg(th)
  PROVE  Order!Next \/ UNCHANGED [n \in Nodes |-> Phase(n)]
<1>1. UNCHANGED <<born, gone, ended>>
  BY HandlerGoesOn DEF Closes
<1>2. CASE \E m \in Nodes : DealStop(m)
  BY <1>2, OrderClose
<1>3. UNCHANGED closed \/ \E m \in Nodes : DealStop(m)
  BY DEF HandleMsg, CtrlAdd, CtrlDel, DealExit, DealMsg, CmdRegist, CmdUnreg, CmdStop
<1> QED BY <1>1, <1>2, <1>3, PhasesKept

(* Every connection, of any number, is taken apart in one order, each part *)
(* once: the receiver lets go of it, its session is closed, the dealer and *)
(* the sender let go of it, it is destroyed (procTaskEnd of the threads,   *)
(* procStopCmd of dealer and director).                                    *)
THEOREM ClosesInOrder == Spec => ImplementsClose
<1> DEFINE phase == [n \in Nodes |-> Phase(n)]
<1>1. Init => Order!Init
  <2> SUFFICES ASSUME Init PROVE Order!Init
    OBVIOUS
  <2>1. \A n \in Nodes : Phase(n) = "none"
    BY DEF Init, Phase
  <2> QED BY <2>1 DEF Order!Init
<1>2. Closes /\ [Next]_vars => [Order!Next]_phase
  <2> SUFFICES ASSUME Closes, [Next]_vars PROVE Order!Next \/ UNCHANGED phase
    OBVIOUS
  <2>1. CASE \E m \in Nodes : Accept(m)
    BY <2>1, OrderAccept
  <2>2. CASE \E th \in Pollers, m \in Nodes : PollReady(th, m) \/ PollError(th, m)
    BY <2>2, PhasesKept DEF PollReady, PollError, life
  <2>3. CASE \E x \in Tasks : Serve(x)
    BY <2>3, OrderServe
  <2>4. CASE \E th \in Threads : Proceed(th)
    <3>1. ASSUME NEW th \in Threads, Queue(th) \/ Post(th) \/ Returned(th)
          PROVE  UNCHANGED phase
      BY <3>1, PhasesKept DEF Queue, Post, Returned, life
    <3> QED BY <2>4, <3>1, ProceedSteps, OrderHandle
  <2>5. CASE UNCHANGED vars
    BY <2>5, PhasesKept DEF vars, life
  <2> QED BY <2>1, <2>2, <2>3, <2>4, <2>5 DEF Next
<1> QED BY <1>1, <1>2, ClosesHolds, PTL DEF Spec, ImplementsClose, Order!Spec
=============================================================================
