-------------------------- MODULE NodeReachProofs ---------------------------
(***************************************************************************)
(* Proof that what a thread of NodeLife has ended is out of the reach of   *)
(* every other, and that nothing names a node once it is destroyed, for    *)
(* any number of connections, wherever they fail.                          *)
(***************************************************************************)
EXTENDS NodeLifeProofs

-----------------------------------------------------------------------------
(* What is in a plan.                                                      *)

LEMMA RangeHas == ASSUME NEW s, NEW a PROVE a \in Range(s) <=> Has({a}, s)
BY DEF Range, Has

LEMMA RangeParts ==
  ASSUME NEW S, NEW s \in Seq(S), NEW t \in Seq(S)
  PROVE  /\ Range(s \o t) = Range(s) \cup Range(t)
         /\ s # <<>> => Range(s) = {Head(s)} \cup Range(Tail(s))
         /\ \A a \in S : Range(Append(s, a)) = Range(s) \cup {a}
<1>1. \A a : a \in Range(s \o t) <=> a \in Range(s) \/ a \in Range(t)
  BY RangeHas, HasConcat
<1>2. s # <<>> => \A a : a \in Range(s) <=> a = Head(s) \/ a \in Range(Tail(s))
  BY RangeHas, HasTail
<1>3. \A a \in S : \A b : b \in Range(Append(s, a)) <=> b \in Range(s) \/ b = a
  BY RangeHas, HasAppend
<1> QED BY <1>1, <1>2, <1>3

LEMMA ConcatDomain ==
  ASSUME NEW S, NEW s \in Seq(S), NEW t \in Seq(S)
  PROVE  DOMAIN (s \o t) = 1 .. Len(s) + Len(t)
OBVIOUS

LEMMA ConcatParts ==
  ASSUME NEW S, NEW s \in Seq(S), NEW t \in Seq(S)
  PROVE  /\ DOMAIN (s \o t) = 1 .. Len(s) + Len(t)
         /\ \A i \in 1 .. Len(s) : (s \o t)[i] = s[i]
         /\ \A i \in 1 .. Len(s) + Len(t) : i \notin 1 .. Len(s) =>
              (s \o t)[i] = t[i - Len(s)]
<1>1. /\ DOMAIN s = 1 .. Len(s) /\ DOMAIN t = 1 .. Len(t)
      /\ DOMAIN (s \o t) = 1 .. Len(s) + Len(t)
      /\ Len(s) \in Nat /\ Len(t) \in Nat
  OBVIOUS
<1>2. \A i \in 1 .. Len(s) : (s \o t)[i] = s[i]
  BY <1>1
<1>3. \A i \in 1 .. Len(s) + Len(t) : i \notin 1 .. Len(s) =>
        (s \o t)[i] = t[i - Len(s)]
  BY <1>1
<1> QED BY <1>1, <1>2, <1>3

Gives(x, m) == {Op("queue", x, m), Op("post", x, "NORM")}

LEMMA RangeShort ==
  /\ Range(<<>>) = {}
  /\ \A a : Range(<<a>>) = {a}
  /\ \A x, m : Range(Give(x, m)) = Gives(x, m)
  /\ \A x, ev : Range(Return(x, ev)) = {Op("return", x, ev)}
  /\ \A x : Range(EndTask(x)) = {Op("post", x, "END")}
<1>1. \A a : Range(<<a>>) = {a}
  BY DEF Range
<1>2. \A a, b : Range(<<a, b>>) = {a, b}
  BY DEF Range
<1>3. Range(<<>>) = {}
  BY DEF Range
<1> QED BY <1>1, <1>2, <1>3 DEF Give, Gives, Return, EndTask

\* What a thread that goes on has to do was planned, or is planned now.
LEMMA RangeGoes ==
  ASSUME PlanOK, NEW th \in Threads, NEW ops \in Seq(Ops), Goes(th, ops)
  PROVE  /\ \A t \in Threads : t # th => plan'[t] = plan[t]
         /\ Range(plan'[th]) = Range(ops) \cup Range(Rest(th))
         /\ Range(Rest(th)) \subseteq Range(plan[th])
<1>1. \A t \in Threads : t # th => plan'[t] = plan[t]
  BY GoesHas
<1>2. \A a : /\ a \in Range(plan'[th]) <=> a \in Range(ops) \/ a \in Range(Rest(th))
             /\ a \in Range(Rest(th)) => a \in Range(plan[th])
  BY GoesHas, RangeHas
<1> QED BY <1>1, <1>2

-----------------------------------------------------------------------------
(* Handlers in order.                                                      *)

\* A thread that handles messages has done all it had planned before, and
\* returning is the last it does.
Acts(o)  == o.op \in {"queue", "post"}
Ready(s) ==
  \A i, j \in DOMAIN s : i < j => s[i].op # "return" /\ (Acts(s[j]) => Acts(s[i]))

LEMMA ReadyParts ==
  ASSUME NEW S, NEW s \in Seq(S), NEW t \in Seq(S), Ready(t), \A o \in Range(s) : Acts(o)
  PROVE  Ready(s \o t)
<1>1. /\ DOMAIN s = 1 .. Len(s) /\ DOMAIN t = 1 .. Len(t)
      /\ DOMAIN (s \o t) = 1 .. Len(s) + Len(t)
      /\ Len(s) \in Nat /\ Len(t) \in Nat
  OBVIOUS
<1>2. \A i \in 1 .. Len(s) : (s \o t)[i] = s[i]
  BY <1>1
<1>3. \A i \in 1 .. Len(s) + Len(t) : i \notin 1 .. Len(s) =>
        i - Len(s) \in 1 .. Len(t) /\ (s \o t)[i] = t[i - Len(s)]
  BY <1>1
<1> DEFINE u == s \o t
<1> HIDE DEF u
<1>4. ASSUME NEW i \in 1 .. Len(s) + Len(t), NEW j \in 1 .. Len(s) + Len(t), i < j
      PROVE  u[i].op # "return" /\ (Acts(u[j]) => Acts(u[i]))
  <2>1. CASE i \in 1 .. Len(s)
    <3>1. s[i] \in Range(s)
      BY <1>1, <2>1 DEF Range
    <3> QED BY <1>2, <2>1, <3>1 DEF Acts, u
  <2>2. CASE i \notin 1 .. Len(s)
    <3>1. j \notin 1 .. Len(s) /\ i - Len(s) < j - Len(s)
      BY <1>1, <1>4, <2>2
    <3> QED BY <1>1, <1>3, <2>2, <3>1 DEF Ready, u
  <2> QED BY <2>1, <2>2
<1> QED BY <1>1, <1>4 DEF Ready, u

LEMMA ReadyTail ==
  ASSUME NEW S, NEW s \in Seq(S), s # <<>>, Ready(s)
  PROVE  /\ Ready(Tail(s))
         /\ Head(s).op = "return" => Range(Tail(s)) = {}
         /\ ~ Acts(Head(s)) => \A o \in Range(Tail(s)) : ~ Acts(o)
<1> DEFINE t == Tail(s)
<1>1. /\ DOMAIN s = 1 .. Len(s) /\ DOMAIN t = 1 .. Len(s) - 1 /\ Len(s) \in Nat \ {0}
      /\ Head(s) = s[1]
  OBVIOUS
<1>2. \A i \in 1 .. Len(s) - 1 : i + 1 \in 1 .. Len(s) /\ t[i] = s[i + 1]
  BY <1>1
<1> HIDE DEF t
<1>3. ASSUME NEW i \in 1 .. Len(s) - 1
      PROVE  s[1].op # "return" /\ (Acts(t[i]) => Acts(s[1]))
  <2>1. 1 \in DOMAIN s /\ i + 1 \in DOMAIN s /\ 1 < i + 1
    BY <1>1, <1>2
  <2> QED BY <1>2, <2>1 DEF Ready
<1>4. ASSUME NEW i \in 1 .. Len(s) - 1, NEW j \in 1 .. Len(s) - 1, i < j
      PROVE  t[i].op # "return" /\ (Acts(t[j]) => Acts(t[i]))
  <2>1. i + 1 \in DOMAIN s /\ j + 1 \in DOMAIN s /\ i + 1 < j + 1
    BY <1>1, <1>2, <1>4
  <2> QED BY <1>2, <2>1 DEF Ready
<1>5. Ready(t)
  BY <1>1, <1>4 DEF Ready
<1>6. Head(s).op = "return" => Range(t) = {}
  BY <1>1, <1>3 DEF Range
<1>7. ~ Acts(Head(s)) => \A o \in Range(t) : ~ Acts(o)
  BY <1>1, <1>3 DEF Range
<1> QED BY <1>5, <1>6, <1>7 DEF t

\* A handler that starts, or one that goes on with what it plans first.
Orderly(th, ops) ==
  \/ plan[th] = <<>> /\ Ready(ops)
  \/ \A o \in Range(ops) : Acts(o)

\* A step of the thread th that plans ops, all of them in S.
Planned(th, ops, S) ==
  ops \in Seq(Ops) /\ Goes(th, ops) /\ Orderly(th, ops) /\ Range(ops) \subseteq S

LEMMA ReadyGoes ==
  ASSUME PlanOK, \A t \in Threads : Ready(plan[t]),
         NEW th \in Threads, NEW ops, NEW S, Planned(th, ops, S)
  PROVE  \A t \in Threads : Ready(plan[t])'
<1>1. plan[th] \in Seq(Ops) /\ Rest(th) \in Seq(Ops) /\ Ready(Rest(th))
  <2>1. plan[th] \in Seq(Ops)
    BY DEF PlanOK
  <2>2. Ready(<<>>)
    BY DEF Ready
  <2> QED BY <2>1, <2>2, ReadyTail DEF Rest
<1>2. plan'[th] = ops \o Rest(th) /\ \A t \in Threads : t # th => plan'[t] = plan[t]
  BY DEF Goes, PlanOK, Planned
<1>3. CASE plan[th] = <<>> /\ Ready(ops)
  <2>1. ops \o Rest(th) = ops
    BY <1>3 DEF Rest, Planned
  <2> QED BY <1>2, <1>3, <2>1 DEF Ready, Acts
<1>4. CASE \A o \in Range(ops) : Acts(o)
  <2>1. Ready(ops \o Rest(th))
    BY <1>1, <1>4, ReadyParts DEF Planned
  <2> QED BY <1>2, <2>1 DEF Ready, Acts
<1> QED BY <1>3, <1>4 DEF Planned, Orderly

-----------------------------------------------------------------------------
(* What each action plans.                                                 *)

LEMMA ActsGive ==
  /\ \A x, m : \A o \in Gives(x, m) : Acts(o)
  /\ \A x, ev : Acts(Op("post", x, ev))
  /\ \A x, m : ~ Acts(Op("msg", x, m))
  /\ \A x, ev : ~ Acts(Op("return", x, ev))
BY DEF Gives, Op, Acts

\* Operations that only act, all of them in S.
ActSeq(ops, S) ==
  ops \in Seq(Ops) /\ (\A o \in Range(ops) : Acts(o)) /\ Range(ops) \subseteq S

\* A thread with nothing left to do starts on what only acts, then returns.
LEMMA PlansActs ==
  ASSUME PlanOK, NEW th \in Threads, plan[th] = <<>>, NEW ops, NEW S, ActSeq(ops, S),
         Start(th, ops)
  PROVE  Planned(th, ops, S)
BY StartGoes DEF Planned, Orderly, ActSeq

LEMMA PlansReturn ==
  ASSUME PlanOK, NEW th \in Threads, plan[th] = <<>>, NEW ops, NEW S, ActSeq(ops, S),
         NEW x \in Tasks, NEW ev \in Returns, Start(th, ops \o Return(x, ev))
  PROVE  Planned(th, ops \o Return(x, ev), S \cup {Op("return", x, ev)})
<1> DEFINE ret == Return(x, ev)
<1>1. ret \in Seq(Ops) /\ Range(ret) = {Op("return", x, ev)}
  BY OpTypes, RangeShort DEF Return
<1>2. Ready(ret)
  BY DEF Ready, Return
<1> HIDE DEF ret
<1>3. ops \in Seq(Ops) /\ ops \o ret \in Seq(Ops)
  BY <1>1 DEF ActSeq
<1>4. Ready(ops \o ret)
  BY <1>1, <1>2, <1>3, ReadyParts DEF ActSeq
<1>5. Range(ops \o ret) = Range(ops) \cup {Op("return", x, ev)}
  BY <1>1, <1>3, RangeParts
<1>6. Goes(th, ops \o ret)
  BY <1>3, StartGoes DEF ret
<1> QED BY <1>3, <1>4, <1>5, <1>6 DEF Planned, Orderly, ret, ActSeq

\* A handler goes on with what only acts.
LEMMA PlansOn ==
  ASSUME PlanOK, NEW th \in Threads, plan[th] # <<>>, NEW ops, NEW S, ActSeq(ops, S),
         GoOn(th, ops)
  PROVE  Planned(th, ops, S)
BY GoOnGoes DEF Planned, Orderly, ActSeq

LEMMA ActsConcat ==
  ASSUME NEW s, NEW S, ActSeq(s, S), NEW t, NEW T, ActSeq(t, T)
  PROVE  ActSeq(s \o t, S \cup T)
<1>1. s \in Seq(Ops) /\ t \in Seq(Ops)
  BY DEF ActSeq
<1>2. s \o t \in Seq(Ops) /\ Range(s \o t) = Range(s) \cup Range(t)
  BY <1>1, RangeParts
<1> QED BY <1>2 DEF ActSeq

LEMMA SendsAct ==
  ASSUME NEW n \in Nodes
  PROVE  /\ ActSeq(<<>>, {})
         /\ ActSeq(Unreg(n), Gives(<<n, "cmd">>, Msg("UNREG", n)))
         /\ \A m \in {Msg("ALLOW_EXIT", n), Msg("STOP", "STOP_DEAL")} :
              ActSeq(Give(<<n, "deal">>, m), Gives(<<n, "deal">>, m))
         /\ ActSeq(Give(<<n, "cmd">>, Msg("REGIST", n)), Gives(<<n, "cmd">>, Msg("REGIST", n)))
         /\ \A s \in {"STOP_RCV", "STOP_DEAL", "STOP_SND", "CLOSED"} :
              ActSeq(Stop(n, s), Gives(<<n, "cmd">>, Msg("STOP", s)))
         /\ \A to \in Pollers, type \in {"ADD_FD", "DEL_FD"} :
              ActSeq(Give(<<Ctrl, to>>, Msg(type, n)), Gives(<<Ctrl, to>>, Msg(type, n)))
         /\ \A th \in Threads : ActSeq(EndTask(<<n, th>>), {Op("post", <<n, th>>, "END")})
<1>1. \A th \in Threads : EndTask(<<n, th>>) \in Seq(Ops)
  BY NodeTasks, EndTaskFits, PlansOps
<1>2. \A th \in Threads : ActSeq(EndTask(<<n, th>>), {Op("post", <<n, th>>, "END")})
  BY <1>1, RangeShort, ActsGive DEF ActSeq
<1>3. \A x, m : Give(x, m) \in Seq(Ops) => ActSeq(Give(x, m), Gives(x, m))
  BY RangeShort, ActsGive DEF ActSeq
<1>4. ActSeq(<<>>, {})
  BY RangeShort DEF ActSeq
<1>5. \A th : \A ops \in Plans(th) : ops \in Seq(Ops)
  BY PlansOps
<1> QED BY <1>2, <1>3, <1>4, <1>5, SendsFit DEF Unreg, Stop

\* Data given to the sender or the dealer of m.
Delivers(m) == Gives(<<m, "snd">>, Msg("DATA", m)) \cup Gives(<<m, "deal">>, Msg("DATA", m))
DeliversTo(N) == UNION {Delivers(m) : m \in N}

LEMMA DeliverActs ==
  ASSUME NEW N \in SUBSET Nodes, NEW k \in Nat, NEW t \in [1 .. k -> N \X {"snd", "deal"}]
  PROVE  ActSeq(Deliver(t), DeliversTo(N))
<1> DEFINE X == N \X {"snd", "deal"}
           s == Deliver(t)
<1>1. s \in Seq(Ops)
  <2>1. X \in SUBSET (Nodes \X {"snd", "deal"}) /\ t \in [1 .. k -> X]
    OBVIOUS
  <2> QED BY <2>1, DeliverFits, PlansOps
<1>2. Delivered(s, k, t)
  <2>1. t \in [1 .. k -> X]
    OBVIOUS
  <2> QED BY <2>1, DeliverAt
<1> HIDE DEF s
<1>3. ASSUME NEW o \in Range(s)
      PROVE  \E m \in N : o \in Delivers(m)
  <2>1. PICK i \in 1 .. 2 * k : o = s[i]
    BY <1>2 DEF Range, Delivered
  <2>2. PICK j \in 1 .. k : \/ o = Op("queue", t[j], Msg("DATA", t[j][1]))
                            \/ o = Op("post", t[j], "NORM")
    BY <1>2, <2>1 DEF Delivered
  <2>3. PICK m \in N : t[j] = <<m, "snd">> \/ t[j] = <<m, "deal">>
    <3>1. t[j] \in X
      BY <2>2
    <3> QED BY <3>1
  <2>4. o \in Gives(t[j], Msg("DATA", m))
    BY <2>2, <2>3 DEF Gives
  <2> QED BY <2>3, <2>4 DEF Delivers
<1>4. \A o \in Range(s) : Acts(o)
  BY <1>3, ActsGive DEF Delivers
<1>5. Range(s) \subseteq DeliversTo(N)
  BY <1>3 DEF DeliversTo
<1> QED BY <1>1, <1>4, <1>5 DEF ActSeq, s

LEMMA AcceptPlans ==
  ASSUME TypeInv, NEW n \in Nodes, Accept(n)
  PROVE  LET ops == Give(<<n, "cmd">>, Msg("REGIST", n)) IN
         Planned("rcv", ops, Gives(<<n, "cmd">>, Msg("REGIST", n)))
<1>1. "rcv" \in Threads /\ PlanOK /\ plan["rcv"] = <<>>
      /\ Start("rcv", Give(<<n, "cmd">>, Msg("REGIST", n)))
  BY DEF Accept, TypeInv, Threads
<1> QED BY <1>1, SendsAct, PlansActs

LEMMA PollPlans ==
  ASSUME TypeInv, NEW th \in Pollers, NEW n \in Nodes
  PROVE  /\ PollReady(th, n) => \E ops : Planned(th, ops, {Op("post", <<n, th>>, Event(th))})
         /\ PollError(th, n) => \E ops : Planned(th, ops, Gives(<<n, "cmd">>, Msg("UNREG", n)))
<1>1. th \in Threads /\ PlanOK
  BY DEF Threads, Pollers, TypeInv
<1>2. ASSUME PollReady(th, n)
      PROVE  \E ops : Planned(th, ops, {Op("post", <<n, th>>, Event(th))})
  <2> DEFINE ops == <<Op("post", <<n, th>>, Event(th))>>
  <2>1. <<n, th>> \in Tasks /\ Event(th) \in Events
    BY <1>1, NodeTasks, LifeAssumption DEF Event, Events
  <2>2. ActSeq(ops, {Op("post", <<n, th>>, Event(th))})
    BY <2>1, OpTypes, RangeShort, ActsGive DEF ActSeq
  <2>3. Start(th, ops) /\ plan[th] = <<>>
    BY <1>2 DEF PollReady, Polled
  <2> HIDE DEF ops
  <2> QED BY <1>1, <2>2, <2>3, PlansActs
<1>3. ASSUME PollError(th, n)
      PROVE  \E ops : Planned(th, ops, Gives(<<n, "cmd">>, Msg("UNREG", n)))
  <2>1. Start(th, Unreg(n)) /\ plan[th] = <<>>
    BY <1>3 DEF PollError, Polled
  <2> QED BY <1>1, <2>1, SendsAct, PlansActs
<1> QED BY <1>2, <1>3

\* What is asked of the director when a read or a write fails.
LEMMA FailSeq ==
  ASSUME NEW n \in Nodes, NEW ev
  PROVE  LET err == IF ev = "ERROR" THEN Unreg(n) ELSE <<>> IN
         ActSeq(err, Gives(<<n, "cmd">>, Msg("UNREG", n)))
BY SendsAct DEF ActSeq

LEMMA ReadPlans ==
  ASSUME TypeInv, NEW n \in Nodes, NEW ev \in Answers(n, "rcv"), Read(n, ev)
  PROVE  \E ops : Planned("rcv", ops,
           Gives(<<n, "snd">>, Msg("DATA", n)) \cup Gives(<<n, "deal">>, Msg("DATA", n))
             \cup Gives(<<n, "cmd">>, Msg("UNREG", n)) \cup {Op("return", <<n, "rcv">>, ev)})
<1> DEFINE x == <<n, "rcv">>
           err == IF ev = "ERROR" THEN Unreg(n) ELSE <<>>
<1>0. PICK k \in 0 .. MaxData - data : \E t \in [1 .. k -> {n} \X {"snd", "deal"}] :
        Start("rcv", Deliver(t) \o err \o Return(x, ev))
  BY DEF Read
<1>1. PICK t \in [1 .. k -> {n} \X {"snd", "deal"}] :
        Start("rcv", Deliver(t) \o err \o Return(x, ev))
  BY <1>0
<1>2. /\ x \in Tasks /\ "rcv" \in Threads /\ "rcv" \in Pollers /\ PlanOK
      /\ plan["rcv"] = <<>>
  BY NodeTasks DEF Read, Take, TypeInv, Threads, Pollers
<1>3. ev \in Returns
  BY <1>2, AnswerTypes, AnswersReturn
<1> DEFINE out == Deliver(t)
<1>4. ActSeq(out, Gives(<<n, "snd">>, Msg("DATA", n)) \cup Gives(<<n, "deal">>, Msg("DATA", n)))
  <2>1. {n} \in SUBSET Nodes /\ k \in Nat
    OBVIOUS
  <2>2. ActSeq(out, DeliversTo({n}))
    BY <2>1, DeliverActs
  <2>3. DeliversTo({n}) = Delivers(n)
    BY DEF DeliversTo
  <2> QED BY <2>2, <2>3 DEF Delivers
<1>5. ActSeq(err, Gives(<<n, "cmd">>, Msg("UNREG", n)))
  BY FailSeq
<1>7. Start("rcv", out \o err \o Return(x, ev))
  BY <1>1
<1> HIDE DEF err, x, out
<1>6. ActSeq(out \o err, Gives(<<n, "snd">>, Msg("DATA", n))
                             \cup Gives(<<n, "deal">>, Msg("DATA", n))
                             \cup Gives(<<n, "cmd">>, Msg("UNREG", n)))
  BY <1>4, <1>5, ActsConcat
<1> QED BY <1>7, <1>2, <1>3, <1>6, PlansReturn DEF x

LEMMA WritePlans ==
  ASSUME TypeInv, NEW n \in Nodes, NEW ev \in Answers(n, "snd"), Write(n, ev)
  PROVE  \E ops : Planned("snd", ops,
           Gives(<<n, "cmd">>, Msg("UNREG", n)) \cup {Op("return", <<n, "snd">>, ev)})
<1> DEFINE x == <<n, "snd">>
           err == IF ev = "ERROR" THEN Unreg(n) ELSE <<>>
<1>1. Start("snd", err \o Return(x, ev))
  BY DEF Write
<1>2. /\ x \in Tasks /\ "snd" \in Threads /\ "snd" \in Pollers /\ PlanOK
      /\ plan["snd"] = <<>>
  BY NodeTasks DEF Write, TakeLive, Take, TypeInv, Threads, Pollers
<1>3. ev \in Returns
  BY <1>2, AnswerTypes, AnswersReturn
<1>4. ActSeq(err, Gives(<<n, "cmd">>, Msg("UNREG", n)))
  BY FailSeq
<1> HIDE DEF err, x
<1> QED BY <1>1, <1>2, <1>3, <1>4, PlansReturn DEF x

\* What a thread that has ended a task of n tells the director.
LEMMA EndPlans ==
  ASSUME TypeInv, NEW n \in Nodes
  PROVE  /\ ReadEnd(n) => \E ops : Planned("rcv", ops,
              Gives(<<n, "cmd">>, Msg("STOP", "STOP_RCV")))
         /\ WriteEnd(n) => \E ops : Planned("snd", ops,
              Gives(<<n, "cmd">>, Msg("UNREG", n))
                \cup Gives(<<n, "cmd">>, Msg("STOP", "STOP_SND")))
         /\ DealEnd(n) => \E ops : Planned("deal", ops,
              Gives(<<n, "cmd">>, Msg("STOP", "STOP_DEAL")))
         /\ CmdEnd(n) => Planned("cmd", <<>>, {})
<1>1. PlanOK /\ {"rcv", "snd", "deal", "cmd"} = Threads
  BY DEF TypeInv, Threads
<1>2. ASSUME ReadEnd(n)
      PROVE  \E ops : Planned("rcv", ops, Gives(<<n, "cmd">>, Msg("STOP", "STOP_RCV")))
  <2>1. Start("rcv", Stop(n, "STOP_RCV")) /\ plan["rcv"] = <<>>
    BY <1>2 DEF ReadEnd, TakeEof, Take
  <2> QED BY <1>1, <2>1, SendsAct, PlansActs
<1>3. ASSUME DealEnd(n)
      PROVE  \E ops : Planned("deal", ops, Gives(<<n, "cmd">>, Msg("STOP", "STOP_DEAL")))
  <2>1. Start("deal", Stop(n, "STOP_DEAL")) /\ plan["deal"] = <<>>
    BY <1>3 DEF DealEnd, TakeEof, Take
  <2> QED BY <1>1, <2>1, SendsAct, PlansActs
<1>4. ASSUME WriteEnd(n)
      PROVE  \E ops : Planned("snd", ops,
               Gives(<<n, "cmd">>, Msg("UNREG", n))
                 \cup Gives(<<n, "cmd">>, Msg("STOP", "STOP_SND")))
  <2>1. plan["snd"] = <<>>
    BY <1>4 DEF WriteEnd, TakeEof, Take
  <2>2. CASE Start("snd", Stop(n, "STOP_SND"))
    <3>1. ActSeq(Stop(n, "STOP_SND"), Gives(<<n, "cmd">>, Msg("UNREG", n))
                                        \cup Gives(<<n, "cmd">>, Msg("STOP", "STOP_SND")))
      BY SendsAct DEF ActSeq
    <3> QED BY <1>1, <2>1, <2>2, <3>1, PlansActs
  <2>3. CASE \E ev : Start("snd", (IF ev = "ERROR" THEN Unreg(n) ELSE <<>>)
                                     \o Stop(n, "STOP_SND"))
    <3>1. PICK ev : Start("snd", (IF ev = "ERROR" THEN Unreg(n) ELSE <<>>)
                                   \o Stop(n, "STOP_SND"))
      BY <2>3
    <3> DEFINE err == IF ev = "ERROR" THEN Unreg(n) ELSE <<>>
               stop == Stop(n, "STOP_SND")
    <3>2. ActSeq(err, Gives(<<n, "cmd">>, Msg("UNREG", n)))
      BY FailSeq
    <3>3. ActSeq(stop, Gives(<<n, "cmd">>, Msg("STOP", "STOP_SND")))
      BY SendsAct
    <3>4. Start("snd", err \o stop)
      BY <3>1
    <3> HIDE DEF err, stop
    <3>5. ActSeq(err \o stop, Gives(<<n, "cmd">>, Msg("UNREG", n))
                                 \cup Gives(<<n, "cmd">>, Msg("STOP", "STOP_SND")))
      BY <3>2, <3>3, ActsConcat
    <3> QED BY <1>1, <2>1, <3>4, <3>5, PlansActs
  <2> QED BY <1>4, <2>2, <2>3 DEF WriteEnd
<1>5. ASSUME CmdEnd(n) PROVE Planned("cmd", <<>>, {})
  <2>1. Start("cmd", <<>>) /\ plan["cmd"] = <<>>
    BY <1>1, <1>5 DEF CmdEnd, TakeEof, Take, Start, PlanOK
  <2> QED BY <1>1, <2>1, SendsAct, PlansActs
<1> QED BY <1>2, <1>3, <1>4, <1>5

LEMMA DrainPlans ==
  ASSUME TypeInv, NEW x \in Tasks, Drain(x)
  PROVE  \E ops : Planned(x[2], ops,
           {Op("msg", x, m) : m \in Range(msgs[x])} \cup {Op("return", x, "NORM")})
<1> DEFINE th == x[2]
           q == msgs[x]
           work == [i \in DOMAIN q |-> Op("msg", x, q[i])]
           ret == Return(x, "NORM")
<1>1. th \in Threads /\ plan[th] = <<>> /\ PlanOK
  BY TakeTypes DEF Drain, TakeLive, TypeInv
<1>2. q \in Seq(Messages) /\ Len(q) \in Nat /\ DOMAIN q = 1 .. Len(q)
  BY DEF TypeInv, StateOK
<1>3. work \in Seq(Ops) /\ Len(work) = Len(q) /\ DOMAIN work = 1 .. Len(q)
  <2>1. \A i \in DOMAIN q : Op("msg", x, q[i]) \in Ops
    BY <1>2, OpTypes
  <2>2. work \in [1 .. Len(q) -> Ops]
    BY <1>2, <2>1
  <2> QED BY <1>2, <2>2
<1>4. ret \in Seq(Ops) /\ Range(ret) = {Op("return", x, "NORM")} /\ Len(ret) = 1
  BY OpTypes, RangeShort DEF Return, Returns
<1>5. Range(work) = {Op("msg", x, m) : m \in Range(q)}
  BY DEF Range
<1>6. \A i \in DOMAIN work : ~ Acts(work[i]) /\ work[i].op # "return"
  BY DEF Acts, Op
<1>7. Start(th, work \o ret)
  BY DEF Drain
<1>8. \A o \in Range(ret) : ~ Acts(o)
  BY <1>4, ActsGive
<1> HIDE DEF work, ret, q
<1>9. work \o ret \in Seq(Ops) /\ Range(work \o ret) = Range(work) \cup Range(ret)
  BY <1>3, <1>4, RangeParts
<1>10. Ready(work \o ret)
  <2> DEFINE u == work \o ret
  <2>1. DOMAIN u = 1 .. Len(q) + 1
    <3>1. DOMAIN u = 1 .. Len(work) + Len(ret)
      BY <1>3, <1>4, ConcatDomain
    <3> QED BY <1>3, <1>4, <3>1
  <2>2. \A i \in 1 .. Len(q) : u[i] = work[i]
    BY <1>2, <1>3, <1>4
  <2>3. \A o \in Range(u) : ~ Acts(o)
    BY <1>6, <1>8, <1>9 DEF Range
  <2> HIDE DEF u
  <2>4. ASSUME NEW i \in DOMAIN u, NEW j \in DOMAIN u, i < j
        PROVE  u[i].op # "return" /\ ~ Acts(u[j])
    <3>1. i \in 1 .. Len(q)
      BY <1>2, <2>1, <2>4
    <3>2. u[j] \in Range(u)
      BY DEF Range
    <3> QED BY <1>3, <1>6, <2>2, <2>3, <3>1, <3>2
  <2>5. Ready(u)
    BY <2>4 DEF Ready
  <2> QED BY <2>5 DEF u
<1>11. Goes(th, work \o ret)
  BY <1>1, <1>7, <1>9, StartGoes
<1> QED BY <1>1, <1>4, <1>5, <1>9, <1>10, <1>11 DEF Planned, Orderly, q, th

LEMMA ProceedPlans ==
  ASSUME TypeInv, NEW th \in Threads,
         Queue(th) \/ Post(th) \/ Returned(th) \/ (th \in Pollers /\ CtrlAdd(th))
  PROVE  Planned(th, <<>>, {})
<1>1. plan[th] # <<>> /\ PlanOK /\ GoOn(th, <<>>)
  BY DEF Queue, Post, Returned, CtrlAdd, Handling, Doing, TypeInv
<1>2. ActSeq(<<>>, {})
  BY RangeShort DEF ActSeq
<1> QED BY <1>1, <1>2, PlansOn

\* What a handler of a message plans, from its message.
LEMMA CtrlDelPlans ==
  ASSUME TypeInv, NEW th \in Pollers, CtrlDel(th)
  PROVE  /\ Arg(th).val \in Nodes
         /\ \E ops : Planned(th, ops, {Op("post", <<Arg(th).val, th>>, "END")})
<1>1. th \in Threads /\ Handling(th, <<Ctrl, th>>, "DEL_FD")
  BY DEF Threads, Pollers, CtrlDel
<1>2. plan[th] # <<>> /\ PlanOK /\ Arg(th).val \in Nodes
      /\ GoOn(th, EndTask(<<Arg(th).val, th>>))
  BY <1>1, Handled DEF CtrlDel
<1>3. ActSeq(EndTask(<<Arg(th).val, th>>), {Op("post", <<Arg(th).val, th>>, "END")})
  BY <1>1, <1>2, SendsAct
<1> QED BY <1>1, <1>2, <1>3, PlansOn

LEMMA DealPlans ==
  ASSUME TypeInv, NEW n \in Nodes
  PROVE  /\ DealStop(n) => \E ops : Planned("deal", ops,
              Gives(<<n, "deal">>, Msg("ALLOW_EXIT", n)))
         /\ DealExit(n) => \E ops : Planned("deal", ops, {Op("post", <<n, "deal">>, "END")})
<1>1. "deal" \in Threads /\ PlanOK
  BY DEF Threads, TypeInv
<1>2. ASSUME DealStop(n)
      PROVE  \E ops : Planned("deal", ops, Gives(<<n, "deal">>, Msg("ALLOW_EXIT", n)))
  <2>1. plan["deal"] # <<>> /\ GoOn("deal", Give(<<n, "deal">>, Msg("ALLOW_EXIT", n)))
    BY <1>2 DEF DealStop, Handling, Doing
  <2>2. ActSeq(Give(<<n, "deal">>, Msg("ALLOW_EXIT", n)),
               Gives(<<n, "deal">>, Msg("ALLOW_EXIT", n)))
    BY SendsAct
  <2> QED BY <1>1, <2>1, <2>2, PlansOn
<1>3. ASSUME DealExit(n)
      PROVE  \E ops : Planned("deal", ops, {Op("post", <<n, "deal">>, "END")})
  <2>1. plan["deal"] # <<>> /\ GoOn("deal", EndTask(<<n, "deal">>))
    BY <1>3 DEF DealExit, Handling, Doing
  <2> QED BY <1>1, <2>1, SendsAct, PlansOn
<1> QED BY <1>2, <1>3

LEMMA DealMsgPlans ==
  ASSUME TypeInv, NEW n \in Nodes, NEW ok \in BOOLEAN, DealMsg(n, ok)
  PROVE  \E ops : Planned("deal", ops, DeliversTo(Reachable) \cup Gives(<<n, "cmd">>, Msg("UNREG", n)))
<1> DEFINE U == Gives(<<n, "cmd">>, Msg("UNREG", n))
           R == DeliversTo(Reachable)
           err == IF ok THEN <<>> ELSE Unreg(n)
<1>1. "deal" \in Threads /\ PlanOK /\ plan["deal"] # <<>> /\ Reachable \in SUBSET Nodes
  BY DEF Threads, TypeInv, StateOK, DealMsg, Handling, Doing, Reachable
<1>2. ActSeq(err, U) /\ ActSeq(<<>>, R \cup U)
  BY SendsAct DEF ActSeq
<1> HIDE DEF U, R
<1>3. CASE n \in stopDeal
  <2>1. GoOn("deal", <<>>)
    BY <1>3 DEF DealMsg
  <2> QED BY <1>1, <1>2, <2>1, PlansOn DEF U, R
<1>4. CASE n \notin stopDeal
  <2>1. PICK k \in 0 .. MaxData - data : \E t \in [1 .. k -> Reachable \X {"snd", "deal"}] :
          GoOn("deal", Deliver(t) \o err)
    BY <1>4 DEF DealMsg
  <2>2. PICK t \in [1 .. k -> Reachable \X {"snd", "deal"}] : GoOn("deal", Deliver(t) \o err)
    BY <2>1
  <2> DEFINE out == Deliver(t)
  <2>3. ActSeq(out, R)
    BY <1>1, DeliverActs DEF R
  <2>4. GoOn("deal", out \o err)
    BY <2>2
  <2> HIDE DEF out, err
  <2>5. ActSeq(out \o err, R \cup U)
    BY <1>2, <2>3, ActsConcat
  <2> QED BY <1>1, <2>4, <2>5, PlansOn DEF U, R
<1> QED BY <1>3, <1>4

LEMMA CmdPlans ==
  ASSUME TypeInv, NEW n \in Nodes
  PROVE  /\ CmdRegist(n) => \E ops : Planned("cmd", ops,
              Gives(<<Ctrl, "rcv">>, Msg("ADD_FD", n))
              \cup Gives(<<Ctrl, "snd">>, Msg("ADD_FD", n)))
         /\ CmdUnreg(n) => \E ops : Planned("cmd", ops, Gives(<<Ctrl, "rcv">>, Msg("DEL_FD", n)))
         /\ CmdStop(n) => \E ops : Planned("cmd", ops,
              Gives(<<n, "deal">>, Msg("STOP", "STOP_DEAL"))
                \cup Gives(<<Ctrl, "snd">>, Msg("DEL_FD", n))
                \cup Gives(<<n, "cmd">>, Msg("STOP", "CLOSED"))
                \cup {Op("post", <<n, "cmd">>, "END")})
<1>1. "cmd" \in Threads /\ PlanOK /\ "rcv" \in Pollers /\ "snd" \in Pollers
  BY DEF Threads, TypeInv, Pollers
<1>2. ASSUME CmdRegist(n)
      PROVE  \E ops : Planned("cmd", ops,
               Gives(<<Ctrl, "rcv">>, Msg("ADD_FD", n))
                 \cup Gives(<<Ctrl, "snd">>, Msg("ADD_FD", n)))
  <2> DEFINE a == Give(<<Ctrl, "rcv">>, Msg("ADD_FD", n))
             b == Give(<<Ctrl, "snd">>, Msg("ADD_FD", n))
  <2>1. plan["cmd"] # <<>> /\ GoOn("cmd", a \o b)
    BY <1>2 DEF CmdRegist, Handling, Doing
  <2>2. /\ ActSeq(a, Gives(<<Ctrl, "rcv">>, Msg("ADD_FD", n)))
        /\ ActSeq(b, Gives(<<Ctrl, "snd">>, Msg("ADD_FD", n)))
    BY <1>1, SendsAct
  <2> HIDE DEF a, b
  <2>3. ActSeq(a \o b, Gives(<<Ctrl, "rcv">>, Msg("ADD_FD", n))
                         \cup Gives(<<Ctrl, "snd">>, Msg("ADD_FD", n)))
    BY <2>2, ActsConcat
  <2> QED BY <1>1, <2>1, <2>3, PlansOn
<1>3. ASSUME CmdUnreg(n)
      PROVE  \E ops : Planned("cmd", ops, Gives(<<Ctrl, "rcv">>, Msg("DEL_FD", n)))
  <2> DEFINE d == Give(<<Ctrl, "rcv">>, Msg("DEL_FD", n))
             D == Gives(<<Ctrl, "rcv">>, Msg("DEL_FD", n))
  <2>1. plan["cmd"] # <<>> /\ (GoOn("cmd", <<>>) \/ GoOn("cmd", d))
    BY <1>3 DEF CmdUnreg, Handling, Doing
  <2>2. ActSeq(d, D) /\ ActSeq(<<>>, D)
    BY <1>1, SendsAct DEF ActSeq
  <2> HIDE DEF d, D
  <2> QED BY <1>1, <2>1, <2>2, PlansOn DEF D
<1>4. ASSUME CmdStop(n)
      PROVE  \E ops : Planned("cmd", ops,
               Gives(<<n, "deal">>, Msg("STOP", "STOP_DEAL"))
                 \cup Gives(<<Ctrl, "snd">>, Msg("DEL_FD", n))
                 \cup Gives(<<n, "cmd">>, Msg("STOP", "CLOSED"))
                 \cup {Op("post", <<n, "cmd">>, "END")})
  <2> DEFINE S == Gives(<<n, "deal">>, Msg("STOP", "STOP_DEAL"))
                    \cup Gives(<<Ctrl, "snd">>, Msg("DEL_FD", n))
                    \cup Gives(<<n, "cmd">>, Msg("STOP", "CLOSED"))
                    \cup {Op("post", <<n, "cmd">>, "END")}
             s == Arg("cmd").val
  <2>1. Handling("cmd", <<n, "cmd">>, "STOP")
    BY <1>4 DEF CmdStop
  <2>2. plan["cmd"] # <<>> /\ s \in {"STOP_RCV", "STOP_DEAL", "STOP_SND", "CLOSED"}
        /\ (GoOn("cmd", <<>>) \/ GoOn("cmd", NextStop(n, s)))
    BY <1>1, <1>4, <2>1, Handled DEF CmdStop
  <2>3. ActSeq(<<>>, S)
    BY SendsAct DEF ActSeq
  <2>4. ActSeq(NextStop(n, s), S)
    <3>1. CASE s = "STOP_RCV"
      <4>1. ActSeq(Give(<<n, "deal">>, Msg("STOP", "STOP_DEAL")),
                   Gives(<<n, "deal">>, Msg("STOP", "STOP_DEAL")))
        BY SendsAct
      <4> QED BY <3>1, <4>1 DEF NextStop, ActSeq
    <3>2. CASE s = "STOP_DEAL"
      <4>1. ActSeq(Give(<<Ctrl, "snd">>, Msg("DEL_FD", n)),
                   Gives(<<Ctrl, "snd">>, Msg("DEL_FD", n)))
        BY <1>1, SendsAct
      <4> QED BY <3>2, <4>1 DEF NextStop, ActSeq
    <3>3. CASE s = "STOP_SND"
      <4>1. ActSeq(Stop(n, "CLOSED"), Gives(<<n, "cmd">>, Msg("STOP", "CLOSED")))
        BY SendsAct
      <4> QED BY <3>3, <4>1 DEF NextStop, ActSeq
    <3>4. CASE s = "CLOSED"
      <4>1. ActSeq(EndTask(<<n, "cmd">>), {Op("post", <<n, "cmd">>, "END")})
        BY <1>1, SendsAct
      <4> QED BY <3>4, <4>1 DEF NextStop, ActSeq
    <3> QED BY <2>2, <3>1, <3>2, <3>3, <3>4
  <2> HIDE DEF S, s
  <2> QED BY <1>1, <2>2, <2>3, <2>4, PlansOn DEF S
<1> QED BY <1>2, <1>3, <1>4

-----------------------------------------------------------------------------
(* A task that is served, or has ended, is out of the reach of posts.      *)

Held(w) == "LOCK" \in w.low /\ w.high = {}

\* The thread of task x is to handle messages of x or to return from it.
Busy(x) == \E o \in Range(plan[x[2]]) : o.on = x /\ ~ Acts(o)

ServiceOK(x) ==
  /\ Busy(x) => x \notin ended
  /\ Busy(x) \/ x \in ended => x \notin pool /\ Held(word[x])

Service == (\A th \in Threads : Ready(plan[th])) /\ \A x \in Tasks : ServiceOK(x)

LEMMA TaskThread == ASSUME NEW x \in Tasks PROVE x[2] \in Threads
BY DEF Tasks, Threads, Pollers

LEMMA GoesOnActs ==
  ASSUME NEW th, NEW ops, NEW S, Planned(th, ops, S), plan[th] # <<>>
  PROVE  \A o \in Range(ops) : Acts(o)
BY DEF Planned, Orderly

LEMMA PlannedRange ==
  ASSUME PlanOK, NEW th \in Threads, NEW ops, NEW S, Planned(th, ops, S)
  PROVE  /\ \A t \in Threads : t # th => plan'[t] = plan[t]
         /\ Range(plan'[th]) = Range(ops) \cup Range(Rest(th))
         /\ Range(Rest(th)) \subseteq Range(plan[th])
         /\ plan[th] = <<>> => Range(Rest(th)) = {}
         /\ Range(ops) \subseteq S
BY RangeGoes, RangeShort DEF Planned, Rest

\* A step that leaves tasks as they are, or posts one.
LEMMA ServiceKept ==
  ASSUME TypeInv, Service, NEW th \in Threads, NEW ops, NEW S, Planned(th, ops, S),
         \A o \in Range(ops) : Acts(o), UNCHANGED ended,
         \A x \in Tasks : Held(word[x]) => Held(word'[x]) /\ (x \in pool' => x \in pool)
  PROVE  Service'
<1>1. PlanOK
  BY DEF TypeInv
<1>2. \A t \in Threads : Ready(plan[t])'
  BY <1>1, ReadyGoes DEF Service
<1>3. ASSUME NEW x \in Tasks PROVE ServiceOK(x)'
  <2>1. ServiceOK(x) /\ x[2] \in Threads
    BY TaskThread DEF Service
  <2>2. Busy(x)' => Busy(x)
    BY <1>1, <2>1, PlannedRange DEF Busy, Acts
  <2> QED BY <2>1, <2>2 DEF ServiceOK, Held
<1> QED BY <1>2, <1>3 DEF Service

\* A step that takes a task.
LEMMA ServiceTaken ==
  ASSUME TypeInv, Service, NEW x \in Tasks, Take(x),
         NEW ops, NEW S, Planned(x[2], ops, S), \A o \in Range(ops) : ~ Acts(o) => o.on = x,
         \/ UNCHANGED ended
         \/ ended' = ended \cup {x} /\ \A o \in Range(ops) : Acts(o)
  PROVE  Service'
<1> DEFINE th == x[2]
<1>1. PlanOK /\ th \in Threads /\ plan[th] = <<>>
  BY TaskThread DEF TypeInv, Take
<1>2. \A t \in Threads : Ready(plan[t])'
  BY <1>1, ReadyGoes DEF Service
<1>3. Range(plan'[th]) = Range(ops) /\ \A t \in Threads : t # th => plan'[t] = plan[t]
  <2>1. Planned(th, ops, S)
    OBVIOUS
  <2> HIDE DEF th
  <2>2. /\ \A t \in Threads : t # th => plan'[t] = plan[t]
        /\ Range(plan'[th]) = Range(ops) \cup Range(Rest(th))
        /\ Range(Rest(th)) = {}
    BY <1>1, <2>1, PlannedRange
  <2> QED BY <2>2
<1>4. /\ x \in pool /\ x \notin pool' /\ pool' \subseteq pool /\ word'[x] = Locked
      /\ \A y \in Tasks : y # x => word'[y] = word[y]
  BY DEF Take, TypeInv, StateOK
<1>5. ServiceOK(x)'
  <2>1. x \notin ended
    BY <1>4 DEF Service, ServiceOK
  <2>2. ended' # ended => ~ Busy(x)'
    BY <1>3 DEF Busy, Acts
  <2> QED BY <1>4, <2>1, <2>2 DEF ServiceOK, Held, Locked
<1>6. ASSUME NEW y \in Tasks, y # x PROVE ServiceOK(y)'
  <2>1. ServiceOK(y) /\ y[2] \in Threads
    BY TaskThread DEF Service
  <2>2. Busy(y)' => Busy(y)
    BY <1>3, <1>6, <2>1 DEF Busy, Acts
  <2> QED BY <1>4, <1>6, <2>1, <2>2 DEF ServiceOK, Held
<1> QED BY <1>2, <1>5, <1>6 DEF Service

LEMMA ServicePost ==
  ASSUME TypeInv, Service, NEW th \in Threads, Post(th)
  PROVE  Service'
<1>1. Planned(th, <<>>, {}) /\ \A o \in Range(<<>>) : Acts(o)
  BY ProceedPlans, RangeShort
<1>2. ASSUME NEW x \in Tasks, Held(word[x])
      PROVE  Held(word'[x]) /\ (x \in pool' => x \in pool)
  <2>1. CASE x = On(th) /\ Alive(x)
    <3>1. word'[x] = CheckinWord(word[x], Arg(th))
      BY <2>1 DEF Post, TypeInv, StateOK
    <3>2. Held(word'[x])
      BY <1>2, <3>1 DEF Held, CheckinWord, AllLow, LowBits
    <3>3. ~ CheckinClaims(word[x], Arg(th))
      BY <1>2 DEF Held, CheckinClaims, Awaited, Zero
    <3> QED BY <2>1, <3>2, <3>3 DEF Post
  <2>2. CASE x # On(th) \/ ~ Alive(x)
    BY <1>2, <2>2 DEF Post, TypeInv, StateOK
  <2> QED BY <2>1, <2>2
<1>3. UNCHANGED ended
  BY DEF Post, life
<1> QED BY <1>1, <1>2, <1>3, ServiceKept

LEMMA ServiceReturned ==
  ASSUME TypeInv, Service, NEW th \in Threads, Returned(th)
  PROVE  Service'
<1> DEFINE y == On(th)
<1>1. /\ PlanOK /\ plan[th] # <<>> /\ y \in Tasks /\ y[2] = th
      /\ plan[th] \in Seq(Ops) /\ Head(plan[th]).op = "return"
  BY HeadFits DEF Returned, Doing, TypeInv, PlanOK
<1>2. Planned(th, <<>>, {})
  BY ProceedPlans
<1>3. \A t \in Threads : Ready(plan[t])'
  BY <1>1, <1>2, ReadyGoes DEF Service
<1>4. Range(Tail(plan[th])) = {}
  BY <1>1, ReadyTail DEF Service
<1>5. Range(plan'[th]) = {} /\ \A t \in Threads : t # th => plan'[t] = plan[t]
  <2> DEFINE none == <<>>
  <2>1. Planned(th, none, {}) /\ Range(none) = {}
    BY <1>2, RangeShort
  <2> HIDE DEF none
  <2>2. /\ \A t \in Threads : t # th => plan'[t] = plan[t]
        /\ Range(plan'[th]) = Range(none) \cup Range(Rest(th))
    BY <1>1, <2>1, PlannedRange
  <2> QED BY <1>1, <1>4, <2>1, <2>2 DEF Rest
<1>6. Busy(y)
  <2>1. Head(plan[th]) \in Range(plan[th])
    BY <1>1, RangeParts
  <2> QED BY <1>1, <2>1 DEF Busy, On, Acts
<1>7. ASSUME NEW x \in Tasks PROVE ServiceOK(x)'
  <2>1. ServiceOK(x) /\ x[2] \in Threads
    BY TaskThread DEF Service
  <2>2. Busy(x)' => Busy(x) /\ x[2] # th
    BY <1>5, <2>1 DEF Busy, Acts
  <2>3. UNCHANGED ended
    BY DEF Returned, life
  <2>4. CASE x = y
    BY <1>1, <1>6, <2>1, <2>2, <2>3, <2>4 DEF ServiceOK
  <2>5. CASE x # y
    <3>1. word'[x] = word[x] /\ (x \in pool' => x \in pool)
      BY <2>5 DEF Returned, TypeInv, StateOK
    <3> QED BY <2>1, <2>2, <2>3, <3>1 DEF ServiceOK, Held
  <2> QED BY <2>4, <2>5
<1> QED BY <1>3, <1>7 DEF Service

\* What the handlers of messages plan only acts.
LEMMA HandlePlans ==
  ASSUME TypeInv, NEW th \in Threads, HandleMsg(th)
  PROVE  \E ops, S : Planned(th, ops, S) /\ \A o \in Range(ops) : Acts(o)
<1>1. plan[th] # <<>>
  BY HandlerGoesOn
<1>2. \E ops, S : Planned(th, ops, S)
  <2>1. CASE th \in Pollers /\ (CtrlAdd(th) \/ CtrlDel(th))
    BY <2>1, ProceedPlans, CtrlDelPlans
  <2>2. ASSUME NEW n \in Nodes, th = "deal", DealStop(n) \/ DealExit(n)
        PROVE  \E ops, S : Planned(th, ops, S)
    BY <2>2, DealPlans
  <2>3. ASSUME NEW n \in Nodes, th = "deal", NEW ok \in BOOLEAN, DealMsg(n, ok)
        PROVE  \E ops, S : Planned(th, ops, S)
    BY <2>3, DealMsgPlans
  <2>4. ASSUME NEW n \in Nodes, th = "cmd", CmdRegist(n) \/ CmdUnreg(n) \/ CmdStop(n)
        PROVE  \E ops, S : Planned(th, ops, S)
    BY <2>4, CmdPlans
  <2> QED BY <2>1, <2>2, <2>3, <2>4 DEF HandleMsg
<1> QED BY <1>1, <1>2, GoesOnActs

LEMMA ServiceProceed ==
  ASSUME TypeInv, Service, NEW th \in Threads, Proceed(th) PROVE Service'
<1>1. ASSUME Queue(th) PROVE Service'
  <2>1. Planned(th, <<>>, {}) /\ \A o \in Range(<<>>) : Acts(o)
    BY <1>1, ProceedPlans, RangeShort
  <2>2. UNCHANGED <<ended, word, pool>>
    BY <1>1 DEF Queue, life
  <2> QED BY <2>1, <2>2, ServiceKept
<1>2. ASSUME HandleMsg(th) PROVE Service'
  BY <1>2, HandlePlans, HandlerGoesOn, ServiceKept
<1> QED BY <1>1, <1>2, ProceedSteps, ServicePost, ServiceReturned

\* What a thread that takes a task plans.
LEMMA ServePlans ==
  ASSUME TypeInv, NEW x \in Tasks, Serve(x)
  PROVE  /\ Take(x)
         /\ \E ops, S :
              /\ Planned(x[2], ops, S)
              /\ \A o \in Range(ops) : ~ Acts(o) => o.on = x
              /\ \/ UNCHANGED ended
                 \/ ended' = ended \cup {x} /\ \A o \in Range(ops) : Acts(o)
<1> DEFINE n == x[1]
           Fit == \E ops, S :
              /\ Planned(x[2], ops, S)
              /\ \A o \in Range(ops) : ~ Acts(o) => o.on = x
              /\ \/ UNCHANGED ended
                 \/ ended' = ended \cup {x} /\ \A o \in Range(ops) : Acts(o)
<1>1. /\ \A y, ev : Op("return", y, ev).on = y
      /\ \A y, m : Op("msg", y, m).on = y
      /\ x = <<n, x[2]>> /\ (n # Ctrl => n \in Nodes)
  BY DEF Op, Tasks
<1>2. ASSUME Drain(x) PROVE Take(x) /\ Fit
  <2>1. Take(x) /\ UNCHANGED ended
    BY <1>2 DEF Drain, TakeLive, life
  <2>2. PICK ops : Planned(x[2], ops,
          {Op("msg", x, m) : m \in Range(msgs[x])} \cup {Op("return", x, "NORM")})
    BY <1>2, DrainPlans
  <2>3. \A o \in Range(ops) : o.on = x
    BY <1>1, <2>2 DEF Planned
  <2> QED BY <2>1, <2>2, <2>3
<1>3. ASSUME n \in Nodes, x[2] = "rcv", NEW ev \in Answers(n, "rcv"), Read(n, ev)
      PROVE  Take(x) /\ Fit
  <2>1. Take(x) /\ UNCHANGED ended
    BY <1>1, <1>3 DEF Read, life
  <2>2. PICK ops : Planned("rcv", ops,
           Gives(<<n, "snd">>, Msg("DATA", n)) \cup Gives(<<n, "deal">>, Msg("DATA", n))
             \cup Gives(<<n, "cmd">>, Msg("UNREG", n)) \cup {Op("return", <<n, "rcv">>, ev)})
    BY <1>3, ReadPlans
  <2>3. \A o \in Range(ops) : ~ Acts(o) => o = Op("return", <<n, "rcv">>, ev)
    BY <2>2, ActsGive DEF Planned
  <2>4. \A o \in Range(ops) : ~ Acts(o) => o.on = x
    BY <1>1, <1>3, <2>3
  <2> QED BY <1>3, <2>1, <2>2, <2>4
<1>4. ASSUME n \in Nodes, x[2] = "snd", NEW ev \in Answers(n, "snd"), Write(n, ev)
      PROVE  Take(x) /\ Fit
  <2>1. Take(x) /\ UNCHANGED ended
    BY <1>1, <1>4 DEF Write, TakeLive, life
  <2>2. PICK ops : Planned("snd", ops,
           Gives(<<n, "cmd">>, Msg("UNREG", n)) \cup {Op("return", <<n, "snd">>, ev)})
    BY <1>4, WritePlans
  <2>3. \A o \in Range(ops) : ~ Acts(o) => o = Op("return", <<n, "snd">>, ev)
    BY <2>2, ActsGive DEF Planned
  <2>4. \A o \in Range(ops) : ~ Acts(o) => o.on = x
    BY <1>1, <1>4, <2>3
  <2> QED BY <1>4, <2>1, <2>2, <2>4
<1>5. ASSUME n \in Nodes,
             \/ x[2] = "rcv" /\ ReadEnd(n)
             \/ x[2] = "snd" /\ WriteEnd(n)
             \/ x[2] = "deal" /\ DealEnd(n)
             \/ x[2] = "cmd" /\ CmdEnd(n)
      PROVE  Take(x) /\ Fit
  <2>1. Take(x) /\ ended' = ended \cup {x}
    BY <1>1, <1>5 DEF ReadEnd, WriteEnd, DealEnd, CmdEnd, TakeEof
  <2>2. \E ops, S : Planned(x[2], ops, S) /\ \A o \in Range(ops) : Acts(o)
    <3>1. CASE x[2] = "rcv" /\ ReadEnd(n)
      <4>1. PICK ops : Planned("rcv", ops,
               Gives(<<n, "cmd">>, Msg("STOP", "STOP_RCV")))
        BY <1>5, <3>1, EndPlans
      <4>2. \A o \in Range(ops) : Acts(o)
        BY <4>1, ActsGive DEF Planned
      <4> QED BY <3>1, <4>1, <4>2
    <3>2. CASE x[2] = "snd" /\ WriteEnd(n)
      <4>1. PICK ops : Planned("snd", ops,
               Gives(<<n, "cmd">>, Msg("UNREG", n))
                 \cup Gives(<<n, "cmd">>, Msg("STOP", "STOP_SND")))
        BY <1>5, <3>2, EndPlans
      <4>2. \A o \in Range(ops) : Acts(o)
        BY <4>1, ActsGive DEF Planned
      <4> QED BY <3>2, <4>1, <4>2
    <3>3. CASE x[2] = "deal" /\ DealEnd(n)
      <4>1. PICK ops : Planned("deal", ops,
               Gives(<<n, "cmd">>, Msg("STOP", "STOP_DEAL")))
        BY <1>5, <3>3, EndPlans
      <4>2. \A o \in Range(ops) : Acts(o)
        BY <4>1, ActsGive DEF Planned
      <4> QED BY <3>3, <4>1, <4>2
    <3>4. CASE x[2] = "cmd" /\ CmdEnd(n)
      BY <1>5, <3>4, EndPlans, RangeShort
    <3> QED BY <1>5, <3>1, <3>2, <3>3, <3>4
  <2> QED BY <2>1, <2>2
<1> HIDE DEF Fit
<1>6. Take(x) /\ Fit
  BY <1>1, <1>2, <1>3, <1>4, <1>5 DEF Serve
<1> QED BY <1>6 DEF Fit

LEMMA ServiceNext == TypeInv /\ Service /\ [Next]_vars => Service'
<1> SUFFICES ASSUME TypeInv, Service, [Next]_vars PROVE Service'
  OBVIOUS
<1>1. ASSUME NEW th \in Threads, NEW ops, NEW S, Planned(th, ops, S), \A o \in S : Acts(o),
             UNCHANGED <<mail, ended>>
      PROVE  Service'
  <2>1. \A o \in Range(ops) : Acts(o)
    BY <1>1 DEF Planned
  <2> QED BY <1>1, <2>1, ServiceKept DEF mail
<1>2. ASSUME NEW n \in Nodes, Accept(n) PROVE Service'
  <2>1. "rcv" \in Threads /\ UNCHANGED <<mail, ended>>
    BY <1>2 DEF Accept, Threads
  <2> QED BY <1>1, <1>2, <2>1, AcceptPlans, ActsGive
<1>3. ASSUME NEW th \in Pollers, NEW n \in Nodes, PollReady(th, n) \/ PollError(th, n)
      PROVE  Service'
  <2>1. th \in Threads /\ UNCHANGED <<mail, ended>>
    BY <1>3 DEF PollReady, PollError, Threads, Pollers, life
  <2> QED BY <1>1, <1>3, <2>1, PollPlans, ActsGive
<1>4. ASSUME NEW x \in Tasks, Serve(x) PROVE Service'
  BY <1>4, ServePlans, ServiceTaken
<1>5. CASE UNCHANGED vars
  BY <1>5 DEF vars, mail, life, Service, ServiceOK, Busy, Acts, Ready, Held
<1> QED BY <1>2, <1>3, <1>4, <1>5, ServiceProceed DEF Next

LEMMA ServiceInit == Init => Service
<1> SUFFICES ASSUME Init PROVE Service
  OBVIOUS
<1>1. \A th \in Threads : plan[th] = <<>> /\ Range(plan[th]) = {} /\ Ready(plan[th])
  BY RangeShort DEF Init, Ready
<1>2. \A x \in Tasks : ~ Busy(x) /\ x \notin ended
  BY <1>1, TaskThread DEF Init, Busy
<1> QED BY <1>1, <1>2 DEF Service, ServiceOK

-----------------------------------------------------------------------------
(* Who may still reach the tasks of a connection.                          *)

Live(n, th) == <<n, th>> \notin ended

\* The thread by may do o: it has not ended its own task of the node o is on,
\* or o is on the director's.
Access(o, by) ==
  Acts(o) /\ o.on[1] # Ctrl =>
    LET n == o.on[1] IN
    \/ o.on[2] = "cmd"
    \/ o.on[2] = "rcv" /\ by = "rcv" /\ Live(n, by)
    \/ o.on[2] = "snd" /\ by \in {"rcv", "snd"} /\ Live(n, by)
    \/ o.on[2] = "snd" /\ by = "deal" /\ n \notin closed
    \/ o.on[2] = "deal" /\ by \in {"rcv", "deal"} /\ Live(n, by)
    \/ o.on[2] = "deal" /\ by = "cmd" /\ (o.op = "queue" => o.arg.type = "STOP")

AccessOK == \A by \in Threads : \A o \in Range(plan[by]) : Access(o, by)

\* Nobody polls for a task that has ended.
Unpolled == \A n \in Nodes, th \in Pollers : <<n, th>> \in ended => n \notin run[th]

\* Everything AccessOK depends on.
Reached ==
  TypeInv /\ Service /\ AccessOK /\ Unpolled /\ \A n \in Nodes : CloseOK(n)

\* What a thread plans is in order, and it keeps what it has left to do.
LEMMA AccessStep ==
  ASSUME PlanOK, AccessOK, NEW th \in Threads, NEW ops, NEW S, Planned(th, ops, S),
         \A o \in S : Access(o, th)',
         \A t \in Threads \ {th} : \A n \in Nodes : Live(n, t) => Live(n, t)',
         UNCHANGED closed \/ th = "deal",
         UNCHANGED <<ended, closed>> \/ \A o \in Range(Rest(th)) : ~ Acts(o)
  PROVE  AccessOK'
<1>1. /\ \A t \in Threads : t # th => plan'[t] = plan[t]
      /\ Range(plan'[th]) = Range(ops) \cup Range(Rest(th))
      /\ Range(Rest(th)) \subseteq Range(plan[th]) /\ Range(ops) \subseteq S
  BY PlannedRange
<1>2. ASSUME NEW t \in Threads, t # th, NEW o \in Range(plan[t]) PROVE Access(o, t)'
  <2>1. Access(o, t) /\ o.on \in Tasks
    <3>1. plan[t] \in Seq(Ops)
      BY DEF PlanOK
    <3>2. o \in Ops
      BY <3>1 DEF Range
    <3> QED BY <3>2 DEF AccessOK, Ops
  <2>2. o.on[1] # Ctrl => o.on[1] \in Nodes
    BY <2>1 DEF Tasks
  <2>3. \A n \in Nodes : Live(n, t) => Live(n, t)'
    BY <1>2
  <2> QED BY <1>2, <2>1, <2>2, <2>3 DEF Access, Acts
<1>3. ASSUME NEW o \in Range(Rest(th)) PROVE Access(o, th)'
  <2>1. Access(o, th)
    BY <1>1, <1>3 DEF AccessOK
  <2> QED BY <1>3, <2>1 DEF Access, Acts, Live
<1>4. \A t \in Threads : \A o \in Range(plan'[t]) : Access(o, t)'
  BY <1>1, <1>2, <1>3
<1> QED BY <1>4 DEF AccessOK, Access, Acts, Live, Range

\* What may always be planned.
LEMMA FreeAccess ==
  /\ \A o, by : ~ Acts(o) => Access(o, by)'
  /\ \A n, m, by : \A o \in Gives(<<n, "cmd">>, m) : Access(o, by)'
  /\ \A n, ev, by : Access(Op("post", <<n, "cmd">>, ev), by)'
  /\ \A th, m, by : \A o \in Gives(<<Ctrl, th>>, m) : Access(o, by)'
BY DEF Access, Acts, Gives, Op

\* A step that ends no task and closes no session.
LEMMA AccessKept ==
  ASSUME Reached, NEW th \in Threads, NEW ops, NEW S, Planned(th, ops, S),
         \A o \in S : Access(o, th)', UNCHANGED <<ended, closed>>
  PROVE  AccessOK'
BY AccessStep DEF Reached, TypeInv, Live

LEMMA AccessPoll ==
  ASSUME Reached, NEW th \in Pollers, NEW n \in Nodes, PollReady(th, n) \/ PollError(th, n)
  PROVE  AccessOK'
<1>1. th \in Threads /\ TypeInv /\ UNCHANGED <<ended, closed>>
  BY DEF Threads, Pollers, Reached, PollReady, PollError, life
<1>2. CASE PollReady(th, n)
  <2> DEFINE o == Op("post", <<n, th>>, Event(th))
  <2>1. PICK ops : Planned(th, ops, {o})
    BY <1>1, <1>2, PollPlans
  <2>2. Live(n, th)'
    BY <1>1, <1>2 DEF Reached, Unpolled, PollReady, Polled, Live
  <2>3. Access(o, th)'
    BY <2>2 DEF Access, Op, Pollers
  <2> HIDE DEF o
  <2> QED BY <1>1, <2>1, <2>3, AccessKept
<1>3. CASE PollError(th, n)
  <2>1. PICK ops : Planned(th, ops, Gives(<<n, "cmd">>, Msg("UNREG", n)))
    BY <1>1, <1>3, PollPlans
  <2> QED BY <1>1, <2>1, FreeAccess, AccessKept
<1> QED BY <1>2, <1>3

LEMMA AccessRead ==
  ASSUME Reached, NEW n \in Nodes, NEW ev \in Answers(n, "rcv"), Read(n, ev)
  PROVE  AccessOK'
<1> DEFINE S == Gives(<<n, "snd">>, Msg("DATA", n)) \cup Gives(<<n, "deal">>, Msg("DATA", n))
                  \cup Gives(<<n, "cmd">>, Msg("UNREG", n)) \cup {Op("return", <<n, "rcv">>, ev)}
<1>1. "rcv" \in Threads /\ TypeInv /\ <<n, "rcv">> \in Tasks
  BY NodeTasks DEF Threads, Reached
<1>2. Live(n, "rcv")' /\ UNCHANGED <<ended, closed>>
  BY <1>1 DEF Reached, Service, ServiceOK, Read, Take, Live, life
<1>3. PICK ops : Planned("rcv", ops, S)
  BY <1>1, ReadPlans
<1>4. \A o \in Gives(<<n, "snd">>, Msg("DATA", n)) \cup Gives(<<n, "deal">>, Msg("DATA", n)) :
        Access(o, "rcv")'
  BY <1>2 DEF Access, Gives, Op
<1>5. \A o \in S : Access(o, "rcv")'
  BY <1>4, FreeAccess, ActsGive
<1> HIDE DEF S
<1> QED BY <1>1, <1>2, <1>3, <1>5, AccessKept

LEMMA AccessWrite ==
  ASSUME Reached, NEW n \in Nodes, NEW ev \in Answers(n, "snd"), Write(n, ev)
  PROVE  AccessOK'
<1>1. "snd" \in Threads /\ TypeInv /\ UNCHANGED <<ended, closed>>
  BY DEF Threads, Reached, Write, TakeLive, life
<1>2. PICK ops : Planned("snd", ops,
        Gives(<<n, "cmd">>, Msg("UNREG", n)) \cup {Op("return", <<n, "snd">>, ev)})
  BY <1>1, WritePlans
<1> QED BY <1>1, <1>2, FreeAccess, ActsGive, AccessKept

LEMMA AccessDrain ==
  ASSUME Reached, NEW x \in Tasks, Drain(x) PROVE AccessOK'
<1>1. x[2] \in Threads /\ TypeInv /\ UNCHANGED <<ended, closed>>
  BY TaskThread DEF Reached, Drain, TakeLive, life
<1>2. PICK ops : Planned(x[2], ops,
        {Op("msg", x, m) : m \in Range(msgs[x])} \cup {Op("return", x, "NORM")})
  BY <1>1, DrainPlans
<1> QED BY <1>1, <1>2, FreeAccess, ActsGive, AccessKept

\* The task of n that the thread th has ended is the one th may reach no more.
LEMMA AccessEnd ==
  ASSUME Reached, NEW n \in Nodes, NEW th \in Threads, TakeEof(<<n, th>>), UNCHANGED closed,
         NEW ops, NEW S, Planned(th, ops, S), \A o \in S : Access(o, th)'
  PROVE  AccessOK'
<1>1. PlanOK /\ AccessOK /\ plan[th] = <<>>
  BY DEF Reached, TypeInv, TakeEof, Take
<1>2. \A o \in Range(Rest(th)) : ~ Acts(o)
  BY <1>1, RangeShort DEF Rest
<1>3. \A t \in Threads \ {th} : \A m \in Nodes : Live(m, t) => Live(m, t)'
  BY DEF TakeEof, Live
<1> QED BY <1>1, <1>2, <1>3, AccessStep

LEMMA AccessEnds ==
  ASSUME Reached, NEW n \in Nodes, ReadEnd(n) \/ WriteEnd(n) \/ DealEnd(n) \/ CmdEnd(n)
  PROVE  AccessOK'
<1>1. {"rcv", "snd", "deal", "cmd"} = Threads /\ TypeInv
  BY DEF Threads, Reached
<1>2. CASE ReadEnd(n)
  <2>1. PICK ops : Planned("rcv", ops, Gives(<<n, "cmd">>, Msg("STOP", "STOP_RCV")))
    BY <1>1, <1>2, EndPlans
  <2>2. TakeEof(<<n, "rcv">>) /\ UNCHANGED closed
    BY <1>2 DEF ReadEnd, TakeEof
  <2> QED BY <1>1, <2>1, <2>2, FreeAccess, AccessEnd
<1>3. CASE WriteEnd(n)
  <2>1. PICK ops : Planned("snd", ops, Gives(<<n, "cmd">>, Msg("UNREG", n))
                                         \cup Gives(<<n, "cmd">>, Msg("STOP", "STOP_SND")))
    BY <1>1, <1>3, EndPlans
  <2>2. TakeEof(<<n, "snd">>) /\ UNCHANGED closed
    BY <1>3 DEF WriteEnd, TakeEof
  <2> QED BY <1>1, <2>1, <2>2, FreeAccess, AccessEnd
<1>4. CASE DealEnd(n)
  <2>1. PICK ops : Planned("deal", ops, Gives(<<n, "cmd">>, Msg("STOP", "STOP_DEAL")))
    BY <1>1, <1>4, EndPlans
  <2>2. TakeEof(<<n, "deal">>) /\ UNCHANGED closed
    BY <1>4 DEF DealEnd, TakeEof
  <2> QED BY <1>1, <2>1, <2>2, FreeAccess, AccessEnd
<1>5. CASE CmdEnd(n)
  <2>1. Planned("cmd", <<>>, {})
    BY <1>1, <1>5, EndPlans
  <2>2. TakeEof(<<n, "cmd">>) /\ UNCHANGED closed
    BY <1>5 DEF CmdEnd, TakeEof
  <2> QED BY <1>1, <2>1, <2>2, AccessEnd
<1> QED BY <1>2, <1>3, <1>4, <1>5

\* The thread of a task that handles a message has not ended it, and has
\* nothing else to do first.
LEMMA HandlerFree ==
  ASSUME TypeInv, Service, NEW th \in Threads, NEW x, NEW type, Handling(th, x, type)
  PROVE  x \notin ended /\ \A o \in Range(Rest(th)) : ~ Acts(o)
<1>1. /\ plan[th] # <<>> /\ PlanOK /\ x \in Tasks /\ x[2] = th
      /\ Head(plan[th]) = Op("msg", x, Arg(th))
  BY Handled
<1>2. plan[th] \in Seq(Ops) /\ Ready(plan[th])
  BY <1>1 DEF PlanOK, Service
<1>3. ~ Acts(Head(plan[th])) /\ Head(plan[th]).on = x
  BY <1>1 DEF Acts, Op
<1>4. Head(plan[th]) \in Range(plan[th])
  BY <1>1, <1>2, RangeParts
<1>5. Busy(x)
  BY <1>1, <1>3, <1>4 DEF Busy
<1>6. x \notin ended
  BY <1>1, <1>5 DEF Service, ServiceOK
<1>7. \A o \in Range(Tail(plan[th])) : ~ Acts(o)
  BY <1>1, <1>2, <1>3, ReadyTail
<1> QED BY <1>1, <1>6, <1>7 DEF Rest

\* A task that is to be ended has not ended, and the letter is for n.
LEMMA DelHandled ==
  ASSUME TypeInv, \A n \in Nodes : CloseOK(n), NEW th \in Pollers, CtrlDel(th)
  PROVE  LET n == Arg(th).val IN
         /\ n \in Nodes /\ Consumes(th, DelFd(n, th, EndStage[th]))
         /\ DelFd(n, th, EndStage[th]) \in Letters(n)
         /\ Stage(n) = EndStage[th] /\ Live(n, th)
         /\ \A m \in Nodes : m # n => ~ Consumes(th, DelFd(m, th, EndStage[th]))
<1> DEFINE n == Arg(th).val
           k == DelFd(n, th, EndStage[th])
<1>1. th \in Threads /\ Handling(th, <<Ctrl, th>>, "DEL_FD")
  BY DEF Threads, Pollers, CtrlDel
<1>2. /\ n \in Nodes /\ plan[th] # <<>> /\ PlanOK
      /\ Head(plan[th]) = Op("msg", <<Ctrl, th>>, Msg("DEL_FD", n))
  BY <1>1, Handled
<1>3. k \in Letters(n)
  BY DEF Letters, EndStage, Pollers, Threads
<1>4. Consumes(th, k)
  BY <1>2 DEF Consumes, ReadOps, DelFd, Letter
<1>5. Stage(n) = EndStage[th]
  <2>1. k.stage = EndStage[th]
    BY DEF DelFd, Letter
  <2> QED BY <1>1, <1>2, <1>3, <1>4, <2>1, Consuming
<1>6. Live(n, th)
  <2>1. /\ <<n, "rcv">> \in ended <=> Stage(n) >= 2
        /\ <<n, "snd">> \in ended <=> Stage(n) >= 7
    BY <1>2 DEF CloseOK, StageOK
  <2>2. /\ th = "rcv" => EndStage[th] = 1
        /\ th = "snd" => EndStage[th] = 6
    BY DEF EndStage, Threads
  <2> HIDE DEF n
  <2> QED BY <1>5, <2>1, <2>2 DEF Pollers, Live
<1>7. \A m \in Nodes : m # n => ~ Consumes(th, DelFd(m, th, EndStage[th]))
  BY <1>2 DEF Consumes, ReadOps, DelFd, Letter, Op, Msg
<1> QED BY <1>2, <1>3, <1>4, <1>5, <1>6, <1>7

LEMMA AccessCtrl ==
  ASSUME Reached, NEW th \in Pollers, CtrlAdd(th) \/ CtrlDel(th)
  PROVE  AccessOK'
<1>1. th \in Threads /\ TypeInv /\ UNCHANGED <<ended, closed>>
  BY DEF Threads, Pollers, Reached, CtrlAdd, CtrlDel, Handling
<1>2. CASE CtrlAdd(th)
  <2>1. Planned(th, <<>>, {})
    BY <1>1, <1>2, ProceedPlans
  <2> QED BY <1>1, <2>1, AccessKept
<1>3. CASE CtrlDel(th)
  <2>0. PICK n \in Nodes : n = Arg(th).val
    BY <1>1, <1>3, CtrlDelPlans
  <2> DEFINE o == Op("post", <<n, th>>, "END")
  <2>1. PICK ops : Planned(th, ops, {o})
    BY <1>1, <1>3, <2>0, CtrlDelPlans
  <2>2. Live(n, th)
    BY <1>1, <1>3, <2>0, DelHandled DEF Reached
  <2>3. Access(o, th)'
    BY <1>1, <2>2 DEF Access, Op, Pollers, Live
  <2> HIDE DEF o
  <2> QED BY <1>1, <2>1, <2>3, AccessKept
<1> QED BY <1>2, <1>3

LEMMA AccessDeal ==
  ASSUME Reached, NEW n \in Nodes, DealStop(n) \/ DealExit(n)
  PROVE  AccessOK'
<1>1. "deal" \in Threads /\ TypeInv /\ Service /\ PlanOK /\ AccessOK
  BY DEF Threads, Reached, TypeInv
<1>2. CASE DealStop(n)
  <2> DEFINE S == Gives(<<n, "deal">>, Msg("ALLOW_EXIT", n))
  <2>1. PICK ops : Planned("deal", ops, S)
    BY <1>1, <1>2, DealPlans
  <2>2. Live(n, "deal") /\ (\A o \in Range(Rest("deal")) : ~ Acts(o)) /\ UNCHANGED ended
    BY <1>1, <1>2, HandlerFree DEF DealStop, Live, Handling
  <2>3. \A o \in S : Access(o, "deal")'
    BY <2>2 DEF Access, Gives, Op, Live
  <2>4. \A t \in Threads \ {"deal"} : \A m \in Nodes : Live(m, t) => Live(m, t)'
    BY <2>2 DEF Live
  <2> HIDE DEF S
  <2> QED BY <1>1, <2>1, <2>2, <2>3, <2>4, AccessStep
<1>3. CASE DealExit(n)
  <2> DEFINE o == Op("post", <<n, "deal">>, "END")
  <2>1. PICK ops : Planned("deal", ops, {o})
    BY <1>1, <1>3, DealPlans
  <2>2. Live(n, "deal") /\ UNCHANGED <<ended, closed>>
    BY <1>1, <1>3, HandlerFree DEF DealExit, Live, Handling
  <2>3. Access(o, "deal")'
    BY <2>2 DEF Access, Op, Live
  <2> HIDE DEF o
  <2> QED BY <1>1, <2>1, <2>2, <2>3, AccessKept
<1> QED BY <1>2, <1>3

\* A connection that data may be addressed to is still in the dealer's hands.
LEMMA ReachableLive ==
  ASSUME Reached, NEW m \in Reachable
  PROVE  m \in Nodes /\ m \in cmdList /\ m \notin closed /\ Live(m, "deal")
<1>1. m \in Nodes /\ m \in cmdList /\ m \notin closed
  BY DEF Reachable, Reached, TypeInv, StateOK
<1>2. /\ m \in closed <=> Stage(m) >= 4
      /\ <<m, "deal">> \in ended <=> Stage(m) >= 5
  BY <1>1 DEF Reached, CloseOK, StageOK
<1>3. Stage(m) \in 0 .. 10
  BY StageTypes
<1> QED BY <1>1, <1>2, <1>3 DEF Live

LEMMA AccessDealMsg ==
  ASSUME Reached, NEW n \in Nodes, NEW ok \in BOOLEAN, DealMsg(n, ok)
  PROVE  AccessOK'
<1> DEFINE S == DeliversTo(Reachable) \cup Gives(<<n, "cmd">>, Msg("UNREG", n))
<1>1. "deal" \in Threads /\ TypeInv /\ UNCHANGED <<ended, closed>>
  BY DEF Threads, Reached, DealMsg, Handling
<1>2. PICK ops : Planned("deal", ops, S)
  BY <1>1, DealMsgPlans
<1>3. ASSUME NEW m \in Reachable, NEW o \in Delivers(m) PROVE Access(o, "deal")'
  <2>1. m \notin closed /\ Live(m, "deal")
    BY ReachableLive
  <2>2. m \notin closed' /\ Live(m, "deal")'
    BY <1>1, <2>1 DEF Live
  <2> QED BY <2>2 DEF Access, Delivers, Gives, Op
<1>4. \A o \in S : Access(o, "deal")'
  BY <1>3, FreeAccess DEF DeliversTo
<1> HIDE DEF S
<1> QED BY <1>1, <1>2, <1>4, AccessKept

LEMMA AccessCmd ==
  ASSUME Reached, NEW n \in Nodes, CmdRegist(n) \/ CmdUnreg(n) \/ CmdStop(n)
  PROVE  AccessOK'
<1>1. "cmd" \in Threads /\ TypeInv /\ UNCHANGED <<ended, closed>>
  BY DEF Threads, Reached, CmdRegist, CmdUnreg, CmdStop, Handling
<1>2. \A o \in Gives(<<n, "deal">>, Msg("STOP", "STOP_DEAL")) : Access(o, "cmd")'
  BY DEF Access, Gives, Op, Msg
<1>3. \E ops, S : Planned("cmd", ops, S) /\ \A o \in S : Access(o, "cmd")'
  <2>1. CASE CmdRegist(n)
    <3>1. PICK ops : Planned("cmd", ops, Gives(<<Ctrl, "rcv">>, Msg("ADD_FD", n))
                                           \cup Gives(<<Ctrl, "snd">>, Msg("ADD_FD", n)))
      BY <1>1, <2>1, CmdPlans
    <3> QED BY <3>1, FreeAccess
  <2>2. CASE CmdUnreg(n)
    <3>1. PICK ops : Planned("cmd", ops, Gives(<<Ctrl, "rcv">>, Msg("DEL_FD", n)))
      BY <1>1, <2>2, CmdPlans
    <3> QED BY <3>1, FreeAccess
  <2>3. CASE CmdStop(n)
    <3> DEFINE S == Gives(<<n, "deal">>, Msg("STOP", "STOP_DEAL"))
                      \cup Gives(<<Ctrl, "snd">>, Msg("DEL_FD", n))
                      \cup Gives(<<n, "cmd">>, Msg("STOP", "CLOSED"))
                      \cup {Op("post", <<n, "cmd">>, "END")}
    <3>1. PICK ops : Planned("cmd", ops, S)
      BY <1>1, <2>3, CmdPlans
    <3>2. \A o \in S : Access(o, "cmd")'
      BY <1>2, FreeAccess
    <3> HIDE DEF S
    <3> QED BY <3>1, <3>2
  <2> QED BY <2>1, <2>2, <2>3
<1> QED BY <1>1, <1>3, AccessKept

LEMMA AccessHandle == ASSUME Reached, NEW th \in Threads, HandleMsg(th) PROVE AccessOK'
BY AccessCtrl, AccessDeal, AccessDealMsg, AccessCmd DEF HandleMsg

LEMMA AccessProceed == ASSUME Reached, NEW th \in Threads, Proceed(th) PROVE AccessOK'
<1>1. CASE Queue(th) \/ Post(th) \/ Returned(th)
  <2>1. Planned(th, <<>>, {}) /\ UNCHANGED <<ended, closed>>
    BY <1>1, ProceedPlans DEF Reached, Queue, Post, Returned, life
  <2> QED BY <2>1, AccessKept
<1> QED BY <1>1, AccessHandle, ProceedSteps

LEMMA AccessServe == ASSUME Reached, NEW x \in Tasks, Serve(x) PROVE AccessOK'
<1>1. x[1] # Ctrl => x[1] \in Nodes
  BY DEF Tasks
<1> QED BY <1>1, AccessDrain, AccessRead, AccessWrite, AccessEnds DEF Serve

LEMMA AccessNext == Reached /\ [Next]_vars => AccessOK'
<1> SUFFICES ASSUME Reached, [Next]_vars PROVE AccessOK'
  OBVIOUS
<1>1. ASSUME NEW n \in Nodes, Accept(n) PROVE AccessOK'
  <2>1. "rcv" \in Threads /\ TypeInv /\ UNCHANGED <<ended, closed>>
    BY <1>1 DEF Threads, Reached, Accept
  <2>2. PICK ops : Planned("rcv", ops, Gives(<<n, "cmd">>, Msg("REGIST", n)))
    BY <1>1, <2>1, AcceptPlans
  <2> QED BY <2>1, <2>2, FreeAccess, AccessKept
<1>2. CASE UNCHANGED vars
  BY <1>2 DEF vars, life, Reached, AccessOK, Access, Acts, Live, Range
<1> QED BY <1>1, <1>2, AccessPoll, AccessServe, AccessProceed DEF Next

LEMMA AccessInit == Init => AccessOK
<1>1. Init => \A th \in Threads : Range(plan[th]) = {}
  BY RangeShort DEF Init
<1> QED BY <1>1 DEF AccessOK

-----------------------------------------------------------------------------
(* One message before another.                                             *)

Before(A, D, s) == \A i, j \in DOMAIN s : s[i] \in A /\ s[j] \in D => i < j

LEMMA BeforeNone ==
  ASSUME NEW A, NEW D, NEW s, ~ Has(A, s) \/ ~ Has(D, s) PROVE Before(A, D, s)
BY DEF Before, Has

LEMMA BeforeTail ==
  ASSUME NEW S, NEW s \in Seq(S), s # <<>>, NEW A, NEW D, Before(A, D, s)
  PROVE  Before(A, D, Tail(s)) /\ (Head(s) \in D => ~ Has(A, s))
<1> DEFINE t == Tail(s)
<1>1. /\ DOMAIN s = 1 .. Len(s) /\ DOMAIN t = 1 .. Len(s) - 1 /\ Len(s) \in Nat \ {0}
      /\ Head(s) = s[1]
  OBVIOUS
<1>2. \A i \in 1 .. Len(s) - 1 : i + 1 \in 1 .. Len(s) /\ t[i] = s[i + 1]
  BY <1>1
<1> HIDE DEF t
<1>3. ASSUME NEW i \in 1 .. Len(s) - 1, NEW j \in 1 .. Len(s) - 1, t[i] \in A, t[j] \in D
      PROVE  i < j
  <2>1. i + 1 < j + 1
    BY <1>1, <1>2, <1>3 DEF Before
  <2> QED BY <2>1
<1>4. Before(A, D, t)
  BY <1>1, <1>3 DEF Before
<1>5. Head(s) \in D => ~ Has(A, s)
  BY <1>1 DEF Before, Has
<1> QED BY <1>4, <1>5 DEF t

LEMMA BeforeConcat ==
  ASSUME NEW S, NEW s \in Seq(S), NEW t \in Seq(S), NEW A, NEW D, ~ Has(A, s), ~ Has(D, s),
         Before(A, D, t)
  PROVE  Before(A, D, s \o t)
<1>1. /\ DOMAIN s = 1 .. Len(s) /\ DOMAIN t = 1 .. Len(t)
      /\ DOMAIN (s \o t) = 1 .. Len(s) + Len(t)
      /\ Len(s) \in Nat /\ Len(t) \in Nat
  OBVIOUS
<1>2. \A i \in 1 .. Len(s) : (s \o t)[i] = s[i]
  BY <1>1
<1>3. \A i \in 1 .. Len(s) + Len(t) : i \notin 1 .. Len(s) =>
        i - Len(s) \in 1 .. Len(t) /\ (s \o t)[i] = t[i - Len(s)]
  BY <1>1
<1> DEFINE u == s \o t
<1> HIDE DEF u
<1>4. ASSUME NEW i \in 1 .. Len(s) + Len(t), NEW j \in 1 .. Len(s) + Len(t),
             u[i] \in A, u[j] \in D
      PROVE  i < j
  <2>1. i \notin 1 .. Len(s) /\ j \notin 1 .. Len(s)
    BY <1>1, <1>2, <1>4 DEF Has, u
  <2>2. i - Len(s) < j - Len(s)
    BY <1>1, <1>3, <1>4, <2>1 DEF Before, u
  <2> QED BY <1>1, <2>2
<1> QED BY <1>1, <1>4 DEF Before, u

LEMMA BeforeAppend ==
  ASSUME NEW S, NEW s \in Seq(S), NEW c \in S, NEW A, NEW D, Before(A, D, s),
         c \in A => ~ Has(D, s) /\ c \notin D
  PROVE  Before(A, D, Append(s, c))
<1> DEFINE u == Append(s, c)
<1>1. /\ DOMAIN s = 1 .. Len(s) /\ DOMAIN u = 1 .. Len(s) + 1 /\ Len(s) \in Nat
      /\ u[Len(s) + 1] = c
  OBVIOUS
<1>2. \A i \in 1 .. Len(s) + 1 : i # Len(s) + 1 => i \in 1 .. Len(s) /\ u[i] = s[i]
  BY <1>1
<1> HIDE DEF u
<1>3. ASSUME NEW i \in 1 .. Len(s) + 1, NEW j \in 1 .. Len(s) + 1, u[i] \in A, u[j] \in D
      PROVE  i < j
  <2>1. CASE i = Len(s) + 1
    BY <1>1, <1>2, <1>3, <2>1 DEF Has
  <2>2. CASE i # Len(s) + 1 /\ j = Len(s) + 1
    BY <1>1, <1>2, <2>2
  <2>3. CASE i # Len(s) + 1 /\ j # Len(s) + 1
    BY <1>1, <1>2, <1>3, <2>3 DEF Before
  <2> QED BY <2>1, <2>2, <2>3
<1> QED BY <1>1, <1>3 DEF Before, u

-----------------------------------------------------------------------------
(* The registration of a connection, its adding to the run list of a       *)
(* thread, and its taking away.                                            *)

Regist(n)    == Letter("rcv", <<n, "cmd">>, {m \in Messages : m.type = "REGIST"}, 1)
AddFd(n, th) == Letter("cmd", <<Ctrl, th>>, {Msg("ADD_FD", n)}, 1)
Del(n, th)   == DelFd(n, th, EndStage[th])

\* The director has not registered n.
New(n) == n \notin born \/ Out(Regist(n))

\* What may be planned for a new connection.
FreshOp(o, n) ==
  o.on[1] = n => o.on[2] = "cmd" /\ (o.op \in {"queue", "msg"} => o.arg.type = "REGIST")

FreshOK(n) ==
  /\ n \notin reason \cup cmdList \cup run["rcv"] \cup run["snd"]
  /\ \A t \in {"rcv", "snd", "deal"} : <<n, t>> \notin pool
  /\ \A by \in Threads : \A o \in Range(plan[by]) : FreshOp(o, n)
  /\ \A m \in Range(msgs[<<n, "cmd">>]) : m.type = "REGIST"

RegistOK(n) == Once(Regist(n)) /\ (Out(Regist(n)) => n \in born)

AddOK(n, th) ==
  LET a == AddFd(n, th)
      d == Del(n, th)
  IN
  /\ Once(a)
  /\ Out(a) => ~ New(n) /\ ~ Ending(n, th) /\ Live(n, th)
  /\ Out(d) => ~ Has(WriteOps(a), plan["cmd"])
  /\ Before(a.mail, d.mail, msgs[<<Ctrl, th>>])
  /\ Before(ReadOps(a), ReadOps(d), plan[th])
  /\ Has(ReadOps(d), plan[th]) => ~ Has(a.mail, msgs[<<Ctrl, th>>])
  /\ <<n, th>> \in ended => n \notin run[th]

LEMMA AddTypes ==
  ASSUME NEW n \in Nodes, NEW t \in Pollers
  PROVE  /\ Regist(n) \in LetterType /\ AddFd(n, t) \in LetterType /\ Del(n, t) \in LetterType
         /\ Del(n, t) \in Letters(n) /\ Del(n, t).stage = EndStage[t] /\ EndStage[t] \in 1 .. 8
         /\ Regist(n).to = <<n, "cmd">> /\ Regist(n).by = "rcv"
         /\ Regist(n).mail = {m \in Messages : m.type = "REGIST"}
         /\ AddFd(n, t).to = <<Ctrl, t>> /\ AddFd(n, t).by = "cmd"
         /\ AddFd(n, t).mail = {Msg("ADD_FD", n)}
         /\ Del(n, t).to = <<Ctrl, t>> /\ Del(n, t).by = "cmd"
         /\ Del(n, t).mail = {Msg("DEL_FD", n)}
         /\ <<n, "cmd">> \in Tasks /\ <<Ctrl, t>> \in Tasks /\ <<n, t>> \in Tasks
         /\ t \in Threads
<1>1. {"rcv", "snd", "deal", "cmd"} = Threads /\ t \in Threads /\ t \in {"rcv", "snd"}
  BY DEF Threads, Pollers
<1>2. <<n, "cmd">> \in Tasks /\ <<Ctrl, t>> \in Tasks /\ <<n, t>> \in Tasks
  BY <1>1, NodeTasks DEF Tasks
<1>3. Msg("ADD_FD", n) \in Messages
  BY MsgTypes
<1>4. Del(n, t) \in Letters(n) /\ Del(n, t).stage = EndStage[t] /\ EndStage[t] \in 1 .. 8
  BY <1>1 DEF Letters, Del, DelFd, Letter, EndStage
<1>5. Del(n, t) \in LetterType
  BY <1>4, LetterTypes
<1>6. Regist(n) \in LetterType /\ AddFd(n, t) \in LetterType
  BY <1>1, <1>2, <1>3 DEF Regist, AddFd, Letter, LetterType
<1> QED BY <1>1, <1>2, <1>4, <1>5, <1>6 DEF Regist, AddFd, Del, DelFd, Letter

-----------------------------------------------------------------------------
(* What a step that neither queues a message nor drains a queue may do to  *)
(* registration, adding and taking away.                                   *)

\* Operations that carry no letter, register nothing and end no poller's task.
Routine(o) ==
  /\ o.op # "msg"
  /\ o.op = "queue" => o.on[1] # Ctrl /\ o.arg.type # "REGIST"
  /\ o.op = "post" /\ o.arg = "END" => o.on[2] \notin Pollers

\* What the thread th plans.
PlansWell(th, S) ==
  /\ \A o \in S : o.op # "msg"
  /\ \A n \in Nodes, t \in Pollers :
       /\ WriteOps(Regist(n)) \cap S # {} => Accept(n)
       /\ WriteOps(AddFd(n, t)) \cap S # {} => CmdRegist(n)
       /\ WriteOps(Del(n, t)) \cap S # {} =>
            th = "cmd" /\ \A o \in Range(Rest(th)) : ~ Acts(o)
       /\ EndOps(n, t) \cap S # {} => th = t /\ Consumes(t, Del(n, t))

\* What it changes at once.
ActsWell ==
  /\ born \subseteq born'
  /\ \A y \in Tasks : /\ y[1] = Ctrl => msgs'[y] = msgs[y]
                      /\ y[2] = "cmd" => msgs'[y] \in {msgs[y], <<>>}
  /\ \A n \in Nodes, t \in Pollers :
       /\ n \in run'[t] /\ n \notin run[t] => Consumes(t, AddFd(n, t))
       /\ <<n, t>> \in ended' => <<n, t>> \in ended \/ (IsEof(word[<<n, t>>]) /\ n \notin run'[t])
       /\ <<n, t>> \in ended => <<n, t>> \in ended'
       /\ IsEof(word'[<<n, t>>]) => Ending(n, t)

Plain(th) == ActsWell /\ \E ops, S : Planned(th, ops, S) /\ PlansWell(th, S)

LEMMA LetterOps ==
  ASSUME NEW n \in Nodes, NEW t \in Pollers
  PROVE  /\ \A o \in WriteOps(Regist(n)) :
              o.op = "queue" /\ o.on = <<n, "cmd">> /\ o.arg.type = "REGIST"
         /\ \A o \in WriteOps(AddFd(n, t)) :
              o.op = "queue" /\ o.on = <<Ctrl, t>> /\ o.arg = Msg("ADD_FD", n)
         /\ \A o \in WriteOps(Del(n, t)) :
              o.op = "queue" /\ o.on = <<Ctrl, t>> /\ o.arg = Msg("DEL_FD", n)
         /\ \A o \in EndOps(n, t) : o.op = "post" /\ o.on = <<n, t>> /\ o.arg = "END"
         /\ Msg("ADD_FD", n) # Msg("DEL_FD", n)
<1>1. \A x, m : Op("queue", x, m).op = "queue" /\ Op("queue", x, m).on = x
                /\ Op("queue", x, m).arg = m
  BY DEF Op
<1>2. \A o \in WriteOps(Regist(n)) : \E m : m.type = "REGIST" /\ o = Op("queue", <<n, "cmd">>, m)
  BY DEF WriteOps, Regist, Letter
<1>3. \A o \in WriteOps(AddFd(n, t)) : o = Op("queue", <<Ctrl, t>>, Msg("ADD_FD", n))
  BY DEF WriteOps, AddFd, Letter
<1>4. \A o \in WriteOps(Del(n, t)) : o = Op("queue", <<Ctrl, t>>, Msg("DEL_FD", n))
  BY DEF WriteOps, Del, DelFd, Letter
<1>5. \A o \in EndOps(n, t) : o.op = "post" /\ o.on = <<n, t>> /\ o.arg = "END"
  BY DEF EndOps, Op
<1>6. Msg("ADD_FD", n) # Msg("DEL_FD", n)
  BY DEF Msg
<1> QED BY <1>1, <1>2, <1>3, <1>4, <1>5, <1>6

LEMMA RoutineWell ==
  ASSUME NEW th, NEW S, \A o \in S : Routine(o)
  PROVE  PlansWell(th, S)
<1> SUFFICES ASSUME NEW n \in Nodes, NEW t \in Pollers, NEW o \in S
             PROVE  /\ o \notin WriteOps(Regist(n)) /\ o \notin WriteOps(AddFd(n, t))
                    /\ o \notin WriteOps(Del(n, t)) /\ o \notin EndOps(n, t)
  BY DEF PlansWell, Routine
<1>1. Routine(o)
  OBVIOUS
<1>2. <<Ctrl, t>>[1] = Ctrl /\ <<n, t>>[2] \in Pollers
  OBVIOUS
<1>3. o \notin WriteOps(Regist(n))
  BY <1>1, LetterOps DEF Routine
<1>4. o \notin WriteOps(AddFd(n, t)) /\ o \notin WriteOps(Del(n, t))
  BY <1>1, <1>2, LetterOps DEF Routine
<1>5. o \notin EndOps(n, t)
  BY <1>1, <1>2, LetterOps DEF Routine
<1> QED BY <1>3, <1>4, <1>5

LEMMA RoutineSends ==
  /\ \A n \in Nodes : \A th, m : m.type # "REGIST" => \A o \in Gives(<<n, th>>, m) : Routine(o)
  /\ \A x, ev : ev # "END" => Routine(Op("post", x, ev))
  /\ \A x, ev : x[2] \notin Pollers => Routine(Op("post", x, ev))
  /\ \A x, ev : Routine(Op("return", x, ev))
BY LifeAssumption DEF Gives, Routine, Op

\* The queues, the nodes and the tasks are as they were.
LEMMA SameWell ==
  ASSUME TypeInv, UNCHANGED <<msgs, run, ended>>, born \subseteq born',
         \A n \in Nodes, t \in Pollers : IsEof(word'[<<n, t>>]) => Ending(n, t)
  PROVE  ActsWell
BY DEF ActsWell

LEMMA WordsWell ==
  ASSUME UNCHANGED word
  PROVE  \A n \in Nodes, t \in Pollers : IsEof(word'[<<n, t>>]) => Ending(n, t)
BY DEF Ending, IsEof

LEMMA PlainAccept == ASSUME Reached, NEW n \in Nodes, Accept(n) PROVE Plain("rcv")
<1> DEFINE S == Gives(<<n, "cmd">>, Msg("REGIST", n))
<1>1. TypeInv
  BY DEF Reached
<1>2. PICK ops : Planned("rcv", ops, S)
  BY <1>1, AcceptPlans
<1> HIDE DEF S
<1>3. PlansWell("rcv", S)
  <2> SUFFICES ASSUME NEW m \in Nodes, NEW t \in Pollers, NEW o \in S
               PROVE  /\ o.op # "msg"
                      /\ o \in WriteOps(Regist(m)) => Accept(m)
                      /\ o \notin WriteOps(AddFd(m, t))
                      /\ o \notin WriteOps(Del(m, t)) /\ o \notin EndOps(m, t)
    BY DEF PlansWell, Pollers
  <2>1. o.on = <<n, "cmd">> /\ o.op \in {"queue", "post"} /\ (o.op = "post" => o.arg = "NORM")
    BY DEF Gives, Op, S
  <2>2. o \in WriteOps(Regist(m)) => m = n
    <3>1. <<n, "cmd">> = <<m, "cmd">> => m = n
      OBVIOUS
    <3> QED BY <2>1, <3>1, LetterOps
  <2>3. o \notin WriteOps(AddFd(m, t)) /\ o \notin WriteOps(Del(m, t))
    <3>1. <<n, "cmd">> # <<Ctrl, t>>
      BY LifeAssumption
    <3> QED BY <2>1, <3>1, LetterOps
  <2>4. o \notin EndOps(m, t)
    <3>1. o.op = "post" => o.arg # "END"
      BY <2>1
    <3>2. \A e \in EndOps(m, t) : e.op = "post" /\ e.arg = "END"
      BY LetterOps
    <3> QED BY <3>1, <3>2
  <2> QED BY <2>1, <2>2, <2>3, <2>4
<1>4. ActsWell
  BY <1>1, SameWell, WordsWell DEF Accept, mail, fields
<1> QED BY <1>2, <1>3, <1>4 DEF Plain

LEMMA PlainPoll ==
  ASSUME Reached, NEW th \in Pollers, NEW n \in Nodes, PollReady(th, n) \/ PollError(th, n)
  PROVE  Plain(th)
<1>1. TypeInv /\ th \in Threads
  BY DEF Reached, Threads, Pollers
<1>2. \E ops, S : Planned(th, ops, S) /\ \A o \in S : Routine(o)
  <2>1. CASE PollReady(th, n)
    <3>1. Event(th) # "END"
      BY DEF Event
    <3>2. PICK ops : Planned(th, ops, {Op("post", <<n, th>>, Event(th))})
      BY <1>1, <2>1, PollPlans
    <3> QED BY <3>1, <3>2, RoutineSends
  <2>2. CASE PollError(th, n)
    <3>1. PICK ops : Planned(th, ops, Gives(<<n, "cmd">>, Msg("UNREG", n)))
      BY <1>1, <2>2, PollPlans
    <3>2. Msg("UNREG", n).type # "REGIST"
      BY DEF Msg
    <3> QED BY <3>1, <3>2, RoutineSends
  <2> QED BY <2>1, <2>2
<1>3. UNCHANGED <<msgs, ended, word, born>> /\ \A t \in Pollers : run'[t] \subseteq run[t]
  BY <1>1 DEF PollReady, PollError, Forget, mail, life, TypeInv, StateOK
<1>4. ActsWell
  BY <1>3, WordsWell DEF ActsWell
<1> QED BY <1>2, <1>4, RoutineWell DEF Plain

LEMMA PlainRead ==
  ASSUME Reached, NEW n \in Nodes, NEW ev \in Answers(n, "rcv"), Read(n, ev)
  PROVE  Plain("rcv")
<1> DEFINE S == Gives(<<n, "snd">>, Msg("DATA", n)) \cup Gives(<<n, "deal">>, Msg("DATA", n))
                  \cup Gives(<<n, "cmd">>, Msg("UNREG", n)) \cup {Op("return", <<n, "rcv">>, ev)}
<1>1. TypeInv /\ <<n, "rcv">> \in Tasks /\ Take(<<n, "rcv">>)
  BY NodeTasks DEF Reached, Threads, Read
<1>2. PICK ops : Planned("rcv", ops, S)
  BY <1>1, ReadPlans
<1>3. Msg("DATA", n).type # "REGIST" /\ Msg("UNREG", n).type # "REGIST"
  BY DEF Msg
<1>4. \A o \in S : Routine(o)
  BY <1>3, RoutineSends
<1>5. UNCHANGED <<msgs, ended, born>> /\ \A t \in Pollers : run'[t] \subseteq run[t]
  BY <1>1 DEF Read, Forget, life, TypeInv, StateOK
<1>6. \A m \in Nodes, t \in Pollers : IsEof(word'[<<m, t>>]) => Ending(m, t)
  BY <1>1, TakenEnds DEF Pollers, Threads
<1>7. ActsWell
  BY <1>5, <1>6 DEF ActsWell
<1> HIDE DEF S
<1> QED BY <1>2, <1>4, <1>7, RoutineWell DEF Plain

LEMMA PlainWrite ==
  ASSUME Reached, NEW n \in Nodes, NEW ev \in Answers(n, "snd"), Write(n, ev)
  PROVE  Plain("snd")
<1> DEFINE S == Gives(<<n, "cmd">>, Msg("UNREG", n)) \cup {Op("return", <<n, "snd">>, ev)}
<1>1. TypeInv /\ <<n, "snd">> \in Tasks /\ Take(<<n, "snd">>) /\ "snd" \in Pollers
  BY NodeTasks DEF Reached, Threads, Pollers, Write, TakeLive
<1>2. PICK ops : Planned("snd", ops, S)
  BY <1>1, WritePlans
<1>3. Msg("UNREG", n).type # "REGIST"
  BY DEF Msg
<1>4. \A o \in S : Routine(o)
  BY <1>3, RoutineSends
<1>5. UNCHANGED <<ended, born>> /\ \A t \in Pollers : run'[t] \subseteq run[t]
  BY <1>1 DEF Write, TakeLive, Forget, life, TypeInv, StateOK
<1>6. \A m \in Nodes, t \in Pollers : IsEof(word'[<<m, t>>]) => Ending(m, t)
  BY <1>1, TakenEnds DEF Pollers, Threads
<1>7. \A y \in Tasks : y # <<n, "snd">> => msgs'[y] = msgs[y]
  <2>1. WriteNode(n, ev) => \A y \in Tasks : y # <<n, "snd">> => msgs'[y] = msgs[y]
    BY <1>1, AnswerTypes, WriteNodeEmpties DEF TypeInv
  <2> QED BY <2>1 DEF Write
<1>8. ActsWell
  BY <1>5, <1>6, <1>7, LifeAssumption DEF ActsWell
<1> HIDE DEF S
<1> QED BY <1>2, <1>4, <1>8, RoutineWell DEF Plain

\* A thread ends the task of n.
LEMMA EndWell ==
  ASSUME TypeInv, NEW n \in Nodes, NEW th \in Threads, TakeEof(<<n, th>>),
         th \in Pollers => n \notin run'[th],
         \A t \in Pollers : run'[t] \subseteq run[t],
         \A y \in Tasks : /\ y[1] = Ctrl => msgs'[y] = msgs[y]
                          /\ y[2] = "cmd" => msgs'[y] \in {msgs[y], <<>>}
  PROVE  ActsWell
<1>1. Take(<<n, th>>) /\ IsEof(word[<<n, th>>]) /\ ended' = ended \cup {<<n, th>>}
      /\ UNCHANGED born /\ <<n, th>> \in Tasks
  BY NodeTasks DEF TakeEof
<1>2. \A m \in Nodes, t \in Pollers : IsEof(word'[<<m, t>>]) => Ending(m, t)
  BY <1>1, TakenEnds DEF Pollers, Threads
<1>3. \A m \in Nodes, t \in Pollers : <<m, t>> \in ended' =>
        <<m, t>> \in ended \/ (IsEof(word[<<m, t>>]) /\ m \notin run'[t])
  BY <1>1
<1> QED BY <1>1, <1>2, <1>3 DEF ActsWell

LEMMA PlainEnds ==
  ASSUME Reached, NEW n \in Nodes, NEW th \in Threads,
         \/ th = "rcv" /\ ReadEnd(n)
         \/ th = "snd" /\ WriteEnd(n)
         \/ th = "deal" /\ DealEnd(n)
         \/ th = "cmd" /\ CmdEnd(n)
  PROVE  Plain(th)
<1>1. TypeInv /\ Pollers = {"rcv", "snd"} /\ \A t \in Pollers : <<Ctrl, t>> \in Tasks
  BY DEF Reached, Pollers, Tasks
<1>2. Msg("UNREG", n).type # "REGIST" /\ \A s : Msg("STOP", s).type # "REGIST"
  BY DEF Msg
<1>3. TakeEof(<<n, th>>)
  BY DEF ReadEnd, WriteEnd, DealEnd, CmdEnd
<1>4. \E ops, S : Planned(th, ops, S) /\ \A o \in S : Routine(o)
  <2>1. CASE th = "rcv" /\ ReadEnd(n)
    <3>1. PICK ops : Planned("rcv", ops, Gives(<<n, "cmd">>, Msg("STOP", "STOP_RCV")))
      BY <1>1, <2>1, EndPlans
    <3> QED BY <1>2, <2>1, <3>1, RoutineSends
  <2>2. CASE th = "snd" /\ WriteEnd(n)
    <3>1. PICK ops : Planned("snd", ops, Gives(<<n, "cmd">>, Msg("UNREG", n))
                                           \cup Gives(<<n, "cmd">>, Msg("STOP", "STOP_SND")))
      BY <1>1, <2>2, EndPlans
    <3> QED BY <1>2, <2>2, <3>1, RoutineSends
  <2>3. CASE th = "deal" /\ DealEnd(n)
    <3>1. PICK ops : Planned("deal", ops, Gives(<<n, "cmd">>, Msg("STOP", "STOP_DEAL")))
      BY <1>1, <2>3, EndPlans
    <3> QED BY <1>2, <2>3, <3>1, RoutineSends
  <2>4. CASE th = "cmd" /\ CmdEnd(n)
    <3>1. Planned("cmd", <<>>, {})
      BY <1>1, <2>4, EndPlans
    <3>2. \A o \in {} : Routine(o)
      OBVIOUS
    <3> QED BY <2>4, <3>1, <3>2
  <2> QED BY <2>1, <2>2, <2>3, <2>4
<1>5. /\ th \in Pollers => n \notin run'[th]
      /\ \A t \in Pollers : run'[t] \subseteq run[t]
  <2>1. th \in Pollers => Forget(th, n)
    BY <1>1 DEF ReadEnd, WriteEnd
  <2>2. th \notin Pollers => UNCHANGED run
    BY <1>1 DEF DealEnd, CmdEnd, fields
  <2> QED BY <1>1, <2>1, <2>2 DEF Forget, TypeInv, StateOK
<1>6. \A y \in Tasks : /\ y[1] = Ctrl => msgs'[y] = msgs[y]
                       /\ y[2] = "cmd" => msgs'[y] \in {msgs[y], <<>>}
  <2>1. CASE ReadEnd(n) \/ DealEnd(n)
    BY <2>1 DEF ReadEnd, DealEnd
  <2>2. CASE WriteEnd(n)
    <3>1. \A ev \in Answers(n, "snd") : WriteNode(n, ev) =>
            \A y \in Tasks : y # <<n, "snd">> => msgs'[y] = msgs[y]
      BY <1>1, AnswerTypes, WriteNodeEmpties DEF TypeInv
    <3>2. \A y \in Tasks : y # <<n, "snd">> => msgs'[y] = msgs[y]
      BY <2>2, <3>1 DEF WriteEnd
    <3> QED BY <3>2, LifeAssumption
  <2>3. CASE CmdEnd(n)
    BY <2>3, LifeAssumption DEF CmdEnd
  <2> QED BY <2>1, <2>2, <2>3
<1>7. ActsWell
  BY <1>1, <1>3, <1>5, <1>6, EndWell
<1> QED BY <1>4, <1>7, RoutineWell DEF Plain

LEMMA PlainPost == ASSUME Reached, NEW th \in Threads, Post(th) PROVE Plain(th)
<1> DEFINE x == On(th)
           ev == Arg(th)
<1>1. TypeInv /\ PlanOK
  BY DEF Reached, TypeInv
<1>2. plan[th] # <<>> /\ x \in Tasks /\ Head(plan[th]) = Op("post", x, ev)
  <2>1. plan[th] # <<>> /\ x \in Tasks /\ Head(plan[th]) \in Ops /\ Head(plan[th]).op = "post"
    BY <1>1, HeadFits DEF Post, Doing, FittingOps
  <2> QED BY <2>1 DEF Ops, Op, On, Arg
<1>3. ASSUME NEW n \in Nodes, NEW t \in Pollers, IsEof(word'[<<n, t>>]) PROVE Ending(n, t)
  <2>1. <<n, t>> \in Tasks /\ t \in Threads
    BY AddTypes
  <2>2. CASE IsEof(word[<<n, t>>])
    BY <2>2 DEF Ending
  <2>3. CASE ~ IsEof(word[<<n, t>>])
    <3>1. x = <<n, t>> /\ word'[x] = CheckinWord(word[x], ev)
      BY <1>1, <1>3, <2>1, <2>3 DEF Post, TypeInv, StateOK, IsEof
    <3>2. ev = "END"
      <4>1. word[x] \in Words
        BY <1>1, <1>2 DEF TypeInv, StateOK
      <4> QED BY <1>3, <2>3, <3>1, <4>1 DEF CheckinWord, IsEof, Words
    <3>3. Head(plan[th]) \in EndOps(n, t)
      BY <1>2, <3>1, <3>2 DEF EndOps
    <3>4. Has(EndOps(n, t), plan[th])
      BY <1>1, <1>2, <3>3, HasTail DEF PlanOK
    <3>5. CloseOK(n)
      BY DEF Reached
    <3> QED BY <2>1, <3>4, <3>5 DEF CloseOK, Ending
  <2> QED BY <2>2, <2>3
<1>4. UNCHANGED <<msgs, run, ended, born>>
  BY DEF Post, fields, life
<1>5. ActsWell
  BY <1>1, <1>3, <1>4, SameWell
<1>6. Planned(th, <<>>, {}) /\ \A o \in {} : Routine(o)
  BY <1>1, ProceedPlans
<1> QED BY <1>5, <1>6, RoutineWell DEF Plain

LEMMA PlainReturned == ASSUME Reached, NEW th \in Threads, Returned(th) PROVE Plain(th)
<1>1. TypeInv /\ PlanOK
  BY DEF Reached, TypeInv
<1>2. On(th) \in Tasks
  BY <1>1, HeadFits DEF Returned
<1>3. \A y \in Tasks : IsEof(word'[y]) => IsEof(word[y])
  <2>1. \A w : w \in Words => /\ IsEof(ReleaseWord(w)) => IsEof(w)
                              /\ \A ev : IsEof(CheckoutWord(w, ev)) => IsEof(w)
    BY DEF Words, IsEof, ReleaseWord, CheckoutWord, Zero
  <2> QED BY <1>1, <1>2, <2>1 DEF Returned, TypeInv, StateOK
<1>4. \A n \in Nodes, t \in Pollers : IsEof(word'[<<n, t>>]) => Ending(n, t)
  BY <1>3, AddTypes DEF Ending
<1>5. UNCHANGED <<msgs, run, ended, born>>
  BY DEF Returned, fields, life
<1>6. ActsWell
  BY <1>1, <1>4, <1>5, SameWell
<1>7. Planned(th, <<>>, {}) /\ \A o \in {} : Routine(o)
  BY <1>1, ProceedPlans
<1> QED BY <1>6, <1>7, RoutineWell DEF Plain

LEMMA PlainCtrlAdd == ASSUME Reached, NEW th \in Pollers, CtrlAdd(th) PROVE Plain(th)
<1> DEFINE v == Arg(th).val
<1>1. TypeInv /\ th \in Threads /\ Handling(th, <<Ctrl, th>>, "ADD_FD")
  BY DEF Reached, Threads, Pollers, CtrlAdd
<1>2. /\ v \in Nodes /\ plan[th] # <<>>
      /\ Head(plan[th]) = Op("msg", <<Ctrl, th>>, Msg("ADD_FD", v))
      /\ UNCHANGED <<word, msgs, born, ended>>
  BY <1>1, Handled
<1>3. Consumes(th, AddFd(v, th))
  BY <1>2 DEF Consumes, ReadOps, AddFd, Letter
<1>4. \A n \in Nodes, t \in Pollers : n \in run'[t] /\ n \notin run[t] => n = v /\ t = th
  BY <1>1 DEF CtrlAdd, TypeInv, StateOK
<1>5. ActsWell
  BY <1>2, <1>3, <1>4, WordsWell DEF ActsWell
<1>6. Planned(th, <<>>, {}) /\ \A o \in {} : Routine(o)
  BY <1>1, ProceedPlans
<1> QED BY <1>5, <1>6, RoutineWell DEF Plain

LEMMA PlainCtrlDel == ASSUME Reached, NEW th \in Pollers, CtrlDel(th) PROVE Plain(th)
<1>1. TypeInv /\ th \in Threads /\ Handling(th, <<Ctrl, th>>, "DEL_FD")
  BY DEF Reached, Threads, Pollers, CtrlDel
<1>2. PICK v \in Nodes : v = Arg(th).val
  BY <1>1, Handled
<1> DEFINE S == {Op("post", <<v, th>>, "END")}
<1>3. PICK ops : Planned(th, ops, S)
  BY <1>1, <1>2, CtrlDelPlans
<1>4. Consumes(th, Del(v, th))
  BY <1>2, DelHandled DEF Reached, Del
<1> HIDE DEF S
<1>5. PlansWell(th, S)
  <2> SUFFICES ASSUME NEW n \in Nodes, NEW t \in Pollers, NEW o \in S
               PROVE  /\ o.op # "msg"
                      /\ o \notin WriteOps(Regist(n)) /\ o \notin WriteOps(AddFd(n, t))
                      /\ o \notin WriteOps(Del(n, t))
                      /\ o \in EndOps(n, t) => th = t /\ Consumes(t, Del(n, t))
    BY DEF PlansWell, Pollers
  <2>1. o.op = "post" /\ o.on = <<v, th>>
    BY DEF S, Op
  <2>2. o \in EndOps(n, t) => <<v, th>> = <<n, t>>
    BY <2>1, LetterOps
  <2> QED BY <1>4, <2>1, <2>2, LetterOps
<1>6. ActsWell
  <2>1. UNCHANGED <<word, msgs, run, born, ended>>
    BY <1>1, Handled DEF CtrlDel, fields
  <2> QED BY <1>1, <2>1, SameWell, WordsWell
<1> QED BY <1>3, <1>5, <1>6 DEF Plain

\* A handler of the dealer or the director, and what it plans.
LEMMA HandlerWell ==
  ASSUME TypeInv, UNCHANGED <<mail, run, ended, born>> PROVE ActsWell
BY SameWell, WordsWell DEF mail

LEMMA PlainDeal ==
  ASSUME Reached, NEW n \in Nodes,
         DealStop(n) \/ DealExit(n) \/ \E ok \in BOOLEAN : DealMsg(n, ok)
  PROVE  Plain("deal")
<1>1. TypeInv /\ "deal" \notin Pollers
  BY DEF Reached, Pollers
<1>2. /\ Msg("UNREG", n).type # "REGIST" /\ Msg("ALLOW_EXIT", n).type # "REGIST"
      /\ \A m : Msg("DATA", m).type # "REGIST"
  BY DEF Msg
<1>3. UNCHANGED <<mail, run, ended, born>>
  BY DEF DealStop, DealExit, DealMsg, Handling, fields
<1>4. \E ops, S : Planned("deal", ops, S) /\ \A o \in S : Routine(o)
  <2>1. CASE DealStop(n)
    <3>1. PICK ops : Planned("deal", ops, Gives(<<n, "deal">>, Msg("ALLOW_EXIT", n)))
      BY <1>1, <2>1, DealPlans
    <3> QED BY <1>2, <3>1, RoutineSends
  <2>2. CASE DealExit(n)
    <3>1. PICK ops : Planned("deal", ops, {Op("post", <<n, "deal">>, "END")})
      BY <1>1, <2>2, DealPlans
    <3>2. Routine(Op("post", <<n, "deal">>, "END"))
      BY <1>1, RoutineSends
    <3> QED BY <3>1, <3>2
  <2>3. ASSUME NEW ok \in BOOLEAN, DealMsg(n, ok)
        PROVE  \E ops, S : Planned("deal", ops, S) /\ \A o \in S : Routine(o)
    <3>1. PICK ops : Planned("deal", ops, DeliversTo(Reachable) \cup Gives(<<n, "cmd">>, Msg("UNREG", n)))
      BY <1>1, <2>3, DealMsgPlans
    <3>2. ASSUME NEW m \in Reachable, NEW o \in Delivers(m) PROVE Routine(o)
      <4>1. m \in Nodes
        BY <1>1 DEF Reachable, TypeInv, StateOK
      <4> QED BY <1>2, <4>1, RoutineSends DEF Delivers
    <3>3. \A o \in DeliversTo(Reachable) \cup Gives(<<n, "cmd">>, Msg("UNREG", n)) : Routine(o)
      BY <1>2, <3>2, RoutineSends DEF DeliversTo
    <3> QED BY <3>1, <3>3
  <2> QED BY <2>1, <2>2, <2>3
<1> QED BY <1>1, <1>3, <1>4, HandlerWell, RoutineWell DEF Plain

LEMMA PlainCmd ==
  ASSUME Reached, NEW n \in Nodes, CmdRegist(n) \/ CmdUnreg(n) \/ CmdStop(n)
  PROVE  Plain("cmd")
<1> DEFINE Takes(o) ==
             /\ o.on[1] = Ctrl
             /\ \/ o.op = "queue" /\ o.arg = Msg("DEL_FD", n)
                \/ o.op = "post" /\ o.arg = "NORM"
<1>1. TypeInv /\ Service /\ "cmd" \in Threads /\ "cmd" \notin Pollers
  BY DEF Reached, Threads, Pollers
<1>2. UNCHANGED <<mail, run, ended, born>>
  BY DEF CmdRegist, CmdUnreg, CmdStop, Handling
<1>3. \A o \in Range(Rest("cmd")) : ~ Acts(o)
  BY <1>1, HandlerFree DEF CmdRegist, CmdUnreg, CmdStop
<1>4. \E ops, S : Planned("cmd", ops, S) /\ PlansWell("cmd", S)
  <2>1. CASE CmdRegist(n)
    <3> DEFINE S == Gives(<<Ctrl, "rcv">>, Msg("ADD_FD", n))
                      \cup Gives(<<Ctrl, "snd">>, Msg("ADD_FD", n))
    <3>1. PICK ops : Planned("cmd", ops, S)
      BY <1>1, <2>1, CmdPlans
    <3>2. \A o \in S : o.on[1] = Ctrl /\ \/ o.op = "queue" /\ o.arg = Msg("ADD_FD", n)
                                         \/ o.op = "post" /\ o.arg = "NORM"
      BY DEF Gives, Op
    <3> HIDE DEF S
    <3>3. PlansWell("cmd", S)
      <4> SUFFICES ASSUME NEW m \in Nodes, NEW t \in Pollers, NEW o \in S
                   PROVE  /\ o.op # "msg"
                          /\ o \notin WriteOps(Regist(m))
                          /\ o \in WriteOps(AddFd(m, t)) => m = n
                          /\ o \notin WriteOps(Del(m, t)) /\ o \notin EndOps(m, t)
        BY <2>1 DEF PlansWell, Pollers
      <4>1. o \notin WriteOps(Regist(m))
        <5>1. o.on # <<m, "cmd">>
          BY <3>2, LifeAssumption
        <5> QED BY <5>1, LetterOps
      <4>2. /\ Msg("ADD_FD", n) # Msg("DEL_FD", m)
            /\ Msg("ADD_FD", n) = Msg("ADD_FD", m) => m = n
        BY DEF Msg
      <4>3. (o \in WriteOps(AddFd(m, t)) => m = n) /\ o \notin WriteOps(Del(m, t))
        BY <3>2, <4>2, LetterOps
      <4>4. o \notin EndOps(m, t) /\ o.op # "msg"
        BY <3>2, LetterOps
      <4> QED BY <4>1, <4>3, <4>4
    <3> QED BY <3>1, <3>3
  <2>2. ASSUME NEW ops, NEW S, Planned("cmd", ops, S),
               \A o \in S : Routine(o) \/ Takes(o)
        PROVE  \E o, s : Planned("cmd", o, s) /\ PlansWell("cmd", s)
    <3>1. PlansWell("cmd", S)
      <4> SUFFICES ASSUME NEW m \in Nodes, NEW t \in Pollers, NEW o \in S
                   PROVE  /\ o.op # "msg"
                          /\ o \notin WriteOps(Regist(m)) /\ o \notin WriteOps(AddFd(m, t))
                          /\ o \notin EndOps(m, t)
        BY <1>3 DEF PlansWell, Pollers
      <4>1. CASE Routine(o)
        <5>1. /\ o.op = "queue" => o.on[1] # Ctrl /\ o.arg.type # "REGIST"
              /\ o.op = "post" /\ o.arg = "END" => o.on[2] \notin Pollers
              /\ o.op # "msg"
          BY <4>1 DEF Routine
        <5>2. <<Ctrl, t>>[1] = Ctrl /\ <<m, t>>[2] \in Pollers
          OBVIOUS
        <5> QED BY <5>1, <5>2, LetterOps
      <4>2. CASE Takes(o)
        <5>1. o.on # <<m, "cmd">> /\ Msg("DEL_FD", n) # Msg("ADD_FD", m)
          BY <4>2, LifeAssumption DEF Msg, Takes
        <5> QED BY <4>2, <5>1, LetterOps DEF Takes
      <4> HIDE DEF Takes
      <4>3. Routine(o) \/ Takes(o)
        BY <2>2
      <4> QED BY <4>1, <4>2, <4>3
    <3> QED BY <2>2, <3>1
  <2>3. CASE CmdUnreg(n)
    <3> DEFINE S == Gives(<<Ctrl, "rcv">>, Msg("DEL_FD", n))
    <3>1. PICK ops : Planned("cmd", ops, S)
      BY <1>1, <2>3, CmdPlans
    <3>2. \A o \in S : Takes(o)
      BY DEF Gives, Op
    <3> HIDE DEF S, Takes
    <3> QED BY <2>2, <3>1, <3>2
  <2>4. CASE CmdStop(n)
    <3> DEFINE C == Gives(<<Ctrl, "snd">>, Msg("DEL_FD", n))
               S == Gives(<<n, "deal">>, Msg("STOP", "STOP_DEAL"))
                      \cup Gives(<<Ctrl, "snd">>, Msg("DEL_FD", n))
                      \cup Gives(<<n, "cmd">>, Msg("STOP", "CLOSED"))
                      \cup {Op("post", <<n, "cmd">>, "END")}
    <3>1. PICK ops : Planned("cmd", ops, S)
      BY <1>1, <2>4, CmdPlans
    <3>2. \A o \in C : Takes(o)
      BY DEF Gives, Op
    <3>3. \A s : Msg("STOP", s).type # "REGIST"
      BY DEF Msg
    <3>4. Routine(Op("post", <<n, "cmd">>, "END"))
      BY <1>1, RoutineSends
    <3>5. \A o \in S : o \in C \/ Routine(o)
      BY <3>3, <3>4, RoutineSends
    <3> HIDE DEF S, C, Takes
    <3> QED BY <2>2, <3>1, <3>2, <3>5
  <2> QED BY <2>1, <2>3, <2>4
<1> QED BY <1>1, <1>2, <1>4, HandlerWell DEF Plain

-----------------------------------------------------------------------------
(* Registration, adding and taking away, kept in order.                    *)

\* Which steps there are.
LEMMA StepKinds ==
  ASSUME Reached, Next
  PROVE  \/ \E th \in Threads : Queue(th) \/ Plain(th)
         \/ \E x \in Tasks : Drain(x)
<1>1. {"rcv", "snd", "deal", "cmd"} = Threads /\ Pollers \subseteq Threads
  BY DEF Threads, Pollers
<1>2. ASSUME NEW x \in Tasks, Serve(x)
      PROVE  Drain(x) \/ \E th \in Threads : Plain(th)
  <2>1. x[1] # Ctrl => x[1] \in Nodes
    BY DEF Tasks
  <2> QED BY <1>1, <1>2, <2>1, PlainRead, PlainWrite, PlainEnds DEF Serve
<1>3. ASSUME NEW th \in Threads, Proceed(th)
      PROVE  Queue(th) \/ \E t \in Threads : Plain(t)
  <2>1. CASE Queue(th) \/ Post(th) \/ Returned(th)
    BY <2>1, PlainPost, PlainReturned
  <2>2. CASE HandleMsg(th)
    BY <1>1, <2>2, PlainCtrlAdd, PlainCtrlDel, PlainDeal, PlainCmd DEF HandleMsg
  <2> QED BY <1>3, <2>1, <2>2, ProceedSteps
<1>4. ASSUME NEW n \in Nodes, Accept(n) PROVE \E th \in Threads : Plain(th)
  BY <1>1, <1>4, PlainAccept
<1>5. ASSUME NEW th \in Pollers, NEW n \in Nodes, PollReady(th, n) \/ PollError(th, n)
      PROVE  \E t \in Threads : Plain(t)
  BY <1>1, <1>5, PlainPoll
<1> QED BY <1>2, <1>3, <1>4, <1>5 DEF Next

LEMMA NoneHas ==
  ASSUME NEW E, NEW S, NEW ops, Range(ops) \subseteq S, E \cap S = {}
  PROVE  ~ Has(E, ops)
BY DEF Range, Has

LEMMA LetterPlain ==
  ASSUME TypeInv, NEW k \in LetterType, Once(k),
         NEW th \in Threads, NEW ops, NEW S, Planned(th, ops, S), \A o \in S : o.op # "msg",
         WriteOps(k) \cap S = {}, msgs'[k.to] \in {msgs[k.to], <<>>}
  PROVE  Once(k)' /\ (Out(k)' => Out(k)) /\ (Consumes(th, k) => ~ Out(k)')
<1>1. ReadOps(k) \cap S = {}
  BY KindsApart
<1>2. ~ Has(ReadOps(k), ops) /\ ~ Has(WriteOps(k), ops)
  BY <1>1, NoneHas DEF Planned
<1>3. PlanOK /\ ops \in Seq(Ops) /\ Goes(th, ops)
  BY DEF TypeInv, Planned
<1> QED BY <1>2, <1>3, LetterStep DEF Consumes

\* A thread that handles a letter: the letter is out.
LEMMA ConsumesOut ==
  ASSUME PlanOK, NEW th \in Threads, NEW k \in LetterType, Consumes(th, k)
  PROVE  Has(ReadOps(k), plan[th]) /\ Out(k)
<1>1. plan[th] \in Seq(Ops)
  BY DEF PlanOK
<1>2. Has(ReadOps(k), plan[th])
  BY <1>1, HasTail DEF Consumes
<1> QED BY <1>2 DEF Out, Consumes

\* The registration that is handled.
LEMMA RegistHandled ==
  ASSUME TypeInv, NEW n \in Nodes, CmdRegist(n)
  PROVE  Consumes("cmd", Regist(n)) /\ Out(Regist(n))
<1>1. "cmd" \in Threads /\ Handling("cmd", <<n, "cmd">>, "REGIST") /\ PlanOK
  BY DEF Threads, CmdRegist, TypeInv
<1>2. Consumes("cmd", Regist(n))
  <2>1. /\ plan["cmd"] # <<>> /\ Head(plan["cmd"]) = Op("msg", <<n, "cmd">>, Arg("cmd"))
        /\ Arg("cmd") \in Messages /\ Arg("cmd").type = "REGIST"
    BY <1>1, Handled DEF Handling
  <2> QED BY <2>1 DEF Consumes, ReadOps, Regist, Letter
<1>3. "rcv" \in Pollers
  BY DEF Pollers
<1>4. Regist(n) \in LetterType
  BY <1>3, AddTypes
<1> QED BY <1>1, <1>2, <1>4, ConsumesOut


LEMMA RegistPlain ==
  ASSUME Reached, NEW n \in Nodes, RegistOK(n), NEW th \in Threads, Plain(th), ~ Accept(n)
  PROVE  /\ Once(Regist(n))' /\ (Out(Regist(n))' => Out(Regist(n)))
         /\ Consumes(th, Regist(n)) => ~ Out(Regist(n))'
<1> DEFINE k == Regist(n)
<1>1. TypeInv /\ "rcv" \in Pollers
  BY DEF Reached, Pollers
<1>2. k \in LetterType /\ k.to = <<n, "cmd">> /\ <<n, "cmd">> \in Tasks /\ Once(k)
  BY <1>1, AddTypes DEF RegistOK
<1>3. PICK ops, S : Planned(th, ops, S) /\ PlansWell(th, S)
  BY DEF Plain
<1>4. WriteOps(k) \cap S = {} /\ \A o \in S : o.op # "msg"
  BY <1>1, <1>3 DEF PlansWell
<1>5. msgs'[<<n, "cmd">>] \in {msgs[<<n, "cmd">>], <<>>}
  <2>1. <<n, "cmd">>[2] = "cmd"
    OBVIOUS
  <2> QED BY <1>2, <2>1 DEF Plain, ActsWell
<1> HIDE DEF k
<1>6. Once(k)' /\ (Out(k)' => Out(k)) /\ (Consumes(th, k) => ~ Out(k)')
  BY <1>1, <1>2, <1>3, <1>4, <1>5, LetterPlain
<1> QED BY <1>6 DEF k

\* Accepting a connection sends its registration.
LEMMA RegistAccept ==
  ASSUME Reached, NEW n \in Nodes, RegistOK(n), Accept(n)
  PROVE  Once(Regist(n))' /\ n \notin born /\ n \in born'
<1> DEFINE k == Regist(n)
           o == Op("queue", <<n, "cmd">>, Msg("REGIST", n))
           p == Op("post", <<n, "cmd">>, "NORM")
           ops == <<o, p>>
<1>1. TypeInv /\ PlanOK /\ "rcv" \in Pollers /\ "rcv" \in Threads /\ plan["rcv"] = <<>>
  BY DEF Reached, Pollers, Threads, TypeInv, Accept
<1>2. k \in LetterType /\ k.to = <<n, "cmd">> /\ k.by = "rcv" /\ Once(k) /\ ~ Out(k)
  BY <1>1, AddTypes DEF RegistOK, Accept
<1>3. Start("rcv", ops) /\ ops = Give(<<n, "cmd">>, Msg("REGIST", n))
  BY DEF Accept, Give
<1>4. ops \in Seq(Ops)
  <2>1. Msg("REGIST", n) \in Messages /\ <<n, "cmd">> \in Tasks
    BY <1>1, MsgTypes, AddTypes
  <2>2. o \in Ops /\ p \in Ops
    BY <2>1, OpTypes DEF Events
  <2> HIDE DEF o, p
  <2> QED BY <2>2
<1>5. o.op = "queue" /\ p.op = "post"
  BY DEF Op
<1> HIDE DEF k, o, p
<1>6. p \notin WriteOps(k) /\ o \notin ReadOps(k) /\ p \notin ReadOps(k)
  BY <1>5, KindsApart
<1>7. One(WriteOps(k), ops) /\ ~ Has(ReadOps(k), ops)
  BY <1>6, HasPair
<1> HIDE DEF ops
<1>8. Goes("rcv", ops)
  BY <1>1, <1>3, <1>4, StartGoes
<1>9. UNCHANGED msgs
  BY DEF Accept, mail
<1>10. Once(k)'
  BY <1>1, <1>2, <1>4, <1>7, <1>8, <1>9, LetterStep
<1> QED BY <1>10 DEF k, Accept

LEMMA RegistKept ==
  ASSUME Reached, NEW n \in Nodes, RegistOK(n), Next
  PROVE  RegistOK(n)' /\ (New(n)' => New(n))
<1> DEFINE k == Regist(n)
<1>1. TypeInv /\ "rcv" \in Pollers
  BY DEF Reached, Pollers
<1>2. k \in LetterType /\ Once(k) /\ (Out(k) => n \in born)
  BY <1>1, AddTypes DEF RegistOK
<1>3. Once(k)' /\ (Out(k)' => Out(k) \/ Accept(n)) /\ born \subseteq born'
  <2>1. ASSUME NEW th \in Threads, Queue(th)
        PROVE  Once(k)' /\ (Out(k)' => Out(k)) /\ born \subseteq born'
    <3> HIDE DEF k
    <3>1. UNCHANGED born
      BY <2>1 DEF Queue, life
    <3> QED BY <1>1, <1>2, <2>1, <3>1, LetterQueue
  <2>2. ASSUME NEW x \in Tasks, Drain(x)
        PROVE  Once(k)' /\ (Out(k)' => Out(k)) /\ born \subseteq born'
    <3> HIDE DEF k
    <3>1. UNCHANGED born
      BY <2>2 DEF Drain, TakeLive, life
    <3> QED BY <1>1, <1>2, <2>2, <3>1, LetterDrain
  <2>3. ASSUME NEW th \in Threads, Plain(th)
        PROVE  Once(k)' /\ (Out(k)' => Out(k) \/ Accept(n)) /\ born \subseteq born'
    <3>1. born \subseteq born'
      BY <2>3 DEF Plain, ActsWell
    <3>2. Accept(n) => Once(k)'
      BY RegistAccept
    <3>3. ~ Accept(n) => Once(k)' /\ (Out(k)' => Out(k))
      BY <2>3, RegistPlain
    <3> QED BY <3>1, <3>2, <3>3
  <2> QED BY <2>1, <2>2, <2>3, StepKinds
<1>4. Accept(n) => n \notin born /\ n \in born'
  BY DEF Accept
<1> QED BY <1>2, <1>3, <1>4 DEF RegistOK, New

\* Once the director has registered it, a connection is new no more.
LEMMA RegistNews ==
  ASSUME Reached, NEW n \in Nodes, RegistOK(n), CmdRegist(n)
  PROVE  New(n) /\ ~ New(n)' /\ ~ Accept(n)
<1>1. TypeInv /\ "cmd" \in Threads
  BY DEF Reached, Threads
<1>2. Consumes("cmd", Regist(n)) /\ Out(Regist(n)) /\ n \in born
  BY <1>1, RegistHandled DEF RegistOK
<1>3. ~ Accept(n) /\ Plain("cmd") /\ n \in born'
  BY <1>2, PlainCmd DEF Accept, CmdRegist, Handling
<1> QED BY <1>1, <1>2, <1>3, RegistPlain DEF New

-----------------------------------------------------------------------------
(* A connection is added to a run list only while its task is to stay.     *)

LEMMA OutParts ==
  ASSUME NEW k
  PROVE  /\ Out(k) <=> \/ Has(WriteOps(k), plan[k.by])
                       \/ Has(k.mail, msgs[k.to])
                       \/ Has(ReadOps(k), plan[k.to[2]])
         /\ Out(k)' <=> \/ Has(WriteOps(k), plan'[k.by])
                        \/ Has(k.mail, msgs'[k.to])
                        \/ Has(ReadOps(k), plan'[k.to[2]])
BY DEF Out, WriteOps, ReadOps, Has

\* A connection nobody has asked to close is not being taken away.
LEMMA Unasked ==
  ASSUME NEW n \in Nodes, NEW t \in Pollers
  PROVE  /\ CloseOK(n) /\ n \notin reason =>
              ~ Out(Del(n, t)) /\ ~ Ending(n, t) /\ Live(n, t)
         /\ CloseOK(n)' /\ n \notin reason' =>
              ~ Out(Del(n, t))' /\ ~ Ending(n, t)' /\ Live(n, t)'
<1> DEFINE k == Del(n, t)
<1>1. k \in Letters(n) /\ k.stage = EndStage[t] /\ EndStage[t] # 0 /\ t \in Threads
  <2>1. k \in Letters(n) /\ k.stage = EndStage[t] /\ EndStage[t] \in 1 .. 8 /\ t \in Threads
    BY AddTypes
  <2> HIDE DEF k
  <2> QED BY <2>1
<1>2. t = "rcv" \/ t = "snd"
  BY DEF Pollers
<1> HIDE DEF k
<1>3. ASSUME CloseOK(n), n \notin reason
      PROVE  ~ Out(k) /\ ~ Ending(n, t) /\ Live(n, t)
  <2>1. StageOK(n) /\ Stage(n) = 0
    BY <1>3 DEF CloseOK, StageOK, Stage
  <2>2. Live(n, t)
    BY <1>2, <2>1 DEF StageOK, Live
  <2> QED BY <1>1, <1>3, <2>1, <2>2 DEF CloseOK
<1>4. ASSUME CloseOK(n)', n \notin reason'
      PROVE  ~ Out(k)' /\ ~ Ending(n, t)' /\ Live(n, t)'
  <2>1. StageOK(n)' /\ Stage(n)' = 0
    BY <1>4 DEF CloseOK, StageOK, Stage
  <2>2. Live(n, t)'
    BY <1>2, <2>1 DEF StageOK, Live
  <2> QED BY <1>1, <1>4, <2>1, <2>2 DEF CloseOK
<1> QED BY <1>3, <1>4 DEF k

LEMMA AddsOnce ==
  ASSUME NEW n \in Nodes, NEW t \in Pollers
  PROVE  LET ops == Give(<<Ctrl, "rcv">>, Msg("ADD_FD", n))
                      \o Give(<<Ctrl, "snd">>, Msg("ADD_FD", n))
         IN  ops \in Seq(Ops) /\ One(WriteOps(AddFd(n, t)), ops)
             /\ ~ Has(ReadOps(AddFd(n, t)), ops)
<1> DEFINE m == Msg("ADD_FD", n)
           W == WriteOps(AddFd(n, t))
           R == ReadOps(AddFd(n, t))
           a == Op("queue", <<Ctrl, "rcv">>, m)
           b == Op("post", <<Ctrl, "rcv">>, "NORM")
           c == Op("queue", <<Ctrl, "snd">>, m)
           e == Op("post", <<Ctrl, "snd">>, "NORM")
<1>1. a \in Ops /\ b \in Ops /\ c \in Ops /\ e \in Ops
  <2>1. m \in Messages /\ <<Ctrl, "rcv">> \in Tasks /\ <<Ctrl, "snd">> \in Tasks
    BY MsgTypes DEF Tasks, Pollers
  <2> HIDE DEF m
  <2> QED BY <2>1, OpTypes DEF Events
<1>2. /\ a.op = "queue" /\ b.op = "post" /\ c.op = "queue" /\ e.op = "post"
      /\ a.on = <<Ctrl, "rcv">> /\ c.on = <<Ctrl, "snd">>
  BY DEF Op
<1>3. Give(<<Ctrl, "rcv">>, m) = <<a, b>> /\ Give(<<Ctrl, "snd">>, m) = <<c, e>>
  BY DEF Give
<1> HIDE DEF a, b, c, e, m
<1>4. b \notin W /\ e \notin W /\ a \notin R /\ b \notin R /\ c \notin R /\ e \notin R
  BY <1>2, KindsApart
<1>5. ~ (a \in W /\ c \in W)
  <2>1. \A o \in W : o.on = <<Ctrl, t>>
    BY LetterOps
  <2> HIDE DEF W
  <2> QED BY <1>2, <2>1
<1> HIDE DEF W, R
<1> DEFINE x == <<a, b>>
           y == <<c, e>>
<1>6. x \in Seq(Ops) /\ y \in Seq(Ops)
  BY <1>1
<1>7. /\ One(W, x) /\ One(W, y) /\ ~ (Has(W, x) /\ Has(W, y))
      /\ ~ Has(R, x) /\ ~ Has(R, y)
  BY <1>4, <1>5, HasPair
<1> HIDE DEF x, y
<1>8. x \o y \in Seq(Ops) /\ One(W, x \o y) /\ ~ Has(R, x \o y)
  BY <1>6, <1>7, HasConcat
<1> QED BY <1>3, <1>8 DEF x, y, W, R, m

\* The director registers a connection that nobody has asked to close.
LEMMA AddRegist ==
  ASSUME Reached, NEW n \in Nodes, NEW t \in Pollers, AddOK(n, t), RegistOK(n), FreshOK(n),
         CmdRegist(n), CloseOK(n)'
  PROVE  AddOK(n, t)'
<1> DEFINE a == AddFd(n, t)
           d == Del(n, t)
           ops == Give(<<Ctrl, "rcv">>, Msg("ADD_FD", n)) \o Give(<<Ctrl, "snd">>, Msg("ADD_FD", n))
<1>1. TypeInv /\ PlanOK /\ "cmd" \in Threads /\ Handling("cmd", <<n, "cmd">>, "REGIST")
  BY DEF Reached, Threads, TypeInv, CmdRegist
<1>2. New(n) /\ ~ New(n)'
  BY RegistNews
<1>3. ~ Out(d)' /\ ~ Ending(n, t)' /\ Live(n, t)'
  <2>1. n \notin reason'
    BY DEF FreshOK, CmdRegist
  <2> QED BY <2>1, Unasked
<1>4. a \in LetterType /\ a.by = "cmd" /\ Once(a) /\ ~ Out(a)
  BY <1>2, AddTypes DEF AddOK
<1>5. ops \in Seq(Ops) /\ One(WriteOps(a), ops) /\ ~ Has(ReadOps(a), ops)
  BY AddsOnce
<1>6. GoOn("cmd", ops) /\ plan["cmd"] # <<>> /\ UNCHANGED msgs
  BY <1>1, Handled DEF CmdRegist
<1> HIDE DEF a, ops
<1>7. Goes("cmd", ops)
  BY <1>1, <1>6, GoOnGoes
<1>8. Once(a)'
  BY <1>1, <1>4, <1>5, <1>6, <1>7, LetterStep
<1>9. /\ ~ Has(d.mail, msgs'[<<Ctrl, t>>]) /\ ~ Has(ReadOps(d), plan'[t])
  <2>1. d.to = <<Ctrl, t>>
    BY AddTypes
  <2>2. d.to[2] = t
    BY <2>1
  <2> HIDE DEF d
  <2> QED BY <1>3, <2>1, <2>2, OutParts
<1>10. /\ Before(a.mail, d.mail, msgs'[<<Ctrl, t>>])
       /\ Before(ReadOps(a), ReadOps(d), plan'[t])
  <2> HIDE DEF d
  <2> QED BY <1>9, BeforeNone
<1> QED BY <1>2, <1>3, <1>8, <1>9, <1>10 DEF AddOK, a, Live

\* The parts of AddOK, and of AddOK after a step.
LEMMA AddParts ==
  ASSUME Reached, NEW n \in Nodes, NEW t \in Pollers, AddOK(n, t)
  PROVE  LET a == AddFd(n, t)
             d == Del(n, t)
         IN
         /\ a \in LetterType /\ d \in LetterType /\ Once(a) /\ Once(d)
         /\ a.to = <<Ctrl, t>> /\ d.to = <<Ctrl, t>> /\ a.by = "cmd" /\ d.by = "cmd"
         /\ Out(a) <=> \/ Has(WriteOps(a), plan["cmd"])
                       \/ Has(a.mail, msgs[<<Ctrl, t>>])
                       \/ Has(ReadOps(a), plan[t])
         /\ Out(d) <=> \/ Has(WriteOps(d), plan["cmd"])
                       \/ Has(d.mail, msgs[<<Ctrl, t>>])
                       \/ Has(ReadOps(d), plan[t])
         /\ t \in Threads /\ <<Ctrl, t>> \in Tasks
         /\ Out(a) => ~ Consumes(t, d)
<1> DEFINE a == AddFd(n, t)
           d == Del(n, t)
<1>1. /\ a \in LetterType /\ d \in LetterType /\ d \in Letters(n)
      /\ a.to = <<Ctrl, t>> /\ d.to = <<Ctrl, t>> /\ a.by = "cmd" /\ d.by = "cmd"
      /\ t \in Threads /\ <<Ctrl, t>> \in Tasks
  BY AddTypes
<1>2. Once(a) /\ Once(d)
  BY <1>1 DEF AddOK, Reached, CloseOK
<1>3. /\ Out(d) => ~ Has(WriteOps(a), plan["cmd"])
      /\ Before(ReadOps(a), ReadOps(d), plan[t])
      /\ Has(ReadOps(d), plan[t]) => ~ Has(a.mail, msgs[<<Ctrl, t>>])
  BY DEF AddOK
<1>4. a.to[2] = t /\ d.to[2] = t
  BY <1>1
<1> HIDE DEF a, d
<1>5. /\ Out(a) <=> \/ Has(WriteOps(a), plan["cmd"])
                    \/ Has(a.mail, msgs[<<Ctrl, t>>])
                    \/ Has(ReadOps(a), plan[t])
      /\ Out(d) <=> \/ Has(WriteOps(d), plan["cmd"])
                    \/ Has(d.mail, msgs[<<Ctrl, t>>])
                    \/ Has(ReadOps(d), plan[t])
  BY <1>1, <1>4, OutParts
<1>6. Consumes(t, d) => ~ Out(a)
  <2> SUFFICES ASSUME Consumes(t, d) PROVE ~ Out(a)
    OBVIOUS
  <2>1. PlanOK /\ plan[t] \in Seq(Ops) /\ plan[t] # <<>>
    BY <1>1 DEF Reached, TypeInv, PlanOK, Consumes
  <2>2. Has(ReadOps(d), plan[t]) /\ Out(d)
    BY <1>1, <2>1, ConsumesOut
  <2>3. ~ Has(ReadOps(a), plan[t])
    BY <1>3, <2>1, BeforeTail DEF Consumes
  <2> QED BY <1>3, <1>5, <2>2, <2>3
<1> QED BY <1>1, <1>2, <1>5, <1>6 DEF a, d

LEMMA AddAgain ==
  ASSUME NEW n, NEW t
  PROVE  AddOK(n, t)' <=>
           LET a == AddFd(n, t)
               d == Del(n, t)
           IN
           /\ Once(a)'
           /\ Out(a)' => ~ New(n)' /\ ~ Ending(n, t)' /\ Live(n, t)'
           /\ Out(d)' => ~ Has(WriteOps(a), plan'["cmd"])
           /\ Before(a.mail, d.mail, msgs'[<<Ctrl, t>>])
           /\ Before(ReadOps(a), ReadOps(d), plan'[t])
           /\ Has(ReadOps(d), plan'[t]) => ~ Has(a.mail, msgs'[<<Ctrl, t>>])
           /\ <<n, t>> \in ended' => n \notin run'[t]
BY DEF AddOK

\* A step that leaves the queues of the control node alone.
LEMMA AddPlain ==
  ASSUME Reached, NEW n \in Nodes, NEW t \in Pollers, AddOK(n, t), New(n)' => New(n),
         NEW th \in Threads, Plain(th), ~ CmdRegist(n)
  PROVE  AddOK(n, t)'
<1> DEFINE a == AddFd(n, t)
           d == Del(n, t)
           W == WriteOps(a)
           A == ReadOps(a)
           D == ReadOps(d)
           E == EndOps(n, t)
<1>1. /\ a \in LetterType /\ d \in LetterType /\ Once(a) /\ Once(d)
      /\ a.to = <<Ctrl, t>> /\ d.to = <<Ctrl, t>>
      /\ Out(a) <=> \/ Has(W, plan["cmd"]) \/ Has(a.mail, msgs[<<Ctrl, t>>]) \/ Has(A, plan[t])
      /\ t \in Threads /\ <<Ctrl, t>> \in Tasks
      /\ Out(a) => ~ Consumes(t, d)
  BY AddParts
<1>2. /\ Out(a) => ~ New(n) /\ ~ Ending(n, t) /\ Live(n, t)
      /\ Out(d) => ~ Has(W, plan["cmd"])
      /\ Before(a.mail, d.mail, msgs[<<Ctrl, t>>])
      /\ Before(A, D, plan[t])
      /\ Has(D, plan[t]) => ~ Has(a.mail, msgs[<<Ctrl, t>>])
      /\ <<n, t>> \in ended => n \notin run[t]
  BY DEF AddOK
<1>3. /\ TypeInv /\ PlanOK /\ "cmd" \in Threads
      /\ plan[t] \in Seq(Ops) /\ plan["cmd"] \in Seq(Ops)
  BY <1>1 DEF Reached, TypeInv, PlanOK, Threads
<1>4. PICK ops, S : Planned(th, ops, S) /\ PlansWell(th, S)
  BY DEF Plain
<1>5. /\ \A o \in S : o.op # "msg"
      /\ W \cap S = {}
      /\ WriteOps(d) \cap S # {} => th = "cmd" /\ \A o \in Range(Rest(th)) : ~ Acts(o)
      /\ E \cap S # {} => th = t /\ Consumes(t, d)
  BY <1>4 DEF PlansWell
<1>6. /\ msgs'[<<Ctrl, t>>] = msgs[<<Ctrl, t>>]
      /\ n \in run'[t] /\ n \notin run[t] => Consumes(t, a)
      /\ <<n, t>> \in ended' => <<n, t>> \in ended \/ (IsEof(word[<<n, t>>]) /\ n \notin run'[t])
      /\ IsEof(word'[<<n, t>>]) => Ending(n, t)
  <2>1. <<Ctrl, t>>[1] = Ctrl
    OBVIOUS
  <2> QED BY <1>1, <2>1 DEF Plain, ActsWell
<1>7. E' = E /\ (Ending(n, t) <=> Has(E, plan[t]) \/ IsEof(word[<<n, t>>]))
      /\ (Ending(n, t)' <=> Has(E, plan'[t]) \/ IsEof(word'[<<n, t>>]))
  BY DEF EndOps, Ending, IsEof, Has, Op
<1>8. (\A o \in W : Acts(o)) /\ (\A o \in A : o.op = "msg") /\ \A o \in D : o.op = "msg"
  BY KindsApart DEF Acts
<1> HIDE DEF a, d
<1>9. Once(a)' /\ (Out(a)' => Out(a))
  BY <1>1, <1>3, <1>4, <1>5, <1>6, LetterPlain
<1>10. WriteOps(d) \cap S = {} => (Out(d)' => Out(d))
  BY <1>1, <1>3, <1>4, <1>5, <1>6, LetterPlain
<1>11. ops \in Seq(Ops) /\ Goes(th, ops) /\ Range(ops) \subseteq S
  BY <1>4 DEF Planned
<1> HIDE DEF W, A, D, E
<1>12. ~ Has(W, ops) /\ ~ Has(A, ops) /\ ~ Has(D, ops)
  <2>1. A \cap S = {} /\ D \cap S = {}
    BY <1>5, <1>8
  <2> QED BY <1>5, <1>11, <2>1, NoneHas
<1>13. /\ \A u \in Threads : u # th => plan'[u] = plan[u]
       /\ Has(W, plan'[th]) <=> Has(W, Rest(th))
       /\ Has(W, Rest(th)) => Has(W, plan[th])
       /\ Has(D, plan'[th]) <=> Has(D, Rest(th))
       /\ Has(D, Rest(th)) => Has(D, plan[th])
       /\ Has(E, plan'[th]) <=> Has(E, ops) \/ Has(E, Rest(th))
       /\ Has(E, Rest(th)) => Has(E, plan[th])
  BY <1>3, <1>11, <1>12, GoesHas
<1>14. ASSUME Out(a)' PROVE ~ New(n)' /\ ~ Ending(n, t)' /\ Live(n, t)'
  <2>1. Out(a) /\ ~ New(n) /\ ~ Ending(n, t) /\ Live(n, t) /\ ~ Consumes(t, d)
    BY <1>1, <1>2, <1>9, <1>14
  <2>2. ~ Has(E, ops)
    BY <1>5, <1>11, <2>1, NoneHas
  <2>3. ~ Has(E, plan'[t])
    BY <1>1, <1>7, <1>13, <2>1, <2>2
  <2>4. <<n, t>> \notin ended'
    BY <1>6, <1>7, <2>1 DEF Live
  <2> QED BY <1>6, <1>7, <2>1, <2>3, <2>4 DEF Live
<1>15. ASSUME Out(d)' PROVE ~ Has(W, plan'["cmd"])
  <2>1. CASE Out(d)
    BY <1>2, <1>3, <1>13, <2>1
  <2>2. CASE ~ Out(d)
    <3>1. th = "cmd" /\ \A o \in Range(Rest(th)) : ~ Acts(o)
      BY <1>5, <1>10, <1>15, <2>2
    <3>2. ~ Has(W, Rest(th))
      BY <1>8, <3>1 DEF Has, Range
    <3> QED BY <1>13, <3>1, <3>2
  <2> QED BY <2>1, <2>2
<1>16. Before(A, D, plan'[t])
  <2>1. CASE t # th
    BY <1>1, <1>2, <1>13, <2>1
  <2>2. CASE t = th
    <3>1. Rest(t) \in Seq(Ops) /\ Before(A, D, Rest(t))
      <4>1. CASE plan[t] = <<>>
        <5>1. ~ Has(A, <<>>)
          BY HasNothing
        <5> QED BY <4>1, <5>1, BeforeNone DEF Rest
      <4>2. CASE plan[t] # <<>>
        BY <1>2, <1>3, <4>2, BeforeTail DEF Rest
      <4> QED BY <4>1, <4>2
    <3>2. plan'[t] = ops \o Rest(t)
      BY <1>1, <1>3, <1>11, <2>2 DEF Goes, PlanOK
    <3> QED BY <1>11, <1>12, <3>1, <3>2, BeforeConcat
  <2> QED BY <2>1, <2>2
<1>17. Has(D, plan'[t]) => ~ Has(a.mail, msgs'[<<Ctrl, t>>])
  BY <1>1, <1>2, <1>6, <1>13
<1>18. ASSUME <<n, t>> \in ended' PROVE n \notin run'[t]
  <2>1. Consumes(t, a) => Out(a)
    BY <1>1, <1>3, ConsumesOut
  <2> QED BY <1>2, <1>6, <1>18, <2>1 DEF Live
<1>19. Before(a.mail, d.mail, msgs'[<<Ctrl, t>>])
  BY <1>2, <1>6
<1> QED BY <1>9, <1>14, <1>15, <1>16, <1>17, <1>18, <1>19, AddAgain DEF W, A, D, a, d

\* A message is queued.
LEMMA AddQueue ==
  ASSUME Reached, NEW n \in Nodes, NEW t \in Pollers, AddOK(n, t), New(n)' => New(n),
         NEW th \in Threads, Queue(th)
  PROVE  AddOK(n, t)'
<1> DEFINE a == AddFd(n, t)
           d == Del(n, t)
           W == WriteOps(a)
           A == ReadOps(a)
           D == ReadOps(d)
           E == EndOps(n, t)
           c == <<Ctrl, t>>
           m == Arg(th)
<1>1. /\ a \in LetterType /\ d \in LetterType /\ Once(a) /\ Once(d)
      /\ a.to = c /\ d.to = c /\ a.by = "cmd"
      /\ Out(d) <=> \/ Has(WriteOps(d), plan["cmd"]) \/ Has(d.mail, msgs[c]) \/ Has(D, plan[t])
      /\ t \in Threads /\ c \in Tasks
  BY AddParts
<1>2. /\ Out(a) => ~ New(n) /\ ~ Ending(n, t) /\ Live(n, t)
      /\ Out(d) => ~ Has(W, plan["cmd"])
      /\ Before(a.mail, d.mail, msgs[c])
      /\ Before(A, D, plan[t])
      /\ Has(D, plan[t]) => ~ Has(a.mail, msgs[c])
      /\ <<n, t>> \in ended => n \notin run[t]
  BY DEF AddOK
<1>3. /\ TypeInv /\ PlanOK /\ "cmd" \in Threads
      /\ plan[th] \in Seq(Ops) /\ msgs[c] \in Seq(Messages)
  BY <1>1 DEF Reached, TypeInv, PlanOK, StateOK, Threads
<1>4. /\ plan[th] # <<>> /\ m \in Messages /\ Goes(th, <<>>)
      /\ Head(plan[th]) = Op("queue", On(th), m)
  <2>1. plan[th] # <<>> /\ Head(plan[th]) \in Ops /\ Head(plan[th]).op = "queue" /\ m \in Messages
    BY <1>3, HeadFits DEF Queue, Doing, TypeInv, FittingOps
  <2>2. Head(plan[th]) = Op("queue", On(th), m)
    BY <2>1 DEF Ops, Op, On, Arg
  <2> QED BY <1>3, <2>1, <2>2, GoOnGoes DEF Queue
<1>5. UNCHANGED <<word, run, ended>>
  BY DEF Queue, fields, life
<1>6. E' = E /\ (Ending(n, t) <=> Has(E, plan[t]) \/ IsEof(word[<<n, t>>]))
      /\ (Ending(n, t)' <=> Has(E, plan'[t]) \/ IsEof(word'[<<n, t>>]))
  BY DEF EndOps, Ending, IsEof, Has, Op
<1>7. \/ msgs'[c] = msgs[c]
      \/ On(th) = c /\ msgs'[c] = Append(msgs[c], m)
  BY <1>1, <1>3 DEF Queue, TypeInv, StateOK
<1>8. On(th) = c /\ m \in a.mail => Head(plan[th]) \in W
  BY <1>1, <1>4 DEF WriteOps
<1>9. ~ (m \in a.mail /\ m \in d.mail)
  <2>1. a.mail = {Msg("ADD_FD", n)} /\ d.mail = {Msg("DEL_FD", n)}
    BY AddTypes
  <2>2. Msg("ADD_FD", n) # Msg("DEL_FD", n)
    BY LetterOps
  <2> HIDE DEF a, d
  <2> QED BY <2>1, <2>2
<1> HIDE DEF a, d
<1>10. Once(a)' /\ (Out(a)' => Out(a)) /\ (Out(d)' => Out(d))
  BY <1>1, <1>3, LetterQueue
<1> HIDE DEF W, A, D, E, m, c
<1>11. \A F : /\ \A u \in Threads : u # th => plan'[u] = plan[u]
              /\ Has(F, plan'[th]) <=> Has(F, Rest(th))
              /\ Has(F, Rest(th)) => Has(F, plan[th])
  BY <1>3, <1>4, GoesNothing
<1>12. \A F : \A u \in Threads : Has(F, plan'[u]) => Has(F, plan[u])
  BY <1>11
<1>13. On(th) = c /\ m \in a.mail => ~ Out(d)
  <2> SUFFICES ASSUME On(th) = c, m \in a.mail PROVE ~ Out(d)
    OBVIOUS
  <2>1. Has(W, plan[th])
    BY <1>3, <1>4, <1>8, HasTail
  <2>2. th = "cmd"
    BY <1>1, <2>1 DEF Once, W
  <2> QED BY <1>2, <2>1, <2>2
<1>14. ASSUME Out(a)' PROVE ~ New(n)' /\ ~ Ending(n, t)' /\ Live(n, t)'
  BY <1>1, <1>2, <1>5, <1>6, <1>10, <1>12, <1>14 DEF Live, IsEof
<1>15. ASSUME Out(d)' PROVE ~ Has(W, plan'["cmd"])
  BY <1>2, <1>3, <1>10, <1>12, <1>15
<1>16. Before(A, D, plan'[t])
  <2>1. CASE t # th
    BY <1>1, <1>2, <1>11, <2>1
  <2>2. CASE t = th
    <3>1. plan'[t] = Tail(plan[t])
      BY <1>1, <1>3, <1>4, <2>2 DEF Queue, GoOn, PlanOK
    <3> QED BY <1>2, <1>3, <1>4, <2>2, <3>1, BeforeTail
  <2> QED BY <2>1, <2>2
<1>17. Before(a.mail, d.mail, msgs'[c])
  <2>1. CASE msgs'[c] = msgs[c]
    BY <1>2, <2>1
  <2>2. CASE On(th) = c /\ msgs'[c] = Append(msgs[c], m)
    BY <1>1, <1>2, <1>3, <1>4, <1>9, <1>13, <2>2, BeforeAppend
  <2> QED BY <1>7, <2>1, <2>2
<1>18. ASSUME Has(D, plan'[t]) PROVE ~ Has(a.mail, msgs'[c])
  <2>1. Has(D, plan[t]) /\ Out(d) /\ ~ Has(a.mail, msgs[c])
    BY <1>1, <1>2, <1>12, <1>18
  <2>2. CASE msgs'[c] = msgs[c]
    BY <2>1, <2>2
  <2>3. CASE On(th) = c /\ msgs'[c] = Append(msgs[c], m)
    <3>1. m \notin a.mail
      BY <1>13, <2>1, <2>3
    <3> QED BY <1>3, <1>4, <2>1, <2>3, <3>1, HasAppend
  <2> QED BY <1>7, <2>2, <2>3
<1>19. <<n, t>> \in ended' => n \notin run'[t]
  BY <1>2, <1>5
<1> QED BY <1>10, <1>14, <1>15, <1>16, <1>17, <1>18, <1>19, AddAgain DEF W, A, D, a, d, c

\* The queue of a task becomes the plan of its handler, in the same order.
LEMMA DrainOrder ==
  ASSUME TypeInv, NEW x \in Tasks, Drain(x), NEW a \in LetterType, NEW d \in LetterType
  PROVE  /\ x # a.to => ~ Has(ReadOps(a), plan'[x[2]])
         /\ x # d.to => ~ Has(ReadOps(d), plan'[x[2]])
         /\ x = a.to /\ x = d.to /\ Before(a.mail, d.mail, msgs[x]) =>
              Before(ReadOps(a), ReadOps(d), plan'[x[2]])
<1> DEFINE th == x[2]
           q == msgs[x]
           ret == Op("return", x, "NORM")
           u == [i \in DOMAIN q |-> Op("msg", x, q[i])] \o <<ret>>
<1>1. th \in Threads /\ plan[th] = <<>> /\ PlanOK
  BY TakeTypes DEF Drain, TakeLive, TypeInv
<1>2. plan'[th] = u
  BY <1>1 DEF Drain, Start, PlanOK, Return
<1>3. q \in Seq(Messages) /\ Len(q) \in Nat /\ DOMAIN q = 1 .. Len(q)
  BY DEF TypeInv, StateOK
<1>4. ret.op = "return"
  BY DEF Op
<1>5. DOMAIN u = 1 .. Len(q) + 1 /\ u[Len(q) + 1] = ret
      /\ \A i \in 1 .. Len(q) : u[i] = Op("msg", x, q[i])
  <2> DEFINE work == [i \in DOMAIN q |-> Op("msg", x, q[i])]
             last == <<ret>>
  <2> HIDE DEF q, ret
  <2>1. work \in Seq(Ops) /\ Len(work) = Len(q) /\ \A i \in 1 .. Len(q) : work[i] = Op("msg", x, q[i])
    <3>1. \A i \in DOMAIN q : Op("msg", x, q[i]) \in Ops
      BY <1>3, OpTypes
    <3>2. work \in [1 .. Len(q) -> Ops]
      BY <1>3, <3>1
    <3> QED BY <1>3, <3>2
  <2>2. last \in Seq(Ops) /\ Len(last) = 1 /\ last[1] = ret
    <3>1. ret \in Ops
      BY OpTypes DEF Returns, ret
    <3> QED BY <3>1
  <2>3. u = work \o last
    OBVIOUS
  <2> HIDE DEF work, last, u
  <2>4. /\ DOMAIN (work \o last) = 1 .. Len(q) + 1
        /\ \A i \in 1 .. Len(q) : (work \o last)[i] = work[i]
        /\ \A i \in 1 .. Len(q) + 1 : i \notin 1 .. Len(q) =>
             (work \o last)[i] = last[i - Len(q)]
    <3> DEFINE v == work \o last
    <3>1. /\ DOMAIN v = 1 .. Len(work) + Len(last)
          /\ \A i \in 1 .. Len(work) : v[i] = work[i]
          /\ \A i \in 1 .. Len(work) + Len(last) : i \notin 1 .. Len(work) =>
               v[i] = last[i - Len(work)]
      BY <2>1, <2>2, ConcatParts
    <3> HIDE DEF v
    <3>2. /\ DOMAIN v = 1 .. Len(q) + 1
          /\ \A i \in 1 .. Len(q) : v[i] = work[i]
          /\ \A i \in 1 .. Len(q) + 1 : i \notin 1 .. Len(q) => v[i] = last[i - Len(q)]
      BY <2>1, <2>2, <3>1
    <3> QED BY <3>2 DEF v
  <2>5. /\ Len(q) + 1 \in 1 .. Len(q) + 1 /\ Len(q) + 1 \notin 1 .. Len(q)
        /\ (Len(q) + 1) - Len(q) = 1
    BY <1>3
  <2>6. (work \o last)[Len(q) + 1] = ret
    BY <2>2, <2>4, <2>5
  <2> QED BY <1>3, <2>1, <2>2, <2>3, <2>4, <2>5, <2>6
<1> HIDE DEF u, ret
<1>6. \A k : \A i \in DOMAIN u : u[i] \in ReadOps(k) =>
        i \in 1 .. Len(q) /\ x = k.to /\ q[i] \in k.mail
  <2> SUFFICES ASSUME NEW k, NEW i \in DOMAIN u, u[i] \in ReadOps(k)
               PROVE  i \in 1 .. Len(q) /\ x = k.to /\ q[i] \in k.mail
    OBVIOUS
  <2>1. i # Len(q) + 1
    BY <1>4, <1>5, KindsApart
  <2>2. i \in 1 .. Len(q) /\ u[i] = Op("msg", x, q[i])
    BY <1>3, <1>5, <2>1
  <2>3. PICK m \in k.mail : u[i] = Op("msg", k.to, m)
    BY DEF ReadOps
  <2>4. x = k.to /\ q[i] = m
    BY <2>2, <2>3 DEF Op
  <2> QED BY <2>2, <2>4
<1> HIDE DEF q, th
<1>7. \A k : x # k.to => ~ Has(ReadOps(k), u)
  BY <1>6 DEF Has
<1>8. Before(a.mail, d.mail, q) => Before(ReadOps(a), ReadOps(d), u)
  BY <1>3, <1>6 DEF Before
<1> QED BY <1>2, <1>7, <1>8 DEF th, q

\* A queue is drained.
LEMMA AddDrain ==
  ASSUME Reached, NEW n \in Nodes, NEW t \in Pollers, AddOK(n, t), New(n)' => New(n),
         NEW x \in Tasks, Drain(x)
  PROVE  AddOK(n, t)'
<1> DEFINE a == AddFd(n, t)
           d == Del(n, t)
           W == WriteOps(a)
           A == ReadOps(a)
           D == ReadOps(d)
           E == EndOps(n, t)
           c == <<Ctrl, t>>
           th == x[2]
<1>1. /\ a \in LetterType /\ d \in LetterType /\ Once(a) /\ Once(d)
      /\ a.to = c /\ d.to = c
      /\ t \in Threads /\ c \in Tasks
  BY AddParts
<1>2. /\ Out(a) => ~ New(n) /\ ~ Ending(n, t) /\ Live(n, t)
      /\ Out(d) => ~ Has(W, plan["cmd"])
      /\ Before(a.mail, d.mail, msgs[c])
      /\ Before(A, D, plan[t])
      /\ Has(D, plan[t]) => ~ Has(a.mail, msgs[c])
      /\ <<n, t>> \in ended => n \notin run[t]
  BY DEF AddOK
<1>3. /\ TypeInv /\ PlanOK /\ "cmd" \in Threads /\ th \in Threads /\ Take(x)
      /\ plan[th] = <<>>
  BY TaskThread DEF Reached, TypeInv, Threads, Drain, TakeLive, Take
<1>4. UNCHANGED <<run, ended>>
  BY DEF Drain, TakeLive, fields, life
<1>5. E' = E /\ (Ending(n, t) <=> Has(E, plan[t]) \/ IsEof(word[<<n, t>>]))
      /\ (Ending(n, t)' <=> Has(E, plan'[t]) \/ IsEof(word'[<<n, t>>]))
  BY DEF EndOps, Ending, IsEof, Has, Op
<1>6. PICK ops : Planned(th, ops,
         {Op("msg", x, m) : m \in Range(msgs[x])} \cup {Op("return", x, "NORM")})
  BY <1>3, DrainPlans
<1>7. \A u \in Threads : /\ u # th => plan'[u] = plan[u]
                         /\ \A o \in Range(plan'[u]) : Acts(o) => o \in Range(plan[u])
  <2>1. /\ \A u \in Threads : u # th => plan'[u] = plan[u]
        /\ Range(plan'[th]) = Range(ops) \cup Range(Rest(th))
        /\ Range(Rest(th)) \subseteq Range(plan[th])
    BY <1>3, <1>6, PlannedRange
  <2>2. \A o \in Range(ops) : ~ Acts(o)
    BY <1>6 DEF Planned, Acts, Op
  <2> QED BY <2>1, <2>2
<1>8. (\A o \in W : Acts(o)) /\ \A o \in E : Acts(o)
  BY KindsApart DEF Acts, EndOps, Op
<1>9. IsEof(word'[<<n, t>>]) => Ending(n, t)
  BY <1>1, <1>3, TakenEnds
<1>10. /\ msgs'[x] = <<>>
       /\ c # x => msgs'[c] = msgs[c]
  BY <1>1, <1>3 DEF Drain, TypeInv, StateOK
<1>11. /\ x # c => ~ Has(A, plan'[th]) /\ ~ Has(D, plan'[th])
       /\ x = c => Before(A, D, plan'[th])
  BY <1>1, <1>2, <1>3, DrainOrder
<1>12. x = c => th = t
  OBVIOUS
<1> HIDE DEF a, d
<1>13. Once(a)' /\ (Out(a)' => Out(a)) /\ (Out(d)' => Out(d))
  BY <1>1, <1>3, LetterDrain
<1> HIDE DEF W, A, D, E, th, c
<1>14. \A u \in Threads : /\ Has(W, plan'[u]) => Has(W, plan[u])
                          /\ Has(E, plan'[u]) => Has(E, plan[u])
  BY <1>7, <1>8 DEF Has, Range
<1>15. ASSUME Out(a)' PROVE ~ New(n)' /\ ~ Ending(n, t)' /\ Live(n, t)'
  BY <1>1, <1>2, <1>4, <1>5, <1>9, <1>13, <1>14, <1>15 DEF Live
<1>16. ASSUME Out(d)' PROVE ~ Has(W, plan'["cmd"])
  BY <1>2, <1>3, <1>13, <1>14, <1>16
<1>17. /\ Before(a.mail, d.mail, msgs'[c])
       /\ Before(A, D, plan'[t])
       /\ Has(D, plan'[t]) => ~ Has(a.mail, msgs'[c])
  <2>1. CASE x = c
    <3>1. ~ Has(a.mail, msgs'[c])
      BY <1>10, <2>1, HasNothing
    <3> QED BY <1>11, <1>12, <2>1, <3>1, BeforeNone
  <2>2. CASE x # c /\ th = t
    BY <1>2, <1>10, <1>11, <2>2, BeforeNone
  <2>3. CASE x # c /\ th # t
    BY <1>1, <1>2, <1>7, <1>10, <2>3
  <2> QED BY <2>1, <2>2, <2>3
<1>18. <<n, t>> \in ended' => n \notin run'[t]
  BY <1>2, <1>4
<1> QED BY <1>13, <1>15, <1>16, <1>17, <1>18, AddAgain DEF W, A, D, a, d, c

\* A step keeps the order of adding and taking away.
LEMMA AddKept ==
  ASSUME Reached, NEW n \in Nodes, NEW t \in Pollers, AddOK(n, t), RegistOK(n),
         New(n) => FreshOK(n), Next, CloseOK(n)'
  PROVE  AddOK(n, t)'
<1>1. New(n)' => New(n)
  BY RegistKept
<1>2. CASE CmdRegist(n)
  BY <1>2, RegistNews, AddRegist
<1>3. CASE ~ CmdRegist(n)
  BY <1>1, <1>3, StepKinds, AddPlain, AddQueue, AddDrain
<1> QED BY <1>2, <1>3

-----------------------------------------------------------------------------
(* What is left alone until the director has registered a connection.      *)

\* A step that asks for no close of n, does not register it, and wakes none
\* of its tasks but the director's.
Quiet(n) ==
  /\ n \in reason' => n \in reason
  /\ n \in cmdList' => n \in cmdList
  /\ \A t \in {"rcv", "snd", "deal"} : <<n, t>> \in pool' => <<n, t>> \in pool

FreshPlan(n) == \E th \in Threads : \E ops, S : Planned(th, ops, S) /\ \A o \in S : FreshOp(o, n)

LEMMA FreeFresh ==
  ASSUME NEW n \in Nodes
  PROVE  /\ \A x, m : x[1] # n => \A o \in Gives(x, m) : FreshOp(o, n)
         /\ \A op, x, arg : x[1] # n => FreshOp(Op(op, x, arg), n)
         /\ \A m, th : \A o \in Gives(<<Ctrl, th>>, m) : FreshOp(o, n)
         /\ \A m : \A o \in Gives(<<m, "cmd">>, Msg("REGIST", m)) : FreshOp(o, n)
<1>1. \A op, x, arg : x[1] # n => FreshOp(Op(op, x, arg), n)
  BY DEF FreshOp, Op
<1>2. \A x, m : x[1] # n => \A o \in Gives(x, m) : FreshOp(o, n)
  BY <1>1 DEF Gives
<1>3. Ctrl # n /\ \A th : <<Ctrl, th>>[1] = Ctrl
  BY LifeAssumption
<1>4. \A m, th : \A o \in Gives(<<Ctrl, th>>, m) : FreshOp(o, n)
  BY <1>2, <1>3
<1>5. \A m : \A o \in Gives(<<m, "cmd">>, Msg("REGIST", m)) : FreshOp(o, n)
  BY DEF FreshOp, Gives, Op, Msg
<1> QED BY <1>1, <1>2, <1>4, <1>5

\* Only its registration is handled for a new connection.
LEMMA FreshHandles ==
  ASSUME TypeInv, NEW n \in Nodes, FreshOK(n), NEW th \in Threads, NEW x, NEW type,
         Handling(th, x, type), x[1] = n
  PROVE  x = <<n, "cmd">> /\ type = "REGIST"
<1>1. /\ plan[th] # <<>> /\ PlanOK /\ x \in Tasks
      /\ Head(plan[th]) = Op("msg", x, Arg(th)) /\ Arg(th).type = type
  BY Handled DEF Handling
<1>2. Head(plan[th]) \in Range(plan[th])
  <2>1. plan[th] \in Seq(Ops)
    BY <1>1 DEF PlanOK
  <2> QED BY <1>1, <2>1, RangeParts
<1>3. FreshOp(Op("msg", x, Arg(th)), n)
  BY <1>1, <1>2 DEF FreshOK
<1>4. x[2] = "cmd" /\ type = "REGIST"
  BY <1>1, <1>3 DEF FreshOp, Op
<1>5. x = <<x[1], x[2]>>
  BY <1>1 DEF Tasks
<1> QED BY <1>4, <1>5

\* What a thread that takes a task leaves alone.
LEMMA FreshTakes ==
  ASSUME TypeInv, NEW n \in Nodes, FreshOK(n), NEW x \in Tasks, Take(x), UNCHANGED reason,
         cmdList' \subseteq cmdList
  PROVE  Quiet(n) /\ (x[1] = n => x[2] = "cmd")
<1>1. x = <<x[1], x[2]>> /\ x[2] \in Threads
  BY TaskThread DEF Tasks
<1>2. x[1] = n => x[2] = "cmd"
  BY <1>1 DEF Take, FreshOK, Threads
<1> QED BY <1>2 DEF Quiet, Take

LEMMA FreshAccept ==
  ASSUME TypeInv, NEW n \in Nodes, FreshOK(n), NEW m \in Nodes, Accept(m)
  PROVE  Quiet(n) /\ FreshPlan(n)
<1>1. "rcv" \in Threads /\ Quiet(n)
  BY DEF Threads, Accept, mail, fields, Quiet
<1>2. PICK ops : Planned("rcv", ops, Gives(<<m, "cmd">>, Msg("REGIST", m)))
  BY AcceptPlans
<1> QED BY <1>1, <1>2, FreeFresh DEF FreshPlan

LEMMA FreshPoll ==
  ASSUME TypeInv, NEW n \in Nodes, FreshOK(n), NEW th \in Pollers, NEW m \in Nodes,
         PollReady(th, m) \/ PollError(th, m)
  PROVE  Quiet(n) /\ FreshPlan(n)
<1>1. th \in Threads /\ Quiet(n)
  BY DEF Threads, Pollers, PollReady, PollError, mail, Quiet
<1>2. m # n /\ <<m, th>>[1] = m /\ <<m, "cmd">>[1] = m
  BY DEF PollReady, PollError, Polled, FreshOK, Pollers
<1>3. PICK ops, S : Planned(th, ops, S) /\ \A o \in S : FreshOp(o, n)
  <2>1. CASE PollReady(th, m)
    <3>1. PICK ops : Planned(th, ops, {Op("post", <<m, th>>, Event(th))})
      BY <2>1, PollPlans
    <3> QED BY <1>2, <3>1, FreeFresh
  <2>2. CASE PollError(th, m)
    <3>1. PICK ops : Planned(th, ops, Gives(<<m, "cmd">>, Msg("UNREG", m)))
      BY <2>2, PollPlans
    <3> QED BY <1>2, <3>1, FreeFresh
  <2> QED BY <2>1, <2>2
<1> QED BY <1>1, <1>3 DEF FreshPlan

LEMMA FreshServe ==
  ASSUME TypeInv, NEW n \in Nodes, FreshOK(n), NEW x \in Tasks, Serve(x)
  PROVE  Quiet(n) /\ FreshPlan(n)
<1> DEFINE m == x[1]
<1>1. /\ {"rcv", "snd", "deal", "cmd"} = Threads /\ x[2] \in Threads
      /\ m # Ctrl => m \in Nodes /\ x = <<m, x[2]>>
      /\ \A th : <<m, th>>[1] = m
  BY TaskThread DEF Threads, Tasks
<1>2. Take(x) /\ UNCHANGED reason /\ cmdList' \subseteq cmdList
  <2>1. Take(x)
    BY ServePlans
  <2>2. UNCHANGED reason /\ cmdList' \subseteq cmdList
    BY DEF Serve, Drain, ReadEnd, Read, WriteEnd, Write, DealEnd, CmdEnd, fields
  <2> QED BY <2>1, <2>2
<1>3. Quiet(n) /\ (m = n => x[2] = "cmd")
  BY <1>2, FreshTakes
<1>4. CASE Drain(x)
  <2>1. PICK ops : Planned(x[2], ops,
          {Op("msg", x, c) : c \in Range(msgs[x])} \cup {Op("return", x, "NORM")})
    BY <1>4, DrainPlans
  <2>2. m # n => \A op, arg : FreshOp(Op(op, x, arg), n)
    BY FreeFresh
  <2>3. m = n => x = <<n, "cmd">>
    BY <1>1, <1>3, LifeAssumption
  <2>4. m = n => /\ FreshOp(Op("return", x, "NORM"), n)
                 /\ \A c \in Range(msgs[x]) : FreshOp(Op("msg", x, c), n)
    BY <2>3 DEF FreshOK, FreshOp, Op
  <2>5. \A o \in {Op("msg", x, c) : c \in Range(msgs[x])} \cup {Op("return", x, "NORM")} :
          FreshOp(o, n)
    BY <2>2, <2>4
  <2> QED BY <1>1, <1>3, <2>1, <2>5 DEF FreshPlan
<1>5. ASSUME m # n, m \in Nodes, x[2] = "rcv", NEW ev \in Answers(m, "rcv"), Read(m, ev)
      PROVE  FreshPlan(n)
  <2>1. PICK ops : Planned("rcv", ops,
           Gives(<<m, "snd">>, Msg("DATA", m)) \cup Gives(<<m, "deal">>, Msg("DATA", m))
             \cup Gives(<<m, "cmd">>, Msg("UNREG", m)) \cup {Op("return", <<m, "rcv">>, ev)})
    BY <1>5, ReadPlans
  <2>2. \A o \in Gives(<<m, "snd">>, Msg("DATA", m)) \cup Gives(<<m, "deal">>, Msg("DATA", m))
             \cup Gives(<<m, "cmd">>, Msg("UNREG", m)) \cup {Op("return", <<m, "rcv">>, ev)} :
          FreshOp(o, n)
    BY <1>1, <1>5, FreeFresh
  <2> QED BY <1>1, <2>1, <2>2 DEF FreshPlan
<1>6. ASSUME m # n, m \in Nodes, x[2] = "snd", NEW ev \in Answers(m, "snd"), Write(m, ev)
      PROVE  FreshPlan(n)
  <2>1. PICK ops : Planned("snd", ops,
           Gives(<<m, "cmd">>, Msg("UNREG", m)) \cup {Op("return", <<m, "snd">>, ev)})
    BY <1>6, WritePlans
  <2>2. \A o \in Gives(<<m, "cmd">>, Msg("UNREG", m)) \cup {Op("return", <<m, "snd">>, ev)} :
          FreshOp(o, n)
    BY <1>1, <1>6, FreeFresh
  <2> QED BY <1>1, <2>1, <2>2 DEF FreshPlan
<1>7. ASSUME m # n, m \in Nodes, ReadEnd(m) \/ WriteEnd(m) \/ DealEnd(m)
      PROVE  FreshPlan(n)
  <2>1. \A c : \A o \in Gives(<<m, "cmd">>, c) : FreshOp(o, n)
    BY <1>1, <1>7, FreeFresh
  <2>2. \E th \in Threads : \E ops, S : Planned(th, ops, S) /\ \A o \in S : FreshOp(o, n)
    <3>1. CASE ReadEnd(m)
      <4>1. PICK ops : Planned("rcv", ops, Gives(<<m, "cmd">>, Msg("STOP", "STOP_RCV")))
        BY <1>7, <3>1, EndPlans
      <4> QED BY <1>1, <2>1, <4>1
    <3>2. CASE WriteEnd(m)
      <4> DEFINE S == Gives(<<m, "cmd">>, Msg("UNREG", m))
                        \cup Gives(<<m, "cmd">>, Msg("STOP", "STOP_SND"))
      <4>1. PICK ops : Planned("snd", ops, S)
        BY <1>7, <3>2, EndPlans
      <4>2. \A o \in S : FreshOp(o, n)
        BY <2>1
      <4> HIDE DEF S
      <4> QED BY <1>1, <4>1, <4>2
    <3>3. CASE DealEnd(m)
      <4>1. PICK ops : Planned("deal", ops, Gives(<<m, "cmd">>, Msg("STOP", "STOP_DEAL")))
        BY <1>7, <3>3, EndPlans
      <4> QED BY <1>1, <2>1, <4>1
    <3> QED BY <1>7, <3>1, <3>2, <3>3
  <2> QED BY <2>2 DEF FreshPlan
<1>8. ASSUME m \in Nodes, CmdEnd(m) PROVE FreshPlan(n)
  <2>1. Planned("cmd", <<>>, {}) /\ \A o \in {} : FreshOp(o, n)
    BY <1>8, EndPlans
  <2> QED BY <1>1, <2>1 DEF FreshPlan
<1>9. FreshPlan(n)
  <2> HIDE DEF m
  <2>1. x[2] # "cmd" => m # n
    BY <1>3
  <2> QED BY <1>1, <1>4, <1>5, <1>6, <1>7, <1>8, <2>1 DEF Serve, m
<1> QED BY <1>3, <1>9

LEMMA FreshPosts ==
  ASSUME TypeInv, NEW n \in Nodes, FreshOK(n), NEW th \in Threads,
         Queue(th) \/ Post(th) \/ Returned(th)
  PROVE  Quiet(n) /\ FreshPlan(n)
<1> DEFINE x == On(th)
<1>1. FreshPlan(n)
  <2>1. Planned(th, <<>>, {}) /\ \A o \in {} : FreshOp(o, n)
    BY ProceedPlans
  <2> QED BY <2>1 DEF FreshPlan
<1>2. UNCHANGED <<reason, cmdList>>
  BY DEF Queue, Post, Returned, fields
<1>3. Head(plan[th]) \in Range(plan[th])
  <2>1. plan[th] # <<>> /\ plan[th] \in Seq(Ops)
    BY DEF Queue, Post, Returned, Doing, TypeInv, PlanOK
  <2> QED BY <2>1, RangeParts
<1>4. FreshOp(Head(plan[th]), n)
  BY <1>3 DEF FreshOK
<1>5. CASE Queue(th)
  BY <1>1, <1>2, <1>5 DEF Queue, Quiet
<1>6. CASE Post(th) \/ Returned(th)
  <2>1. x[1] = n => x[2] = "cmd"
    BY <1>4, <1>6 DEF FreshOp, On
  <2>2. \A t \in {"rcv", "snd", "deal"} : <<n, t>> # x
    BY <2>1
  <2>3. pool' \subseteq pool \cup {x}
    BY <1>6 DEF Post, Returned
  <2> QED BY <1>1, <1>2, <2>2, <2>3 DEF Quiet
<1> QED BY <1>5, <1>6

LEMMA FreshCtrl ==
  ASSUME Reached, NEW n \in Nodes, FreshOK(n), NEW th \in Pollers, CtrlAdd(th) \/ CtrlDel(th)
  PROVE  Quiet(n) /\ FreshPlan(n)
<1>1. th \in Threads /\ TypeInv /\ CloseOK(n) /\ Quiet(n)
  BY DEF Reached, Threads, Pollers, CtrlAdd, CtrlDel, Handling, mail, fields, Quiet
<1>2. CASE CtrlAdd(th)
  <2>1. Planned(th, <<>>, {}) /\ \A o \in {} : FreshOp(o, n)
    BY <1>1, <1>2, ProceedPlans
  <2> QED BY <1>1, <2>1 DEF FreshPlan
<1>3. CASE CtrlDel(th)
  <2>1. PICK m \in Nodes : m = Arg(th).val
    BY <1>1, <1>3, CtrlDelPlans
  <2>2. PICK ops : Planned(th, ops, {Op("post", <<m, th>>, "END")})
    BY <1>1, <1>3, <2>1, CtrlDelPlans
  <2>3. Consumes(th, Del(m, th))
    BY <1>1, <1>3, <2>1, DelHandled DEF Reached, Del
  <2>4. Out(Del(m, th))
    BY <1>1, <2>3, AddTypes, ConsumesOut DEF TypeInv
  <2>5. m # n
    BY <1>1, <2>4, Unasked DEF FreshOK
  <2>6. FreshOp(Op("post", <<m, th>>, "END"), n)
    BY <2>5, FreeFresh
  <2> QED BY <1>1, <2>2, <2>6 DEF FreshPlan
<1> QED BY <1>2, <1>3

LEMMA FreshDeal ==
  ASSUME Reached, NEW n \in Nodes, FreshOK(n), NEW m \in Nodes, NEW ok \in BOOLEAN,
         DealStop(m) \/ DealExit(m) \/ DealMsg(m, ok)
  PROVE  Quiet(n) /\ FreshPlan(n)
<1>1. "deal" \in Threads /\ TypeInv /\ Quiet(n)
  BY DEF Threads, Reached, DealStop, DealExit, DealMsg, Handling, mail, fields, Quiet
<1>2. m # n /\ \A th : <<m, th>>[1] = m
  <2>1. \E type : Handling("deal", <<m, "deal">>, type)
    BY DEF DealStop, DealExit, DealMsg
  <2>2. <<n, "deal">>[1] = n /\ <<n, "deal">> # <<n, "cmd">>
    OBVIOUS
  <2> QED BY <1>1, <2>1, <2>2, FreshHandles
<1>3. /\ \A th, c : \A o \in Gives(<<m, th>>, c) : FreshOp(o, n)
      /\ FreshOp(Op("post", <<m, "deal">>, "END"), n)
  BY <1>2, FreeFresh
<1>4. CASE DealStop(m)
  <2>1. PICK ops : Planned("deal", ops, Gives(<<m, "deal">>, Msg("ALLOW_EXIT", m)))
    BY <1>1, <1>4, DealPlans
  <2> QED BY <1>1, <1>3, <2>1 DEF FreshPlan
<1>5. CASE DealExit(m)
  <2>1. PICK ops : Planned("deal", ops, {Op("post", <<m, "deal">>, "END")})
    BY <1>1, <1>5, DealPlans
  <2> QED BY <1>1, <1>3, <2>1 DEF FreshPlan
<1>6. CASE DealMsg(m, ok)
  <2> DEFINE S == DeliversTo(Reachable) \cup Gives(<<m, "cmd">>, Msg("UNREG", m))
  <2>1. PICK ops : Planned("deal", ops, S)
    BY <1>1, <1>6, DealMsgPlans
  <2>2. ASSUME NEW l \in Reachable, NEW o \in Delivers(l) PROVE FreshOp(o, n)
    <3>1. l # n /\ \A th : <<l, th>>[1] = l
      BY ReachableLive DEF FreshOK
    <3> QED BY <3>1, FreeFresh DEF Delivers
  <2>3. \A o \in S : FreshOp(o, n)
    BY <1>3, <2>2 DEF DeliversTo
  <2> HIDE DEF S
  <2> QED BY <1>1, <2>1, <2>3 DEF FreshPlan
<1> QED BY <1>4, <1>5, <1>6

LEMMA FreshCmd ==
  ASSUME TypeInv, NEW n \in Nodes, FreshOK(n), ~ CmdRegist(n), NEW m \in Nodes,
         CmdRegist(m) \/ CmdUnreg(m) \/ CmdStop(m)
  PROVE  Quiet(n) /\ FreshPlan(n)
<1>1. "cmd" \in Threads
  BY DEF Threads
<1>2. m # n /\ \A th : <<m, th>>[1] = m
  <2>1. PICK type : Handling("cmd", <<m, "cmd">>, type) /\ (type = "REGIST" => CmdRegist(m))
    BY DEF CmdRegist, CmdUnreg, CmdStop
  <2>2. <<n, "cmd">>[1] = n
    OBVIOUS
  <2>3. m = n => type = "REGIST"
    BY <1>1, <2>1, <2>2, FreshHandles
  <2> QED BY <2>1, <2>3
<1>3. Quiet(n)
  <2>1. UNCHANGED mail
    BY DEF CmdRegist, CmdUnreg, CmdStop, Handling
  <2>2. (n \in reason' => n \in reason) /\ (n \in cmdList' => n \in cmdList)
    BY <1>2 DEF CmdRegist, CmdUnreg, CmdStop
  <2> QED BY <2>1, <2>2 DEF mail, Quiet
<1>4. /\ \A th, c : \A o \in Gives(<<m, th>>, c) : FreshOp(o, n)
      /\ FreshOp(Op("post", <<m, "cmd">>, "END"), n)
      /\ \A th, c : \A o \in Gives(<<Ctrl, th>>, c) : FreshOp(o, n)
  BY <1>2, FreeFresh
<1>5. CASE CmdRegist(m)
  <2> DEFINE S == Gives(<<Ctrl, "rcv">>, Msg("ADD_FD", m))
                    \cup Gives(<<Ctrl, "snd">>, Msg("ADD_FD", m))
  <2>1. PICK ops : Planned("cmd", ops, S)
    BY <1>5, CmdPlans
  <2>2. \A o \in S : FreshOp(o, n)
    BY <1>4
  <2> HIDE DEF S
  <2> QED BY <1>1, <1>3, <2>1, <2>2 DEF FreshPlan
<1>6. CASE CmdUnreg(m)
  <2>1. PICK ops : Planned("cmd", ops, Gives(<<Ctrl, "rcv">>, Msg("DEL_FD", m)))
    BY <1>6, CmdPlans
  <2> QED BY <1>1, <1>3, <1>4, <2>1 DEF FreshPlan
<1>7. CASE CmdStop(m)
  <2> DEFINE S == Gives(<<m, "deal">>, Msg("STOP", "STOP_DEAL"))
                    \cup Gives(<<Ctrl, "snd">>, Msg("DEL_FD", m))
                    \cup Gives(<<m, "cmd">>, Msg("STOP", "CLOSED"))
                    \cup {Op("post", <<m, "cmd">>, "END")}
  <2>1. PICK ops : Planned("cmd", ops, S)
    BY <1>7, CmdPlans
  <2>2. \A o \in S : FreshOp(o, n)
    BY <1>4
  <2> HIDE DEF S
  <2> QED BY <1>1, <1>3, <2>1, <2>2 DEF FreshPlan
<1> QED BY <1>5, <1>6, <1>7

LEMMA FreshSteps ==
  ASSUME Reached, NEW n \in Nodes, FreshOK(n), ~ CmdRegist(n), Next
  PROVE  Quiet(n) /\ FreshPlan(n)
<1>1. TypeInv
  BY DEF Reached
<1>2. ASSUME NEW th \in Threads, HandleMsg(th) PROVE Quiet(n) /\ FreshPlan(n)
  BY <1>1, <1>2, FreshCtrl, FreshDeal, FreshCmd DEF HandleMsg
<1>3. ASSUME NEW th \in Threads, Proceed(th) PROVE Quiet(n) /\ FreshPlan(n)
  BY <1>1, <1>2, <1>3, ProceedSteps, FreshPosts
<1> QED BY <1>1, <1>3, FreshAccept, FreshPoll, FreshServe DEF Next

\* What is new stays as it was until it is registered.
LEMMA FreshKept ==
  ASSUME Reached, NEW n \in Nodes, RegistOK(n), FreshOK(n), New(n), New(n)',
         \A t \in Pollers : AddOK(n, t), Next
  PROVE  FreshOK(n)'
<1> DEFINE y == <<n, "cmd">>
<1>1. TypeInv /\ PlanOK /\ ~ CmdRegist(n)
  BY RegistNews DEF Reached, TypeInv
<1>2. Quiet(n) /\ FreshPlan(n)
  BY <1>1, FreshSteps
<1>3. \A by \in Threads : \A o \in Range(plan'[by]) : FreshOp(o, n)
  <2>0. PICK th \in Threads : \E ops, S : Planned(th, ops, S) /\ \A o \in S : FreshOp(o, n)
    BY <1>2 DEF FreshPlan
  <2>1. PICK ops, S : Planned(th, ops, S) /\ \A o \in S : FreshOp(o, n)
    BY <2>0
  <2>2. /\ \A t \in Threads : t # th => plan'[t] = plan[t]
        /\ Range(plan'[th]) = Range(ops) \cup Range(Rest(th))
        /\ Range(Rest(th)) \subseteq Range(plan[th])
        /\ Range(ops) \subseteq S
    BY <1>1, <2>1, PlannedRange
  <2> QED BY <2>1, <2>2 DEF FreshOK
<1>4. \A t \in Pollers : n \notin run'[t]
  <2> SUFFICES ASSUME NEW t \in Pollers PROVE n \notin run'[t]
    OBVIOUS
  <2>1. n \notin run[t]
    BY DEF FreshOK, Pollers
  <2>2. ~ Consumes(t, AddFd(n, t))
    <3>1. ~ Out(AddFd(n, t))
      BY DEF AddOK
    <3> QED BY <1>1, <3>1, AddTypes, ConsumesOut
  <2>3. ASSUME NEW th \in Threads, Plain(th) PROVE n \notin run'[t]
    BY <2>1, <2>2, <2>3 DEF Plain, ActsWell
  <2>4. ASSUME NEW th \in Threads, Queue(th) PROVE n \notin run'[t]
    BY <2>1, <2>4 DEF Queue, fields
  <2>5. ASSUME NEW x \in Tasks, Drain(x) PROVE n \notin run'[t]
    BY <2>1, <2>5 DEF Drain, fields
  <2> QED BY <2>3, <2>4, <2>5, StepKinds
<1>5. \A m \in Range(msgs'[y]) : m.type = "REGIST"
  <2>1. y \in Tasks /\ msgs[y] \in Seq(Messages) /\ \A m \in Range(msgs[y]) : m.type = "REGIST"
    BY <1>1, NodeTasks DEF Threads, TypeInv, StateOK, FreshOK
  <2>2. msgs'[y] \in {msgs[y], <<>>} => \A m \in Range(msgs'[y]) : m.type = "REGIST"
    BY <2>1, RangeShort
  <2>3. ASSUME NEW th \in Threads, Plain(th) PROVE msgs'[y] \in {msgs[y], <<>>}
    <3>1. y[2] = "cmd"
      OBVIOUS
    <3> HIDE DEF y
    <3> QED BY <2>1, <2>3, <3>1 DEF Plain, ActsWell
  <2>4. ASSUME NEW x \in Tasks, Drain(x) PROVE msgs'[y] \in {msgs[y], <<>>}
    BY <1>1, <2>1, <2>4 DEF Drain, TypeInv, StateOK
  <2>5. ASSUME NEW th \in Threads, Queue(th) PROVE \A m \in Range(msgs'[y]) : m.type = "REGIST"
    <3>1. /\ Head(plan[th]) \in Range(plan[th]) /\ Head(plan[th]).op = "queue"
          /\ Arg(th) \in Messages
      <4>1. plan[th] # <<>> /\ plan[th] \in Seq(Ops) /\ Head(plan[th]).op = "queue"
            /\ Arg(th) \in Messages
        BY <1>1, <2>5, HeadFits DEF Queue, Doing, TypeInv, PlanOK
      <4> QED BY <4>1, RangeParts
    <3>2. FreshOp(Head(plan[th]), n)
      BY <3>1 DEF FreshOK
    <3>3. On(th) = y => Arg(th).type = "REGIST"
      <4>1. y[1] = n /\ y[2] = "cmd"
        OBVIOUS
      <4> QED BY <3>1, <3>2, <4>1 DEF FreshOp, On, Arg
    <3>4. msgs'[y] = msgs[y] \/ (On(th) = y /\ msgs'[y] = Append(msgs[y], Arg(th)))
      BY <1>1, <2>1, <2>5 DEF Queue, TypeInv, StateOK
    <3>5. Range(Append(msgs[y], Arg(th))) = Range(msgs[y]) \cup {Arg(th)}
      BY <2>1, <3>1, RangeParts
    <3> HIDE DEF y
    <3> QED BY <2>1, <3>3, <3>4, <3>5
  <2> QED BY <2>2, <2>3, <2>4, <2>5, StepKinds
<1>6. n \notin reason' \cup cmdList' /\ \A t \in {"rcv", "snd", "deal"} : <<n, t>> \notin pool'
  BY <1>2 DEF Quiet, FreshOK
<1> QED BY <1>3, <1>4, <1>5, <1>6 DEF FreshOK, FreshOp, Pollers

-----------------------------------------------------------------------------
(* The inductive invariant.                                                *)

Ordered(n) ==
  /\ RegistOK(n)
  /\ New(n) => FreshOK(n)
  /\ \A t \in Pollers : AddOK(n, t)

ReachInv == Reached /\ \A n \in Nodes : Ordered(n)

LEMMA OrderedKept ==
  ASSUME Reached, NEW n \in Nodes, Ordered(n), Next, CloseOK(n)'
  PROVE  Ordered(n)'
<1>1. RegistOK(n) /\ (New(n) => FreshOK(n)) /\ \A t \in Pollers : AddOK(n, t)
  BY DEF Ordered
<1>2. RegistOK(n)' /\ (New(n)' => New(n))
  BY <1>1, RegistKept
<1>3. \A t \in Pollers : AddOK(n, t)'
  BY <1>1, AddKept
<1>4. New(n)' => FreshOK(n)'
  BY <1>1, <1>2, FreshKept
<1> QED BY <1>2, <1>3, <1>4 DEF Ordered, Pollers

LEMMA LetterStutters ==
  ASSUME UNCHANGED <<plan, msgs>>, NEW k
  PROVE  (Once(k) => Once(k)') /\ (Out(k)' <=> Out(k))
<1>1. Out(k)' <=> Out(k)
  BY OutParts
<1>2. Once(k) => Once(k)'
  BY DEF Once, One, Has, WriteOps, ReadOps
<1> QED BY <1>1, <1>2

LEMMA OrderedStutters ==
  ASSUME NEW n \in Nodes, Ordered(n), UNCHANGED vars PROVE Ordered(n)'
<1>1. UNCHANGED <<word, pool, msgs, plan, run, reason, cmdList, born, ended>>
  BY DEF vars, mail, fields, life
<1>2. \A k : (Once(k) => Once(k)') /\ (Out(k)' <=> Out(k))
  BY <1>1, LetterStutters
<1>3. New(n)' <=> New(n)
  BY <1>1 DEF New, Out, Has, WriteOps, ReadOps, Regist, Letter
<1>4. RegistOK(n)'
  <2> DEFINE k == Regist(n)
  <2>1. Once(k) /\ (Out(k) => n \in born)
    BY DEF Ordered, RegistOK
  <2> HIDE DEF k
  <2>2. Once(k)' /\ (Out(k)' <=> Out(k))
    BY <1>2, <2>1
  <2> QED BY <1>1, <2>1, <2>2 DEF RegistOK, k
<1>5. FreshOK(n) => FreshOK(n)'
  BY <1>1 DEF FreshOK, FreshOp, Range
<1>6. \A t \in Pollers : AddOK(n, t)'
  <2> SUFFICES ASSUME NEW t \in Pollers PROVE AddOK(n, t)'
    OBVIOUS
  <2> DEFINE a == AddFd(n, t)
             d == Del(n, t)
  <2>1. AddOK(n, t)
    BY DEF Ordered
  <2>2. Ending(n, t)' <=> Ending(n, t)
    BY <1>1 DEF Ending, Has, EndOps, IsEof
  <2>3. Once(a)' /\ (Out(a)' <=> Out(a)) /\ (Out(d)' <=> Out(d))
    <3>1. Once(a)
      BY <2>1 DEF AddOK
    <3> HIDE DEF a, d
    <3> QED BY <1>2, <3>1
  <2>4. Live(n, t)' <=> Live(n, t)
    BY <1>1 DEF Live
  <2> QED BY <1>1, <1>3, <2>1, <2>2, <2>3, <2>4, AddAgain DEF AddOK
<1> QED BY <1>3, <1>4, <1>5, <1>6 DEF Ordered, Pollers

LEMMA ReachNext == ReachInv /\ [Next]_vars => ReachInv'
<1> SUFFICES ASSUME ReachInv, [Next]_vars PROVE ReachInv'
  OBVIOUS
<1>1. Reached /\ TypeInv /\ Service /\ (\A n \in Nodes : CloseOK(n)) /\ \A n \in Nodes : Ordered(n)
  BY DEF ReachInv, Reached
<1>2. TypeInv' /\ Service' /\ AccessOK' /\ (\A n \in Nodes : CloseOK(n))'
  BY <1>1, TypeNext, ServiceNext, AccessNext, CloseNext
<1>3. \A n \in Nodes : CloseOK(n)'
  BY <1>2
<1>4. \A n \in Nodes : Ordered(n)'
  BY <1>1, <1>3, OrderedKept, OrderedStutters
<1>5. Unpolled'
  BY <1>4 DEF Ordered, AddOK, Unpolled
<1> QED BY <1>2, <1>4, <1>5 DEF ReachInv, Reached

LEMMA ReachInit == Init => ReachInv
<1> SUFFICES ASSUME Init PROVE ReachInv
  OBVIOUS
<1>1. TypeInv /\ Service /\ AccessOK /\ \A n \in Nodes : CloseOK(n)
  BY TypeInit, ServiceInit, AccessInit, CloseInit
<1>2. (\A th \in Threads : plan[th] = <<>>) /\ \A x \in Tasks : msgs[x] = <<>>
  BY DEF Init
<1>3. /\ ended = {} /\ born = {} /\ pool = {} /\ reason = {} /\ cmdList = {}
      /\ \A t \in Pollers : run[t] = {}
  BY DEF Init
<1>4. \A k \in LetterType : Once(k) /\ ~ Out(k)
  BY <1>2, HasNothing, TaskThread DEF LetterType, Once, Out
<1>5. Unpolled
  BY <1>3 DEF Unpolled
<1>6. ASSUME NEW n \in Nodes PROVE Ordered(n)
  <2>1. RegistOK(n)
    BY <1>4, AddTypes DEF RegistOK, Pollers
  <2>2. FreshOK(n)
    <3>1. <<n, "cmd">> \in Tasks
      BY NodeTasks DEF Threads
    <3> QED BY <1>2, <1>3, <3>1, RangeShort DEF FreshOK, Pollers
  <2>3. ASSUME NEW t \in Pollers PROVE AddOK(n, t)
    <3>1. /\ Once(AddFd(n, t)) /\ ~ Out(AddFd(n, t)) /\ ~ Out(Del(n, t))
          /\ t \in Threads /\ <<Ctrl, t>> \in Tasks
      BY <1>4, AddTypes
    <3>2. plan[t] = <<>> /\ msgs[<<Ctrl, t>>] = <<>>
      BY <1>2, <3>1
    <3>3. \A E : ~ Has(E, <<>>)
      BY HasNothing
    <3> QED BY <1>3, <3>1, <3>2, <3>3, BeforeNone DEF AddOK
  <2> QED BY <2>1, <2>2, <2>3 DEF Ordered
<1> QED BY <1>1, <1>5, <1>6 DEF ReachInv, Reached

\* What EndedIsUnreferenced says, from what the close of a node still does.
LEMMA ReachUnreferenced == ReachInv => EndedIsUnreferenced
<1> SUFFICES ASSUME ReachInv, NEW n \in Nodes, NEW th \in {"rcv", "snd", "deal"},
                    <<n, th>> \in ended
             PROVE  /\ <<n, th>> \notin pool
                    /\ th \in Pollers => n \notin run[th]
                    /\ \A by \in Threads : \A i \in DOMAIN plan[by] :
                         LET o == plan[by][i] IN
                         o.op \in {"queue", "post"} /\ o.on = <<n, th>> =>
                           th = "deal" /\ by = "cmd" /\ o.op = "post"
  BY DEF EndedIsUnreferenced
<1>1. TypeInv /\ PlanOK /\ Service /\ AccessOK /\ Unpolled /\ CloseOK(n)
  BY DEF ReachInv, Reached, TypeInv
<1>2. th \in Threads /\ <<n, th>> \in Tasks /\ n # Ctrl
  BY NodeTasks, LifeAssumption DEF Threads
<1>3. <<n, th>> \notin pool
  BY <1>1, <1>2 DEF Service, ServiceOK
<1>4. th \in Pollers => n \notin run[th]
  BY <1>1 DEF Unpolled
<1>5. StageOK(n) /\ Stage(n) \in Nat
  BY <1>1 DEF CloseOK, Stage
<1>6. /\ <<n, "snd">> \in ended => <<n, "rcv">> \in ended /\ n \in closed
      /\ <<n, "deal">> \in ended => <<n, "rcv">> \in ended /\ Stage(n) # 3
  BY <1>5 DEF StageOK
<1>7. ASSUME NEW by \in Threads, NEW i \in DOMAIN plan[by],
             plan[by][i].op \in {"queue", "post"}, plan[by][i].on = <<n, th>>
      PROVE  th = "deal" /\ by = "cmd" /\ plan[by][i].op = "post"
  <2> DEFINE o == plan[by][i]
  <2>1. o \in Range(plan[by]) /\ o \in Ops
    BY <1>1 DEF Range, PlanOK
  <2>2. Access(o, by) /\ o.on[1] = n /\ o.on[2] = th /\ Acts(o)
    BY <1>1, <1>7, <2>1 DEF AccessOK, Acts
  <2> HIDE DEF o
  <2>3. th = "deal" /\ by = "cmd" /\ (o.op = "queue" => o.arg.type = "STOP")
    BY <1>2, <1>6, <2>2 DEF Access, Live
  <2>4. o.op # "queue"
    <3> SUFFICES ASSUME o.op = "queue" PROVE FALSE
      OBVIOUS
    <3> DEFINE k == ToDealer(n, "cmd", "STOP", 3)
    <3>1. k \in Letters(n) /\ k.by = "cmd" /\ k.stage = 3
      BY DEF Letters, ToDealer, Letter
    <3>2. o.arg \in Messages /\ o = Op("queue", <<n, "deal">>, o.arg)
      <4>1. o.on = <<n, th>>
        BY <1>7 DEF o
      <4> QED BY <2>1, <2>3, <4>1 DEF Ops, Op
    <3>3. o \in WriteOps(k)
      BY <2>3, <3>2 DEF WriteOps, ToDealer, Letter
    <3>4. Has(WriteOps(k), plan["cmd"])
      BY <2>1, <2>3, <3>3, RangeParts DEF Has, Range
    <3>5. Out(k)
      BY <3>1, <3>4 DEF Out
    <3> HIDE DEF k
    <3> QED BY <1>1, <1>2, <1>6, <2>3, <3>1, <3>5 DEF CloseOK
  <2>5. o.op = "post"
    BY <1>7, <2>4 DEF o
  <2> QED BY <2>3, <2>5 DEF o
<1> QED BY <1>3, <1>4, <1>7

(* A task that a thread has ended is out of reach: nothing claims it,      *)
(* polls for it, posts it or queues a message for it, however the requests *)
(* to close its connection and what was already on its way interleave.     *)
THEOREM EndedIsOutOfReach == Spec => []EndedIsUnreferenced
BY ReachInit, ReachNext, ReachUnreferenced, PTL DEF Spec

-----------------------------------------------------------------------------
(* What names a connection: messages are addressed to it, and a thread     *)
(* that has ended its task of a connection plans no more for it.           *)

\* What the director is asked about a connection.
Requests == {"REGIST", "UNREG", "STOP"}

\* The message m is in its place in a queue, or in an operation, on x.
Addressed(m, x) ==
  \/ x[1] = Ctrl /\ m.type \in {"ADD_FD", "DEL_FD"}
  \/ /\ x[1] # Ctrl /\ (m.type = "STOP" \/ m.val = x[1])
     /\ x[2] = "cmd" => m.type \in Requests

\* The same, of what is queued for the task th of the connection n.
Fits(m, n, th) ==
  (m.type = "STOP" \/ m.val = n) /\ (th = "cmd" => m.type \in Requests)

AddressedOp(o) ==
  /\ o.op \in {"queue", "msg"} => Addressed(o.arg, o.on)
  /\ o.op = "post" /\ o.on[2] = "cmd" => o.arg \in {"NORM", "END"}

\* The thread th may plan o now: it has not ended its task of the connection,
\* be it the one it serves or one it relays to.
MayPlan(o, th) == o.on[1] \in Nodes => Live(o.on[1], th)

Proper(o, th) == AddressedOp(o) /\ MayPlan(o, th)

AddressOK ==
  /\ \A th \in Threads : \A o \in Range(plan[th]) : AddressedOp(o)
  /\ \A x \in Tasks : \A m \in Range(msgs[x]) : Addressed(m, x)

\* A step plans what is proper.
ProperPlan ==
  \E th \in Threads : \E ops, S : Planned(th, ops, S) /\ \A o \in S : Proper(o, th)

LEMMA ProperOps ==
  ASSUME NEW n \in Nodes, NEW th
  PROVE  /\ \A t, m : Live(n, th) /\ Fits(m, n, t) =>
              \A o \in Gives(<<n, t>>, m) : Proper(o, th)
         /\ \A t, m : m.type \in {"ADD_FD", "DEL_FD"} =>
              \A o \in Gives(<<Ctrl, t>>, m) : Proper(o, th)
         /\ \A t, ev : Live(n, th) /\ (t = "cmd" => ev = "END") =>
              Proper(Op("post", <<n, t>>, ev), th)
         /\ \A x, ev : x[1] = Ctrl \/ (x[1] = n /\ Live(n, th)) =>
              Proper(Op("return", x, ev), th)
         /\ \A x, m : (x[1] = Ctrl \/ (x[1] = n /\ Live(n, th))) /\ Addressed(m, x) =>
              Proper(Op("msg", x, m), th)
<1>1. Ctrl # n /\ Ctrl \notin Nodes
  BY LifeAssumption
<1>2. \A op, x, m : /\ Op(op, x, m).op = op /\ Op(op, x, m).on = x /\ Op(op, x, m).arg = m
  BY DEF Op
<1>3. \A t : <<n, t>>[1] = n /\ <<n, t>>[2] = t /\ <<Ctrl, t>>[1] = Ctrl
  OBVIOUS
<1>4. ASSUME NEW x, NEW m, x[1] = Ctrl \/ (x[1] = n /\ Live(n, th)),
             Addressed(m, x)
      PROVE  \A o \in Gives(x, m) : Proper(o, th)
  <2>1. \A o \in Gives(x, m) :
          /\ o.on = x
          /\ (o.op = "queue" /\ o.arg = m) \/ (o.op = "post" /\ o.arg = "NORM")
    BY <1>2 DEF Gives
  <2> QED BY <1>1, <1>4, <2>1 DEF Proper, AddressedOp, MayPlan
<1>5. \A t, m : Live(n, th) /\ Fits(m, n, t) =>
        \A o \in Gives(<<n, t>>, m) : Proper(o, th)
  <2> SUFFICES ASSUME NEW t, NEW m, Live(n, th), Fits(m, n, t)
               PROVE  \A o \in Gives(<<n, t>>, m) : Proper(o, th)
    OBVIOUS
  <2>1. Addressed(m, <<n, t>>)
    BY <1>1, <1>3 DEF Addressed, Fits
  <2> QED BY <1>3, <1>4, <2>1
<1>6. \A t, m : m.type \in {"ADD_FD", "DEL_FD"} =>
        \A o \in Gives(<<Ctrl, t>>, m) : Proper(o, th)
  <2> SUFFICES ASSUME NEW t, NEW m, m.type \in {"ADD_FD", "DEL_FD"}
               PROVE  \A o \in Gives(<<Ctrl, t>>, m) : Proper(o, th)
    OBVIOUS
  <2>1. Addressed(m, <<Ctrl, t>>)
    BY <1>3 DEF Addressed
  <2> QED BY <1>3, <1>4, <2>1
<1>8. \A t, ev : Live(n, th) /\ (t = "cmd" => ev = "END") =>
        Proper(Op("post", <<n, t>>, ev), th)
  BY <1>2, <1>3 DEF Proper, AddressedOp, MayPlan
<1>9. \A x, ev : x[1] = Ctrl \/ (x[1] = n /\ Live(n, th)) => Proper(Op("return", x, ev), th)
  BY <1>1, <1>2 DEF Proper, AddressedOp, MayPlan
<1>10. \A x, m : (x[1] = Ctrl \/ (x[1] = n /\ Live(n, th))) /\ Addressed(m, x) =>
         Proper(Op("msg", x, m), th)
  BY <1>1, <1>2 DEF Proper, AddressedOp, MayPlan
<1> QED BY <1>5, <1>6, <1>8, <1>9, <1>10

\* A task that is taken has not ended.
LEMMA TakenLive ==
  ASSUME Service, NEW n, NEW th, <<n, th>> \in Tasks, Take(<<n, th>>)
  PROVE  Live(n, th)
BY DEF Service, ServiceOK, Take, Live

LEMMA ProperAccept == ASSUME Reached, NEW n \in Nodes, Accept(n) PROVE ProperPlan
<1>1. "rcv" \in Threads /\ TypeInv /\ CloseOK(n)
  BY DEF Threads, Reached
<1>2. Live(n, "rcv")
  <2>1. n \notin reason /\ n \notin gone
    BY <1>1 DEF Accept, CloseOK, StageOK
  <2>2. Stage(n) = 0
    BY <2>1 DEF Stage
  <2> QED BY <1>1, <2>2 DEF CloseOK, StageOK, Live
<1>3. PICK ops : Planned("rcv", ops, Gives(<<n, "cmd">>, Msg("REGIST", n)))
  BY <1>1, AcceptPlans
<1>4. \A o \in Gives(<<n, "cmd">>, Msg("REGIST", n)) : Proper(o, "rcv")
  BY <1>2, ProperOps DEF Msg, Fits, Requests
<1> QED BY <1>1, <1>3, <1>4 DEF ProperPlan

LEMMA ProperPoll ==
  ASSUME Reached, NEW th \in Pollers, NEW n \in Nodes, PollReady(th, n) \/ PollError(th, n)
  PROVE  ProperPlan
<1>1. th \in Threads /\ TypeInv /\ th # "cmd"
  BY DEF Threads, Pollers, Reached
<1>2. Live(n, th)
  BY DEF Reached, Unpolled, PollReady, PollError, Polled, Live
<1>3. CASE PollReady(th, n)
  <2>1. PICK ops : Planned(th, ops, {Op("post", <<n, th>>, Event(th))})
    BY <1>1, <1>3, PollPlans
  <2>2. Proper(Op("post", <<n, th>>, Event(th)), th)
    BY <1>1, <1>2, ProperOps
  <2> QED BY <1>1, <2>1, <2>2 DEF ProperPlan
<1>4. CASE PollError(th, n)
  <2>1. PICK ops : Planned(th, ops, Gives(<<n, "cmd">>, Msg("UNREG", n)))
    BY <1>1, <1>4, PollPlans
  <2>2. \A o \in Gives(<<n, "cmd">>, Msg("UNREG", n)) : Proper(o, th)
    BY <1>2, ProperOps DEF Msg, Fits, Requests
  <2> QED BY <1>1, <2>1, <2>2 DEF ProperPlan
<1> QED BY <1>3, <1>4

LEMMA ProperServe ==
  ASSUME Reached, AddressOK, NEW x \in Tasks, Serve(x) PROVE ProperPlan
<1> DEFINE n == x[1]
           th == x[2]
<1>1. /\ TypeInv /\ Service /\ th \in Threads /\ x = <<n, th>> /\ (n # Ctrl => n \in Nodes)
      /\ {"rcv", "snd", "deal", "cmd"} = Threads
  BY TaskThread DEF Reached, Tasks, Threads
<1>2. Take(x)
  BY <1>1, ServePlans
<1>3. Live(n, th)
  BY <1>1, <1>2, TakenLive
<1> HIDE DEF n, th
<1>4. n \in Nodes =>
        /\ \A t, m : Fits(m, n, t) => \A o \in Gives(<<n, t>>, m) : Proper(o, th)
        /\ \A ev : Proper(Op("return", <<n, th>>, ev), th)
  BY <1>3, ProperOps
<1>5. /\ \A s, t : Fits(Msg("STOP", s), n, t)
      /\ \A t : Fits(Msg("UNREG", n), n, t)
      /\ Fits(Msg("DATA", n), n, "snd") /\ Fits(Msg("DATA", n), n, "deal")
  BY DEF Msg, Fits, Requests
<1>6. CASE Drain(x)
  <2>1. PICK ops : Planned(th, ops,
          {Op("msg", x, m) : m \in Range(msgs[x])} \cup {Op("return", x, "NORM")})
    BY <1>1, <1>6, DrainPlans DEF th
  <2>2. x[1] = Ctrl \/ (n \in Nodes /\ x[1] = n /\ Live(n, th))
    BY <1>1, <1>3 DEF n
  <2>3. Nodes # {} \/ x[1] = Ctrl
    BY <2>2
  <2>4. /\ Proper(Op("return", x, "NORM"), th)
        /\ \A m \in Range(msgs[x]) : Proper(Op("msg", x, m), th)
    <3>1. \A m \in Range(msgs[x]) : Addressed(m, x)
      BY DEF AddressOK
    <3>2. CASE n \in Nodes /\ x[1] = n
      BY <2>2, <3>1, <3>2, ProperOps, <1>3
    <3>3. CASE x[1] = Ctrl
      BY <3>1, <3>3, LifeAssumption DEF Proper, AddressedOp, MayPlan, Op
    <3> QED BY <2>2, <3>2, <3>3
  <2> QED BY <1>1, <2>1, <2>4 DEF ProperPlan
<1>7. ASSUME n \in Nodes, th = "rcv", NEW ev \in Answers(n, "rcv"), Read(n, ev)
      PROVE  ProperPlan
  <2> DEFINE S == Gives(<<n, "snd">>, Msg("DATA", n)) \cup Gives(<<n, "deal">>, Msg("DATA", n))
             \cup Gives(<<n, "cmd">>, Msg("UNREG", n)) \cup {Op("return", <<n, "rcv">>, ev)}
  <2>1. PICK ops : Planned("rcv", ops, S)
    BY <1>1, <1>7, ReadPlans
  <2>2. \A o \in S : Proper(o, "rcv")
    BY <1>4, <1>5, <1>7
  <2> HIDE DEF S
  <2> QED BY <1>1, <2>1, <2>2 DEF ProperPlan
<1>8. ASSUME n \in Nodes, th = "snd", NEW ev \in Answers(n, "snd"), Write(n, ev)
      PROVE  ProperPlan
  <2> DEFINE S == Gives(<<n, "cmd">>, Msg("UNREG", n)) \cup {Op("return", <<n, "snd">>, ev)}
  <2>1. PICK ops : Planned("snd", ops, S)
    BY <1>1, <1>8, WritePlans
  <2>2. \A o \in S : Proper(o, "snd")
    BY <1>4, <1>5, <1>8
  <2> HIDE DEF S
  <2> QED BY <1>1, <2>1, <2>2 DEF ProperPlan
<1>9. ASSUME n \in Nodes, th = "rcv", ReadEnd(n) PROVE ProperPlan
  <2>1. PICK ops : Planned("rcv", ops, Gives(<<n, "cmd">>, Msg("STOP", "STOP_RCV")))
    BY <1>1, <1>9, EndPlans
  <2>2. \A o \in Gives(<<n, "cmd">>, Msg("STOP", "STOP_RCV")) : Proper(o, "rcv")
    BY <1>4, <1>5, <1>9
  <2> QED BY <1>1, <2>1, <2>2 DEF ProperPlan
<1>10. ASSUME n \in Nodes, th = "snd", WriteEnd(n) PROVE ProperPlan
  <2> DEFINE S == Gives(<<n, "cmd">>, Msg("UNREG", n))
                    \cup Gives(<<n, "cmd">>, Msg("STOP", "STOP_SND"))
  <2>1. PICK ops : Planned("snd", ops, S)
    BY <1>1, <1>10, EndPlans
  <2>2. \A o \in S : Proper(o, "snd")
    BY <1>4, <1>5, <1>10
  <2> HIDE DEF S
  <2> QED BY <1>1, <2>1, <2>2 DEF ProperPlan
<1>11. ASSUME n \in Nodes, th = "deal", DealEnd(n) PROVE ProperPlan
  <2>1. PICK ops : Planned("deal", ops, Gives(<<n, "cmd">>, Msg("STOP", "STOP_DEAL")))
    BY <1>1, <1>11, EndPlans
  <2>2. \A o \in Gives(<<n, "cmd">>, Msg("STOP", "STOP_DEAL")) : Proper(o, "deal")
    BY <1>4, <1>5, <1>11
  <2> QED BY <1>1, <2>1, <2>2 DEF ProperPlan
<1>12. ASSUME n \in Nodes, CmdEnd(n) PROVE ProperPlan
  <2>1. Planned("cmd", <<>>, {})
    BY <1>1, <1>12, EndPlans
  <2> QED BY <1>1, <2>1 DEF ProperPlan
<1> QED BY <1>1, <1>6, <1>7, <1>8, <1>9, <1>10, <1>11, <1>12 DEF Serve, n, th

LEMMA ProperCtrl ==
  ASSUME Reached, NEW th \in Pollers, CtrlAdd(th) \/ CtrlDel(th) PROVE ProperPlan
<1>1. th \in Threads /\ TypeInv /\ th # "cmd" /\ \A n \in Nodes : CloseOK(n)
  BY DEF Threads, Pollers, Reached
<1>2. CASE CtrlAdd(th)
  <2>1. Planned(th, <<>>, {})
    BY <1>1, <1>2, ProceedPlans
  <2> QED BY <1>1, <2>1 DEF ProperPlan
<1>3. CASE CtrlDel(th)
  <2>1. PICK n \in Nodes : n = Arg(th).val
    BY <1>1, <1>3, CtrlDelPlans
  <2>2. PICK ops : Planned(th, ops, {Op("post", <<n, th>>, "END")})
    BY <1>1, <1>3, <2>1, CtrlDelPlans
  <2>3. Live(n, th)
    BY <1>1, <1>3, <2>1, DelHandled
  <2>4. Proper(Op("post", <<n, th>>, "END"), th)
    BY <2>3, ProperOps
  <2> QED BY <1>1, <2>2, <2>4 DEF ProperPlan
<1> QED BY <1>2, <1>3

LEMMA ProperDeal ==
  ASSUME Reached, NEW n \in Nodes, NEW ok \in BOOLEAN,
         DealStop(n) \/ DealExit(n) \/ DealMsg(n, ok)
  PROVE  ProperPlan
<1>1. "deal" \in Threads /\ TypeInv /\ Service
  BY DEF Threads, Reached
<1>2. Live(n, "deal")
  BY <1>1, HandlerFree DEF DealStop, DealExit, DealMsg, Live
<1>3. CASE DealStop(n)
  <2>1. PICK ops : Planned("deal", ops, Gives(<<n, "deal">>, Msg("ALLOW_EXIT", n)))
    BY <1>1, <1>3, DealPlans
  <2>2. \A o \in Gives(<<n, "deal">>, Msg("ALLOW_EXIT", n)) : Proper(o, "deal")
    BY <1>2, ProperOps DEF Msg, Fits, Requests
  <2> QED BY <1>1, <2>1, <2>2 DEF ProperPlan
<1>4. CASE DealExit(n)
  <2>1. PICK ops : Planned("deal", ops, {Op("post", <<n, "deal">>, "END")})
    BY <1>1, <1>4, DealPlans
  <2>2. Proper(Op("post", <<n, "deal">>, "END"), "deal")
    BY <1>2, ProperOps
  <2> QED BY <1>1, <2>1, <2>2 DEF ProperPlan
<1>5. CASE DealMsg(n, ok)
  <2> DEFINE S == DeliversTo(Reachable) \cup Gives(<<n, "cmd">>, Msg("UNREG", n))
  <2>1. PICK ops : Planned("deal", ops, S)
    BY <1>1, <1>5, DealMsgPlans
  <2>2. ASSUME NEW m \in Reachable, NEW o \in Delivers(m) PROVE Proper(o, "deal")
    <3>1. m \in Nodes /\ Live(m, "deal")
      BY ReachableLive
    <3>2. Fits(Msg("DATA", m), m, "snd") /\ Fits(Msg("DATA", m), m, "deal")
      BY DEF Msg, Fits
    <3> QED BY <3>1, <3>2, ProperOps DEF Delivers
  <2>3. \A o \in Gives(<<n, "cmd">>, Msg("UNREG", n)) : Proper(o, "deal")
    BY <1>2, ProperOps DEF Msg, Fits, Requests
  <2>4. \A o \in S : Proper(o, "deal")
    BY <2>2, <2>3 DEF DeliversTo
  <2> HIDE DEF S
  <2> QED BY <1>1, <2>1, <2>4 DEF ProperPlan
<1> QED BY <1>3, <1>4, <1>5

LEMMA ProperCmd ==
  ASSUME Reached, NEW n \in Nodes, CmdRegist(n) \/ CmdUnreg(n) \/ CmdStop(n)
  PROVE  ProperPlan
<1>1. "cmd" \in Threads /\ TypeInv /\ Service
  BY DEF Threads, Reached
<1>2. Live(n, "cmd")
  BY <1>1, HandlerFree DEF CmdRegist, CmdUnreg, CmdStop, Live
<1>3. \A t : /\ \A o \in Gives(<<Ctrl, t>>, Msg("ADD_FD", n)) : Proper(o, "cmd")
             /\ \A o \in Gives(<<Ctrl, t>>, Msg("DEL_FD", n)) : Proper(o, "cmd")
  <2>1. Msg("ADD_FD", n).type = "ADD_FD" /\ Msg("DEL_FD", n).type = "DEL_FD"
    BY DEF Msg
  <2>2. \A t, m : m.type \in {"ADD_FD", "DEL_FD"} =>
          \A o \in Gives(<<Ctrl, t>>, m) : Proper(o, "cmd")
    BY ProperOps
  <2> QED BY <2>1, <2>2
<1>4. CASE CmdRegist(n)
  <2> DEFINE S == Gives(<<Ctrl, "rcv">>, Msg("ADD_FD", n))
                    \cup Gives(<<Ctrl, "snd">>, Msg("ADD_FD", n))
  <2>1. PICK ops : Planned("cmd", ops, S)
    BY <1>1, <1>4, CmdPlans
  <2>2. \A o \in S : Proper(o, "cmd")
    BY <1>3
  <2> HIDE DEF S
  <2> QED BY <1>1, <2>1, <2>2 DEF ProperPlan
<1>5. CASE CmdUnreg(n)
  <2>1. PICK ops : Planned("cmd", ops, Gives(<<Ctrl, "rcv">>, Msg("DEL_FD", n)))
    BY <1>1, <1>5, CmdPlans
  <2> QED BY <1>1, <1>3, <2>1 DEF ProperPlan
<1>6. CASE CmdStop(n)
  <2> DEFINE S == Gives(<<n, "deal">>, Msg("STOP", "STOP_DEAL"))
                    \cup Gives(<<Ctrl, "snd">>, Msg("DEL_FD", n))
                    \cup Gives(<<n, "cmd">>, Msg("STOP", "CLOSED"))
                    \cup {Op("post", <<n, "cmd">>, "END")}
  <2>1. PICK ops : Planned("cmd", ops, S)
    BY <1>1, <1>6, CmdPlans
  <2>2. \A t, s : \A o \in Gives(<<n, t>>, Msg("STOP", s)) : Proper(o, "cmd")
    BY <1>2, ProperOps DEF Msg, Fits, Requests
  <2>3. Proper(Op("post", <<n, "cmd">>, "END"), "cmd")
    BY <1>2, ProperOps
  <2>4. \A o \in S : Proper(o, "cmd")
    BY <1>3, <2>2, <2>3
  <2> HIDE DEF S
  <2> QED BY <1>1, <2>1, <2>4 DEF ProperPlan
<1> QED BY <1>4, <1>5, <1>6

LEMMA ProperNext == ASSUME Reached, AddressOK, Next PROVE ProperPlan
<1>1. ASSUME NEW th \in Threads, Proceed(th) PROVE ProperPlan
  <2>1. CASE Queue(th) \/ Post(th) \/ Returned(th)
    <3>1. Planned(th, <<>>, {})
      BY <2>1, ProceedPlans DEF Reached
    <3> QED BY <3>1 DEF ProperPlan
  <2>2. CASE HandleMsg(th)
    BY <2>2, ProperCtrl, ProperDeal, ProperCmd DEF HandleMsg
  <2> QED BY <1>1, <2>1, <2>2, ProceedSteps
<1> QED BY <1>1, ProperAccept, ProperPoll, ProperServe DEF Next

-----------------------------------------------------------------------------
(* Messages keep their address.                                            *)

\* What a write leaves of a queue was in it.
LEMMA UnsentRange ==
  ASSUME NEW q \in Seq(Messages), NEW ev \in {"NORM", "IN", "WRITE", "ERROR"},
         NEW r \in Unsent(q, ev)
  PROVE  Range(r) \subseteq Range(q)
<1>1. Len(q) \in Nat /\ DOMAIN q = 1 .. Len(q)
  OBVIOUS
<1>2. ASSUME NEW i \in 1 .. Len(q) PROVE Range(SubSeq(q, i, Len(q))) \subseteq Range(q)
  <2> DEFINE s == SubSeq(q, i, Len(q))
  <2>1. DOMAIN s = 1 .. Len(q) - i + 1 /\ \A j \in 1 .. Len(q) - i + 1 : s[j] = q[i + j - 1]
    BY <1>1
  <2>2. \A j \in 1 .. Len(q) - i + 1 : i + j - 1 \in 1 .. Len(q)
    BY <1>1
  <2> HIDE DEF s
  <2>3. \A j \in DOMAIN s : s[j] \in Range(q)
    BY <1>1, <2>1, <2>2 DEF Range
  <2>4. Range(s) \subseteq Range(q)
    BY <2>3 DEF Range
  <2> QED BY <2>4 DEF s
<1>3. CASE ev = "NORM"
  BY <1>3, RangeShort DEF Unsent
<1>4. CASE ev = "IN"
  <2>1. PICK i \in 2 .. Len(q) : r = SubSeq(q, i, Len(q))
    BY <1>4 DEF Unsent
  <2> QED BY <1>1, <1>2, <2>1
<1>5. CASE ev = "WRITE"
  <2>1. PICK i \in 1 .. Len(q) : r = SubSeq(q, i, Len(q))
    BY <1>5 DEF Unsent
  <2> QED BY <1>2, <2>1
<1>6. CASE ev = "ERROR"
  <2>1. r = q
    BY <1>6 DEF Unsent
  <2> QED BY <2>1
<1> QED BY <1>3, <1>4, <1>5, <1>6

\* No queue has a message it had not, save the one a thread queues.
LEMMA MailKept ==
  ASSUME TypeInv, Next, \A th \in Threads : ~ Queue(th)
  PROVE  \A x \in Tasks : Range(msgs'[x]) \subseteq Range(msgs[x])
<1> DEFINE Kept == \A x \in Tasks : Range(msgs'[x]) \subseteq Range(msgs[x])
<1>1. UNCHANGED msgs => Kept
  OBVIOUS
<1>2. ASSUME NEW n \in Nodes, NEW ev \in {"NORM", "IN", "WRITE", "ERROR"}, WriteNode(n, ev)
      PROVE  Kept
  <2>1. PICK q \in Unsent(msgs[<<n, "snd">>], ev) : msgs' = [msgs EXCEPT ![<<n, "snd">>] = q]
    BY <1>2 DEF WriteNode
  <2>2. <<n, "snd">> \in Tasks /\ msgs[<<n, "snd">>] \in Seq(Messages) /\ DOMAIN msgs = Tasks
    BY NodeTasks DEF Threads, TypeInv, StateOK
  <2>3. Range(q) \subseteq Range(msgs[<<n, "snd">>])
    BY <2>2, UnsentRange
  <2> QED BY <2>1, <2>2, <2>3
<1>3. ASSUME NEW x \in Tasks, Serve(x) PROVE Kept
  <2> DEFINE n == x[1]
  <2>1. n # Ctrl => n \in Nodes /\ "snd" \in Pollers
    BY DEF Tasks, Pollers
  <2>2. CASE Drain(x)
    <3>1. msgs' = [msgs EXCEPT ![x] = <<>>] /\ DOMAIN msgs = Tasks
      BY <2>2 DEF Drain, TypeInv, StateOK
    <3> QED BY <3>1, RangeShort
  <2>3. ASSUME n \in Nodes, ReadEnd(n) \/ DealEnd(n) \/ \E ev : Read(n, ev) PROVE Kept
    BY <1>1, <2>3 DEF ReadEnd, DealEnd, Read
  <2>4. ASSUME n \in Nodes, NEW ev \in Answers(n, "snd"), Write(n, ev) PROVE Kept
    <3>1. ev \in {"NORM", "IN", "WRITE", "ERROR"}
      BY <2>1, <2>4, AnswerTypes, LifeAssumption
    <3>2. UNCHANGED msgs \/ WriteNode(n, ev)
      BY <2>4 DEF Write
    <3> QED BY <1>1, <1>2, <2>4, <3>1, <3>2
  <2>5. ASSUME n \in Nodes, WriteEnd(n) PROVE Kept
    <3>1. UNCHANGED msgs \/ \E ev \in Answers(n, "snd") : WriteNode(n, ev)
      BY <2>5 DEF WriteEnd
    <3>2. Answers(n, "snd") \subseteq {"NORM", "IN", "WRITE", "ERROR"}
      BY <2>1, <2>5, AnswerTypes, LifeAssumption
    <3> QED BY <1>1, <1>2, <2>5, <3>1, <3>2
  <2>6. ASSUME n \in Nodes, CmdEnd(n) PROVE Kept
    <3>1. \A y \in Tasks : msgs'[y] = <<>> \/ msgs'[y] = msgs[y]
      BY <2>6 DEF CmdEnd
    <3> QED BY <3>1, RangeShort
  <2> QED BY <1>3, <2>1, <2>2, <2>3, <2>4, <2>5, <2>6 DEF Serve
<1>4. ASSUME NEW th \in Threads, Proceed(th) PROVE Kept
  <2>1. Post(th) \/ Returned(th) \/ HandleMsg(th)
    BY <1>4, ProceedSteps
  <2>2. HandleMsg(th) => UNCHANGED msgs
    BY HandlerGoesOn
  <2> QED BY <1>1, <2>1, <2>2 DEF Post, Returned
<1>5. ASSUME NEW n \in Nodes, Accept(n) PROVE Kept
  BY <1>1, <1>5 DEF Accept, mail
<1>6. ASSUME NEW n \in Nodes, NEW th \in Pollers, PollReady(th, n) \/ PollError(th, n) PROVE Kept
  BY <1>1, <1>6 DEF PollReady, PollError, mail
<1> QED BY <1>3, <1>4, <1>5, <1>6 DEF Next

LEMMA AddressNext == ASSUME Reached, AddressOK, Next PROVE AddressOK'
<1>1. TypeInv /\ PlanOK
  BY DEF Reached, TypeInv
<1>2. PICK th \in Threads : \E ops, S : Planned(th, ops, S) /\ \A o \in S : Proper(o, th)
  BY ProperNext DEF ProperPlan
<1>3. PICK ops, S : Planned(th, ops, S) /\ \A o \in S : Proper(o, th)
  BY <1>2
<1>4. /\ \A t \in Threads : t # th => plan'[t] = plan[t]
      /\ Range(plan'[th]) = Range(ops) \cup Range(Rest(th))
      /\ Range(Rest(th)) \subseteq Range(plan[th]) /\ Range(ops) \subseteq S
  BY <1>1, <1>3, PlannedRange
<1>5. \A t \in Threads : \A o \in Range(plan'[t]) : AddressedOp(o)
  BY <1>3, <1>4 DEF AddressOK, Proper
<1>6. \A x \in Tasks : \A m \in Range(msgs'[x]) : Addressed(m, x)
  <2>1. CASE \A t \in Threads : ~ Queue(t)
    BY <1>1, <2>1, MailKept DEF AddressOK
  <2>2. ASSUME NEW t \in Threads, Queue(t)
        PROVE  \A x \in Tasks : \A m \in Range(msgs'[x]) : Addressed(m, x)
    <3>1. /\ plan[t] # <<>> /\ plan[t] \in Seq(Ops) /\ Head(plan[t]).op = "queue"
          /\ On(t) \in Tasks /\ Arg(t) \in Messages
      BY <1>1, <2>2, HeadFits DEF Queue, Doing, PlanOK, TypeInv
    <3>2. Head(plan[t]) \in Range(plan[t])
      BY <3>1, RangeParts
    <3>3. Addressed(Arg(t), On(t))
      BY <3>1, <3>2 DEF AddressOK, AddressedOp, On, Arg
    <3>4. msgs[On(t)] \in Seq(Messages)
      BY <1>1, <3>1 DEF TypeInv, StateOK
    <3>5. Range(Append(msgs[On(t)], Arg(t))) = Range(msgs[On(t)]) \cup {Arg(t)}
      BY <3>1, <3>4, RangeParts
    <3>6. \A x \in Tasks : \/ msgs'[x] = msgs[x]
                           \/ x = On(t) /\ msgs'[x] = Append(msgs[x], Arg(t))
      BY <1>1, <2>2 DEF Queue, TypeInv, StateOK
    <3> QED BY <3>3, <3>5, <3>6 DEF AddressOK
  <2> QED BY <2>1, <2>2
<1> QED BY <1>5, <1>6 DEF AddressOK, AddressedOp, Addressed, Range

-----------------------------------------------------------------------------
(* A thread that has ended its task of n asks the director no more to close *)
(* n, save before it tells him that it has.                                *)

LastStop == [th \in Threads |->
  CASE th = "rcv" -> "STOP_RCV" [] th = "deal" -> "STOP_DEAL" [] th = "snd" -> "STOP_SND"
    [] th = "cmd" -> "CLOSED"]

Ask(n)      == {Op("queue", <<n, "cmd">>, Msg("UNREG", n))}
Tell(n, th) == {Op("queue", <<n, "cmd">>, Msg("STOP", LastStop[th]))}

AskOK(n, th) ==
  ~ Live(n, th) =>
    /\ Has(Ask(n), plan[th]) => Has(Tell(n, th), plan[th])
    /\ Before(Ask(n), Tell(n, th), plan[th])

\* A node that is destroyed is out of the director's list and of its plan.
GoneOK(n) ==
  n \in gone => /\ n \notin cmdList /\ ~ Live(n, "cmd")
                /\ \A o \in Range(plan["cmd"]) : o.on[1] # n

Askers == {"rcv", "snd", "deal"}

LEMMA BeforeSplit ==
  ASSUME NEW S, NEW s \in Seq(S), NEW t \in Seq(S), NEW A, NEW D, ~ Has(D, s), ~ Has(A, t)
  PROVE  Before(A, D, s \o t)
<1> DEFINE u == s \o t
<1>1. /\ DOMAIN u = 1 .. Len(s) + Len(t) /\ DOMAIN s = 1 .. Len(s) /\ DOMAIN t = 1 .. Len(t)
      /\ Len(s) \in Nat /\ Len(t) \in Nat
      /\ \A i \in 1 .. Len(s) : u[i] = s[i]
      /\ \A i \in 1 .. Len(s) + Len(t) : i \notin 1 .. Len(s) =>
           i - Len(s) \in 1 .. Len(t) /\ u[i] = t[i - Len(s)]
  BY ConcatParts
<1> HIDE DEF u
<1>2. ASSUME NEW i \in DOMAIN u, NEW j \in DOMAIN u, u[i] \in A, u[j] \in D PROVE i < j
  <2>1. i \in 1 .. Len(s)
    BY <1>1, <1>2 DEF Has
  <2>2. j \notin 1 .. Len(s)
    BY <1>1, <1>2 DEF Has
  <2> QED BY <1>1, <2>1, <2>2
<1>3. Before(A, D, u)
  BY <1>2 DEF Before
<1> QED BY <1>3 DEF u

\* Which steps end a task.
LEMMA EndSteps ==
  ASSUME TypeInv, Next, NEW n \in Nodes, NEW th \in Askers, Live(n, th), ~ Live(n, th)'
  PROVE  \/ th = "rcv" /\ ReadEnd(n)
         \/ th = "snd" /\ WriteEnd(n)
         \/ th = "deal" /\ DealEnd(n)
<1>1. ended' # ended /\ th # "cmd" /\ n # Ctrl
  BY LifeAssumption DEF Live, Askers
<1>2. \A m \in Nodes : ~ Accept(m)
  BY <1>1 DEF Accept
<1>3. \A t \in Pollers, m \in Nodes : ~ PollReady(t, m) /\ ~ PollError(t, m)
  BY <1>1 DEF PollReady, PollError, life
<1>4. \A t \in Threads : ~ Proceed(t)
  <2> SUFFICES ASSUME NEW t \in Threads, Proceed(t) PROVE FALSE
    OBVIOUS
  <2>1. ~ HandleMsg(t)
    BY <1>1, HandlerGoesOn
  <2>2. ~ Queue(t) /\ ~ Post(t) /\ ~ Returned(t)
    BY <1>1 DEF Queue, Post, Returned, life
  <2> QED BY <2>1, <2>2, ProceedSteps
<1>5. PICK x \in Tasks : Serve(x)
  BY <1>2, <1>3, <1>4 DEF Next
<1>6. ended' = ended \cup {x}
  BY <1>1, <1>5, ServePlans
<1>7. x = <<n, th>>
  BY <1>6 DEF Live
<1>8. x[1] = n /\ x[2] = th
  BY <1>7
<1>9. ~ Drain(x) /\ (\A ev : ~ Read(n, ev) /\ ~ Write(n, ev))
  BY <1>1 DEF Drain, TakeLive, Read, Write, life
<1> QED BY <1>1, <1>5, <1>8, <1>9 DEF Serve

\* Ending its task, a thread plans to ask before it plans to tell.
LEMMA EndAsks ==
  ASSUME TypeInv, NEW n \in Nodes, NEW th \in Askers,
         \/ th = "rcv" /\ ReadEnd(n)
         \/ th = "snd" /\ WriteEnd(n)
         \/ th = "deal" /\ DealEnd(n)
  PROVE  /\ Has(Ask(n), plan'[th]) => Has(Tell(n, th), plan'[th])
         /\ Before(Ask(n), Tell(n, th), plan'[th])
<1> DEFINE tell == Stop(n, LastStop[th])
<1>1. PlanOK /\ th \in Threads /\ {"rcv", "snd", "deal", "cmd"} = Threads
  BY DEF TypeInv, Askers, Threads
<1>2. /\ th = "rcv" => LastStop[th] = "STOP_RCV"
      /\ th = "snd" => LastStop[th] = "STOP_SND"
      /\ th = "deal" => LastStop[th] = "STOP_DEAL"
  BY <1>1 DEF LastStop
<1>3. plan' = [plan EXCEPT ![th] = tell] \/ plan' = [plan EXCEPT ![th] = Unreg(n) \o tell]
  <2>1. CASE th = "rcv" /\ ReadEnd(n)
    BY <1>2, <2>1 DEF ReadEnd, Start
  <2>2. CASE th = "deal" /\ DealEnd(n)
    BY <1>2, <2>2 DEF DealEnd, Start
  <2>3. CASE th = "snd" /\ WriteEnd(n)
    <3>1. \/ Start("snd", Stop(n, "STOP_SND"))
          \/ \E ev : Start("snd", (IF ev = "ERROR" THEN Unreg(n) ELSE <<>>) \o Stop(n, "STOP_SND"))
      BY <2>3 DEF WriteEnd
    <3>2. CASE Start("snd", Stop(n, "STOP_SND"))
      BY <1>2, <2>3, <3>2 DEF Start
    <3>3. ASSUME NEW ev, Start("snd", (IF ev = "ERROR" THEN Unreg(n) ELSE <<>>) \o Stop(n, "STOP_SND"))
          PROVE  plan' = [plan EXCEPT ![th] = tell] \/ plan' = [plan EXCEPT ![th] = Unreg(n) \o tell]
      <4>1. <<>> \o Stop(n, "STOP_SND") = Stop(n, "STOP_SND")
        BY DEF Stop, Give
      <4> QED BY <1>2, <2>3, <3>3, <4>1 DEF Start
    <3> QED BY <3>1, <3>2, <3>3
  <2> QED BY <2>1, <2>2, <2>3
<1>4. ActSeq(Unreg(n), Gives(<<n, "cmd">>, Msg("UNREG", n)))
      /\ ActSeq(tell, Gives(<<n, "cmd">>, Msg("STOP", LastStop[th])))
  BY <1>2, SendsAct DEF Askers
<1>5. Msg("UNREG", n) # Msg("STOP", LastStop[th])
  BY DEF Msg
<1>6. /\ \A o \in Gives(<<n, "cmd">>, Msg("UNREG", n)) : o \notin Tell(n, th)
      /\ \A o \in Gives(<<n, "cmd">>, Msg("STOP", LastStop[th])) : o \notin Ask(n)
  BY <1>5 DEF Gives, Tell, Ask, Op
<1>7. Op("queue", <<n, "cmd">>, Msg("STOP", LastStop[th])) \in Range(tell)
  BY RangeShort DEF Stop, Gives
<1>8. Has(Tell(n, th), tell)
  BY <1>7 DEF Tell, Has, Range
<1> HIDE DEF tell
<1>9. ~ Has(Tell(n, th), Unreg(n)) /\ ~ Has(Ask(n), tell)
  BY <1>4, <1>6 DEF Has, Range, ActSeq
<1>10. Unreg(n) \in Seq(Ops) /\ tell \in Seq(Ops)
  BY <1>4 DEF ActSeq
<1>11. plan'[th] = tell \/ plan'[th] = Unreg(n) \o tell
  BY <1>1, <1>3 DEF PlanOK
<1>12. Has(Tell(n, th), Unreg(n) \o tell) /\ Before(Ask(n), Tell(n, th), Unreg(n) \o tell)
  BY <1>8, <1>9, <1>10, HasConcat, BeforeSplit
<1>13. Before(Ask(n), Tell(n, th), tell)
  BY <1>9, BeforeNone
<1> QED BY <1>8, <1>11, <1>12, <1>13

LEMMA AskNext ==
  ASSUME Reached, AddressOK, Next, NEW n \in Nodes, NEW th \in Askers, AskOK(n, th)
  PROVE  AskOK(n, th)'
<1> DEFINE A == Ask(n)
           D == Tell(n, th)
           p == plan[th]
<1>1. TypeInv /\ PlanOK /\ th \in Threads
  BY DEF Reached, TypeInv, Askers, Threads
<1>2. SUFFICES ASSUME ~ Live(n, th)'
               PROVE  (Has(A, plan'[th]) => Has(D, plan'[th])) /\ Before(A, D, plan'[th])
  BY DEF AskOK, Ask, Tell, Has, Before
<1>3. CASE Live(n, th)
  BY <1>1, <1>2, <1>3, EndSteps, EndAsks
<1>4. CASE ~ Live(n, th)
  <2>1. (Has(A, p) => Has(D, p)) /\ Before(A, D, p)
    BY <1>4 DEF AskOK
  <2>2. PICK t \in Threads : \E ops, S : Planned(t, ops, S) /\ \A o \in S : Proper(o, t)
    BY ProperNext DEF ProperPlan
  <2>3. PICK ops, S : Planned(t, ops, S) /\ \A o \in S : Proper(o, t)
    BY <2>2
  <2>4. CASE t # th
    <3>1. plan'[th] = p
      BY <1>1, <2>3, <2>4, PlannedRange
    <3> QED BY <2>1, <3>1
  <2>5. CASE t = th
    <3> HIDE DEF p
    <3>1. \A o \in A \cup D : o.on[1] = n /\ o.on[2] = "cmd"
      BY DEF Ask, Tell, Op
    <3>2. A \cap S = {} /\ D \cap S = {}
      BY <1>4, <2>3, <2>5, <3>1 DEF Proper, MayPlan
    <3>3. ~ Has(A, ops) /\ ~ Has(D, ops) /\ ops \in Seq(Ops) /\ Goes(th, ops)
      BY <2>3, <2>5, <3>2, NoneHas DEF Planned
    <3>4. /\ Has(A, plan'[th]) <=> Has(A, Rest(th))
          /\ Has(D, plan'[th]) <=> Has(D, Rest(th))
      BY <1>1, <3>3, GoesHas
    <3>5. p \in Seq(Ops) /\ Rest(th) \in Seq(Ops)
      BY <1>1 DEF p, PlanOK, Rest
    <3>6. /\ Before(A, D, Rest(th))
          /\ Has(A, Rest(th)) => Has(D, Rest(th))
      <4>1. CASE p = <<>>
        BY <4>1, HasNothing, BeforeNone DEF Rest, p
      <4>2. CASE p # <<>>
        <5>1. Rest(th) = Tail(p)
          BY <4>2 DEF Rest, p
        <5>2. Before(A, D, Tail(p)) /\ (Head(p) \in D => ~ Has(A, p))
          BY <2>1, <3>5, <4>2, BeforeTail
        <5>3. \A E : Has(E, p) <=> Head(p) \in E \/ Has(E, Tail(p))
          BY <3>5, <4>2, HasTail
        <5> QED BY <2>1, <5>1, <5>2, <5>3
      <4> QED BY <4>1, <4>2
    <3>7. plan'[th] = ops \o Rest(th)
      BY <1>1, <3>3 DEF Goes, PlanOK
    <3>8. Before(A, D, plan'[th])
      BY <3>3, <3>5, <3>6, <3>7, BeforeConcat
    <3> QED BY <3>4, <3>6, <3>8
  <2> QED BY <2>4, <2>5
<1> QED BY <1>3, <1>4

\* What a step may do to the list of the director and to what is destroyed.
LEMMA GoneSteps ==
  ASSUME TypeInv, Next, NEW n \in Nodes
  PROVE  /\ n \in gone' /\ n \notin gone => CmdEnd(n)
         /\ n \in cmdList' /\ n \notin cmdList => CmdRegist(n)
         /\ \A th : Live(n, th)' => Live(n, th)
<1> DEFINE Steps == /\ n \in gone' /\ n \notin gone => CmdEnd(n)
                    /\ n \in cmdList' /\ n \notin cmdList => CmdRegist(n)
                    /\ \A th : Live(n, th)' => Live(n, th)
<1>1. ASSUME NEW m \in Nodes, Accept(m) PROVE Steps
  BY <1>1 DEF Accept, fields, Live
<1>2. ASSUME NEW th \in Pollers, NEW m \in Nodes, PollReady(th, m) \/ PollError(th, m)
      PROVE  Steps
  BY <1>2 DEF PollReady, PollError, life, Live
<1>3. ASSUME NEW th \in Threads, Proceed(th) PROVE Steps
  <2>1. CASE Queue(th) \/ Post(th) \/ Returned(th)
    BY <2>1 DEF Queue, Post, Returned, fields, life, Live
  <2>2. CASE HandleMsg(th)
    <3>1. UNCHANGED <<gone, ended>>
      BY <2>2 DEF HandleMsg, CtrlAdd, CtrlDel, DealStop, DealExit, DealMsg, CmdRegist,
                  CmdUnreg, CmdStop, Handling
    <3>2. n \in cmdList' /\ n \notin cmdList => CmdRegist(n)
      BY <2>2 DEF HandleMsg, CtrlAdd, CtrlDel, DealStop, DealExit, DealMsg, CmdRegist,
                  CmdUnreg, CmdStop, fields
    <3> QED BY <3>1, <3>2 DEF Live
  <2> QED BY <1>3, <2>1, <2>2, ProceedSteps
<1>4. ASSUME NEW x \in Tasks, Serve(x) PROVE Steps
  <2>1. \A th : Live(n, th)' => Live(n, th)
    BY <1>4, ServePlans DEF Live
  <2>2. CASE CmdEnd(x[1])
    BY <2>1, <2>2 DEF CmdEnd
  <2>3. CASE ~ CmdEnd(x[1])
    <3>1. UNCHANGED <<gone, cmdList>>
      BY <1>4, <2>3 DEF Serve, Drain, TakeLive, ReadEnd, Read, WriteEnd, Write, DealEnd,
                        fields, life
    <3> QED BY <2>1, <3>1
  <2> QED BY <2>2, <2>3
<1> QED BY <1>1, <1>2, <1>3, <1>4 DEF Next

LEMMA GoneNext ==
  ASSUME Reached, AddressOK, Next, NEW n \in Nodes, Ordered(n), GoneOK(n)
  PROVE  GoneOK(n)'
<1>1. TypeInv /\ PlanOK /\ CloseOK(n) /\ "cmd" \in Threads
  BY DEF Reached, TypeInv, Threads
<1> SUFFICES ASSUME n \in gone'
             PROVE  /\ n \notin cmdList' /\ ~ Live(n, "cmd")'
                    /\ \A o \in Range(plan'["cmd"]) : o.on[1] # n
  BY DEF GoneOK, Range
<1>2. CASE n \in gone
  <2>1. /\ n \notin cmdList /\ ~ Live(n, "cmd")
        /\ \A o \in Range(plan["cmd"]) : o.on[1] # n
    BY <1>2 DEF GoneOK
  <2>2. ~ CmdRegist(n)
    <3>1. n \in reason
      BY <1>1, <1>2 DEF CloseOK, StageOK
    <3>2. ~ New(n)
      BY <3>1 DEF Ordered, FreshOK
    <3> QED BY <3>2, RegistNews DEF Ordered
  <2>3. n \notin cmdList' /\ ~ Live(n, "cmd")'
    BY <1>1, <2>1, <2>2, GoneSteps
  <2>4. PICK th \in Threads : \E ops, S : Planned(th, ops, S) /\ \A o \in S : Proper(o, th)
    BY ProperNext DEF ProperPlan
  <2>5. PICK ops, S : Planned(th, ops, S) /\ \A o \in S : Proper(o, th)
    BY <2>4
  <2>6. /\ \A t \in Threads : t # th => plan'[t] = plan[t]
        /\ Range(plan'[th]) = Range(ops) \cup Range(Rest(th))
        /\ Range(Rest(th)) \subseteq Range(plan[th]) /\ Range(ops) \subseteq S
    BY <1>1, <2>5, PlannedRange
  <2>7. th = "cmd" => \A o \in S : o.on[1] # n
    BY <2>1, <2>5 DEF Proper, MayPlan
  <2> QED BY <1>1, <2>1, <2>3, <2>6, <2>7
<1>3. CASE n \notin gone
  <2>1. CmdEnd(n)
    BY <1>1, <1>3, GoneSteps
  <2>2. plan' = plan /\ plan["cmd"] = <<>> /\ n \notin cmdList' /\ ~ Live(n, "cmd")'
    BY <2>1 DEF CmdEnd, TakeEof, Take, Live
  <2> QED BY <2>2, RangeShort
<1> QED BY <1>2, <1>3

-----------------------------------------------------------------------------
(* What is left of a connection that is destroyed.                         *)

LeftInv ==
  /\ ReachInv /\ AddressOK
  /\ \A n \in Nodes : GoneOK(n)
  /\ \A n \in Nodes, th \in Askers : AskOK(n, th)

LEMMA LeftInit == Init => LeftInv
<1> SUFFICES ASSUME Init PROVE LeftInv
  OBVIOUS
<1>1. gone = {} /\ ended = {}
  BY DEF Init
<1>2. (\A th \in Threads : Range(plan[th]) = {}) /\ \A x \in Tasks : Range(msgs[x]) = {}
  BY RangeShort DEF Init
<1>3. AddressOK /\ (\A n \in Nodes : GoneOK(n)) /\ \A n \in Nodes, th \in Askers : AskOK(n, th)
  BY <1>1, <1>2 DEF AddressOK, GoneOK, AskOK, Live
<1> QED BY <1>3, ReachInit DEF LeftInv

LEMMA LeftNext == LeftInv /\ [Next]_vars => LeftInv'
<1> SUFFICES ASSUME LeftInv, [Next]_vars PROVE LeftInv'
  OBVIOUS
<1>1. ReachInv /\ Reached /\ AddressOK /\ \A n \in Nodes : Ordered(n) /\ GoneOK(n)
  BY DEF LeftInv, ReachInv
<1>2. ReachInv'
  BY <1>1, ReachNext
<1>3. CASE Next
  <2>1. AddressOK'
    BY <1>1, <1>3, AddressNext
  <2>2. \A n \in Nodes : GoneOK(n)'
    BY <1>1, <1>3, GoneNext
  <2>3. \A n \in Nodes, th \in Askers : AskOK(n, th)'
    BY <1>1, <1>3, AskNext DEF LeftInv
  <2> QED BY <1>2, <2>1, <2>2, <2>3 DEF LeftInv, Askers
<1>4. CASE UNCHANGED vars
  <2>1. UNCHANGED <<plan, msgs, gone, ended, cmdList>>
    BY <1>4 DEF vars, mail, fields, life
  <2>2. AddressOK'
    BY <1>1, <2>1 DEF AddressOK, AddressedOp, Addressed, Range
  <2>3. \A n \in Nodes : GoneOK(n)'
    BY <1>1, <2>1 DEF GoneOK, Live, Range
  <2>4. \A n \in Nodes, th \in Askers : AskOK(n, th)'
    BY <2>1 DEF LeftInv, AskOK, Live, Ask, Tell, Has, Before
  <2> QED BY <1>2, <2>2, <2>3, <2>4 DEF LeftInv, Askers
<1> QED BY <1>3, <1>4

\* Of a connection that is destroyed no letter is out and no task is live.
LEMMA GoneStage ==
  ASSUME Reached, NEW n \in Nodes, n \in gone
  PROVE  /\ \A k \in Letters(n) : Once(k) /\ ~ Out(k)
         /\ \A th \in Askers : ~ Live(n, th)
         /\ n \in closed
         /\ ~ Ending(n, "cmd") /\ \A t \in Threads : ~ Has(EndOps(n, "cmd"), plan[t])
<1>1. CloseOK(n) /\ StageOK(n) /\ Stage(n) = 10 /\ "cmd" \in Threads
  BY DEF Reached, CloseOK, Stage, Threads
<1>2. \A k \in Letters(n) : k.stage # 10
  BY DEF Letters, DelFd, StopOf, ToDealer, Letter
<1>3. (\A th \in Askers : ~ Live(n, th)) /\ n \in closed
  BY <1>1 DEF StageOK, Askers, Live
<1>4. EndStage["cmd"] = 9
  BY DEF EndStage, Threads
<1>5. ~ Ending(n, "cmd") /\ \A t \in Threads : ~ Has(EndOps(n, "cmd"), plan[t])
  BY <1>1, <1>4 DEF CloseOK, Ending
<1> QED BY <1>1, <1>2, <1>3, <1>5 DEF CloseOK

\* No thread plans a message that the director would get of it.
LEMMA GoneUntold ==
  ASSUME LeftInv, NEW n \in Nodes, n \in gone, NEW by \in Threads, NEW o \in Range(plan[by]),
         o.op = "queue", o.on = <<n, "cmd">>
  PROVE  FALSE
<1>1. TypeInv /\ Reached /\ Ordered(n) /\ GoneOK(n) /\ AddressOK /\ PlanOK
      /\ \A th \in Askers : AskOK(n, th)
  BY DEF LeftInv, ReachInv, Reached, TypeInv
<1>2. o \in Ops /\ o.arg \in Messages /\ o = Op("queue", <<n, "cmd">>, o.arg)
  <2>1. plan[by] \in Seq(Ops)
    BY <1>1 DEF PlanOK
  <2>2. o \in Ops
    BY <2>1 DEF Range
  <2> QED BY <2>2 DEF Ops, Op
<1>3. n # Ctrl /\ <<n, "cmd">>[1] = n
  BY LifeAssumption
<1>4. (o.arg.type = "STOP" \/ o.arg.val = n) /\ o.arg.type \in Requests
  BY <1>1, <1>2, <1>3 DEF AddressOK, AddressedOp, Addressed
<1>5. by # "cmd"
  BY <1>1, <1>3 DEF GoneOK
<1>6. by \in Askers
  BY <1>5 DEF Askers, Threads
<1>7. \A k \in Letters(n) : o \notin WriteOps(k)
  <2> SUFFICES ASSUME NEW k \in Letters(n), o \in WriteOps(k) PROVE FALSE
    OBVIOUS
  <2>1. Has(WriteOps(k), plan[by])
    BY DEF Has, Range
  <2>2. Once(k) /\ ~ Out(k)
    BY <1>1, GoneStage
  <2> QED BY <2>1, <2>2 DEF Once, Out
<1>8. o.arg.type # "STOP"
  <2> SUFFICES ASSUME o.arg.type = "STOP" PROVE FALSE
    OBVIOUS
  <2>1. PICK s \in {"STOP_RCV", "STOP_DEAL", "STOP_SND", "CLOSED"} : o.arg = Msg("STOP", s)
    BY <1>2 DEF Messages, FdStatus, Msg
  <2>2. PICK k \in Letters(n) : k.to = <<n, "cmd">> /\ k.mail = {Msg("STOP", s)}
    BY <2>1 DEF Letters, StopOf, Letter
  <2>3. o \in WriteOps(k)
    BY <1>2, <2>1, <2>2 DEF WriteOps
  <2> QED BY <1>7, <2>3
<1>9. o.arg.type # "UNREG"
  <2> SUFFICES ASSUME o.arg.type = "UNREG" PROVE FALSE
    OBVIOUS
  <2>1. o \in Ask(n)
    BY <1>2, <1>4 DEF Ask, Messages, Msg
  <2>2. Has(Ask(n), plan[by])
    BY <2>1 DEF Has, Range
  <2>3. Has(Tell(n, by), plan[by])
    BY <1>1, <1>6, <2>2, GoneStage DEF AskOK
  <2>4. PICK u \in Range(plan[by]) : u = Op("queue", <<n, "cmd">>, Msg("STOP", LastStop[by]))
    BY <2>3 DEF Has, Range, Tell
  <2>5. LastStop[by] \in {"STOP_RCV", "STOP_DEAL", "STOP_SND"}
    BY <1>6 DEF LastStop, Askers, Threads
  <2>6. PICK k \in Letters(n) : k.to = <<n, "cmd">> /\ k.mail = {Msg("STOP", LastStop[by])}
    BY <2>5 DEF Letters, StopOf, Letter
  <2>7. u \in WriteOps(k)
    BY <2>4, <2>6 DEF WriteOps
  <2>8. Has(WriteOps(k), plan[by])
    BY <2>7 DEF Has, Range
  <2>9. Once(k) /\ ~ Out(k)
    BY <1>1, GoneStage
  <2> QED BY <2>8, <2>9 DEF Once, Out
<1>10. o.arg.type # "REGIST"
  <2> SUFFICES ASSUME o.arg.type = "REGIST" PROVE FALSE
    OBVIOUS
  <2> DEFINE k == Regist(n)
  <2>1. k.by = "rcv" /\ k.to = <<n, "cmd">> /\ k.mail = {m \in Messages : m.type = "REGIST"}
    BY DEF Regist, Letter
  <2>2. o \in WriteOps(k)
    BY <1>2, <2>1 DEF WriteOps
  <2>3. Has(WriteOps(k), plan[by])
    BY <2>2 DEF Has, Range
  <2> HIDE DEF k
  <2>4. Out(k)
    BY <1>1, <2>1, <2>3 DEF Ordered, RegistOK, Once, Out, k
  <2>5. New(n)
    BY <2>4 DEF New, k
  <2>6. n \in reason
    BY <1>1 DEF Reached, CloseOK, StageOK
  <2> QED BY <1>1, <2>5, <2>6 DEF Ordered, FreshOK
<1> QED BY <1>4, <1>8, <1>9, <1>10 DEF Requests

\* Nor does a thread plan anything else for the connection, save the post it
\* owes the director.
LEMMA GoneUnused ==
  ASSUME LeftInv, NEW n \in Nodes, n \in gone, NEW by \in Threads, NEW o \in Range(plan[by]),
         o.on[1] = n
  PROVE  by # "cmd" /\ o = Op("post", <<n, "cmd">>, "NORM")
<1>1. TypeInv /\ Reached /\ Service /\ AccessOK /\ GoneOK(n) /\ AddressOK /\ PlanOK
  BY DEF LeftInv, ReachInv, Reached, TypeInv
<1>2. /\ \A k \in Letters(n) : Once(k) /\ ~ Out(k)
      /\ \A th \in Askers : ~ Live(n, th)
      /\ n \in closed
      /\ ~ Ending(n, "cmd") /\ \A t \in Threads : ~ Has(EndOps(n, "cmd"), plan[t])
  BY <1>1, GoneStage
<1>3. o \in FittingOps(by) /\ o \in Ops
  <2>1. plan[by] \in Seq(FittingOps(by))
    BY <1>1 DEF PlanOK, Plans
  <2>2. o \in FittingOps(by)
    BY <2>1 DEF Range
  <2> QED BY <2>2 DEF FittingOps
<1>4. /\ by # "cmd" /\ by \in Askers /\ ~ Live(n, by)
      /\ o.on \in Tasks /\ o.on = <<n, o.on[2]>> /\ o.on[2] \in Threads /\ n # Ctrl
  <2>1. by # "cmd" /\ by \in Askers
    BY <1>1 DEF GoneOK, Askers, Threads
  <2>2. o.on \in Tasks
    BY <1>3 DEF Ops
  <2>3. n # Ctrl
    BY LifeAssumption
  <2>4. o.on = <<n, o.on[2]>> /\ o.on[2] \in Threads
    BY <2>2, TaskThread DEF Tasks
  <2> QED BY <1>2, <2>1, <2>2, <2>3, <2>4
<1>5. Acts(o)
  <2> SUFFICES ASSUME ~ Acts(o) PROVE FALSE
    OBVIOUS
  <2>1. o.op \in {"return", "msg"}
    BY <1>3 DEF Ops, Acts
  <2>2. o.on[2] = by
    BY <1>3, <2>1 DEF FittingOps
  <2>3. Busy(o.on)
    BY <2>2 DEF Busy
  <2>4. <<n, by>> \notin ended
    BY <1>1, <1>4, <2>2, <2>3 DEF Service, ServiceOK
  <2> QED BY <1>4, <2>4 DEF Live
<1>6. o.on[2] = "cmd"
  <2>1. Access(o, by)
    BY <1>1 DEF AccessOK
  <2> QED BY <1>2, <1>4, <1>5, <2>1 DEF Access
<1>7. o.op = "post"
  BY <1>4, <1>5, <1>6, GoneUntold DEF Acts
<1>8. o.arg # "END"
  <2> SUFFICES ASSUME o.arg = "END" PROVE FALSE
    OBVIOUS
  <2>1. o \in EndOps(n, "cmd")
    BY <1>3, <1>4, <1>6, <1>7 DEF EndOps, Ops, Op
  <2>2. Has(EndOps(n, "cmd"), plan[by])
    BY <2>1 DEF Has, Range
  <2> QED BY <1>2, <2>2
<1>9. o.arg = "NORM"
  BY <1>1, <1>6, <1>7, <1>8 DEF AddressOK, AddressedOp
<1>10. o = Op("post", <<n, "cmd">>, "NORM")
  BY <1>3, <1>4, <1>6, <1>7, <1>9 DEF Ops, Op
<1> QED BY <1>4, <1>10

\* No message names the connection, in the queues of the control node or in
\* what a thread plans.
LEMMA GoneUnnamed ==
  ASSUME LeftInv, NEW n \in Nodes, n \in gone
  PROVE  /\ \A t \in Pollers : \A m \in Range(msgs[<<Ctrl, t>>]) : m.val # n
         /\ \A by \in Threads : \A o \in Range(plan[by]) :
              o.op \in {"queue", "msg"} => o.arg.val # n
<1>1. TypeInv /\ Reached /\ AddressOK /\ PlanOK /\ \A t \in Pollers : AddOK(n, t)
  BY DEF LeftInv, ReachInv, Reached, TypeInv, Ordered
<1>2. ASSUME NEW t \in Pollers
      PROVE  /\ Once(AddFd(n, t)) /\ ~ Out(AddFd(n, t))
             /\ Once(Del(n, t)) /\ ~ Out(Del(n, t))
  <2>1. ~ Live(n, t)
    BY <1>1, GoneStage DEF Askers, Pollers
  <2>2. Once(AddFd(n, t)) /\ ~ Out(AddFd(n, t))
    BY <1>1, <2>1 DEF AddOK
  <2>3. Del(n, t) \in Letters(n)
    BY AddTypes
  <2>4. Once(Del(n, t)) /\ ~ Out(Del(n, t))
    <3> DEFINE k == Del(n, t)
    <3> HIDE DEF k
    <3>1. k \in Letters(n)
      BY <2>3 DEF k
    <3>2. Once(k) /\ ~ Out(k)
      BY <1>1, <3>1, GoneStage
    <3> QED BY <3>2 DEF k
  <2> QED BY <2>2, <2>4
<1>3. ASSUME NEW m \in Messages, NEW x \in Tasks, Addressed(m, x), m.val = n
      PROVE  \/ x[1] = n
             \/ \E t \in Pollers : x = <<Ctrl, t>> /\ m \in {Msg("ADD_FD", n), Msg("DEL_FD", n)}
  <2>1. CASE x[1] = Ctrl
    <3>1. \E t \in Pollers : x = <<Ctrl, t>>
      BY <2>1, LifeAssumption DEF Tasks
    <3>2. m.type \in {"ADD_FD", "DEL_FD"}
      BY <1>3, <2>1 DEF Addressed
    <3>3. m = Msg(m.type, n)
      BY <1>3 DEF Messages, Msg
    <3> QED BY <3>1, <3>2, <3>3
  <2>2. CASE x[1] # Ctrl
    <3>1. m.type # "STOP"
      <4>1. m.type = "STOP" => \E i \in 3 .. 6 : m.val = FdStatus[i]
        BY DEF Messages
      <4> QED BY <1>3, <4>1, LifeAssumption
    <3> QED BY <1>3, <2>2, <3>1 DEF Addressed
  <2> QED BY <2>1, <2>2
<1>4. ASSUME NEW t \in Pollers
      PROVE  /\ AddFd(n, t).mail = {Msg("ADD_FD", n)} /\ Del(n, t).mail = {Msg("DEL_FD", n)}
             /\ AddFd(n, t).to = <<Ctrl, t>> /\ Del(n, t).to = <<Ctrl, t>>
             /\ AddFd(n, t).by = "cmd" /\ Del(n, t).by = "cmd"
             /\ <<Ctrl, t>> \in Tasks /\ <<Ctrl, t>>[2] = t
  BY AddTypes
<1>5. ASSUME NEW t \in Pollers, NEW m \in Range(msgs[<<Ctrl, t>>]) PROVE m.val # n
  <2>1. m \in Messages /\ Addressed(m, <<Ctrl, t>>)
    <3>1. msgs[<<Ctrl, t>>] \in Seq(Messages)
      BY <1>1, <1>4 DEF TypeInv, StateOK
    <3> QED BY <1>1, <1>4, <3>1 DEF AddressOK, Range
  <2>2. <<Ctrl, t>>[1] # n
    BY LifeAssumption
  <2>3. ~ Has({Msg("ADD_FD", n)}, msgs[<<Ctrl, t>>]) /\ ~ Has({Msg("DEL_FD", n)}, msgs[<<Ctrl, t>>])
    BY <1>2, <1>4 DEF Out
  <2>4. m \notin {Msg("ADD_FD", n), Msg("DEL_FD", n)}
    BY <2>3, RangeHas
  <2> QED BY <1>3, <1>4, <2>1, <2>2, <2>4
<1>6. ASSUME NEW by \in Threads, NEW o \in Range(plan[by]), o.op \in {"queue", "msg"}, o.arg.val = n
      PROVE  FALSE
  <2>1. o \in Ops /\ o.arg \in Messages /\ o.on \in Tasks /\ Addressed(o.arg, o.on)
        /\ o = Op(o.op, o.on, o.arg) /\ (o.op = "msg" => o.on[2] = by)
    <3>1. plan[by] \in Seq(FittingOps(by))
      BY <1>1 DEF PlanOK, Plans
    <3>2. o \in FittingOps(by)
      BY <3>1 DEF Range
    <3> QED BY <1>1, <1>6, <3>2 DEF AddressOK, AddressedOp, FittingOps, Ops, Op
  <2>2. o.on[1] # n
    <3>1. ~ Acts(o) \/ o.op # "post"
      BY <1>6 DEF Acts
    <3>2. Op("post", <<n, "cmd">>, "NORM").op = "post"
      BY DEF Op
    <3> QED BY <1>6, <3>2, GoneUnused
  <2>3. PICK t \in Pollers :
          o.on = <<Ctrl, t>> /\ o.arg \in {Msg("ADD_FD", n), Msg("DEL_FD", n)}
    BY <1>3, <1>6, <2>1, <2>2
  <2>4. PICK k \in {AddFd(n, t), Del(n, t)} : o.arg \in k.mail
    BY <1>4, <2>3
  <2>5. Once(k) /\ ~ Out(k) /\ k.to = <<Ctrl, t>>
    BY <1>2, <1>4
  <2>6. CASE o.op = "queue"
    <3>1. o \in WriteOps(k)
      BY <2>1, <2>3, <2>4, <2>5, <2>6 DEF WriteOps
    <3>2. Has(WriteOps(k), plan[by])
      BY <3>1 DEF Has, Range
    <3> QED BY <2>5, <3>2 DEF Once, Out
  <2>7. CASE o.op = "msg"
    <3>1. o \in ReadOps(k)
      BY <2>1, <2>3, <2>4, <2>5, <2>7 DEF ReadOps
    <3>2. Has(ReadOps(k), plan[by]) /\ by = t
      BY <1>4, <2>1, <2>3, <2>7, <3>1 DEF Has, Range
    <3> QED BY <1>4, <2>5, <3>2 DEF Out
  <2> QED BY <1>6, <2>6, <2>7
<1> QED BY <1>5, <1>6

LEMMA LeftNothing == LeftInv => NothingLeftBehind
<1> SUFFICES ASSUME LeftInv, NEW n \in gone
             PROVE  /\ n \notin run["rcv"] \cup run["snd"] \cup cmdList
                    /\ \A th \in Threads : <<n, th>> \notin pool
                    /\ \A m \in Commands : m.val # n
                    /\ \A by \in Threads : \A i \in DOMAIN plan[by] :
                         LET o == plan[by][i] IN
                         /\ o.on[1] = n => by # "cmd" /\ o = Op("post", <<n, "cmd">>, "NORM")
                         /\ o.op \in {"queue", "msg"} => o.arg.val # n
  BY DEF NothingLeftBehind
<1>1. TypeInv /\ Reached /\ Service /\ Unpolled /\ n \in Nodes /\ GoneOK(n)
  BY DEF LeftInv, ReachInv, Reached, TypeInv, StateOK
<1>2. (\A th \in Askers : ~ Live(n, th)) /\ ~ Live(n, "cmd") /\ n \notin cmdList
  BY <1>1, GoneStage DEF GoneOK
<1>3. n \notin run["rcv"] \cup run["snd"] \cup cmdList
  BY <1>1, <1>2 DEF Unpolled, Askers, Pollers, Live
<1>4. \A th \in Threads : <<n, th>> \notin pool
  <2>1. \A th \in Threads : ~ Live(n, th) /\ <<n, th>> \in Tasks
    BY <1>1, <1>2, NodeTasks DEF Askers, Threads
  <2> QED BY <1>1, <2>1 DEF Service, ServiceOK, Live
<1>5. \A m \in Commands : m.val # n
  <2>1. \A t \in Pollers : \A m \in Range(msgs[<<Ctrl, t>>]) : m.val # n
    BY <1>1, GoneUnnamed
  <2> QED BY <2>1 DEF Commands, Range
<1>6. ASSUME NEW by \in Threads, NEW i \in DOMAIN plan[by]
      PROVE  /\ plan[by][i].on[1] = n =>
                  by # "cmd" /\ plan[by][i] = Op("post", <<n, "cmd">>, "NORM")
             /\ plan[by][i].op \in {"queue", "msg"} => plan[by][i].arg.val # n
  <2>1. plan[by][i] \in Range(plan[by])
    BY DEF Range
  <2> QED BY <1>1, <2>1, GoneUnused, GoneUnnamed
<1> QED BY <1>3, <1>4, <1>5, <1>6

(* When the director destroys a node, no list, no queue and no command     *)
(* still names it, and no thread is to do anything to it but the one post  *)
(* that follows the last message it queued for the director.               *)
THEOREM DestroyedIsUnnamed == Spec => []NothingLeftBehind
BY LeftInit, LeftNext, LeftNothing, PTL DEF Spec
=============================================================================
