---------------------------- MODULE FamilyProofs ----------------------------
(***************************************************************************)
(* Proofs about Family, for any number of children: types, and that nobody *)
(* is let go while another still refers to it.                             *)
(***************************************************************************)
EXTENDS Family, SequenceTheorems, TLAPS

\* Message m is in the sequence q, and no message is in it twice.
In(m, q)    == \E i \in 1 .. Len(q) : q[i] = m
Distinct(q) == \A i, j \in 1 .. Len(q) : q[i] = q[j] => i = j

\* What Append does to the members of a sequence.
LEMMA AppendFacts ==
  ASSUME NEW S, NEW q \in Seq(S), NEW m \in S
  PROVE  /\ Append(q, m) \in Seq(S)
         /\ \A x : In(x, Append(q, m)) <=> In(x, q) \/ x = m
         /\ Distinct(q) /\ ~ In(m, q) => Distinct(Append(q, m))
<1>1. /\ Append(q, m) \in Seq(S) /\ Len(Append(q, m)) = Len(q) + 1
      /\ Append(q, m)[Len(q) + 1] = m
      /\ \A i \in 1 .. Len(q) : Append(q, m)[i] = q[i]
      /\ Len(q) \in Nat
  OBVIOUS
<1>2. ASSUME NEW x PROVE In(x, Append(q, m)) <=> In(x, q) \/ x = m
  BY <1>1 DEF In
<1>3. ASSUME Distinct(q), ~ In(m, q) PROVE Distinct(Append(q, m))
  BY <1>1, <1>3 DEF In, Distinct
<1> QED BY <1>1, <1>2, <1>3

\* What Head and Tail do to a sequence without duplicates.
LEMMA TailFacts ==
  ASSUME NEW S, NEW q \in Seq(S), q # <<>>, Distinct(q)
  PROVE  /\ Head(q) \in S /\ In(Head(q), q)
         /\ Tail(q) \in Seq(S) /\ Distinct(Tail(q))
         /\ \A x : In(x, Tail(q)) <=> In(x, q) /\ x # Head(q)
<1>1. /\ Head(q) \in S /\ Head(q) = q[1] /\ Tail(q) \in Seq(S)
      /\ Len(q) \in Nat \ {0} /\ Len(Tail(q)) = Len(q) - 1
      /\ \A i \in 1 .. Len(q) - 1 : Tail(q)[i] = q[i + 1]
  OBVIOUS
<1>2. In(Head(q), q)
  BY <1>1 DEF In
<1>3. Distinct(Tail(q))
  <2>1. SUFFICES ASSUME NEW i \in 1 .. Len(q) - 1, NEW j \in 1 .. Len(q) - 1,
                        Tail(q)[i] = Tail(q)[j]
                 PROVE  i = j
    BY <1>1 DEF Distinct
  <2>2. q[i + 1] = q[j + 1] /\ i + 1 \in 1 .. Len(q) /\ j + 1 \in 1 .. Len(q)
    BY <1>1, <2>1
  <2> QED BY <2>1, <2>2 DEF Distinct
<1>4. ASSUME NEW x, In(x, Tail(q)) PROVE In(x, q) /\ x # Head(q)
  <2>1. PICK i \in 1 .. Len(q) - 1 : Tail(q)[i] = x
    BY <1>1, <1>4 DEF In
  <2>2. q[i + 1] = x /\ i + 1 \in 1 .. Len(q) /\ 1 \in 1 .. Len(q) /\ i + 1 # 1
    BY <1>1, <2>1
  <2> QED BY <1>1, <2>2 DEF In, Distinct
<1>5. ASSUME NEW x, In(x, q), x # Head(q) PROVE In(x, Tail(q))
  <2>1. PICK i \in 1 .. Len(q) : q[i] = x
    BY <1>5 DEF In
  <2>2. i - 1 \in 1 .. Len(q) - 1 /\ q[(i - 1) + 1] = x
    BY <1>1, <1>5, <2>1
  <2>3. Tail(q)[i - 1] = x
    BY <1>1, <2>2
  <2> QED BY <1>1, <2>2, <2>3 DEF In
<1> QED BY <1>1, <1>2, <1>3, <1>4, <1>5

\* Sequences of at most two messages.
LEMMA SmallSequences ==
  ASSUME NEW a, NEW b
  PROVE  /\ Append(<<>>, a) = <<a>> /\ Append(<<a>>, b) = <<a, b>>
         /\ <<a>> # <<>> /\ Head(<<a>>) = a /\ Tail(<<a>>) = <<>>
         /\ <<a, b>> # <<>> /\ Head(<<a, b>>) = a /\ Tail(<<a, b>>) = <<b>>
<1> DEFINE S == {a, b}
<1>1. <<>> \in Seq(S) /\ <<a>> \in Seq(S) /\ <<b>> \in Seq(S) /\ <<a, b>> \in Seq(S)
  OBVIOUS
<1>2. Append(<<>>, a) = <<a>>
  BY <1>1
<1>3. Append(<<a>>, b) = <<a, b>>
  <2>1. /\ Append(<<a>>, b) \in Seq(S) /\ Len(Append(<<a>>, b)) = 2
        /\ Append(<<a>>, b)[1] = a /\ Append(<<a>>, b)[2] = b
    BY <1>1
  <2>2. Len(<<a, b>>) = 2 /\ <<a, b>>[1] = a /\ <<a, b>>[2] = b
    OBVIOUS
  <2>3. \A i \in 1 .. 2 : i = 1 \/ i = 2
    OBVIOUS
  <2>4. \A i \in 1 .. Len(Append(<<a>>, b)) : Append(<<a>>, b)[i] = <<a, b>>[i]
    BY <2>1, <2>2, <2>3
  <2> QED BY <1>1, <2>1, <2>2, <2>4, SeqEqual
<1>4. <<a>> # <<>> /\ Head(<<a>>) = a /\ <<a, b>> # <<>> /\ Head(<<a, b>>) = a
  BY <1>1
<1>5. Tail(<<a>>) = <<>>
  BY <1>1
<1>6. Tail(<<a, b>>) = <<b>>
  BY <1>1
<1> QED BY <1>2, <1>3, <1>4, <1>5, <1>6

-----------------------------------------------------------------------------
(* The invariant: where a child stands in its close, and the parent.       *)

Stopped(n) == Msg("STOP", n)
Allowed(n) == Msg("ALLOW_EXIT", n)
Exit(c)    == Msg("CHILD_EXIT", c)
Data(c)    == Msg("DATA", c)

Reported(c) == In(Exit(c), queue[Parent])

Before(c) == c \in kids /\ ~ Reported(c) /\ c \notin ending
After(c)  == c \notin kids /\ ~ Reported(c)

ChildOK(c) ==
  \/ phase[c] = "open" /\ Before(c) /\ queue[c] \in {<<>>, <<Data(c)>>}
  \/ phase[c] = "rcvEnded" /\ Before(c)
       /\ queue[c] \in {<<Stopped(c)>>, <<Data(c), Stopped(c)>>}
  \/ phase[c] = "closed" /\ c \in kids /\ Reported(c)
       /\ c \notin ending /\ queue[c] = <<>>
  \/ phase[c] = "closed" /\ After(c) /\ c \notin ending /\ queue[c] = <<Allowed(c)>>
  \/ phase[c] = "closed" /\ After(c) /\ c \in ending /\ queue[c] = <<>>
  \/ Ended(c) /\ After(c) /\ c \in ending /\ queue[c] = <<>>

ForParent == {Exit(c) : c \in Children} \cup {Stopped(Parent), Allowed(Parent)}

StopComes  == In(Stopped(Parent), queue[Parent])
AllowComes == In(Allowed(Parent), queue[Parent])

ParentOK ==
  /\ queue[Parent] \in Seq(ForParent) /\ Distinct(queue[Parent])
  /\ \/ phase[Parent] = "open" /\ ~ StopComes /\ ~ AllowComes
          /\ Parent \notin stopDeal \cup ending
     \/ phase[Parent] = "rcvEnded" /\ StopComes /\ ~ AllowComes
          /\ Parent \notin stopDeal \cup ending
     \/ phase[Parent] = "closed" /\ ~ StopComes /\ Parent \in stopDeal
          /\ Parent \notin ending /\ (AllowComes <=> kids = {})
     \/ phase[Parent] = "closed" /\ Parent \in ending
          /\ kids = {} /\ queue[Parent] = <<>>
     \/ Ended(Parent) /\ Parent \in ending /\ kids = {} /\ queue[Parent] = <<>>

Sets ==
  /\ phase \in [Nodes -> Phases] /\ queue = [n \in Nodes |-> queue[n]]
  /\ requests \subseteq Nodes /\ reason \subseteq Nodes
  /\ kids \subseteq Children /\ stopDeal \subseteq Nodes /\ ending \subseteq Nodes
  /\ \A n \in requests : phase[n] # "destroyed"

FamilyInv == Sets /\ ParentOK /\ \A c \in Children : ChildOK(c)

\* A step that touches nothing of a child, or of the parent, keeps its part.
LEMMA ChildSame ==
  ASSUME NEW c \in Children, ChildOK(c),
         phase'[c] = phase[c], queue'[c] = queue[c],
         c \in kids' <=> c \in kids, c \in ending' <=> c \in ending,
         Reported(c)' <=> Reported(c)
  PROVE  ChildOK(c)'
BY DEF ChildOK, Before, After, Ended

\* The same for the parent.
LEMMA ParentSame ==
  ASSUME ParentOK, phase'[Parent] = phase[Parent], UNCHANGED kids,
         queue'[Parent] = queue[Parent],
         Parent \in stopDeal' <=> Parent \in stopDeal,
         Parent \in ending' <=> Parent \in ending
  PROVE  ParentOK'
BY DEF ParentOK, StopComes, AllowComes, Ended

\* The messages are told apart by their type and their node.
LEMMA MessagesDiffer ==
  ASSUME NEW n \in Nodes, NEW c, NEW d
  PROVE  /\ Stopped(n) # Allowed(n) /\ Exit(c) # Stopped(n) /\ Exit(c) # Allowed(n)
         /\ Exit(c) = Exit(d) => c = d
         /\ Stopped(n).type = "STOP" /\ Allowed(n).type = "ALLOW_EXIT"
         /\ Exit(c).type = "CHILD_EXIT" /\ Exit(c).node = c
         /\ Data(c).type = "DATA"
BY DEF Stopped, Allowed, Exit, Data, Msg

\* The first message for the parent, and what is left of them.
LEMMA ParentHead ==
  ASSUME ParentOK, queue[Parent] # <<>>
  PROVE  /\ Head(queue[Parent]) \in ForParent
         /\ In(Head(queue[Parent]), queue[Parent])
         /\ Tail(queue[Parent]) \in Seq(ForParent) /\ Distinct(Tail(queue[Parent]))
         /\ \A x : In(x, Tail(queue[Parent]))
                   <=> In(x, queue[Parent]) /\ x # Head(queue[Parent])
BY TailFacts DEF ParentOK

\* The invariant holds at the start.
LEMMA InvInit == Init => FamilyInv
<1> SUFFICES ASSUME Init PROVE FamilyInv
  OBVIOUS
<1>1. Sets
  BY DEF Init, Sets, Phases, Nodes
<1>2. queue[Parent] = <<>> /\ \A x : ~ In(x, queue[Parent])
  BY DEF Init, Nodes, In
<1>3. ParentOK
  BY <1>2 DEF Init, ParentOK, Nodes, StopComes, AllowComes, Distinct
<1>4. \A c \in Children : ChildOK(c)
  BY <1>2 DEF Init, ChildOK, Before, Reported, Nodes
<1> QED BY <1>1, <1>3, <1>4 DEF FamilyInv

\* Receiver or sender ask for the close.
LEMMA InvAsk ==
  ASSUME FamilyInv, NEW n \in Nodes, Ask(n)
  PROVE  FamilyInv'
<1>1. Sets'
  BY DEF FamilyInv, Sets, Ask, dealer
<1>2. ParentOK' /\ \A c \in Children : ChildOK(c)'
  BY ChildSame, ParentSame DEF FamilyInv, Ask, dealer, Reported
<1> QED BY <1>1, <1>2 DEF FamilyInv

\* The director takes a request.
LEMMA InvUnreg ==
  ASSUME FamilyInv, NEW n \in Nodes, ProcUnregCmd(n)
  PROVE  FamilyInv'
<1>1. Sets'
  BY DEF FamilyInv, Sets, ProcUnregCmd, dealer
<1>2. ParentOK' /\ \A c \in Children : ChildOK(c)'
  BY ChildSame, ParentSame DEF FamilyInv, ProcUnregCmd, dealer, Reported
<1> QED BY <1>1, <1>2 DEF FamilyInv

\* A datagram joins the empty queue of an open child.
LEMMA InvRecv ==
  ASSUME FamilyInv, NEW n \in Nodes, Recv(n)
  PROVE  FamilyInv'
<1>1. /\ n \in Children /\ n # Parent /\ UNCHANGED <<phase, kids, stopDeal, ending>>
      /\ queue' = [queue EXCEPT ![n] = Append(@, Data(n))]
      /\ queue[n] = <<>> /\ phase[n] = "open"
  BY FamilyAssumption DEF Recv, Dispatch, Data
<1>2. Sets'
  BY <1>1 DEF FamilyInv, Sets, Recv, director
<1>3. queue'[Parent] = queue[Parent]
  BY <1>1 DEF FamilyInv, Sets, Nodes
<1>4. ParentOK'
  BY <1>1, <1>3, ParentSame DEF FamilyInv
<1>5. ASSUME NEW c \in Children PROVE ChildOK(c)'
  <2>1. CASE c # n
    BY <1>1, <1>3, <2>1, ChildSame DEF FamilyInv, Sets, Nodes, Reported
  <2>2. CASE c = n
    <3>1. queue'[n] = <<Data(n)>>
      BY <1>1, SmallSequences DEF FamilyInv, Sets
    <3>2. Before(n) /\ Before(n)'
      BY <1>1, <1>3 DEF FamilyInv, ChildOK, Before, Reported, Ended
    <3> QED BY <1>1, <2>2, <3>1, <3>2 DEF ChildOK
  <2> QED BY <2>1, <2>2
<1> QED BY <1>2, <1>4, <1>5 DEF FamilyInv

\* STOP joins a queue that holds none.
LEMMA InvEndRcv ==
  ASSUME FamilyInv, NEW n \in Nodes, EndRcv(n)
  PROVE  FamilyInv'
<1>1. /\ UNCHANGED <<requests, reason, kids, stopDeal, ending>>
      /\ phase[n] = "open" /\ phase' = [phase EXCEPT ![n] = "rcvEnded"]
      /\ queue' = [queue EXCEPT ![n] = Append(@, Stopped(n))]
  BY DEF EndRcv, Dispatch, Advance, Stopped, director
<1>2. Sets'
  BY <1>1 DEF FamilyInv, Sets, Phases
<1>3. CASE n \in Children
  <2>1. n # Parent /\ queue'[Parent] = queue[Parent] /\ phase'[Parent] = phase[Parent]
    BY <1>1, <1>3, FamilyAssumption DEF FamilyInv, Sets, Nodes
  <2>2. ParentOK'
    BY <1>1, <2>1, ParentSame DEF FamilyInv
  <2>3. ASSUME NEW c \in Children PROVE ChildOK(c)'
    <3>1. CASE c # n
      BY <1>1, <2>1, <3>1, ChildSame DEF FamilyInv, Sets, Nodes, Reported
    <3>2. CASE c = n
      <4>1. Before(n) /\ queue[n] \in {<<>>, <<Data(n)>>}
        BY <1>1, <1>3 DEF FamilyInv, ChildOK, Ended
      <4>2. Before(n)'
        BY <1>1, <2>1, <4>1 DEF Before, Reported
      <4>3. queue'[n] \in {<<Stopped(n)>>, <<Data(n), Stopped(n)>>}
        BY <1>1, <4>1, SmallSequences DEF FamilyInv, Sets
      <4>4. phase'[n] = "rcvEnded"
        BY <1>1 DEF FamilyInv, Sets
      <4> QED BY <3>2, <4>2, <4>3, <4>4 DEF ChildOK
    <3> QED BY <3>1, <3>2
  <2> QED BY <1>2, <2>2, <2>3 DEF FamilyInv
<1>4. CASE n = Parent
  <2>1. /\ phase'[Parent] = "rcvEnded"
        /\ queue'[Parent] = Append(queue[Parent], Stopped(Parent))
    BY <1>1, <1>4 DEF FamilyInv, Sets
  <2>2. /\ ~ StopComes /\ ~ AllowComes /\ Parent \notin stopDeal \cup ending
        /\ queue[Parent] \in Seq(ForParent) /\ Distinct(queue[Parent])
    BY <1>1, <1>4 DEF FamilyInv, ParentOK, Ended
  <2>3. /\ queue'[Parent] \in Seq(ForParent) /\ Distinct(queue'[Parent])
        /\ \A x : In(x, queue'[Parent])
                  <=> In(x, queue[Parent]) \/ x = Stopped(Parent)
    BY <2>1, <2>2, AppendFacts DEF ForParent, StopComes
  <2>4. StopComes' /\ ~ AllowComes'
    BY <2>2, <2>3, MessagesDiffer DEF StopComes, AllowComes, Nodes
  <2>5. ParentOK'
    BY <1>1, <2>1, <2>2, <2>3, <2>4 DEF ParentOK
  <2>6. ASSUME NEW c \in Children PROVE ChildOK(c)'
    <3>1. c # Parent /\ (Reported(c)' <=> Reported(c))
      BY <2>3, MessagesDiffer, FamilyAssumption DEF Reported, Nodes
    <3> QED BY <1>1, <1>4, <3>1, ChildSame DEF FamilyInv, Sets, Nodes
  <2> QED BY <1>2, <2>5, <2>6 DEF FamilyInv
<1> QED BY <1>3, <1>4 DEF Nodes

\* A node the dealer is done with goes on to its end.
LEMMA InvLate ==
  ASSUME FamilyInv, NEW n \in Nodes, EndSnd(n) \/ Destroy(n)
  PROVE  FamilyInv'
<1>1. /\ UNCHANGED dealer /\ requests' \subseteq requests /\ UNCHANGED reason
      /\ n \in requests' => phase'[n] # "destroyed"
      /\ \A x \in Nodes \ {n} : phase'[x] = phase[x]
      /\ Ended(n) /\ Ended(n)' /\ phase' \in [Nodes -> Phases]
  BY DEF FamilyInv, Sets, EndSnd, Destroy, Advance, director, Ended, Phases
<1>2. Sets'
  BY <1>1 DEF FamilyInv, Sets, dealer
<1>3. ParentOK'
  <2>1. CASE n = Parent
    BY <1>1, <2>1 DEF FamilyInv, ParentOK, StopComes, AllowComes, Ended, dealer
  <2>2. CASE n # Parent
    BY <1>1, <2>2, ParentSame DEF FamilyInv, dealer, Nodes
  <2> QED BY <2>1, <2>2
<1>4. ASSUME NEW c \in Children PROVE ChildOK(c)'
  <2>1. CASE n = c
    <3>1. After(c) /\ c \in ending /\ queue[c] = <<>>
      BY <1>1, <2>1 DEF FamilyInv, ChildOK, Ended
    <3> QED BY <1>1, <2>1, <3>1 DEF ChildOK, After, Reported, dealer
  <2>2. CASE n # c
    BY <1>1, <2>2, ChildSame DEF FamilyInv, dealer, Nodes, Reported
  <2> QED BY <2>1, <2>2
<1> QED BY <1>2, <1>3, <1>4 DEF FamilyInv

\* A node whose task has been sent END, with nothing left to handle.
LEMMA InvEndDeal ==
  ASSUME FamilyInv, NEW n \in Nodes, EndDeal(n)
  PROVE  FamilyInv'
<1>1. /\ UNCHANGED <<dealer, director>> /\ n \in ending /\ phase[n] = "closed"
      /\ phase' = [phase EXCEPT ![n] = "dealEnded"]
  BY DEF EndDeal, Advance
<1>2. Sets' /\ Ended(n)'
  BY <1>1 DEF FamilyInv, Sets, dealer, director, Phases, Ended
<1>3. ParentOK'
  <2>1. CASE n = Parent
    <3>1. kids = {} /\ queue[Parent] = <<>>
      BY <1>1, <2>1 DEF FamilyInv, ParentOK, Ended
    <3> QED BY <1>1, <1>2, <2>1, <3>1 DEF FamilyInv, ParentOK, dealer
  <2>2. CASE n # Parent
    BY <1>1, <2>2, ParentSame DEF FamilyInv, Sets, dealer, Nodes
  <2> QED BY <2>1, <2>2
<1>4. ASSUME NEW c \in Children PROVE ChildOK(c)'
  <2>1. CASE n = c
    <3>1. After(c) /\ c \in ending /\ queue[c] = <<>>
      BY <1>1, <2>1 DEF FamilyInv, ChildOK, Before, Ended
    <3> QED BY <1>1, <1>2, <2>1, <3>1 DEF ChildOK, After, Reported, dealer
  <2>2. CASE n # c
    BY <1>1, <2>2, ChildSame DEF FamilyInv, Sets, dealer, Nodes, Reported
  <2> QED BY <2>1, <2>2
<1> QED BY <1>2, <1>3, <1>4 DEF FamilyInv

\* Only a child handles a datagram.
LEMMA InvDealMsg ==
  ASSUME FamilyInv, NEW n \in Nodes, NEW ok \in BOOLEAN, DealMsg(n, ok)
  PROVE  FamilyInv'
<1>1. /\ queue[n] # <<>> /\ Head(queue[n]).type = "DATA"
      /\ \A x \in Nodes : queue'[x] = IF x = n THEN Tail(queue[x]) ELSE queue[x]
      /\ queue' = [x \in Nodes |-> queue'[x]]
      /\ UNCHANGED <<phase, reason, kids, ending>>
      /\ requests' \subseteq requests \cup {n} /\ stopDeal' \subseteq stopDeal \cup {n}
      /\ stopDeal \subseteq stopDeal'
  BY DEF DealMsg, Handling, Nothing
<1>2. n # Parent
  <2>1. SUFFICES ASSUME n = Parent PROVE FALSE
    OBVIOUS
  <2>2. Head(queue[Parent]) \in ForParent
    BY <1>1, <2>1, ParentHead DEF FamilyInv
  <2> QED BY <1>1, <2>1, <2>2 DEF ForParent, Exit, Stopped, Allowed, Msg
<1>3. n \in Children /\ queue'[Parent] = queue[Parent]
  BY <1>1, <1>2 DEF Nodes
<1>4. \/ queue[n] = <<Data(n)>> /\ phase[n] = "open"
      \/ queue[n] = <<Data(n), Stopped(n)>> /\ phase[n] = "rcvEnded"
  <2>1. queue[n] # <<>> /\ queue[n] # <<Stopped(n)>> /\ queue[n] # <<Allowed(n)>>
    BY <1>1, SmallSequences, MessagesDiffer
  <2> QED BY <1>3, <2>1 DEF FamilyInv, ChildOK
<1>5. Sets'
  BY <1>1, <1>3, <1>4 DEF FamilyInv, Sets
<1>6. ParentOK'
  <2>1. Parent \in stopDeal' <=> Parent \in stopDeal
    BY <1>1, <1>2
  <2> QED BY <1>1, <1>3, <2>1, ParentSame DEF FamilyInv
<1>7. ASSUME NEW c \in Children PROVE ChildOK(c)'
  <2>1. CASE n # c
    BY <1>1, <1>3, <2>1, ChildSame DEF FamilyInv, Nodes, Reported
  <2>2. CASE n = c
    <3>1. Before(n) /\ Before(n)'
      BY <1>1, <1>3, <1>4 DEF FamilyInv, ChildOK, Before, Reported, Ended
    <3>2. queue'[n] = Tail(queue[n])
      BY <1>1
    <3>3. CASE queue[n] = <<Data(n)>> /\ phase[n] = "open"
      BY <1>1, <2>2, <3>1, <3>2, <3>3, SmallSequences DEF ChildOK
    <3>4. CASE queue[n] = <<Data(n), Stopped(n)>> /\ phase[n] = "rcvEnded"
      BY <1>1, <2>2, <3>1, <3>2, <3>4, SmallSequences DEF ChildOK
    <3> QED BY <1>4, <3>3, <3>4
  <2> QED BY <2>1, <2>2
<1> QED BY <1>5, <1>6, <1>7 DEF FamilyInv

\* The report joins the queue of the parent, which still names the child.
LEMMA InvCloseChild ==
  ASSUME FamilyInv, NEW n \in Nodes, CloseChild(n)
  PROVE  FamilyInv'
<1>1. /\ n \in Children /\ n # Parent
      /\ queue[n] # <<>> /\ Head(queue[n]).type = "STOP"
      /\ queue'[n] = Tail(queue[n])
      /\ queue'[Parent] = Append(queue[Parent], Exit(n))
      /\ \A x \in Children \ {n} : queue'[x] = queue[x]
      /\ queue' = [x \in Nodes |-> queue'[x]]
      /\ phase' = [phase EXCEPT ![n] = "closed"]
      /\ stopDeal' = stopDeal \cup {n} /\ UNCHANGED <<requests, reason, kids, ending>>
  BY FamilyAssumption DEF CloseChild, Handling, Report, Exit, director, Nodes
<1>2. queue[n] = <<Stopped(n)>> /\ phase[n] = "rcvEnded" /\ Before(n)
  BY <1>1, SmallSequences, MessagesDiffer DEF FamilyInv, ChildOK
<1>3. Sets'
  BY <1>1 DEF FamilyInv, Sets, Phases
<1>4. /\ queue'[Parent] \in Seq(ForParent) /\ Distinct(queue'[Parent])
      /\ \A x : In(x, queue'[Parent]) <=> In(x, queue[Parent]) \/ x = Exit(n)
  BY <1>1, <1>2, AppendFacts DEF FamilyInv, ParentOK, ForParent, Before, Reported
<1>5. ParentOK'
  <2>1. phase'[Parent] = phase[Parent] /\ kids # {}
    BY <1>1, <1>2 DEF FamilyInv, Sets, Before, Nodes
  <2>2. (StopComes' <=> StopComes) /\ (AllowComes' <=> AllowComes)
    BY <1>4, MessagesDiffer DEF StopComes, AllowComes, Nodes
  <2>3. Parent \in stopDeal' <=> Parent \in stopDeal
    BY <1>1
  <2> QED BY <1>1, <1>4, <2>1, <2>2, <2>3 DEF FamilyInv, ParentOK
<1>6. ASSUME NEW c \in Children PROVE ChildOK(c)'
  <2>1. CASE n # c
    <3>1. Reported(c)' <=> Reported(c)
      BY <1>4, <2>1, MessagesDiffer DEF Reported
    <3>2. phase'[c] = phase[c]
      BY <1>1, <2>1 DEF FamilyInv, Sets, Nodes
    <3> QED BY <1>1, <2>1, <3>1, <3>2, ChildSame DEF FamilyInv
  <2>2. CASE n = c
    <3>1. queue'[n] = <<>> /\ Reported(n)' /\ phase'[n] = "closed"
      BY <1>1, <1>2, <1>4, SmallSequences DEF Reported, FamilyInv, Sets
    <3> QED BY <1>1, <1>2, <2>2, <3>1 DEF ChildOK, Before
  <2> QED BY <2>1, <2>2
<1> QED BY <1>3, <1>5, <1>6 DEF FamilyInv

\* The parent allows its own exit only when it has no child left.
LEMMA InvCloseParent ==
  ASSUME FamilyInv, CloseParent
  PROVE  FamilyInv'
<1>1. /\ queue[Parent] # <<>> /\ Head(queue[Parent]).type = "STOP"
      /\ queue'[Parent] = IF kids = {} THEN Append(Tail(queue[Parent]), Allowed(Parent))
                                      ELSE Tail(queue[Parent])
      /\ \A x \in Children : queue'[x] = queue[x]
      /\ queue' = [x \in Nodes |-> queue'[x]]
      /\ phase' = [phase EXCEPT ![Parent] = "closed"]
      /\ stopDeal' = stopDeal \cup {Parent} /\ requests' = requests \cup kids
      /\ UNCHANGED <<reason, kids, ending>>
  BY FamilyAssumption DEF CloseParent, Handling, Allow, Nothing, Allowed, Nodes
<1>2. Head(queue[Parent]) = Stopped(Parent)
  BY <1>1, ParentHead DEF FamilyInv, ForParent, Stopped, Allowed, Exit, Msg
<1>3. StopComes /\ ~ AllowComes /\ Parent \notin ending
  BY <1>1, <1>2, ParentHead DEF FamilyInv, ParentOK, StopComes
<1>4. Sets'
  <2>1. \A c \in kids : phase'[c] # "destroyed"
    BY <1>1, FamilyAssumption DEF FamilyInv, Sets, ChildOK, After, Ended, Nodes
  <2> QED BY <1>1, <2>1 DEF FamilyInv, Sets, Phases, Nodes
<1>5. /\ Tail(queue[Parent]) \in Seq(ForParent) /\ Distinct(Tail(queue[Parent]))
      /\ \A x : In(x, Tail(queue[Parent]))
                <=> In(x, queue[Parent]) /\ x # Stopped(Parent)
  BY <1>1, <1>2, ParentHead DEF FamilyInv
<1>6. /\ queue'[Parent] \in Seq(ForParent) /\ Distinct(queue'[Parent])
      /\ \A x : In(x, queue'[Parent]) <=>
                \/ In(x, queue[Parent]) /\ x # Stopped(Parent)
                \/ kids = {} /\ x = Allowed(Parent)
  <2>1. Allowed(Parent) \in ForParent /\ ~ In(Allowed(Parent), Tail(queue[Parent]))
    BY <1>3, <1>5 DEF ForParent, AllowComes
  <2>2. LET q == Append(Tail(queue[Parent]), Allowed(Parent))
        IN  /\ q \in Seq(ForParent) /\ Distinct(q)
            /\ \A x : In(x, q) <=> In(x, Tail(queue[Parent])) \/ x = Allowed(Parent)
    <3> DEFINE rest == Tail(queue[Parent])
    <3>1. rest \in Seq(ForParent) /\ Distinct(rest) /\ ~ In(Allowed(Parent), rest)
      BY <1>5, <2>1
    <3> HIDE DEF rest
    <3>2. LET q == Append(rest, Allowed(Parent))
          IN  /\ q \in Seq(ForParent) /\ Distinct(q)
              /\ \A x : In(x, q) <=> In(x, rest) \/ x = Allowed(Parent)
      BY <2>1, <3>1, AppendFacts
    <3> QED BY <3>2 DEF rest
  <2>3. CASE kids = {}
    BY <1>1, <1>5, <2>2, <2>3, MessagesDiffer DEF Nodes
  <2>4. CASE kids # {}
    BY <1>1, <1>5, <2>4
  <2> QED BY <2>3, <2>4
<1>7. ParentOK'
  <2>1. ~ StopComes' /\ (AllowComes' <=> kids = {})
    BY <1>3, <1>6, MessagesDiffer DEF StopComes, AllowComes, Nodes
  <2>2. phase'[Parent] = "closed"
    BY <1>1 DEF FamilyInv, Sets, Nodes
  <2> QED BY <1>1, <1>3, <1>6, <2>1, <2>2 DEF ParentOK
<1>8. ASSUME NEW c \in Children PROVE ChildOK(c)'
  <2>1. Reported(c)' <=> Reported(c)
    BY <1>6, MessagesDiffer DEF Reported, Nodes
  <2>2. phase'[c] = phase[c]
    BY <1>1, FamilyAssumption DEF FamilyInv, Sets, Nodes
  <2> QED BY <1>1, <2>1, <2>2, ChildSame DEF FamilyInv
<1> QED BY <1>4, <1>7, <1>8 DEF FamilyInv

\* The child is struck off and allowed to exit; the last one lets the parent go.
LEMMA InvOnChildExit ==
  ASSUME FamilyInv, NEW c \in Nodes, OnChildExit(c)
  PROVE  FamilyInv'
<1> DEFINE last == kids \subseteq {c} /\ Parent \in stopDeal
<1>1. /\ queue[Parent] # <<>> /\ Head(queue[Parent]).type = "CHILD_EXIT"
      /\ Head(queue[Parent]).node = c
  BY DEF OnChildExit, Handling
<1>2. Head(queue[Parent]) = Exit(c) /\ c \in Children /\ Reported(c)
  BY <1>1, ParentHead DEF FamilyInv, ForParent, Stopped, Allowed, Exit, Msg, Reported
<1>3. phase[c] = "closed" /\ c \in kids /\ c \notin ending /\ queue[c] = <<>>
  BY <1>2 DEF FamilyInv, ChildOK, Before, After
<1>4. /\ queue'[Parent] = IF last THEN Append(Tail(queue[Parent]), Allowed(Parent))
                                  ELSE Tail(queue[Parent])
      /\ queue'[c] = Append(<<>>, Allowed(c))
      /\ \A x \in Children \ {c} : queue'[x] = queue[x]
      /\ queue' = [x \in Nodes |-> queue'[x]] /\ kids' = kids \ {c}
      /\ UNCHANGED <<phase, requests, reason, stopDeal, ending>>
  BY <1>2, <1>3, FamilyAssumption
  DEF OnChildExit, Handling, Allow, Allowed, Nodes, director, FamilyInv, Sets
<1>5. Sets'
  BY <1>4 DEF FamilyInv, Sets
<1>6. /\ Tail(queue[Parent]) \in Seq(ForParent) /\ Distinct(Tail(queue[Parent]))
      /\ \A x : In(x, Tail(queue[Parent])) <=> In(x, queue[Parent]) /\ x # Exit(c)
  BY <1>1, <1>2, ParentHead DEF FamilyInv
<1>7. \/ ~ AllowComes /\ Parent \notin ending /\ phase[Parent] # "closed"
           /\ Parent \notin stopDeal
      \/ phase[Parent] = "closed" /\ ~ StopComes /\ Parent \in stopDeal
           /\ Parent \notin ending /\ ~ AllowComes
  BY <1>1, <1>3 DEF FamilyInv, ParentOK
<1>8. /\ queue'[Parent] \in Seq(ForParent) /\ Distinct(queue'[Parent])
      /\ \A x : In(x, queue'[Parent]) <=>
                \/ In(x, queue[Parent]) /\ x # Exit(c)
                \/ last /\ x = Allowed(Parent)
  <2>1. Allowed(Parent) \in ForParent /\ ~ In(Allowed(Parent), Tail(queue[Parent]))
    BY <1>6, <1>7 DEF ForParent, AllowComes
  <2>2. LET q == Append(Tail(queue[Parent]), Allowed(Parent))
        IN  /\ q \in Seq(ForParent) /\ Distinct(q)
            /\ \A x : In(x, q) <=> In(x, Tail(queue[Parent])) \/ x = Allowed(Parent)
    <3> DEFINE rest == Tail(queue[Parent])
    <3>1. rest \in Seq(ForParent) /\ Distinct(rest) /\ ~ In(Allowed(Parent), rest)
      BY <1>6, <2>1
    <3> HIDE DEF rest
    <3>2. LET q == Append(rest, Allowed(Parent))
          IN  /\ q \in Seq(ForParent) /\ Distinct(q)
              /\ \A x : In(x, q) <=> In(x, rest) \/ x = Allowed(Parent)
      BY <2>1, <3>1, AppendFacts
    <3> QED BY <3>2 DEF rest
  <2> HIDE DEF last
  <2>3. CASE last
    BY <1>4, <1>6, <2>2, <2>3, MessagesDiffer DEF Nodes
  <2>4. CASE ~ last
    BY <1>4, <1>6, <2>4
  <2> QED BY <2>3, <2>4
<1>9. ParentOK'
  <2>1. (StopComes' <=> StopComes) /\ (AllowComes' <=> AllowComes \/ last)
    BY <1>8, MessagesDiffer DEF StopComes, AllowComes, Nodes
  <2>2. last => kids' = {}
    BY <1>4
  <2>3. kids' = {} => kids \subseteq {c}
    BY <1>4
  <2> HIDE DEF last
  <2>4. CASE Parent \notin stopDeal
    <3>1. ~ last
      BY <2>4 DEF last
    <3> QED BY <1>1, <1>4, <1>7, <1>8, <2>1, <2>4, <3>1 DEF FamilyInv, ParentOK
  <2>5. CASE phase[Parent] = "closed" /\ ~ StopComes /\ Parent \in stopDeal
               /\ Parent \notin ending /\ ~ AllowComes
    <3>1. last <=> kids' = {}
      BY <2>2, <2>3, <2>5 DEF last
    <3> QED BY <1>4, <1>8, <2>1, <2>5, <3>1 DEF ParentOK
  <2> QED BY <1>7, <2>4, <2>5
<1>10. ASSUME NEW d \in Children PROVE ChildOK(d)'
  <2>1. CASE d # c
    <3>1. Reported(d)' <=> Reported(d)
      BY <1>8, <2>1, MessagesDiffer DEF Reported, Nodes
    <3> QED BY <1>4, <2>1, <3>1, ChildSame DEF FamilyInv
  <2>2. CASE d = c
    <3>1. ~ Reported(c)' /\ queue'[c] = <<Allowed(c)>>
      BY <1>4, <1>8, MessagesDiffer, SmallSequences DEF Reported, Nodes
    <3> QED BY <1>3, <1>4, <2>2, <3>1 DEF ChildOK, After
  <2> QED BY <2>1, <2>2
<1> QED BY <1>5, <1>9, <1>10 DEF FamilyInv

\* When the exit is allowed nothing else is in the queue.
LEMMA InvAllowExit ==
  ASSUME FamilyInv, NEW n \in Nodes, AllowExit(n)
  PROVE  FamilyInv'
<1>1. /\ queue[n] # <<>> /\ Head(queue[n]).type = "ALLOW_EXIT"
      /\ \A x \in Nodes : queue'[x] = IF x = n THEN Tail(queue[x]) ELSE queue[x]
      /\ queue' = [x \in Nodes |-> queue'[x]] /\ ending' = ending \cup {n}
      /\ UNCHANGED <<phase, requests, reason, kids, stopDeal>>
  BY DEF AllowExit, Handling, Nothing, director
<1>2. Sets'
  BY <1>1 DEF FamilyInv, Sets
<1>3. CASE n = Parent
  <2>1. Head(queue[Parent]) = Allowed(Parent)
    BY <1>1, <1>3, ParentHead DEF FamilyInv, ForParent, Stopped, Allowed, Exit, Msg
  <2>2. /\ AllowComes /\ queue[Parent] # <<>>
        /\ Tail(queue[Parent]) \in Seq(ForParent) /\ Distinct(Tail(queue[Parent]))
        /\ \A x : In(x, Tail(queue[Parent]))
                  <=> In(x, queue[Parent]) /\ x # Allowed(Parent)
    BY <1>1, <1>3, <2>1, ParentHead DEF FamilyInv, AllowComes
  <2>3. phase[Parent] = "closed" /\ ~ StopComes /\ kids = {}
    BY <2>2 DEF FamilyInv, ParentOK
  <2>4. \A c \in Children : ~ Reported(c)
    BY <2>3 DEF FamilyInv, ChildOK, Before, After
  <2>5. Tail(queue[Parent]) = <<>>
    <3>1. SUFFICES ASSUME Tail(queue[Parent]) # <<>> PROVE FALSE
      OBVIOUS
    <3>2. /\ Head(Tail(queue[Parent])) \in ForParent
          /\ In(Head(Tail(queue[Parent])), Tail(queue[Parent]))
      BY <2>2, <3>1, TailFacts
    <3> QED BY <2>2, <2>3, <2>4, <3>2 DEF ForParent, Reported, StopComes
  <2>6. queue'[Parent] = <<>> /\ \A x : ~ In(x, queue'[Parent])
    BY <1>1, <1>3, <2>5 DEF In
  <2>7. ParentOK'
    BY <1>1, <1>3, <2>3, <2>6 DEF ParentOK, Distinct
  <2>8. ASSUME NEW c \in Children PROVE ChildOK(c)'
    <3>1. c # n /\ (Reported(c)' <=> Reported(c))
      BY <1>3, <2>4, <2>6, FamilyAssumption DEF Reported
    <3> QED BY <1>1, <3>1, ChildSame DEF FamilyInv, Nodes
  <2> QED BY <1>2, <2>7, <2>8 DEF FamilyInv
<1>4. CASE n \in Children
  <2>1. n # Parent /\ queue'[Parent] = queue[Parent]
    BY <1>1, <1>4, FamilyAssumption DEF Nodes
  <2>2. queue[n] = <<Allowed(n)>> /\ phase[n] = "closed" /\ After(n)
    <3>1. /\ queue[n] # <<>> /\ queue[n] # <<Data(n)>> /\ queue[n] # <<Stopped(n)>>
          /\ queue[n] # <<Data(n), Stopped(n)>>
      BY <1>1, SmallSequences, MessagesDiffer
    <3> QED BY <1>4, <3>1 DEF FamilyInv, ChildOK
  <2>3. ParentOK'
    BY <1>1, <2>1, ParentSame DEF FamilyInv
  <2>4. ASSUME NEW c \in Children PROVE ChildOK(c)'
    <3>1. CASE c # n
      BY <1>1, <2>1, <3>1, ChildSame DEF FamilyInv, Nodes, Reported
    <3>2. CASE c = n
      <4>1. queue'[n] = <<>> /\ After(n)'
        BY <1>1, <2>1, <2>2, SmallSequences DEF After, Reported
      <4> QED BY <1>1, <2>2, <3>2, <4>1 DEF ChildOK
    <3> QED BY <3>1, <3>2
  <2> QED BY <1>2, <2>3, <2>4 DEF FamilyInv
<1> QED BY <1>3, <1>4 DEF Nodes

\* Every step keeps the invariant.
LEMMA InvNext == FamilyInv /\ [Next]_vars => FamilyInv'
<1> SUFFICES ASSUME FamilyInv, [Next]_vars PROVE FamilyInv'
  OBVIOUS
<1>1. CASE UNCHANGED vars
  <2>1. Sets'
    BY <1>1 DEF FamilyInv, Sets, vars, director, dealer
  <2>2. ParentOK' /\ \A c \in Children : ChildOK(c)'
    BY <1>1, ChildSame, ParentSame DEF FamilyInv, vars, dealer, Reported
  <2> QED BY <2>1, <2>2 DEF FamilyInv
<1>2. CASE Next
  <2>1. PICK n \in Nodes : Ask(n) \/ Recv(n) \/ Serve(n) \/ Closing(n)
    BY <1>2 DEF Next
  <2>2. CASE Ask(n) \/ Recv(n)
    BY <2>2, InvAsk, InvRecv
  <2>3. CASE Closing(n)
    BY <2>3, InvUnreg, InvEndRcv, InvLate DEF Closing
  <2>4. CASE Serve(n)
    BY <2>4, InvDealMsg, InvCloseChild, InvCloseParent, InvOnChildExit,
       InvAllowExit, InvEndDeal DEF Serve
  <2> QED BY <2>1, <2>2, <2>3, <2>4
<1> QED BY <1>1, <1>2

\* The invariant holds in every state.
LEMMA FamilyInvHolds == Spec => []FamilyInv
BY InvInit, InvNext, PTL DEF Spec

-----------------------------------------------------------------------------
(* The properties of Family follow.                                        *)

\* The messages a child can be sent.
ForChild(c) == {Data(c), Stopped(c), Allowed(c)}

\* Its queue holds no others.
LEMMA ChildQueue ==
  ASSUME NEW c \in Children, ChildOK(c)
  PROVE  queue[c] \in Seq(ForChild(c))
<1>1. /\ <<>> \in Seq(ForChild(c)) /\ <<Data(c)>> \in Seq(ForChild(c))
      /\ <<Stopped(c)>> \in Seq(ForChild(c)) /\ <<Allowed(c)>> \in Seq(ForChild(c))
      /\ <<Data(c), Stopped(c)>> \in Seq(ForChild(c))
  BY DEF ForChild
<1> QED BY <1>1 DEF ChildOK

\* The invariant gives the types.
LEMMA InvTypes == FamilyInv => TypeOK
<1> SUFFICES ASSUME FamilyInv PROVE TypeOK
  OBVIOUS
<1>1. ASSUME NEW n \in Nodes
      PROVE  /\ queue[n] \in Seq(Messages)
             /\ \A i \in DOMAIN queue[n] :
                  IF queue[n][i].type = "CHILD_EXIT"
                  THEN n = Parent /\ queue[n][i].node # n
                  ELSE queue[n][i].node = n
  <2>1. CASE n = Parent
    <3>1. queue[n] \in Seq(ForParent)
      BY <2>1 DEF FamilyInv, ParentOK
    <3>2. ForParent \subseteq Messages
      BY DEF ForParent, Messages, Exit, Stopped, Allowed, Msg, Nodes
    <3>3. \A m \in ForParent : IF m.type = "CHILD_EXIT" THEN m.node # Parent
                                                       ELSE m.node = Parent
      BY FamilyAssumption DEF ForParent, Exit, Stopped, Allowed, Msg
    <3>4. \A i \in DOMAIN queue[n] : queue[n][i] \in ForParent
      BY <3>1
    <3>5. queue[n] \in Seq(Messages)
      BY <3>1, <3>2
    <3> QED BY <2>1, <3>3, <3>4, <3>5
  <2>2. CASE n \in Children
    <3>1. queue[n] \in Seq(ForChild(n))
      BY <2>2, ChildQueue DEF FamilyInv
    <3>2. ForChild(n) \subseteq Messages
      BY DEF ForChild, Messages, Data, Stopped, Allowed, Msg
    <3>3. \A m \in ForChild(n) : m.type # "CHILD_EXIT" /\ m.node = n
      BY DEF ForChild, Data, Stopped, Allowed, Msg
    <3>4. \A i \in DOMAIN queue[n] : queue[n][i] \in ForChild(n)
      BY <3>1
    <3>5. queue[n] \in Seq(Messages)
      BY <3>1, <3>2
    <3> QED BY <3>3, <3>4, <3>5
  <2> QED BY <2>1, <2>2 DEF Nodes
<1>2. queue \in [Nodes -> Seq(Messages)]
  BY <1>1 DEF FamilyInv, Sets
<1> QED BY <1>1, <1>2 DEF FamilyInv, Sets, TypeOK

\* The invariant gives the property.
LEMMA InvLeft == FamilyInv => NobodyLeftTooSoon
<1> SUFFICES ASSUME FamilyInv PROVE NobodyLeftTooSoon
  OBVIOUS
<1>1. Ended(Parent) => queue[Parent] = <<>> /\ kids = {}
  BY DEF FamilyInv, ParentOK, Ended
<1>2. ASSUME NEW c \in Children, Ended(c)
      PROVE  c \notin kids /\ queue[c] = <<>> /\ ~ Reported(c)
  BY <1>2 DEF FamilyInv, ChildOK, After, Ended
<1>3. ASSUME NEW c \in Children, kids = {}
      PROVE  phase[c] \notin {"open", "rcvEnded"}
  BY <1>3 DEF FamilyInv, ChildOK, Before, Ended
<1>4. ASSUME NEW n \in Nodes, Ended(n)
      PROVE  /\ n \notin kids /\ Mail(n) = {}
             /\ \A m \in Mail(Parent) : m.node # n
             /\ phase[n] = "destroyed" => n \notin requests
  <2>1. queue[n] = <<>> => Mail(n) = {}
    BY DEF Mail
  <2>2. phase[n] = "destroyed" => n \notin requests
    BY DEF FamilyInv, Sets
  <2>3. CASE n = Parent
    BY <1>1, <1>4, <2>1, <2>2, <2>3
  <2>4. CASE n \in Children
    <3>1. ASSUME NEW m \in Mail(Parent) PROVE m.node # n
      <4>1. PICK i \in DOMAIN queue[Parent] : m = queue[Parent][i]
        BY <3>1 DEF Mail
      <4>2. queue[Parent] \in Seq(ForParent)
        BY DEF FamilyInv, ParentOK
      <4>3. m \in ForParent /\ In(m, queue[Parent])
        BY <4>1, <4>2 DEF In
      <4>4. m # Exit(n)
        BY <1>2, <1>4, <2>4, <4>3 DEF Reported
      <4> QED BY <2>4, <4>3, <4>4, FamilyAssumption
              DEF ForParent, Exit, Stopped, Allowed, Msg
    <3> QED BY <1>2, <1>4, <2>1, <2>2, <2>4, <3>1
  <2> QED BY <2>3, <2>4 DEF Nodes
<1> QED BY <1>1, <1>3, <1>4 DEF NobodyLeftTooSoon

(* Types: every message in the queues is one its owner can be sent.        *)
THEOREM TypeCorrect == Spec => []TypeOK
BY FamilyInvHolds, InvTypes, PTL

(* Nobody is let go too soon: neither a child the parent still refers to   *)
(* nor the parent while a child has yet to report to it.                   *)
THEOREM LeftInTime == Spec => []NobodyLeftTooSoon
BY FamilyInvHolds, InvLeft, PTL
=============================================================================
