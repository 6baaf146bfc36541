------------------------------- MODULE Family -------------------------------
(***************************************************************************)
(* The RTSP listener and the two RTP nodes it has created (its children),  *)
(* which close together.  A child that is closed reports to its parent     *)
(* (CHILD_EXIT) and goes on only when the parent has struck it off and     *)
(* allows it (ALLOW_EXIT); a parent that is closed asks for the close of   *)
(* its children and allows its own exit when it has none left.             *)
(*                                                                         *)
(* All of this is in the dealer, which handles the messages in the queues  *)
(* of its nodes one by one.  A queue stands for m_deal_que_tmp and         *)
(* m_deal_que, and the dealer may turn to another node after any message,  *)
(* not only when m_deal_que is empty.  What receiver, sender and director  *)
(* do to close one node is NodeLife's matter: here they take a node        *)
(* through the phases of NodeClose.                                        *)
(***************************************************************************)
EXTENDS Naturals, Sequences

CONSTANTS
  Parent,    \* the listener (RtspListenerPriv)
  Children   \* the nodes m_rtp_node and m_rtcp_node

ASSUME FamilyAssumption == Parent \notin Children

Nodes == Children \cup {Parent}

VARIABLES
  phase,     \* the phase of NodeClose each node is in
  requests,  \* the nodes with an UNREG_TASK in m_cmd_que
  reason,    \* the nodes with a m_reason
  kids,      \* the children the pointers of the parent name
  stopDeal,  \* the nodes with m_stop_deal
  queue,     \* the messages for the dealer of each node
  ending     \* the nodes whose m_deal_task has been sent END

director == <<requests, reason>>
dealer   == <<kids, stopDeal, queue, ending>>
vars     == <<phase, director, dealer>>

Msg(type, n) == [type |-> type, node |-> n]

\* creatRtspListener: the nodes have been registered.
Init ==
  /\ phase = [n \in Nodes |-> "open"]
  /\ requests = {} /\ reason = {}
  /\ kids = Children
  /\ stopDeal = {} /\ ending = {}
  /\ queue = [n \in Nodes |-> <<>>]

Advance(n, from, to) == phase[n] = from /\ phase' = [phase EXCEPT ![n] = to]

Dispatch(n, m) == queue' = [queue EXCEPT ![n] = Append(@, m)]

-----------------------------------------------------------------------------
(* The other threads.                                                      *)

\* Receiver or sender meet an error on the socket.
Ask(n) ==
  /\ phase[n] = "open" /\ n \notin requests \cup reason
  /\ requests' = requests \cup {n}
  /\ UNCHANGED <<phase, reason, dealer>>

\* procUnregCmd: the first request counts.
ProcUnregCmd(n) ==
  /\ n \in requests
  /\ requests' = requests \ {n}
  /\ reason' = reason \cup {n}
  /\ UNCHANGED <<phase, dealer>>

\* A datagram is dispatched; one at a time is enough.
Recv(n) ==
  /\ n \in Children /\ phase[n] = "open"
  /\ queue[n] = <<>>
  /\ Dispatch(n, Msg("DATA", n))
  /\ UNCHANGED <<phase, director, kids, stopDeal, ending>>

\* The receiver has let go of the node, and the director tells the dealer.
EndRcv(n) ==
  /\ n \in reason
  /\ Advance(n, "open", "rcvEnded")
  /\ Dispatch(n, Msg("STOP", n))
  /\ UNCHANGED <<director, kids, stopDeal, ending>>

EndSnd(n) == Advance(n, "dealEnded", "sndEnded") /\ UNCHANGED <<director, dealer>>

\* The director destroys the node, with the requests in its queue.
Destroy(n) ==
  /\ Advance(n, "sndEnded", "destroyed")
  /\ requests' = requests \ {n}
  /\ UNCHANGED <<reason, dealer>>

-----------------------------------------------------------------------------
(* The dealer.                                                             *)

\* The next message of node n; what its handler dispatches is in sends.
Handling(n, type, sends) ==
  /\ queue[n] # <<>> /\ Head(queue[n]).type = type
  /\ queue' = [x \in Nodes |->
       LET rest == IF x = n THEN Tail(queue[x]) ELSE queue[x]
       IN IF x \in DOMAIN sends THEN Append(rest, sends[x]) ELSE rest]

Nothing    == [x \in {} |-> Msg("DATA", x)]
Allow(T)   == [x \in T |-> Msg("ALLOW_EXIT", x)]
Report(c)  == [x \in {Parent} |-> Msg("CHILD_EXIT", c)]

\* dealMsg of a child, which may fail (closeTask).
DealMsg(n, ok) ==
  /\ Handling(n, "DATA", Nothing)
  /\ IF ok \/ n \in stopDeal THEN UNCHANGED <<requests, stopDeal>>
     ELSE /\ requests' = requests \cup {n}
          /\ stopDeal' = stopDeal \cup {n}
  /\ UNCHANGED <<phase, reason, kids, ending>>

\* Mutant: the arguments of signalChildExit are swapped.
CloseChildSwapped(n) ==
  /\ n \in Children
  /\ Handling(n, "STOP", [x \in {n} |-> Msg("CHILD_EXIT", Parent)])
  /\ phase' = [phase EXCEPT ![n] = "closed"]
  /\ stopDeal' = stopDeal \cup {n}
  /\ UNCHANGED <<director, kids, ending>>

\* procStopCmd of a child: onClose calls signalChildExit.
CloseChild(n) ==
  /\ n \in Children
  /\ Handling(n, "STOP", Report(n))
  /\ phase' = [phase EXCEPT ![n] = "closed"]
  /\ stopDeal' = stopDeal \cup {n}
  /\ UNCHANGED <<director, kids, ending>>

\* Mutant: the parent does not wait for its children.
CloseParentAtOnce ==
  /\ Handling(Parent, "STOP", Allow({Parent}))
  /\ phase' = [phase EXCEPT ![Parent] = "closed"]
  /\ stopDeal' = stopDeal \cup {Parent}
  /\ requests' = requests \cup kids
  /\ UNCHANGED <<reason, kids, ending>>

\* procStopCmd of the parent: rtsp_onClose.
CloseParent ==
  /\ Handling(Parent, "STOP", IF kids = {} THEN Allow({Parent}) ELSE Nothing)
  /\ phase' = [phase EXCEPT ![Parent] = "closed"]
  /\ stopDeal' = stopDeal \cup {Parent}
  /\ requests' = requests \cup kids
  /\ UNCHANGED <<reason, kids, ending>>

\* Mutant: whether children are left is looked at before one is struck off.
OnChildExitEarly(c) ==
  /\ queue[Parent] # <<>> /\ Head(queue[Parent]).node = c
  /\ Handling(Parent, "CHILD_EXIT", Allow((kids \cap {c}) \cup
       {n \in {Parent} : kids = {} /\ n \in stopDeal}))
  /\ kids' = kids \ {c}
  /\ UNCHANGED <<phase, director, stopDeal, ending>>

\* handleChildExit of a report of c: rtsp_onChildExit.
OnChildExit(c) ==
  /\ queue[Parent] # <<>> /\ Head(queue[Parent]).node = c
  /\ Handling(Parent, "CHILD_EXIT", Allow((kids \cap {c}) \cup
       {n \in {Parent} : kids \subseteq {c} /\ n \in stopDeal}))
  /\ kids' = kids \ {c}
  /\ UNCHANGED <<phase, director, stopDeal, ending>>

AllowExit(n) ==
  /\ Handling(n, "ALLOW_EXIT", Nothing)
  /\ ending' = ending \cup {n}
  /\ UNCHANGED <<phase, director, kids, stopDeal>>

\* procTaskEnd.
EndDeal(n) ==
  /\ n \in ending
  /\ Advance(n, "closed", "dealEnded")
  /\ UNCHANGED <<director, dealer>>

-----------------------------------------------------------------------------
Serve(n) ==
  \/ \E ok \in BOOLEAN : DealMsg(n, ok)
  \/ CloseChild(n)
  \/ n = Parent /\ (CloseParent \/ \E c \in Nodes : OnChildExit(c))
  \/ AllowExit(n) \/ EndDeal(n)

Closing(n) == ProcUnregCmd(n) \/ EndRcv(n) \/ EndSnd(n) \/ Destroy(n)

Next == \E n \in Nodes : Ask(n) \/ Recv(n) \/ Serve(n) \/ Closing(n)

\* The close of one node goes on (CloseCompletes of NodeLife), and the dealer
\* serves each of its tasks (EventsServed of TaskPool).
Fairness == \A n \in Nodes : WF_vars(Serve(n)) /\ WF_vars(Closing(n))

Spec     == Init /\ [][Next]_vars
FairSpec == Spec /\ Fairness

-----------------------------------------------------------------------------
(* Properties.                                                             *)

Phases == {"open", "rcvEnded", "closed", "dealEnded", "sndEnded", "destroyed"}

Messages == [type : {"DATA", "STOP", "CHILD_EXIT", "ALLOW_EXIT"}, node : Nodes]

\* Types of the variables; a report names a child, any other message the
\* node it is for.
TypeOK ==
  /\ phase \in [Nodes -> Phases]
  /\ requests \subseteq Nodes /\ reason \subseteq Nodes
  /\ kids \subseteq Children /\ stopDeal \subseteq Nodes /\ ending \subseteq Nodes
  /\ queue \in [Nodes -> Seq(Messages)]
  /\ \A n \in Nodes : \A i \in DOMAIN queue[n] :
       IF queue[n][i].type = "CHILD_EXIT" THEN n = Parent /\ queue[n][i].node # n
                                          ELSE queue[n][i].node = n

Ended(n) == phase[n] \in {"dealEnded", "sndEnded", "destroyed"}

Mail(n) == {queue[n][i] : i \in DOMAIN queue[n]}

(* Nobody is let go too soon: when the dealer is done with a node, no      *)
(* pointer and no report of a child names it and no message waits for it;  *)
(* a node that is destroyed is asked nothing; and the dealer is not done   *)
(* with the parent before onClose of every child, which reports to the     *)
(* parent, has run and been answered.                                      *)
NobodyLeftTooSoon ==
  /\ \A n \in Nodes : Ended(n) =>
       /\ n \notin kids
       /\ Mail(n) = {}
       /\ \A m \in Mail(Parent) : m.node # n
       /\ phase[n] = "destroyed" => n \notin requests
  /\ Ended(Parent) =>
       /\ kids = {}
       /\ \A c \in Children : phase[c] \notin {"open", "rcvEnded"}

(* Nobody waits for ever: a child that fails is destroyed though its       *)
(* parent goes on, and when the parent fails the whole family is           *)
(* destroyed, whichever of them are being closed already.                  *)
FamilyCloses ==
  /\ \A c \in Children : c \in reason ~> phase[c] = "destroyed"
  /\ Parent \in reason ~> \A n \in Nodes : phase[n] = "destroyed"
=============================================================================
