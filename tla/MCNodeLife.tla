----------------------------- MODULE MCNodeLife -----------------------------
(* NodeLife on small instances.                                            *)
EXTENDS NodeLife, TLC

CONSTANTS n1, n2

Anywhere == {n1} \X {"rcv", "snd", "deal"}
Polling  == {n1} \X {"rcv", "snd"}
Player   == {n2} \X {"rcv", "snd", "deal"}

\* n1 publishes and reads nothing; n2 plays and says nothing.  n2 is accepted
\* when n1 is known to the receiver and the sender.
PublisherAndPlayer ==
  /\ n2 \in born => n1 \in run["rcv"] \cap run["snd"]
  /\ n1 \notin can["snd"] /\ n2 \notin can["rcv"]

\* Dealer and director of one connection have one task each, for which weak
\* fairness will do: less is assumed than by FairSpec, so that what holds here
\* holds under FairSpec.
OneFairSpec ==
  /\ Spec
  /\ \A th \in Threads : WF_vars(Proceed(th))
  /\ \A th \in {"deal", "cmd"} : WF_vars(Serve(<<n1, th>>))
  /\ \A x \in Tasks : x[2] \in Pollers => SF_vars(Serve(x))
=============================================================================
