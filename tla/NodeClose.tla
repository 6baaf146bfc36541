------------------------------ MODULE NodeClose ------------------------------
(***************************************************************************)
(* What the close protocol promises of a connection: its node is taken     *)
(* apart in one order only.  The receiver lets go of it, then the dealer   *)
(* closes the session on it (onClose), then the dealer, then the sender    *)
(* let go of it, and only then is it destroyed.  NodeLife implements this. *)
(***************************************************************************)
CONSTANT Nodes

Phases == {"none", "open", "rcvEnded", "closed", "dealEnded", "sndEnded",
           "destroyed"}

VARIABLE phase

Init == phase = [n \in Nodes |-> "none"]

Advance(n, from, to) == phase[n] = from /\ phase' = [phase EXCEPT ![n] = to]

Accept(n)  == Advance(n, "none", "open")
EndRcv(n)  == Advance(n, "open", "rcvEnded")
Close(n)   == Advance(n, "rcvEnded", "closed")
EndDeal(n) == Advance(n, "closed", "dealEnded")
EndSnd(n)  == Advance(n, "dealEnded", "sndEnded")
Destroy(n) == Advance(n, "sndEnded", "destroyed")

Closing(n) == Close(n) \/ EndDeal(n) \/ EndSnd(n) \/ Destroy(n)
Next == \E n \in Nodes : Accept(n) \/ EndRcv(n) \/ Closing(n)

Spec == Init /\ [][Next]_phase
=============================================================================
