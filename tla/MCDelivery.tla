----------------------------- MODULE MCDelivery -----------------------------
(* Delivery on a small instance.                                           *)
EXTENDS Delivery, TLC

CONSTANTS p1, b1, b2

\* A message of two chunks: a full header, then the one-byte header.
TwoChunks == <<[head |-> 2, body |-> 2], [head |-> 1, body |-> 1]>>
=============================================================================
