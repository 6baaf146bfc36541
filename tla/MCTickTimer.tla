---------------------------- MODULE MCTickTimer ----------------------------
(* TickTimer with small wheels.                                            *)
EXTENDS TickTimer, TLC

CONSTANTS t1, t2

TwoTimers == {t1, t2}
\* Zero, both sides of a turn of each wheel, and beyond both.
Edges == {0, TV1 - 1, TV1, TV1 + 1, TV1 * TV2 - 1, TV1 * TV2, TV1 * TV2 + 1,
          TV1 * TV2 + TV1}
Symmetric == Permutations(TwoTimers)
=============================================================================
