------------------------------ MODULE MCFamily ------------------------------
(* Family: a listener with its two RTP nodes.                              *)
EXTENDS Family

CONSTANTS rtp, rtcp
=============================================================================
