--------------------------- MODULE MCRingBroadcast ---------------------------
(* A ring of N nodes for TLC, with pow tabulated for its size.              *)
EXTENDS RingBroadcast

MCPow == [i \in 0 .. MaxExp |-> 2 ^ i]
=============================================================================
