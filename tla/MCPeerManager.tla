---------------------------- MODULE MCPeerManager ----------------------------
(* PeerManager with three nodes, the first of which takes one peer only. *)
EXTENDS PeerManager

CONSTANTS n1, n2, n3
MCNodes == {n1, n2, n3}
MCBoot == [n \in MCNodes |-> {n1} \ {n}]
MCmax_peers == [n \in MCNodes |-> IF n = n1 THEN 1 ELSE 2]
MCMayStop == {n1}
=============================================================================
