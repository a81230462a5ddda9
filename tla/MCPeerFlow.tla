------------------------------ MODULE MCPeerFlow ------------------------------
(* PeerFlow with one connection dialled by the node and one it accepted. *)
EXTENDS PeerFlow

CONSTANTS dialled, accepted
MCConns == {dialled, accepted}
MCDialled == {dialled}
===============================================================================
