----------------------------- MODULE MCKademlia -----------------------------
(* Kademlia on four-bit ids: one node among remotes that send it anything, *)
(* or, when joining, nodes that send each other what the code sends.       *)
EXTENDS Kademlia, Discovery

\* The remote ids are even, so none is the end of a bucket.
MCRemotes == {0, 2, 4, 8}
MCNodes == {2, 4, 12}
MCPow == [i \in 0 .. IdBits |-> 2 ^ i]
ASSUME ScatteredRemotes

VARIABLE joining

MCInit ==
    /\ Init /\ DiscoveryInit /\ joining \in BOOLEAN
    /\ joining => proto = Proto(0)

MCNext ==
    \/ joining /\ DiscoveryNext /\ UNCHANGED <<joining, vars>>
    \/ ~ joining /\ Next /\ UNCHANGED <<joining, discovery_vars>>

MCSpec == MCInit /\ [][MCNext]_<<joining, vars, discovery_vars>>
=============================================================================
