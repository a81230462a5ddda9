------------------------------ MODULE MCGossip ------------------------------
(* The gossip baseline on networks whose tables form_structure_eth builds.  *)
EXTENDS Gossip, GossipTable

\* With TableSize + 2 nodes the random draws are the remaining nodes.
TableOf(n, size) ==
  [i \in 0 .. n - 1 |-> form_structure_eth(n, i, CHOOSE r \in RandomNeighbours(n, i, size) : TRUE)]

MCTable == TableOf(N, TableSize)
MCPullTable == TableOf(PullN, PullTableSize)
MCOrigins == {1}

\* Two nodes broadcast the same content.
MCWorkload == {<<0, "S">>, <<2, "S">>}
=============================================================================
