---------------------------- MODULE GossipTable ----------------------------
(***************************************************************************)
(* The routing table of a node of the gossip baseline, as                  *)
(* BaseAppETH::form_structure builds it.  Nodes are numbered               *)
(* 0 .. NumNodes - 1 by convert_ID_string_to_int.                          *)
(***************************************************************************)
EXTENDS Integers, SequencesExt, FiniteSetsExt

\* The table of self once TABLE_SIZE_ETH distinct random neighbours have been
\* drawn.  All neighbours are entered in ascending order, except that the one
\* numbered self + 1 goes to the front; the last node's successor is node 0,
\* which comes first anyway.
form_structure_eth(total, self, random) ==
  LET neighbor_ids == random \cup {(self + 1) % total}
      front == neighbor_ids \cap {self + 1}
      list == SetToSortSeq(front, <) \o SetToSortSeq(neighbor_ids \ front, <)
  IN  [i \in 0 .. Len(list) - 1 |-> list[i + 1]]

\* The random draws the rejection loop can end with: never the node itself or
\* its successor.  With fewer than size + 2 nodes there is none and the loop
\* does not end.
RandomNeighbours(total, self, size) ==
  kSubset(size, (0 .. total - 1) \ {self, (self + 1) % total})
=============================================================================
