---------------------------- MODULE FormStructure ----------------------------
(***************************************************************************)
(* The fractal ring structure: node ids, the ring tables that a process    *)
(* computes for itself when it boots (BaseApp::form_structure) from the    *)
(* topology parameters on its command line, and the questions NodeTable    *)
(* answers about them.                                                     *)
(*                                                                         *)
(* An id has six fields, numbered by ring level: 0 is the place in the     *)
(* district, then district, city, state, country and continent.            *)
(***************************************************************************)
EXTENDS Integers, SequencesExt, FiniteSetsExt

CONSTANT IterOrder(_)  \* the order in which std::unordered_map iterates over
                       \* ids that were inserted in the given order

Levels == 0 .. 5
NoNode == <<>>  \* NULL

\* The command line: how many nodes a ring of each level is to have and how
\* many of them are contact nodes.  The latter are divisors in the code.
Params ==
  [num_nodes_in_dist : Nat \ {0}, num_cnodes_in_dist : Nat \ {0},
   num_nodes_in_city : Nat, num_cnodes_in_city : Nat \ {0},
   num_nodes_in_state : Nat, num_cnodes_in_state : Nat \ {0},
   num_nodes_in_country : Nat, num_cnodes_in_country : Nat \ {0},
   num_nodes_in_continent : Nat, num_cnodes_in_continent : Nat \ {0},
   num_continents : Nat \ {0}, starting_port_number : Nat]

-----------------------------------------------------------------------------
(* The quantities form_structure derives from its parameters, by level.    *)

\* The nodes the parameters ask for in a ring of levels 1 to 4; 0 ends the
\* construction at that level.
Wanted(p) == <<p.num_nodes_in_city, p.num_nodes_in_state,
               p.num_nodes_in_country, p.num_nodes_in_continent>>

\* The sub-regions a ring of each level spans: the nodes of a district, then
\* num_dists_in_city, num_cities_in_state, num_states_in_country,
\* num_countries_in_continent and num_continents.
Regions(p) == <<p.num_nodes_in_dist,
                p.num_nodes_in_city \div p.num_cnodes_in_dist,
                p.num_nodes_in_state \div p.num_cnodes_in_city,
                p.num_nodes_in_country \div p.num_cnodes_in_state,
                p.num_nodes_in_continent \div p.num_cnodes_in_country,
                p.num_continents>>

\* How many of a ring's first members are its contact nodes.  The state ring
\* is given num_cnodes_in_state and the rings above it one level less each.
NumContacts(p) == <<p.num_cnodes_in_dist, p.num_cnodes_in_city,
                    p.num_cnodes_in_state, p.num_cnodes_in_state,
                    p.num_cnodes_in_country, p.num_cnodes_in_continent>>

-----------------------------------------------------------------------------
(* Ids.                                                                    *)

\* convert_ID_int_to_string: the mixed-radix digits of a node's number; the
\* last field takes what is left over.
RadixOut(p) ==
  [l \in 0 .. 4 |-> IF Regions(p)[l + 1] = 0 THEN 1 ELSE Regions(p)[l + 1]]

\* The weight of each field, from the sizes of the fields below it.
Weights(radix) ==
  LET weight[l \in Levels] == IF l = 0 THEN 1 ELSE weight[l - 1] * radix[l - 1]
  IN  weight

convert_ID_int_to_string(p, id) ==
  LET size == Weights(RadixOut(p))
  IN  [l \in Levels |-> IF l = 5 THEN id \div size[5]
                        ELSE (id \div size[l]) % RadixOut(p)[l]]

\* convert_ID_string_to_int: the weighted sum of the fields, with weights
\* computed without the 0 to 1 correction and with the number of cities taken
\* from the contact nodes of a district.
RadixIn(p) == [l \in 0 .. 4 |->
                 IF l = 2 THEN p.num_nodes_in_state \div p.num_cnodes_in_dist
                 ELSE Regions(p)[l + 1]]

\* Mutation of convert_ID_string_to_int: the weights of district and city are
\* swapped.
SwappedWeights(p, node) ==
  LET weight == Weights(RadixIn(p))
      value(l) == node[l] * weight[IF l \in {1, 2} THEN 3 - l ELSE l]
  IN  value(5) + value(4) + value(3) + value(2) + value(1) + value(0)

convert_ID_string_to_int(p, node) ==
  LET weight == Weights(RadixIn(p))
      value(l) == node[l] * weight[l]
  IN  value(5) + value(4) + value(3) + value(2) + value(1) + value(0)

\* The processes of a deployment: one for each number below the total.
NumNodes(p) == p.num_continents * Weights(RadixOut(p))[5]

Nodes(p) == {convert_ID_int_to_string(p, i) : i \in 0 .. NumNodes(p) - 1}

-----------------------------------------------------------------------------
(* The tables of one process.                                              *)

\* Mutation of PeerList: every process starts the list with its own region.
PeerListFromSelf(p, self, l, contact_nodes_list) ==
  LET w == Len(contact_nodes_list) IN
  [k \in 1 .. Regions(p)[l + 1] * w |->
     [f \in Levels |->
        IF f > l THEN self[f]
        ELSE IF f = l THEN (self[l] + (k - 1) \div w) % Regions(p)[l + 1]
        ELSE contact_nodes_list[((k - 1) % w) + 1][f]]]

\* The members of the ring of level l that self resides in: for every
\* sub-region in turn, the nodes that stand in the same places as the given
\* contact nodes stand in self's own sub-region.
PeerList(p, self, l, contact_nodes_list) ==
  LET w == Len(contact_nodes_list) IN
  [k \in 1 .. Regions(p)[l + 1] * w |->
     LET contact == contact_nodes_list[((k - 1) % w) + 1] IN
     [f \in Levels |-> IF f > l THEN self[f]
                       ELSE IF f = l THEN (k - 1) \div w ELSE contact[f]]]

\* Mutation of ContactNodes: one contact node too few.
ContactNodesShort(p, l, peer_list) ==
  SubSeq(peer_list, 1, Min({NumContacts(p)[l + 1], Len(peer_list)}) - 1)

ContactNodes(p, l, peer_list) ==
  SubSeq(peer_list, 1, Min({NumContacts(p)[l + 1], Len(peer_list)}))

\* Which link of the node with this place in the district the loop assigns when
\* it comes to peer i: an else-if chain, so each i sets one link at most.
LinkAssigned(n, place, i) ==
  IF place = 0 /\ i = n - 1 THEN "predecessor"
  ELSE IF place = n - 1 /\ i = 0 THEN "successor"
  ELSE IF i = place + 1 THEN "successor"
  ELSE IF i = place - 1 THEN "predecessor" ELSE "none"

Link(p, self, link) ==
  LET n == p.num_nodes_in_dist
      set == {i \in 0 .. n - 1 : LinkAssigned(n, self[0], i) = link}
  IN  IF set = {} THEN NoNode ELSE [self EXCEPT ![0] = Max(set)]

Ring(p, self, l, peers) ==
  [peer_list |-> peers,
   contact_nodes |-> ToSet(ContactNodes(p, l, peers)),
   predecessor |-> IF l = 0 THEN Link(p, self, "predecessor") ELSE NoNode,
   successor |-> IF l = 0 THEN Link(p, self, "successor") ELSE NoNode]

\* The contact nodes of the district ring are listed in peer order; from the
\* next level on they are read back out of a map.
DistrictRing(p, self) ==
  LET peers == PeerList(p, self, 0, <<self>>) IN
  [tables |-> <<Ring(p, self, 0, peers)>>,
   contacts |-> ContactNodes(p, 0, peers), returned |-> FALSE]

\* The construction goes up while self is a contact node of the ring below, and
\* returns early at a level the parameters leave empty.
RingAbove(p, self, l, below) ==
  IF below.returned \/ (l < 5 /\ Wanted(p)[l] = 0)
  THEN [below EXCEPT !.returned = TRUE]
  ELSE IF self \notin ToSet(below.contacts) THEN below
  ELSE LET peers == PeerList(p, self, l, below.contacts) IN
       [tables |-> Append(below.tables, Ring(p, self, l, peers)),
        contacts |-> IterOrder(ContactNodes(p, l, peers)), returned |-> FALSE]

\* form_structure: one pass over the levels.
Built(p, self) ==
  LET built[l \in Levels] == IF l = 0 THEN DistrictRing(p, self)
                             ELSE RingAbove(p, self, l, built[l - 1])
  IN  built

form_structure(p, self) == Built(p, self)[5].tables

\* The port a peer is entered with: an unsigned short.
PortOf(p, node) ==
  (p.starting_port_number + convert_ID_string_to_int(p, node)) % 2^16

-----------------------------------------------------------------------------
(* NodeTable: what the broadcast code reads.  A level above the last table  *)
(* is one the node does not reside in.                                     *)

get_top_level(table) == Len(table) - 1

\* Mutation of is_contact_node: off by one.
is_contact_node_strict(table, l) == l < get_top_level(table)

is_contact_node(table, l) == l <= get_top_level(table)

get_contact_nodes(table, l) ==
  IF is_contact_node(table, l) THEN table[l + 1].contact_nodes ELSE {}

\* The last index of the ring's peer_list, -1 when there is none.
get_peer_list_size(table, l) ==
  IF is_contact_node(table, l) THEN Len(table[l + 1].peer_list) - 1 ELSE -1

get_peer_by_order(table, l, order) == table[l + 1].peer_list[order + 1]

get_node_id_in_vector(table, l, id) ==
  LET at == {k \in 0 .. get_peer_list_size(table, l) :
               get_peer_by_order(table, l, k) = id}
  IN  IF at = {} THEN -1 ELSE Min(at)
=============================================================================
