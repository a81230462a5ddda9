------------------------------- MODULE MCHGFRR -------------------------------
(* The overlay: deployments that are booting, in any order, and others whose *)
(* processes have all booted and broadcast.                                  *)
EXTENDS HGFRRBroadcast, HGFRRTopology

MCPow == [i \in 0 .. MaxExp |-> 2 ^ i]

\* libstdc++ puts a new key in front of its bucket: with two keys that is the
\* reverse of insertion.
Reversed(ids) == Reverse(ids)

\* A command line; the fields are in the order the program takes them.
Args(dist, cdist, city, ccity, state, cstate, country, ccountry, cont, ccont, n) ==
  [num_nodes_in_dist |-> dist, num_cnodes_in_dist |-> cdist,
   num_nodes_in_city |-> city, num_cnodes_in_city |-> ccity,
   num_nodes_in_state |-> state, num_cnodes_in_state |-> cstate,
   num_nodes_in_country |-> country, num_cnodes_in_country |-> ccountry,
   num_nodes_in_continent |-> cont, num_cnodes_in_continent |-> ccont,
   num_continents |-> n, starting_port_number |-> 65530]

\* A node on its own.
Alone == Args(1, 1, 0, 1, 0, 1, 0, 1, 0, 1, 1)

MCParameters ==
  {Alone,
   Args(2, 2, 4, 2, 4, 2, 0, 1, 0, 1, 1),  \* bootstrap_40.sh, narrowed
   Args(3, 2, 4, 2, 0, 1, 0, 1, 0, 1, 1),  \* two districts, two levels
   Args(3, 1, 2, 1, 0, 1, 0, 1, 0, 1, 1),  \* one contact node per district
   Args(2, 1, 2, 1, 2, 1, 0, 1, 0, 1, 1),  \* three levels, one contact each
   Args(1, 1, 2, 1, 1, 1, 2, 1, 2, 1, 1)}  \* all six levels, tiny districts

\* One contact node per ring: two cities of two districts of two nodes.
OneContact == Args(2, 1, 2, 1, 2, 1, 0, 1, 0, 1, 1)

\* Two contact nodes per ring, as the bootstrap scripts ask for: a city of two
\* districts of three nodes, or two cities of two districts of two.
OneCity == Args(3, 2, 4, 2, 2, 2, 0, 1, 0, 1, 1)
TwoCities == Args(2, 2, 4, 2, 4, 2, 0, 1, 0, 1, 1)

MCDeployments == {OneContact, OneCity, TwoCities}

\* The first and the last node broadcast at once, or the last one alone.
MCOrigins(p) ==
  {convert_ID_int_to_string(p, i) :
     i \in IF p = OneContact THEN {0, NumNodes(p) - 1} ELSE {NumNodes(p) - 1}}

VARIABLE booting

\* What the theorems about the tables suppose.
ASSUME /\ \A m, n \in UNION {Nodes(p) : p \in Deployments} : /\ Rearranged(<<m>>, <<1>>)
                               /\ Rearranged(<<m, n>>, <<2, 1>>)
       /\ \A p \in Parameters : /\ \A l \in Levels : NumContacts(p)[l + 1] <= 2
                                 /\ SameRadixes(p)

MCInit ==
  /\ Init /\ BootInit /\ booting \in BOOLEAN
  /\ IF booting THEN args = OneContact ELSE params = Alone

MCNext ==
  \/ booting /\ BootNext /\ UNCHANGED <<booting, vars>>
  \/ ~ booting /\ Next /\ UNCHANGED <<booting, boot_vars>>

MCSpec == MCInit /\ [][MCNext]_<<booting, vars, boot_vars>> /\ WF_vars(~ booting /\ ReceiveAny)
=============================================================================
