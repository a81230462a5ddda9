------------------------------- MODULE Gossip -------------------------------
(***************************************************************************)
(* The gossip baseline in each of its two modes: a network whose nodes run *)
(* PeerManagerETH in the mode their build was configured for.              *)
(***************************************************************************)
EXTENDS GossipPush

CONSTANTS PullN, PullTableSize, PullTable,  \* the network in pull mode
          Workload                          \* what is broadcast in it

VARIABLES mode, pull_net, data_map, pending, pull_skipped, pull_dropped

pull_vars == <<pull_net, data_map, pending, pull_skipped, pull_dropped>>

Pull == INSTANCE GossipPull WITH
  N <- PullN, TableSize <- PullTableSize, Table <- PullTable,
  net <- pull_net, skipped <- pull_skipped, dropped <- pull_dropped

ASSUME PullNetworkAssumption == Pull!PullAssumption

GossipInit == Init /\ Pull!Init /\ mode \in {"push", "pull"}

GossipNext ==
  \/ mode = "push" /\ Next /\ UNCHANGED <<mode, pull_vars>>
  \/ mode = "pull" /\ Pull!Next /\ UNCHANGED <<mode, vars>>

\* ReceiveAny of pull mode is enabled.
CanPull == \E m \in DOMAIN pull_net : m.type = "request" => m.content \in data_map[m.to]

\* Every process keeps taking datagrams from its queue: weak fairness of
\* ReceiveAny in either mode; in push mode it is enabled while there are any.
GossipFairness ==
  /\ []<>(net = {}) \/ []<><<ReceiveAny>>_vars
  /\ []<>(~ CanPull) \/ []<><<Pull!ReceiveAny>>_pull_vars

GossipSpec == GossipInit /\ [][GossipNext]_<<mode, vars, pull_vars>> /\ GossipFairness

-----------------------------------------------------------------------------
\* A request only reaches holders of the data, whose entry it is answered from.
RequestAnswerable == Pull!RequestAnswerable

\* Who misses a content at rest was passed over or lost a datagram.
MissExplained == Pull!MissExplained

\* The exchange of offers, requests and data comes to an end.
PullEnds == Pull!PullEnds
=============================================================================
