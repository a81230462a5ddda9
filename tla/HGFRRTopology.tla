---------------------------- MODULE HGFRRTopology ----------------------------
(***************************************************************************)
(* A deployment coming up: one process per id, each of which runs          *)
(* form_structure on its own when it boots.  No process sees another one's *)
(* tables; that the tables of different processes fit together, whatever   *)
(* the parameters, is what the properties say.                             *)
(***************************************************************************)
EXTENDS FormStructure

CONSTANT Parameters  \* the command lines a deployment may be started with

ASSUME ParametersAssumption == Parameters \subseteq Params

\* IterOrder(s) is s in another order: its place i is taken by s[place[i]].
Rearranged(s, place) ==
  /\ \A i \in DOMAIN s : place[i] \in DOMAIN s
  /\ \A j \in DOMAIN s : \E i \in DOMAIN s : place[i] = j
  /\ IterOrder(s) = [i \in DOMAIN s |-> s[place[i]]]

\* Iteration over a map of so many contact nodes has an order that does not
\* depend on their ids: true of up to two, which std::unordered_map returns
\* in reverse; of more it depends on their hashes.
OrderByPlace ==
  \A p \in Parameters : \E place : \A l \in 1 .. 5, s \in Seq([Levels -> Nat]) :
    Len(s) <= NumContacts(p)[l + 1] => Rearranged(s, place[Len(s)])

\* The two conversions count alike: up to the first level from which on there is
\* one region of each kind, the radixes are the same.
SameRadixes(p) ==
  \E top \in Levels :
    /\ \A l \in 0 .. 4 : l < top => RadixIn(p)[l] = RadixOut(p)[l]
    /\ top < 5 => p.num_continents = 1 /\ \A l \in top .. 4 : RadixOut(p)[l] = 1

VARIABLES
  params,  \* the command line all processes were started with
  tables   \* tables[n]: the rings of n, empty until n has booted

boot_vars == <<params, tables>>

Booted == {n \in Nodes(params) : tables[n] # <<>>}

BootInit ==
  /\ params \in Parameters
  /\ tables = [n \in Nodes(params) |-> <<>>]

\* BaseApp::start up to the start of the server.
Boot(n) ==
  /\ tables[n] = <<>>
  /\ tables' = [tables EXCEPT ![n] = form_structure(params, n)]
  /\ UNCHANGED params

BootNext == \E n \in Nodes(params) : Boot(n)

BootSpec == BootInit /\ [][BootNext]_boot_vars

-----------------------------------------------------------------------------
(* Properties.                                                             *)

\* Two nodes are in one ring of level l when the fields above l agree.
SameRegion(m, n, l) == \A f \in Levels : f > l => m[f] = n[f]

\* The levels at which a booted node has a ring with members.
Resides(n) == {l \in Levels : get_peer_list_size(tables[n], l) >= 0}

\* form_structure, run by each process on its own, gives all residents of one
\* ring the same peer list and contact nodes: relays index it independently.
RingAgreement ==
  \A m, n \in Booted : \A l \in Resides(m) \cap Resides(n) :
    SameRegion(m, n, l) => tables[m][l + 1].peer_list = tables[n][l + 1].peer_list
                           /\ tables[m][l + 1].contact_nodes = tables[n][l + 1].contact_nodes

\* Climbing from contact node to contact node never gets stuck: a contact node
\* of a ring is in the next ring up unless the ring is the topmost one.
ContactsClimb ==
  \A n \in Booted : \A l \in Resides(n) :
    /\ tables[n][l + 1].contact_nodes # {}
    /\ (\E m \in Booted : l + 1 \in Resides(m)) =>
         \A c \in tables[n][l + 1].contact_nodes \cap Booted : l + 1 \in Resides(c)

\* Every entry of a table carries the port the process with that id listens
\* on, although the two are computed by different functions.
PortsMatch ==
  \A i \in 0 .. NumNodes(params) - 1 :
    \A n \in Booted : \A l \in Resides(n) :
      LET id == convert_ID_int_to_string(params, i) IN
      id \in ToSet(tables[n][l + 1].peer_list) =>
        PortOf(params, id) = (params.starting_port_number + i) % 2^16
=============================================================================
