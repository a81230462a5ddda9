# A verification of the overlay network repository

This directory models the peer-to-peer networks of this repository in TLA+: the
fractal-ring overlay of `libgfrp2p` (HGFRR), the gossip network it is compared
with, the UDP server both run on, and `pydevp2p`, the Python network stack below
Ethereum: Kademlia discovery, the encrypted session, the multiplexer, peers and
the peer manager. The models are checked with TLC on small instances; the central
facts about the ring and gossip broadcasts, the UDP server, the encrypted session, the
multiplexer, the peer, the peer manager and the flow of data through a peer are
proved with TLAPS for every instance.

## 1. The system

### `libgfrp2p` (C++)

| Part | State | Operations | Talks to |
|---|---|---|---|
| `BaseApp` (`app.cpp`), `utils.cpp` | the command line, the node's id | `form_structure`, id conversions, `start` | fills `NodeTable`, starts `PeerManager` |
| `NodeTable` | one `Ring` per level the node resides in: peer list, contact nodes, neighbours | getters by level | read by `PeerManager` |
| `PeerManager` | broadcast counter, message table, log file | `broadcast`, `broadcast_up`, `broadcast_within_ring`, `receive`, `on_receive`, `send` | sends datagrams; called by the server's handler thread and by the main thread |
| `AsyncUDPServer`, `AtomicQueue` | socket, queue, mutex, condition variable, two threads | `receive`, `handle`, `send` | calls `Receiver::receive` |
| `PeerManagerETH`, `NodeTableETH`, `BaseAppETH` | routing table, ids seen (push), data held (pull) | `broadcast`, `receive`, `on_receive` in PUSH and PULL mode | datagrams |
| `MessageTable` | records of sent and received messages | `insert_sent`, `insert_received` | called by `send` and `receive` |
| `EvalServer`, `EvalClient` | configuration, node list, the current manager | init, config, table pages, broadcast, log upload | TCP; creates peer managers |
| contact node election, liveness checks, `discovery.cpp` | - | not called, or commented out | - |

### `pydevp2p` (Python, one thread, gevent greenlets)

| Part | State | Operations | Talks to |
|---|---|---|---|
| `RoutingTable`, `KBucket` | buckets with nodes and replacement caches | `add_node`, `split`, `remove_node`, `neighbours` | owned by `KademliaProtocol` |
| `KademliaProtocol` | expected pongs, open lookups | `bootstrap`, `update`, `ping`, `find_node`, `recv_*` | the wire (`DiscoveryProtocol`) |
| `DiscoveryProtocol`, `NodeDiscovery` | known nodes and their addresses, the UDP server | `start`, `stop`, `receive`, `send_*`, `recv_*` | UDP; Kademlia handlers |
| `Multiplexer` | three queues and a sequence id per protocol, decode buffer, chunk buffers | `add_packet`, `pop_frames`, `decode` | owned by a session |
| `RLPxSession`, `MultiplexedSession` | keys, nonces, macs; egress and packet queues | auth/ack handshake, `encrypt`, `decrypt_*`, `add_message`, `add_packet` | the greenlets of a `Peer` |
| `Peer`, `P2PProtocol`, `ConnectionMonitor`, `BaseProtocol` | protocols in use, hello received, deferred stops, last pong | ingress, egress and decoder loops, `receive_hello`, `send_packet`, `stop` | the session; services; the peer manager |
| `PeerManager` | list of peers, TCP server, bootstrap and discovery greenlets | `connect`, `on_hello_received`, `start`, `stop`, `broadcast` | peers; discovery |
| `app`, `service`, `crypto`, `upnp`, `slogging`, `examples` | configuration | start-up, primitives, I/O | - |

`adapter` (Go), `deprecated`, `experiments` and the paper are not part of a build.

### What is hard, and what makes each part correct

* **Ring broadcast.** Every relay computes its receivers from its own place in a
  list and from the order in the message. No node remembers what it has seen.
  Each node must be reached exactly once, whatever order datagrams arrive in, and
  a lost datagram must cost only the subtree below it.
* **Ring structure.** Every process computes its tables alone. Relays address
  each other by list position, so all members of a ring need the same list.
* **Fractal routing.** A request climbs by random contact nodes, then rings are
  served downwards by whichever node resides in them. All nodes must receive the
  data, and no more often than the place where the climb ends explains: nobody
  remembers what was received.
* **UDP server.** Two threads share a queue; no datagram may be lost or overtaken
  and no wake-up missed.
* **Gossip.** Copies race and each consumes a time-to-live; forwarding must die out
  but not before the network is covered. In pull mode offers, requests and data of
  several holders interleave; a request to a node without the data would read past
  the end of a map.
* **Kademlia.** Buckets split, refuse, check and evict in one handler, and pongs
  come late or repeated. The buckets must stay a partition, lookups exact, and
  nobody may be evicted who was not silent.
* **Discovery.** There is no retransmission, nodes come back at other addresses,
  and third parties report addresses.
* **Multiplexer.** The window a frame was cut for is not the window it is sent
  under; chunks of several packets interleave; TCP cuts the stream anywhere while
  each header may be decrypted only once.
* **Session.** Handshake messages and frames share a stream without delimiters.
  Both ends must derive the same secrets and lose nothing at the switch.
* **Peer.** Five greenlets of a peer may stop it, and stopping yields; both ends
  number the commands of their common protocols on their own; a silent remote must
  be noticed.
* **Flow of data.** A peer does not read while it writes, and both ends may write
  more than the connection holds. A broadcast waits for the writers of its peers,
  which may be stopped meanwhile. Nobody may wait for ever.
* **Peer manager.** Dialling takes time, connections are made from both sides at
  once, and each end decides on a hello alone.

The hazards are listed line by line in `PROJECT.json`.

## 2. Modules

| Module | Models |
|---|---|
| `SpanningTree` | the arithmetic of `broadcast_within_ring`: which exponents are served (`Hops`), which index is addressed (`Target`) |
| `OnceDelivery` | abstract: each receiver is given the message at most once |
| `RingBroadcast`, `RingProofs` | one broadcast in one ring: `Start`, `Receive`, `Lose`; proofs about it and about the tables of `HGFRRTopology` |
| `FormStructure` | ids, `form_structure`, the `NodeTable` getters |
| `HGFRRTopology` | processes booting one by one, each with `form_structure`; its proofs are in `RingProofs` |
| `HGFRRBroadcast` | `PeerManager` on those tables: `Broadcast`, `Receive`, `Drop` |
| `FifoChannel`, `AsyncUDPServer`, `AsyncUDPServerProofs` | abstract channel; the two threads, queue, mutex and condition variable; proof of the refinement |
| `GossipTable`, `GossipPush`, `GossipPull` | `form_structure` of the baseline; its two modes |
| `Gossip`, `GossipProofs` | a network in either mode; proofs about time-to-live, requests and coverage |
| `KademliaTable` | `KBucket` and `RoutingTable` as functions on tables, and what a sound table is |
| `KademliaProtocol` | the handlers of `KademliaProtocol` as functions of its state |
| `Kademlia`, `KademliaProofs` | one node and remotes that send it anything at any time; proofs about its routing table |
| `Discovery` | several nodes with `KademliaProtocol` over UDP: start, stop, receive, lose, time |
| `Multiplexer`, `MultiplexerProofs` | a multiplexer and the one at the other end of the stream; proofs of its dequeuing cycle and of what arrives |
| `MuxSession`, `MuxSessionProofs` | both ends of a connection: handshake, secrets, frames, segments of TCP; proofs of its safety properties |
| `PeerSession`, `PeerSessionProofs` | both ends of an established session: hello, dispatch, monitor, stop; proofs of its safety properties |
| `PeerManager`, `PeerManagerProofs` | the managers of a few nodes: dialling, accepting, deciding, stopping; proofs about the decisions and about `PeerFlow` |
| `PeerFlow` | sender and ingress greenlets at both ends of connections of bounded capacity, and `PeerManager.broadcast`; the proof about `safe_to_read` is in `PeerManagerProofs` |
| `MC*` | instances for TLC |

`Kademlia` and `Discovery` both extend `KademliaProtocol`: the first drives one node
with everything the network could send it, the second composes nodes that only send
what the code sends. `PeerManager` uses of a peer only the stages and promises that
`PeerSession` establishes (a peer whose remote is gone stops in the end), and
`PeerSession` starts where `MuxSession` ends, with both hellos on the wire in
order. `PeerFlow` opens up what these three take for granted, that what is sent is
read in the end: it has the writes and reads of the greenlets, and no contents.
`Gossip` puts both modes of the gossip baseline under one specification, and
`MCHGFRR` booting and booted deployments, and `MCKademlia` one node among arbitrary remotes
and nodes that join each other; the initial state chooses.

Operators named "Mutant" or "Mutation of X" are plausible faults of X; replacing X
by one of them makes TLC find the property named in `PROJECT.json` violated.

### Correspondence, `libgfrp2p`

*Ids* are functions from six levels to numbers, the fields of the 32-digit string.
*Messages* are records with the fields of the wire format that the code reads. The
list `sent_ids` is left out: the only test that reads it is commented out
(`peer_manager.cpp:246`). Message ids, timestamps and simulated delays do not
influence control.

*Random choices* (contact node, gossip receivers, the 99% trial) are
nondeterministic. *Sending to oneself* is a direct call in the code
(`peer_manager.cpp:39`) and part of the same step in `Climb` and `Broadcast`.

*Receiving the data* is what the code reports: at the root of the descent, and when
a message of the node's topmost level arrives. `received` counts these reports.

*The iteration order of `std::unordered_map`*, on which `form_structure` depends, is
the operator constant `IterOrder`. libstdc++ reverses the insertion order of two
keys; from three keys on the order depends on the hashes of the ids.

*`pow(2, i)`* is the constant function `Pow`, assumed to double from 1, so that
the proofs need no exponentiation.

*The network* drops and reorders datagrams. It does not duplicate them: the code
has no protection against that at all, so a duplicate is simply relayed again.
Hash collisions in pull mode are left out.

*Threads of the UDP server* can be interrupted before they have the mutex, inside
the critical section and after it; each such interval is an action. `Wait` releases
the mutex and blocks in one step, as `condition_variable::wait` does; `Wake` may
happen without a notification.

### Correspondence, `pydevp2p`

*Atomicity.* Greenlets switch only where they block, so a handler between two
blocking calls is one action. Blocking calls that matter are cut there: `kill` in
`Peer.stop` (`KillDecoder`, `Finish`), `create_connection` in
`PeerManager.connect`, `sleep` in the monitor and the deferred disconnect.

*Kademlia.* A node is its id. A handler maps a state to the set of its outcomes:
`dict` order decides which timed-out ping comes first, `random.randint` which id of
an idle bucket is looked up (the ends of its range stand for all). A ping is
identified by the hash of its packet, whose only changing field is its expiration
in whole seconds: two pings to one node in one second have the same id
(`PerSecond` units of time make a second). The retry of `add_node` is iterated
`IdBits` times, which is as often as a bucket can split.

*Discovery.* An address is a node and the number of its incarnation. `Learn` is
`get_node`: it takes the sender's address from the datagram, and those in a list of
nodes as they are. Datagrams are handled one by one; the expiry test uses
one clock for all nodes.

*Multiplexer.* Sizes are counted in units of which `Pad` make a cipher block. A
payload is the sequence of its units, named by packet and position, so that any
mixture of packets shows. The cipher is the number of headers and bodies that went
through it. `Frames` is the recursion of `Frame.__init__`, which cuts the excess over
the window from the payload without its command id; `pop_frames_for_protocol` is
the loop of passes over the three queues.

*Session.* A ciphertext is a record only its addressee opens; a mac is its key and
the number of frames it has been fed. TCP cuts every message in two segments and a
read returns up to `MaxRead` of them. Two initial choices are made by the world: the
format of the auth message (this code starts the plain one and understands both)
and whether the dialled key is the listener's.

*Peer.* Time is counted in ping intervals; timers shorter than that have fired
before it passes. The decision of the owner on a hello is free. A service's command
may raise `ProtocolError`, which stops its protocol, or anything else, which stops
the peer. A stopped protocol stays in the peer's list and goes on receiving, so that it
may fail and be stopped again (`errors` counts how often). An end may hang silently, which also stands for a network that
swallows everything. Packets of a stopped peer are lost from any point on.

*Peer manager.* A connection has an id, two ends and a stage at each. `MayDial`
only bounds the number of connections. A listener that has stopped leaves the
connection to be reset; `RemoteGone` stands for every way a peer notices that.

*Flow.* Data is counted in units of 4096 bytes, which is what one `recv` takes; a
connection holds `Capacity` of them each way. `sendall` writes what fits and gives
up control only if something is left (`Write`), so a short message is sent without a
switch and the event is never seen cleared. `Read` is one pass of the ingress loop up
to the next wait, which is for the event or for data. A socket made by
`create_connection(timeout=...)` keeps that timeout, so a write at the dialling end
may time out (`Timeout`); an accepted socket has none. Write errors that occur at
once, without a wait, are among the reasons for `StopBegins`. `Upload` is the loop of
`broadcast` up to the first event that is not set, since nothing before it switches.
A stop is cut at the kills; a sender that stops its own peer sets the event after
that (`failing`), one that is killed while it writes does not.

## 3. Runs

| Run | Instance | Shows |
|---|---|---|
| `ring` | 9 nodes, any starter, any losses | `LossIsolation`, the refinement of `OnceDelivery`, eventual reach |
| `hgfrr` | six command lines with one to six levels, booting; and booted, with one loss: 2 cities x 2 districts x 2 nodes with one contact node per ring and two originators, the same with two contact nodes per ring, and a city of 2 districts x 3 nodes with two contact nodes per ring | members of a ring agree on its list (`RingAgreement`), contact nodes lead upwards, ports in tables are those of processes; losses stay in their regions, every node is reached, and how often (`CopiesExplained`) |
| `udp_server` | four datagrams of two kinds | refinement of `FifoChannel`, delivery |
| `gossip` | push: 5 nodes, time-to-live 3, one loss; pull: 4 nodes, two broadcasts of one content, one loss | coverage up to time-to-live and loss, answerable requests, an end to both exchanges |
| `kademlia` | one node: 4-bit ids, buckets of 2, four remotes, four packets, three units of time; or 3 nodes joining, one restart, one loss | `TableSound`, `NeighboursClosest`, `EvictsOnlySilent`; `QuietMeansKnown`, `NobodyElsesAddress` |
| `discovery_lists` | the same | **violation** of `LearnedFromOwner` |
| `multiplexer` | three protocols, one of them with id 0; three packets of one to three frames, sequence ids modulo 2 | `CycleDequeues`, `InOrderPerQueue`, `AllArrive` |
| `session` | two packets each way, reads of up to two messages | `SecretsAgree`, `FailsOnlyInHandshake`, `HelloThenPackets`, `HellosArrive` |
| `peer` | two services in common and one service packet, or one service in common and two packets; two versions | `RightProtocol`, `EachStartStopped`, `SilenceEnds`, `NoHalfOpen` |
| `peermanager` | 3 nodes, two connections, one stop, one drop | `OneConnectionPerNode`, `AgreedBounded`, `Settles` |
| `peermanager_stop` | the same without drops | **violation** of `StopLeavesNoPeer` |
| `peerflow` | a dialled and an accepted connection that hold one unit, messages of 1 and 3 units, a service message, a broadcast, one stop | `EventRestored`, `WritesEnd`, `BroadcastEnds` |

**Bounds.** A ring of nine is the first whose tree has four levels of exponents and
a last node with a single-bit order, and it is neither a power of two nor one below
it. The booted instance has every kind of ring: a district ring, rings above
it, a topmost ring. One loss is enough to tell apart the levels at which it can
happen; the ring run has all combinations. With two contact nodes per ring a
climb ends at the first node of a district or at another; districts of three have a
node that is in no upper ring, and receives the data up to three times. Four datagrams let the queue hold
several while both threads are inside their loops. The gossip tables are those of
`form_structure` with `TableSize + 2` nodes, the smallest network for which its loop
ends. Four remotes and buckets of two make a bucket split, fill, refuse a sender
and check its head, and three units of time make that check time out before or
after its pong; the remote ids 0, 2, 4, 8 fall into different depths of the tree.
Three nodes are the fewest in which one learns of another through a third. Two packets of
one service let its protocol fail twice before its peer stops. Lengths of
1, 9 and 19 units make packets of one, and of several, frames under every window;
the protocol with id 0 has the shortest only, as P2P's packets have;
two sequence ids with at most two packets under way make ids wrap as early as
2^16 ids with 2^16 packets would. Three units fill a connection that holds one even
if the reader at its other end, already past the event, takes one more: without the
timeout both ends of a connection then block for ever, which the mutant of
`WritesEnd` shows. Two connections are the fewest that can collide,
and a third adds no new way to decide: `on_hello_received` compares one peer with
the list. Time, packets, losses, drops and restarts are bounded by the constants
named `Max...`. Every system comes to rest when these are used up, so the
configurations switch the deadlock check off; that it rests only where it should is
what the liveness properties say.

**Fairness.** Handler threads keep taking datagrams (weak fairness of receiving
any): their loop has no exit. In the UDP server both threads run, and a thread that
keeps asking for the mutex gets it (strong fairness of the lock steps); a wait that
nobody notified need not end, and `recvfrom` need not return. In the Python models
greenlets that are due run (weak fairness of each), TCP delivers what was written as
long as the connection lives, and in `PeerSession` time passes. In `PeerFlow`
senders, readers, stops that have begun and the broadcast continue when they can,
and a write that waits at a dialled socket, or whose remote is gone, fails in the end. `PeerManager` assumes
of a peer whose remote is gone that it stops, which is `NoHalfOpen` of
`PeerSession`. Nothing is assumed about UDP delivering rather than dropping, about
dialling, or about anybody stopping. Some of these are written out as
`[]<>(not enabled) \/ []<><<A>>_v` with the enabling condition in place of
ENABLED, which is what `WF_v(A)` means and is cheaper to evaluate.

### Findings

`PeerManager.stop` (`peermanager.py:233`) iterates over the list from which each
stopped peer removes itself (`peer.py:312`), so that every other peer is skipped; a
connection being dialled when `stop` is called is added to the list afterwards, and
the discovery loop is told of the stop last. `StopLeavesNoPeer` is violated with two
connections, although `service.py:16` makes a service responsible for stopping
what it spawned.

`DiscoveryProtocol.recv_neighbours` (`discovery.py:505`) passes the address in a list of
nodes to `get_node`, which overwrites the address the node is known by
(`discovery.py:232`), although `discovery.py:387` says that "Addresses can only be
learned by ping messages". `LearnedFromOwner` asks for less, some packet of the
node itself, and is violated: a node restarts at another address and is heard of there,
then an older list of a third node brings the old address back, and what is sent to
the node next is lost.

### What the instances leave out on purpose

The properties above hold within these limits; outside them the code does something
else, which the models reproduce when their constants are changed:

* `utils.cpp:133`: `convert_ID_string_to_int` counts cities by the contact nodes of a
  district. Command lines where those of a city differ, with several states, get
  tables with ports nobody listens on. The booting instances have them equal
  where it matters.
* `peer_manager.cpp:245`: with several contact nodes per ring, a climb that ends at a node
  that is not the first of its district has regions served twice, which the run
  `hgfrr` includes and `CopiesExplained` counts. Its two contact nodes of a ring come
  from one region below, as with the scripts; where they come from several
  regions the count is another one. `paper-atc/paper-plan.md:9` has as a design goal that
  messages should have no redundancy.
* `app.cpp:46`: a level with fewer nodes than contact nodes below it becomes an empty
  ring that counts as a node's topmost level, and such nodes never report the data:
  `EventuallyAll` would fail. The empty levels of the instances are the topmost ones.
* `app.cpp:163`: with three contact nodes per ring, hash order decides the order of
  peer lists, and cities disagree about their state ring.
* `kademlia.py:259`: ids at the end of a bucket, which are odd, fail the assertion of
  `bucket_by_node`, or are in no bucket. The `kademlia` instance has even ids; the
  theorems suppose `ScatteredRemotes`, which that is a case of.
* `kademlia.py:474`: replacement caches are never emptied, and every update pings the
  nodes cached in a bucket that is no longer full. Two nodes that have each other in such
  a cache exchange pings and pongs without end. That needs a bucket that overflows and then
  loses nodes; the three joining nodes of the instance fit their buckets, and
  nothing is claimed about the end of the traffic.
* `kademlia.py:395`: "live nodes are never removed" does not hold of a node whose
  older ping timed out while a packet of it is handled; `EvictsOnlySilent` is what
  does.
* `multiplexer.py:309`: protocol id 0 counts as no id, so that a packet of it is cut
  for a window in which it is not counted. Were such packets long, the frames of two
  protocols could be too big for the window both leave each other. Id 0 is
  P2P's (`p2p_protocol.py:67`), whose packets are short: the instance and the theorem
  suppose that they fit the smallest window (`ZeroIsShort`).
* `rlpxcipher.py:357`: an EIP-8 ack read together with the hello behind it is
  refused. `MuxSession` includes this; `FailsOnlyInHandshake` names it.
* `peer.py:225`: safe_to_read is cleared to "make sure we don't accept any data until
  message is sent", but the ingress loop tests the event before it waits for data and
  not after: a reader that was waiting already takes one piece while its peer writes.
  `Read` includes this.
* `peermanager.py:107`: "sequential uploads" are not. `send_<command>` only fills a
  queue; the sender has not run when `broadcast` looks at the event, which is still
  set, so it goes on to the next peer at once, as `Upload` does.
* `peer.py:188`: a service with `max_cmd_id = 0` that is not the last in the order
  gets the packets of its successor; in the `peer` instance it is the last.

## 4. Proofs

**Ring broadcast** (`RingProofs`), for every ring size `N`, every starter,
every order of arrival and every pattern of losses, from `PowAssumption` and
`NAssumption`:

* `RingInvariant`: `IInv` is an invariant;
* `RingAtMostOnce`: no node runs the handler twice; `RingCoverage`: without losses a
  broadcast at rest has reached every node;
* `RingOrders`: the order in a message is its receiver's distance from the starter,
  a conjunct of `IInv` stated by itself;
* `RingLossIsolation`: a broadcast at rest has missed exactly the nodes with a lost
  message on their path;
* `RingImplementsOnce`: the refinement of `OnceDelivery`.

`AtMostOnce` is not inductive: a state with two messages for one node satisfies it.
`IInv` adds that an order always equals the receiver's distance from the starter,
that a message is in one place only (on the wire, lost or handled), and that a node
was sent a message exactly when its *parent* has run the handler. The arithmetic is
in two lemmas: every order but 0 is the sum of a smaller order and a power of two
above it (`ParentExists`), in one way only (`UniqueParent`). Handling a node
then sends exactly to its children, which nobody has sent to before. Induction on
orders is written as the choice of a least counterexample (`LeastNat`). For
`RingLossIsolation` the ancestors of an order are its remainders by powers of two: a
node is cut off when its own message was lost or its parent is cut off
(`ChildCutOff`), since adding a power of two leaves the remainders by smaller ones
alone (`AddPowMod`).

**Gossip** (`GossipProofs`). A network in either mode implements `GossipPush` and
`GossipPull` (`GossipImplementsModes`). *Push mode*, for every size, table and random choice, from
`GossipAssumption`: a relay lowers the time-to-live by one and adds its node to
those that have seen the broadcast, so `HopsBounded` is inductive together with
the types; `GossipNeverExpires` follows because at most `N` nodes can have seen it.
`TTL_ETH` is 10000: networks below that size never lose a datagram to it.
`GossipSuccessorsCover` rests on `CoverInv`: the successor of whoever sent a
broadcast has forwarded it or has a copy on the wire (`Covered`), unless a trial
failed, a datagram was dropped or the time-to-live is used up. A copy leaves the wire
at an expiry, which `HopsBounded` turns into the last case, or at a node that has
forwarded the broadcast. At rest nothing is on the wire, so the nodes that
forwarded contain their successors, and such a set is all nodes (`AllAround`).

*Pull mode*, from `PullAssumption`, for every size,
table, workload and loss: `PullRequestAnswerable`. Alone, that a request finds its
data is not inductive. `PullInv` adds that an offer comes from a node that holds what it
offers, and that whoever is addressed is a node; a request goes back to the offerer,
and `data_map` only grows. The proof is about the bag of datagrams, of which a step
takes one and adds some (`Wire`). `PullMissExplained` adds to it that the wire is a
bag (`WireBag`: taking a datagram leaves all others) and that what a node holds its
successor holds too, or their exchange is under way or failed (`Passed`): an offer
turns into a request, a request into data, data into a stored content, and a step that
stores a content offers it to the next successor, unless the trial fails
(`OfferReaches`).

**UDP server** (`AsyncUDPServerProofs`), for any stream of datagrams:
`ServerImplementsFifo`. What arrived is always what was delivered, followed by the
datagram in the hands of the handler, the queue, and the one in the hands of the
worker (`InTransit`); each step moves one datagram over one of these borders, and
only `RecvFrom` and `Deliver` are seen from outside.

**Session** (`MuxSessionProofs`), for any number of packets and reads of any length:
`SecretsAlwaysAgree`, `FramesNeverRefused` and `PacketsInOrder`. None of them is
inductive: what an end makes of a segment depends on everything both ends did. But
who dialled whom, and in which format, fixes all messages an end will ever write:
its handshake message, then frames whose mac is the key of its direction and their
number. So the invariant is a pair of positions: the queue and the wire of an end are the
stretch of its stream (`Segment`) behind what was read of it (`StreamOK`), and the
reader's session, counters and packets are a function of how far it has read
(`SessionOK`). The number of segments read is not a variable but the
difference of what is queued, waiting and on the wire (`Taken`). That the secrets match is
`KeysMatch`. A read decodes any number of segments in one step; `DecodeFrames` follows
it segment by segment, by a least counterexample, and shows that half a frame more
or less only moves the position. The initiator cannot find a wrong node's ack, since an
ack is on the wire only if the auth was addressed to the responder.

**Multiplexer** (`MultiplexerProofs`), for any protocols, window and lengths of
packets that leave room for a block beside a frame's header when all protocols are active:
`EveryCycleDequeues`, `QueuesArriveInOrder` and `StreamNeverRejected`.

*The cycle.* Frames are cut for the window of the moment, and the window
shrinks when more protocols become active, so that frames of a protocol may not fit any
more; `CycleDequeues` says nothing of frames and is not inductive. The invariant is
`SomeFits`: of any set of protocols, the active ones or those that will be
left of them, one has only frames that fit the window of that many. A new packet
is cut for a window in which all protocols active then are counted (`NewFramesFit`);
popping only takes away (`PopIs`). That protocol's first pass takes a frame
(`PassIs`), and the cycle comes to every protocol (`FollowingIs`). What
`Frame.__init__` and the passes compute by recursion is a function on an interval of
naturals, which exists (`Recursion`), and of which a least counterexample shows that
each frame fits (`RemainIs`, `RestIs`, `FramesFit`) and none is lost (`PoppingIs`).
`ZeroIsShort` is assumed of the protocol with id 0 (see `multiplexer.py:309` above);
the other two theorems do without.

*What arrives.* `InOrderPerQueue` speaks of packets decoded, and what becomes of a
frame in the decoder depends on all frames before it. `DeliveryInvariant` says that
there is, for every packet, a number of units of its body that have come (`got`), such
that the rest of the body is in frames under way and no frame under way has anything else
(`Carried`); that frames of one queue are in the order of their packets and of
their stretches of a body, be they still queued or on the stream (`Lined`); and that
a packet come in part, and only such a packet, has a buffer with its sequence id, which
holds what has come (`Progress`). `Frame.__init__` cuts a body into stretches that
follow each other without a gap (`FramesCut`). A pass moves heads of queues to the end
of the stream, which leaves all of that alone (`MoveKeepsLines`, `PopKeepsFlow`). The
frame at the head of the stream then begins where its packet's body has come to, and all
earlier packets of its queue are complete (`HeadNext`); it finds no buffer if it begins a
packet and its packet's own if it does not, since packets of a protocol that have not
come differ in their sequence ids (`OpenDiffer`). That is where the size of
the cycle of ids enters: with fewer than `SidMod` packets of a protocol
since the oldest that has not come, the next id is another one (`OpenApart`,
`ModApart`). The code counts modulo 2^16 and does not enforce that bound, which is
`MaxSpread` in the model: a chunked packet that so many others overtake would meet its
id again. The decoder's loop is followed step by step (`DecodeReceives`); a header
kept while its body is awaited is counted once (`FrameCounted`), so that no mac is wrong.

**Peer** (`PeerSessionProofs`), for any services, versions, orders of registration,
threshold and traffic: `PacketsReachTheirProtocol`, `EveryStopTold` and
`SilentRemoteEnds`. `IInv` says of a peer that is not stopped that its list of protocols is
P2P alone or P2P and all common services, by name (`DispatchOK`), that those
told of a start are the list, and that each was told of a stop as often as its
protocol failed, which adds up to `EachStartStopped` once the peer has told
everyone in the list (`HistoryOK`), and of a wire that a hello is its first packet and still awaited
(`GoodWire`). That keeps a second hello, and a packet of a service taken
for one (`ServiceTaken`), from connecting services twice. Both ends come to the
same list because `receive_hello` sorts: the i-th common name is the one with
i - 1 before it, and ranks are one to one (`Ranks`, `CommonSorted`). Where the
commands of a protocol begin is a sum on both sides (`SumTypes`), of which the sender's
leaves out protocols without commands; so the sums agree up to and including the
first such protocol (`SameOffset`). `PacketsReachTheirProtocol` therefore assumes
`LastMayBeEmpty`, that no service has its name after that of one without commands: TLC
refutes `RightProtocol` when the two services of the instance change places
(`peer.py:188`). The other two theorems assume nothing of the services. A ping is
sent at every interval at which the last pong is recent enough, so that its age is bounded by the
threshold, the interval under way and one more (`MonitorOK`).

**Peer manager** (`PeerManagerProofs`), for any number of nodes, any `max_peers`,
and any number of connections, drops and stops: `SpecAgreedBounded` and
`SpecOneConnectionPerNode`. A decision looks only at the list of peers, while the
properties speak of all connections at either end. The inductive invariant `IInv`
bridges that: every peer that is alive is in the list of its owner (`LiveListed`), the
list has only peers of its owner (`ListsHold`), an end that has passed the handshake
knows its remote (`AuthFirst`), nobody connects to itself (`TwoEnds`, `DialType`).
Then a limit tested on the list bounds the agreed ones, and a second connection with
the same node is seen by whichever hello comes later.

**Flow** (`PeerManagerProofs`), for any number of connections,
sizes and capacity: `SpecEventRestored`; a cleared event has a writing or failing
sender, as long as the peer is not stopped.

**Topology** (`RingProofs`), for any set of command lines and any order of
booting. The inductive invariant `TablesComputed` is plain: a booted node has the
tables that `form_structure` computes from the common parameters and its own id. The
work is in what different nodes compute. `RingsAgree` compares two runs of the
construction level by level (`RingsAlike`): as long as both go up, their lists of
peers, of contact nodes and of what a map returns are equally long and agree in the
fields up to the level reached. In the fields above it a list has its owner's values,
so residents of one ring have the same lists. `ContactsAlwaysClimb` needs in addition
that the construction goes up from a ring exactly if the node is one of its contact
nodes (`BuiltAll`, `StandsAbove`), and that the contact nodes of a ring stand, in their
own sub-regions, where contact nodes of the ring below stand (`ContactBelow`,
`ContactStands`): they are contact nodes on all levels beneath. For `PortsAlwaysMatch`
the fields of an id are the digits of a number in a mixed radix; the weighted sum of
the digits telescopes (`NestedDiv`, `SumOfFields`), so that the second conversion
undoes the first (`ConvertBack`).

The first two suppose `OrderByPlace`: the order in which a map of contact nodes iterates
is one of places and not of ids. With up to two contact nodes that is a fact about
libstdc++, which returns them in reverse. With three it fails, and the property with it
(`app.cpp:163`, see above). The third supposes `SameRadixes`: both conversions count
alike up to the level from which on there is one region of each kind. It fails for the
command lines of `utils.cpp:133` above. TLC evaluates both hypotheses for the command
lines, list lengths and ids of `MCHGFRR`.

**Kademlia** (`KademliaProofs`), for ids and buckets of any size, any remote nodes
that are scattered, any bootstrap list, and packets, pongs and timeouts in any order:
`TableAlwaysSound` and `OnlySilentEvicted`. A bucket is a block of a power of two of
ids with its nodes and replacements in its range (`BucketOK`), and the blocks of a table
follow each other (`TableOK`). `ScatteredRemotes` says that for some size of
blocks no block holds as many remote nodes as a bucket and none is the last id of
one; random ids of 256 bits meet it for blocks of, say, 2^200 ids. A full bucket is
then bigger than such a block, so that its halves are blocks again (`FullIsBig`,
`SplitKeepsBuckets`), and no node has the id of a bucket's end (`NotTheEnd`): the strict
test of `bucket_by_node` finds the bucket in whose range the node lies
(`BucketOf`), and `depth` meets no nodes that differ in the last bit alone, where the
code raises an exception. The rest follows `update` through its parts. Each of them keeps
`TableOK`, makes no ping overdue, and takes a node out of the table only together with an
overdue ping to it (`Keeps`, which is transitive). That a ping's entry names
the node its id does (`ExpectedOK`) is what the second theorem turns on. The loops of
`split`, `add_node`, `update` and the bootstrap list are functions on an interval of
naturals; that they exist, and what holds in each round, is shown by a least
counterexample.

**Only model-checked:** everything else. Liveness is outside the prover's reach.
`NeighboursClosest` is about what sorting by distance returns, which is data of any
length. `QuietMeansKnown` and `NobodyElsesAddress` of `Discovery` are about several nodes
that run `KademliaProtocol`, with restarts and addresses. `LossContained` and
`CopiesExplained` of the overlay broadcast relate messages over all levels; they stay
with TLC on the booted instances.

## 5. Not modelled

Cryptographic primitives, packet bytes and rlp, CSV and log formats, UPnP, plotting,
deployment scripts, the examples and the Go fragments. In C++: the evaluation
harness, `broadcast_down`, `multicast_to_contact_nodes` and the election (no
caller), and the message records, of which the table never holds more than one
(`message.cpp:142` stores each under the key of a message without a time). In Python:
`FindNodeTask` (no caller), the half second
`NodeDiscovery.send` sleeps after a socket error, and what happens when the services
of a process start in a different order. Data races between the main thread and the
handler thread on the message table are listed as a hazard only.

## 6. Plan

1. *Done:* ring broadcast with proofs, structure, routing, server, gossip.
2. *Done:* Kademlia, discovery, multiplexer, session, peer, peer manager.
3. *Done:* flow of data through peers, and `PeerManager.broadcast`.
4. The send error of discovery as a point where handlers interleave.
5. `EvalBootstrap`: the evaluation server and client (configuration, pages of the
   node list, reconfiguration, lost pages).
6. *Done:* proofs about the ring, the ring tables, gossip in both modes, the UDP server,
   the session, the multiplexer, the peer, the decisions of the peer manager, the
   events of a peer, and the routing table.
