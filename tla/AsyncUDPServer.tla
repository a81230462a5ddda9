--------------------------- MODULE AsyncUDPServer ---------------------------
(***************************************************************************)
(* AsyncUDPServer and its AtomicQueue: one thread takes datagrams from the *)
(* socket and queues them, another waits on a condition variable for the   *)
(* queue and hands each datagram to the Receiver (the peer manager), whose *)
(* handler may take any time.                                              *)
(*                                                                         *)
(* A step of a thread is what it does between two points at which the      *)
(* other one can run: before it has the mutex, while it holds it, after it *)
(* has let go of it.  A wait on the condition variable may end without a   *)
(* notification.                                                           *)
(***************************************************************************)
EXTENDS Naturals, Sequences

CONSTANTS
  Data,        \* the datagrams that may arrive
  MaxArrivals  \* bound: how many do

ASSUME ServerAssumption == MaxArrivals \in Nat

None == "none"

VARIABLES
  worker,     \* where the receive_worker thread is
  item,       \* the datagram receive_worker holds
  handler,    \* where the buffer_handler thread is
  front,      \* the datagram buffer_handler holds
  q,          \* AtomicQueue::q
  mutex,      \* who holds buffer_mutex
  notified,   \* buffer_handler's wait was notified
  arrivals,   \* history: what recvfrom returned
  delivered   \* history: what Receiver::receive was called with

vars == <<worker, item, handler, front, q, mutex, notified, arrivals, delivered>>

\* run: both threads start; nothing has arrived.
Init ==
  /\ worker = "recvfrom" /\ item = None
  /\ handler = "lock" /\ front = None
  /\ q = <<>> /\ mutex = None /\ notified = FALSE
  /\ arrivals = <<>> /\ delivered = <<>>

-----------------------------------------------------------------------------
(* receive_worker: AsyncUDPServer::receive and enqueue_and_notify.          *)

RecvFrom(d) ==
  /\ worker = "recvfrom"
  /\ Len(arrivals) < MaxArrivals
  /\ arrivals' = Append(arrivals, d)
  /\ item' = d
  /\ worker' = "lock"
  /\ UNCHANGED <<handler, front, q, mutex, notified, delivered>>

\* A failing recvfrom ends the thread.
RecvError ==
  /\ worker = "recvfrom"
  /\ worker' = "ended"
  /\ UNCHANGED <<item, handler, front, q, mutex, notified, arrivals, delivered>>

WorkerLock ==
  /\ worker = "lock" /\ mutex = None
  /\ mutex' = "worker"
  /\ worker' = "push"
  /\ UNCHANGED <<item, handler, front, q, notified, arrivals, delivered>>

\* Mutations of Push: the handler is not notified; the queue is a stack.
PushSilent ==
  /\ worker = "push"
  /\ q' = Append(q, item)
  /\ item' = None
  /\ worker' = "unlock"
  /\ UNCHANGED <<handler, front, mutex, notified, arrivals, delivered>>

PushFront ==
  /\ worker = "push"
  /\ q' = <<item>> \o q
  /\ item' = None
  /\ notified' = (notified \/ handler = "waiting")
  /\ worker' = "unlock"
  /\ UNCHANGED <<handler, front, mutex, arrivals, delivered>>

\* Push and notify_one, which is lost when nobody waits.
Push ==
  /\ worker = "push"
  /\ q' = Append(q, item)
  /\ item' = None
  /\ notified' = (notified \/ handler = "waiting")
  /\ worker' = "unlock"
  /\ UNCHANGED <<handler, front, mutex, arrivals, delivered>>

WorkerUnlock ==
  /\ worker = "unlock"
  /\ mutex' = None
  /\ worker' = "recvfrom"
  /\ UNCHANGED <<item, handler, front, q, notified, arrivals, delivered>>

-----------------------------------------------------------------------------
(* buffer_handler: AsyncUDPServer::handle and wait_for_dequeue.             *)

HandlerLock ==
  /\ handler = "lock" /\ mutex = None
  /\ mutex' = "handler"
  /\ handler' = "test"
  /\ UNCHANGED <<worker, item, front, q, notified, arrivals, delivered>>

\* The queue is empty: release the mutex and block, in one step.
Wait ==
  /\ handler = "test" /\ q = <<>>
  /\ mutex' = None
  /\ handler' = "waiting"
  /\ notified' = FALSE
  /\ UNCHANGED <<worker, item, front, q, arrivals, delivered>>

\* The wait ends, notified or not, and has the mutex again; the test is repeated.
Wake ==
  /\ handler = "waiting" /\ mutex = None
  /\ mutex' = "handler"
  /\ handler' = "test"
  /\ notified' = FALSE
  /\ UNCHANGED <<worker, item, front, q, arrivals, delivered>>

Pop ==
  /\ handler = "test" /\ q # <<>>
  /\ front' = Head(q)
  /\ q' = Tail(q)
  /\ handler' = "unlock"
  /\ UNCHANGED <<worker, item, mutex, notified, arrivals, delivered>>

HandlerUnlock ==
  /\ handler = "unlock"
  /\ mutex' = None
  /\ handler' = "receive"
  /\ UNCHANGED <<worker, item, front, q, notified, arrivals, delivered>>

\* The call of Receiver::receive returns; the loop starts over.
Deliver ==
  /\ handler = "receive"
  /\ delivered' = Append(delivered, front)
  /\ front' = None
  /\ handler' = "lock"
  /\ UNCHANGED <<worker, item, q, mutex, notified, arrivals>>

-----------------------------------------------------------------------------

WorkerStep == WorkerLock \/ Push \/ WorkerUnlock

HandlerStep ==
  HandlerLock \/ Wait \/ Pop \/ HandlerUnlock \/ Deliver \/ (notified /\ Wake)

Next ==
  \/ \E d \in Data : RecvFrom(d)
  \/ RecvError
  \/ WorkerLock \/ Push \/ WorkerUnlock
  \/ HandlerLock \/ Wait \/ Wake \/ Pop \/ HandlerUnlock \/ Deliver

Spec == Init /\ [][Next]_vars

\* The operating system runs both threads and grants the mutex to a thread that
\* keeps asking for it.  A wait that nobody notified need not end.
FairSpec ==
  /\ Spec
  /\ WF_vars(WorkerStep)
  /\ SF_vars(WorkerLock)
  /\ WF_vars(HandlerStep)
  /\ SF_vars(HandlerLock)
  /\ SF_vars(notified /\ Wake)

-----------------------------------------------------------------------------
(* Properties.                                                             *)

\* The server implements a first-in first-out channel to the Receiver.
Channel == INSTANCE FifoChannel WITH taken <- arrivals, given <- delivered

\* Every behaviour of the two threads is one of the channel.
ImplementsFifo == Channel!Spec

\* Every datagram taken from the socket is eventually handed to the Receiver,
\* also when the receiving thread ends on an error after it.
EventuallyDelivered ==
  \A n \in 1 .. MaxArrivals : Len(arrivals) >= n ~> Len(delivered) >= n
=============================================================================
