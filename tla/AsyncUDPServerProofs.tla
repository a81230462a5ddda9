------------------------- MODULE AsyncUDPServerProofs -------------------------
(***************************************************************************)
(* The two threads of AsyncUDPServer implement a first-in first-out        *)
(* channel, for any datagrams and any number of them, any interleaving and *)
(* any spurious wake-ups.                                                  *)
(***************************************************************************)
EXTENDS AsyncUDPServer, SequenceTheorems, TLAPS

\* The datagram receive_worker has and has not queued.
InHand == IF worker \in {"lock", "push"} THEN <<item>> ELSE <<>>

\* The datagram buffer_handler has taken and not yet handed over.
Fetched == IF handler \in {"unlock", "receive"} THEN <<front>> ELSE <<>>

DataType ==
  /\ arrivals \in Seq(Data) /\ delivered \in Seq(Data) /\ q \in Seq(Data)
  /\ worker \in {"lock", "push"} => item \in Data
  /\ handler \in {"unlock", "receive"} => front \in Data

\* What arrived is what was delivered, then what is on its way, in this order.
InTransit == arrivals = (delivered \o Fetched) \o (q \o InHand)

FifoInv == DataType /\ InTransit

-----------------------------------------------------------------------------
\* The parts are sequences of datagrams.
LEMMA Parts ==
  ASSUME DataType
  PROVE  InHand \in Seq(Data) /\ Fetched \in Seq(Data)
<1>1. \A d \in Data : <<d>> \in Seq(Data)
  OBVIOUS
<1>2. <<>> \in Seq(Data)
  OBVIOUS
<1>. QED
  BY <1>1, <1>2 DEF DataType, InHand, Fetched

\* recvfrom: the datagram comes last.
LEMMA RecvKeeps ==
  ASSUME FifoInv, NEW d \in Data, RecvFrom(d)
  PROVE  FifoInv'
<1>1. /\ worker = "recvfrom" /\ worker' = "lock" /\ item' = d /\ arrivals' = Append(arrivals, d)
      /\ handler' = handler /\ front' = front /\ q' = q /\ delivered' = delivered
  BY DEF RecvFrom
<1>2. DataType /\ Fetched \in Seq(Data) /\ <<d>> \in Seq(Data)
  BY Parts DEF FifoInv
<1>3. DataType'
  BY <1>1, <1>2 DEF DataType
<1>4. InHand = <<>> /\ InHand' = <<d>> /\ Fetched' = Fetched
  BY <1>1 DEF InHand, Fetched
<1>5. arrivals = (delivered \o Fetched) \o q
  <2>1. q \o <<>> = q
    BY <1>2, ConcatEmptySeq DEF DataType
  <2>. QED
    BY <1>4, <2>1 DEF FifoInv, InTransit
<1>6. arrivals' = arrivals \o <<d>>
  BY <1>1, <1>2, AppendIsConcat DEF DataType
<1>7. delivered \o Fetched \in Seq(Data)
  BY <1>2, ConcatProperties DEF DataType
<1>8. ((delivered \o Fetched) \o q) \o <<d>> = (delivered \o Fetched) \o (q \o <<d>>)
  BY <1>2, <1>7, ConcatAssociative DEF DataType
<1>. QED
  BY <1>1, <1>3, <1>4, <1>5, <1>6, <1>8 DEF FifoInv, InTransit

\* push: from the thread's hand to the end of the queue.
LEMMA PushKeeps ==
  ASSUME FifoInv, Push
  PROVE  FifoInv'
<1>1. /\ worker = "push" /\ worker' = "unlock" /\ q' = Append(q, item)
      /\ handler' = handler /\ front' = front /\ arrivals' = arrivals /\ delivered' = delivered
  BY DEF Push
<1>2. DataType /\ item \in Data /\ q \in Seq(Data)
  BY <1>1 DEF FifoInv, DataType
<1>3. q' = q \o <<item>> /\ q' \in Seq(Data)
  BY <1>1, <1>2, AppendIsConcat, AppendProperties
<1>4. DataType'
  BY <1>1, <1>2, <1>3 DEF DataType
<1>5. InHand = <<item>> /\ InHand' = <<>> /\ Fetched' = Fetched
  BY <1>1 DEF InHand, Fetched
<1>6. q' \o <<>> = q'
  BY <1>3, ConcatEmptySeq
<1>. QED
  BY <1>1, <1>3, <1>4, <1>5, <1>6 DEF FifoInv, InTransit

\* pop: from the front of the queue to the handler's hand.
LEMMA PopKeeps ==
  ASSUME FifoInv, Pop
  PROVE  FifoInv'
<1>1. /\ handler = "test" /\ handler' = "unlock" /\ q # <<>> /\ q' = Tail(q) /\ front' = Head(q)
      /\ worker' = worker /\ item' = item /\ arrivals' = arrivals /\ delivered' = delivered
  BY DEF Pop
<1>2. DataType /\ InHand \in Seq(Data) /\ q \in Seq(Data) /\ delivered \in Seq(Data)
  BY Parts DEF FifoInv, DataType
<1>3. Head(q) \in Data /\ Tail(q) \in Seq(Data) /\ <<Head(q)>> \in Seq(Data)
  BY <1>1, <1>2, HeadTailProperties
<1>4. DataType'
  BY <1>1, <1>2, <1>3 DEF DataType
<1>5. Fetched = <<>> /\ Fetched' = <<Head(q)>> /\ InHand' = InHand
  BY <1>1 DEF InHand, Fetched
<1>6. q = <<Head(q)>> \o Tail(q)
  <2> DEFINE t == <<Head(q)>> \o Tail(q)
  <2>1. /\ t \in Seq(Data) /\ Len(t) = 1 + Len(Tail(q))
        /\ \A i \in 1 .. 1 + Len(Tail(q)) : t[i] = IF i <= 1 THEN Head(q) ELSE Tail(q)[i - 1]
    BY <1>3, ConcatProperties
  <2>2. Len(q) \in Nat \ {0} /\ Len(Tail(q)) = Len(q) - 1 /\ \A i \in 1 .. Len(q) - 1 : Tail(q)[i] = q[i + 1]
    BY <1>1, <1>2, HeadTailProperties, EmptySeq
  <2> HIDE DEF t
  <2>3. ASSUME NEW i \in 1 .. Len(q) PROVE q[i] = t[i]
    <3>1. CASE i = 1
      BY <1>1, <1>2, <2>1, <2>2, <3>1
    <3>2. CASE i # 1
      <4>1. i - 1 \in 1 .. Len(q) - 1 /\ (i - 1) + 1 = i
        BY <2>2, <3>2
      <4>. QED
        BY <2>1, <2>2, <3>2, <4>1
    <3>. QED
      BY <3>1, <3>2
  <2>4. Len(t) = Len(q)
    BY <2>1, <2>2
  <2>5. q = t
    BY <1>2, <2>1, <2>3, <2>4, SeqEqual
  <2>. QED
    BY <2>5 DEF t
<1>7. (delivered \o <<Head(q)>>) \o (Tail(q) \o InHand) = delivered \o (<<Head(q)>> \o (Tail(q) \o InHand))
  <2>1. Tail(q) \o InHand \in Seq(Data)
    BY <1>2, <1>3, ConcatProperties
  <2>. QED
    BY <1>2, <1>3, <2>1, ConcatAssociative
<1>8. <<Head(q)>> \o (Tail(q) \o InHand) = q \o InHand
  <2>1. <<Head(q)>> \o (Tail(q) \o InHand) = (<<Head(q)>> \o Tail(q)) \o InHand
    BY <1>2, <1>3, ConcatAssociative
  <2>. QED
    BY <1>6, <2>1
<1>9. delivered \o <<>> = delivered
  BY <1>2, ConcatEmptySeq
<1>. QED
  BY <1>1, <1>4, <1>5, <1>7, <1>8, <1>9 DEF FifoInv, InTransit

\* What the handler hands over is the next datagram in the order of arrival.
LEMMA DeliverGives ==
  ASSUME FifoInv, Deliver
  PROVE  FifoInv' /\ Channel!Give
<1>1. /\ handler = "receive" /\ handler' = "lock" /\ delivered' = Append(delivered, front)
      /\ worker' = worker /\ item' = item /\ q' = q /\ arrivals' = arrivals
  BY DEF Deliver
<1>2. /\ DataType /\ InHand \in Seq(Data) /\ q \in Seq(Data) /\ delivered \in Seq(Data)
      /\ front \in Data /\ <<front>> \in Seq(Data) /\ Len(<<front>>) = 1
  BY <1>1, Parts DEF FifoInv, DataType
<1>3. delivered' = delivered \o <<front>> /\ delivered' \in Seq(Data)
  BY <1>1, <1>2, AppendIsConcat, AppendProperties
<1>4. DataType'
  BY <1>1, <1>2, <1>3 DEF DataType
<1>5. Fetched = <<front>> /\ Fetched' = <<>> /\ InHand' = InHand
  BY <1>1 DEF InHand, Fetched
<1>6. delivered' \o <<>> = delivered'
  BY <1>3, ConcatEmptySeq
<1>7. FifoInv'
  BY <1>1, <1>3, <1>4, <1>5, <1>6 DEF FifoInv, InTransit
<1>8. arrivals = (delivered \o <<front>>) \o (q \o InHand)
  BY <1>5 DEF FifoInv, InTransit
<1>9. q \o InHand \in Seq(Data) /\ Len(q \o InHand) \in Nat
  BY <1>2, ConcatProperties, LenProperties
<1>10. /\ Len(delivered \o <<front>>) = Len(delivered) + 1 /\ Len(delivered) \in Nat
       /\ (delivered \o <<front>>)[Len(delivered) + 1] = front
  <2>1. Len(delivered) \in Nat
    BY <1>2
  <2>. QED
    BY <1>2, <2>1, ConcatProperties
<1>11. Len(arrivals) = Len(delivered) + 1 + Len(q \o InHand) /\ arrivals[Len(delivered) + 1] = front
  <2>1. /\ Len(arrivals) = Len(delivered \o <<front>>) + Len(q \o InHand)
        /\ \A i \in 1 .. Len(delivered \o <<front>>) + Len(q \o InHand) :
               arrivals[i] = IF i <= Len(delivered \o <<front>>) THEN (delivered \o <<front>>)[i]
                             ELSE (q \o InHand)[i - Len(delivered \o <<front>>)]
    BY <1>3, <1>8, <1>9, ConcatProperties
  <2>. QED
    BY <1>9, <1>10, <2>1
<1>12. Channel!Give
  BY <1>1, <1>9, <1>10, <1>11 DEF Channel!Give
<1>. QED
  BY <1>7, <1>12

\* Steps that move no datagram.
LEMMA OthersKeep ==
  ASSUME FifoInv, UNCHANGED <<item, front, q, arrivals, delivered>>,
         worker' \in {"lock", "push"} <=> worker \in {"lock", "push"},
         handler' \in {"unlock", "receive"} <=> handler \in {"unlock", "receive"}
  PROVE  FifoInv'
<1>1. DataType'
  BY DEF FifoInv, DataType
<1>2. Fetched' = Fetched /\ InHand' = InHand
  BY DEF Fetched, InHand
<1>. QED
  BY <1>1, <1>2 DEF FifoInv, InTransit

\* One step keeps the invariant and is a step of the channel, or none.
LEMMA StepImplements ==
  ASSUME FifoInv, [Next]_vars
  PROVE  FifoInv' /\ [Channel!Next]_<<arrivals, delivered>>
<1>1. ASSUME NEW d \in Data, RecvFrom(d) PROVE FifoInv' /\ Channel!Next
  BY <1>1, RecvKeeps DEF RecvFrom, Channel!Next, Channel!Take
<1>2. CASE Push
  BY <1>2, PushKeeps DEF Push
<1>3. CASE Pop
  BY <1>3, PopKeeps DEF Pop
<1>4. CASE Deliver
  BY <1>4, DeliverGives DEF Channel!Next
<1>5. CASE RecvError
  BY <1>5, OthersKeep DEF RecvError
<1>6. CASE WorkerLock
  BY <1>6, OthersKeep DEF WorkerLock
<1>7. CASE WorkerUnlock
  BY <1>7, OthersKeep DEF WorkerUnlock
<1>8. CASE HandlerLock
  BY <1>8, OthersKeep DEF HandlerLock
<1>9. CASE Wait
  BY <1>9, OthersKeep DEF Wait
<1>10. CASE Wake
  BY <1>10, OthersKeep DEF Wake
<1>11. CASE HandlerUnlock
  BY <1>11, OthersKeep DEF HandlerUnlock
<1>12. CASE UNCHANGED vars
  BY <1>12, OthersKeep DEF vars
<1>. QED
  BY <1>1, <1>2, <1>3, <1>4, <1>5, <1>6, <1>7, <1>8, <1>9, <1>10, <1>11, <1>12 DEF Next

-----------------------------------------------------------------------------
\* Datagrams on their way keep their order: each is in one of the hands of the
\* two threads or in the queue between them.
THEOREM ServerInTransit == Spec => []InTransit
<1>1. Init => FifoInv
  BY DEF Init, FifoInv, DataType, InTransit, Fetched, InHand
<1>2. FifoInv /\ [Next]_vars => FifoInv'
  BY StepImplements
<1>3. FifoInv => InTransit
  BY DEF FifoInv
<1>. QED
  BY <1>1, <1>2, <1>3, PTL DEF Spec

\* Receiver::receive is called with the datagrams recvfrom returned, in the order
\* in which it returned them, none left out and none twice.
THEOREM ServerImplementsFifo == Spec => ImplementsFifo
<1>1. Init => FifoInv
  BY DEF Init, FifoInv, DataType, InTransit, Fetched, InHand
<1>2. Init => Channel!Init
  BY DEF Init, Channel!Init
<1>3. FifoInv /\ [Next]_vars => FifoInv' /\ [Channel!Next]_<<arrivals, delivered>>
  BY StepImplements
<1>. QED
  BY <1>1, <1>2, <1>3, PTL DEF Spec, ImplementsFifo, Channel!Spec
===============================================================================
