----------------------- MODULE ServerRoundTripProofs ------------------------
(***************************************************************************)
(* Proofs about timestamp_server in round-trip mode.                       *)
(*                                                                         *)
(* First the queue between the RX and the TX thread, for every queue size, *)
(* batch size and number of requests: it implements BoundedFifo, and a     *)
(* batch sized by the observed depth is always filled.  QueueInv           *)
(* strengthens FifoOrder by what each thread may rely on between its test  *)
(* and its store (SlotHandshake), and BatchIsFilled by a count             *)
(* (BatchCovered): what the TX thread has taken so far, together with what *)
(* is still queued, covers the target.                                     *)
(*                                                                         *)
(* Then the server that uses the queue as that FIFO, for every number of   *)
(* slots, queue, batch and error batch size, and every set of sequence     *)
(* numbers and packet sizes.  ServerInv says where a request, a TX         *)
(* timestamp and a datagram can be: requests keep the order of arrival     *)
(* from the queue through the batch to the wire; a TX timestamp is at one  *)
(* place from the wire to the file; a slot of the correlation arrays holds *)
(* the latest datagram filed under it, with the kernel's timestamps that   *)
(* were in pkt_data then, and every datagram but the current one has its   *)
(* entry in the statistics.                                                *)
(***************************************************************************)
EXTENDS ServerRoundTrip, ReturnPacketQueue, RingLemmas, WellFoundedInduction

-----------------------------------------------------------------------------
(* The return packet queue *)

\* The slots always hold values of one set, so the ring lemmas apply.
LEMMA ContentsType ==
  ASSUME QueueTypeOK
  PROVE  /\ Contents \in Seq(Requests \cup {Garbage})
         /\ Len(Contents) = RingCount(tail, head, Size)
         /\ Len(Contents) \in 0 .. Size - 1
<1>1. RingCount(tail, head, Size) \in 0 .. Size - 1
  BY QueueSizeAssumption, RingCountValue DEF QueueTypeOK, QueueSlots
<1>2. /\ Contents \in Seq(Requests \cup {Garbage})
      /\ Len(Contents) = RingCount(tail, head, Size)
  BY QueueSizeAssumption, RingContentsType DEF QueueTypeOK, Contents, QueueSlots
<1> QED BY <1>1, <1>2

\* The contents are empty exactly when the indices meet.
LEMMA ContentsEmpty ==
  ASSUME QueueTypeOK
  PROVE  /\ head = tail => Contents = <<>>
         /\ head # tail => Len(Contents) > 0
<1>1. RingCount(tail, head, Size) = IF tail >= head THEN tail - head ELSE tail - head + Size
  BY QueueSizeAssumption, RingCountValue DEF QueueTypeOK, QueueSlots
<1>2. head = tail => Len(Contents) = 0
  BY <1>1, ContentsType DEF QueueTypeOK, QueueSlots
<1>3. head # tail => Len(Contents) > 0
  BY <1>1, ContentsType, QueueSizeAssumption DEF QueueTypeOK, QueueSlots
<1> QED BY <1>2, <1>3, ContentsType, EmptySeq

\* The oldest request of a non-empty queue was published: it is a real one.
LEMMA OldestIsRequest ==
  ASSUME QueueTypeOK, FifoOrder, head # tail
  PROVE  requests[head] \in Requests
<1> DEFINE E == Requests \cup {Garbage}
<1>1. Contents # <<>> /\ Head(Contents) = requests[head]
  BY QueueSizeAssumption, RingAdvance DEF QueueTypeOK, Contents, QueueSlots
<1>2. Contents \in Seq(E) /\ taken \in Seq(E) /\ accepted \in Seq(Requests)
  <2>1. taken \in Seq(E)
    BY SeqMonotonic DEF QueueTypeOK
  <2> QED BY <2>1, ContentsType DEF QueueTypeOK
<1>3. /\ Len(accepted) = Len(taken) + Len(Contents)
      /\ \A i \in 1 .. Len(taken) + Len(Contents) :
           accepted[i] = IF i <= Len(taken) THEN taken[i] ELSE Contents[i - Len(taken)]
  BY <1>2, ConcatProperties DEF FifoOrder
<1>4. Len(Contents) >= 1 /\ Len(Contents) \in Nat /\ Len(taken) \in Nat
      /\ Contents[1] = requests[head]
  BY <1>1, <1>2
<1>5. accepted[Len(taken) + 1] = requests[head]
  BY <1>3, <1>4
<1> QED BY <1>2, <1>3, <1>4, <1>5

\* Storing into the free slot at tail does not change the contents.
LEMMA StoreKeepsContents ==
  ASSUME QueueInv, EnqueueStore
  PROVE  Contents' = Contents
<1>1. /\ head \in 0 .. Size-1 /\ tail \in 0 .. Size-1
      /\ requests \in [0 .. Size-1 -> Requests \cup {Garbage}]
      /\ requests' = [requests EXCEPT ![tail] = offered] /\ UNCHANGED <<head, tail>>
  BY DEF QueueInv, QueueTypeOK, EnqueueStore, QueueSlots
<1>2. RingContents([requests EXCEPT ![tail] = offered], tail, head, Size)
        = RingContents(requests, tail, head, Size)
  BY <1>1, QueueSizeAssumption, RingStoreInvisible
<1> QED BY <1>1, <1>2 DEF Contents

\* Publishing appends the offered request.
LEMMA PublishAppends ==
  ASSUME QueueInv, EnqueuePublish
  PROVE  /\ Contents' = Append(Contents, offered) /\ offered \in Requests
         /\ Len(Contents) < Size - 1
<1>1. /\ head \in 0 .. Size-1 /\ tail \in 0 .. Size-1
      /\ requests \in [0 .. Size-1 -> Requests \cup {Garbage}]
      /\ tail' = RingNext(tail, Size) /\ UNCHANGED <<head, requests>>
      /\ ~RingFull(tail, head, Size) /\ requests[tail] = offered
  BY DEF QueueInv, QueueTypeOK, EnqueuePublish, SlotHandshake, QueueSlots
<1>2. RingContents(requests, RingNext(tail, Size), head, Size)
        = Append(RingContents(requests, tail, head, Size), requests[tail])
  BY <1>1, QueueSizeAssumption, RingPublish
<1>3. offered \in Requests
  BY DEF QueueInv, QueueTypeOK, EnqueuePublish, SlotHandshake, Requests
<1>4. Len(Contents) < Size - 1
  <2>1. RingCount(tail, head, Size) # Size - 1
    BY <1>1, QueueSizeAssumption, RingFullValue
  <2> QED BY <2>1, ContentsType, QueueSizeAssumption DEF QueueInv
<1> QED BY <1>1, <1>2, <1>3, <1>4 DEF Contents

\* Advancing head removes the oldest request, the one just copied.
LEMMA AdvanceRemoves ==
  ASSUME QueueInv, DequeueAdvance
  PROVE  /\ Contents # <<>> /\ Contents' = Tail(Contents)
         /\ taken' = Append(taken, Head(Contents))
<1>1. /\ head \in 0 .. Size-1 /\ tail \in 0 .. Size-1 /\ tail # head
      /\ requests \in [0 .. Size-1 -> Requests \cup {Garbage}]
      /\ head' = RingNext(head, Size) /\ UNCHANGED <<tail, requests>>
      /\ taken' = Append(taken, requests[head])
  BY DEF QueueInv, QueueTypeOK, DequeueAdvance, SlotHandshake, QueueSlots
<1>2. /\ RingContents(requests, tail, head, Size) # <<>>
      /\ Head(RingContents(requests, tail, head, Size)) = requests[head]
      /\ RingContents(requests, tail, RingNext(head, Size), Size)
           = Tail(RingContents(requests, tail, head, Size))
  BY <1>1, QueueSizeAssumption, RingAdvance
<1> QED BY <1>1, <1>2 DEF Contents

\* The queue starts empty, with nothing taken.
LEMMA InitFullInv == QueueInit => FullInv
<1> SUFFICES ASSUME QueueInit PROVE FullInv
  OBVIOUS
<1>1. QueueTypeOK
  BY QueueSizeAssumption, QueueBoundAssumption DEF QueueInit, QueueTypeOK, QueueSlots, Garbage
<1>2. FifoOrder
  BY <1>1, ContentsEmpty DEF QueueInit, FifoOrder
<1>3. SlotHandshake /\ BatchCovered /\ BatchIsFilled
  BY DEF QueueInit, SlotHandshake, BatchCovered, BatchIsFilled
<1> QED BY <1>1, <1>2, <1>3 DEF FullInv, QueueInv

\* Every step preserves the types.
LEMMA NextQueueType ==
  ASSUME QueueInv, [QueueNext]_queueVars
  PROVE  QueueTypeOK'
<1> USE DEF QueueInv
<1> USE QueueSizeAssumption, QueueBoundAssumption
<1>1. CASE EnqueueCheck
  BY <1>1 DEF QueueTypeOK, EnqueueCheck, consVars
<1>2. CASE EnqueueStore
  BY <1>2 DEF QueueTypeOK, EnqueueStore, SlotHandshake, Requests, consVars
<1>3. CASE EnqueuePublish
  <2>1. accepted' \in Seq(Requests)
    BY <1>3, PublishAppends DEF QueueTypeOK, EnqueuePublish
  <2>2. tail' \in QueueSlots
    BY <1>3, RingNextValue DEF QueueTypeOK, EnqueuePublish, QueueSlots
  <2> QED BY <1>3, <2>1, <2>2 DEF QueueTypeOK, EnqueuePublish, consVars
<1>4. CASE LoadDepth
  <2>1. depth' \in 0 .. Size - 1
    BY <1>4, ContentsType DEF LoadDepth
  <2> QED BY <1>4, <2>1 DEF QueueTypeOK, LoadDepth, prodVars
<1>5. CASE DequeueCheck
  <2>1. cpc' \in {"copy", "send"}
    BY <1>5 DEF DequeueCheck
  <2> QED BY <1>5, <2>1 DEF QueueTypeOK, DequeueCheck, prodVars
<1>6. CASE DequeueCopy
  <2>1. reqs' \in Seq(Requests)
    BY <1>6, OldestIsRequest DEF QueueTypeOK, DequeueCopy, SlotHandshake
  <2> QED BY <1>6, <2>1 DEF QueueTypeOK, DequeueCopy, prodVars
<1>7. CASE DequeueAdvance
  <2>1. taken' \in Seq(Requests)
    <3>1. reqs[Len(reqs)] \in Requests
      BY <1>7 DEF QueueTypeOK, DequeueAdvance, SlotHandshake
    <3> QED BY <1>7, <3>1 DEF QueueTypeOK, DequeueAdvance
  <2>2. head' \in QueueSlots
    BY <1>7, RingNextValue DEF QueueTypeOK, DequeueAdvance, QueueSlots
  <2> QED BY <1>7, <2>1, <2>2 DEF QueueTypeOK, DequeueAdvance, prodVars
<1>8. CASE SendBatch
  BY <1>8 DEF QueueTypeOK, SendBatch, prodVars
<1>9. CASE UNCHANGED queueVars
  BY <1>9 DEF QueueTypeOK, queueVars, prodVars, consVars
<1> QED BY <1>1, <1>2, <1>3, <1>4, <1>5, <1>6, <1>7, <1>8, <1>9 DEF QueueNext, Producer, Consumer

\* Every step preserves what the threads rely on between test and store.
LEMMA NextSlotHandshake ==
  ASSUME QueueInv, [QueueNext]_queueVars
  PROVE  SlotHandshake'
<1> USE DEF QueueInv
<1> USE QueueSizeAssumption, QueueBoundAssumption
<1>1. CASE EnqueueCheck
  <2>1. offered' > 0
    BY <1>1 DEF QueueTypeOK, EnqueueCheck
  <2> QED BY <1>1, <2>1 DEF SlotHandshake, EnqueueCheck, consVars
<1>2. CASE EnqueueStore
  \* the slot at tail is not the one the TX thread is copying
  <2>1. requests'[tail] = offered
    BY <1>2 DEF QueueTypeOK, EnqueueStore
  <2>2. head # tail => requests'[head] = requests[head]
    BY <1>2 DEF QueueTypeOK, EnqueueStore
  <2> QED BY <1>2, <2>1, <2>2 DEF SlotHandshake, EnqueueStore, consVars
<1>3. CASE EnqueuePublish
  <2>1. tail' # head
    BY <1>3 DEF SlotHandshake, EnqueuePublish, RingFull
  <2> QED BY <1>3, <2>1 DEF SlotHandshake, EnqueuePublish, consVars
<1>4. CASE LoadDepth \/ SendBatch
  BY <1>4 DEF SlotHandshake, LoadDepth, SendBatch, prodVars
<1>5. CASE DequeueCheck
  BY <1>5 DEF SlotHandshake, DequeueCheck, prodVars
<1>6. CASE DequeueCopy
  <2>1. requests[head] \in Requests /\ reqs \in Seq(Requests)
        /\ reqs' = Append(reqs, requests[head])
    BY <1>6, OldestIsRequest DEF QueueTypeOK, DequeueCopy, SlotHandshake
  <2>2. reqs' # <<>> /\ reqs'[Len(reqs')] = requests[head]
    BY <2>1, AppendProperties
  <2> QED BY <1>6, <2>2 DEF SlotHandshake, DequeueCopy, prodVars
<1>7. CASE DequeueAdvance
  \* giving a slot back leaves the queue with room
  <2>1. /\ head \in 0 .. Size-1 /\ tail \in 0 .. Size-1 /\ head # tail
        /\ tail' = tail /\ head' = RingNext(head, Size)
    BY <1>7 DEF QueueTypeOK, DequeueAdvance, SlotHandshake, QueueSlots
  <2>2. /\ RingNext(head, Size) = IF head = Size-1 THEN 0 ELSE head + 1
        /\ RingNext(tail, Size) = IF tail = Size-1 THEN 0 ELSE tail + 1
    BY <2>1, RingNextValue
  <2>3. RingNext(tail', Size) # head'
    BY <2>1, <2>2
  <2>4. ~RingFull(tail', head', Size)
    BY <2>3 DEF RingFull
  <2> QED BY <1>7, <2>4 DEF SlotHandshake, DequeueAdvance, prodVars
<1>8. CASE UNCHANGED queueVars
  BY <1>8 DEF SlotHandshake, queueVars, prodVars, consVars
<1> QED BY <1>1, <1>2, <1>3, <1>4, <1>5, <1>6, <1>7, <1>8 DEF QueueNext, Producer, Consumer

\* Every step preserves the order of the requests.
LEMMA NextFifoOrder ==
  ASSUME QueueInv, [QueueNext]_queueVars
  PROVE  FifoOrder'
<1> USE DEF QueueInv
<1> DEFINE E == Requests \cup {Garbage}
<1>0. taken \in Seq(E) /\ Contents \in Seq(E)
  <2>1. taken \in Seq(E)
    BY SeqMonotonic DEF QueueTypeOK
  <2> QED BY <2>1, ContentsType
<1>1. CASE EnqueueStore
  BY <1>1, StoreKeepsContents DEF FifoOrder, EnqueueStore, consVars
<1>2. CASE EnqueuePublish
  <2>1. offered \in E
    BY <1>2, PublishAppends
  <2>2. taken \o Append(Contents, offered) = Append(taken \o Contents, offered)
    BY <1>0, <2>1, ConcatAppend
  <2> QED BY <1>2, <2>2, PublishAppends DEF FifoOrder, EnqueuePublish, consVars
<1>3. CASE DequeueAdvance
  <2>1. Append(taken, Head(Contents)) \o Tail(Contents) = taken \o Contents
    BY <1>0, <1>3, AdvanceRemoves, MoveHead
  <2> QED BY <1>3, <2>1, AdvanceRemoves DEF FifoOrder, DequeueAdvance, prodVars
<1>4. CASE UNCHANGED <<head, tail, requests, accepted, taken>>
  BY <1>4 DEF FifoOrder, Contents
<1> QED
  BY <1>1, <1>2, <1>3, <1>4
  DEF QueueNext, Producer, Consumer, EnqueueCheck, LoadDepth, DequeueCheck, DequeueCopy,
      SendBatch, queueVars, prodVars, consVars

\* Every step preserves the count that fills the batch.
LEMMA NextBatch ==
  ASSUME FullInv, [QueueNext]_queueVars
  PROVE  BatchCovered' /\ BatchIsFilled'
<1> USE DEF FullInv, QueueInv
<1> USE QueueSizeAssumption, QueueBoundAssumption
<1>0. /\ Len(reqs) \in Nat /\ depth \in 0 .. Size - 1 /\ Len(Contents) \in 0 .. Size - 1
      /\ TargetBatch \in Nat /\ TargetBatch >= 1 /\ (depth > 0 => TargetBatch <= depth)
  <2>1. Len(Contents) \in 0 .. Size - 1
    BY ContentsType
  <2>2. Len(reqs) \in Nat /\ depth \in 0 .. Size - 1
    BY DEF QueueTypeOK
  <2> QED BY <2>1, <2>2 DEF TargetBatch
<1>1. CASE EnqueueCheck
  BY <1>1 DEF EnqueueCheck, BatchCovered, BatchIsFilled, TargetBatch, Contents, consVars
<1>2. CASE EnqueueStore
  BY <1>2, StoreKeepsContents DEF EnqueueStore, BatchCovered, BatchIsFilled, TargetBatch, consVars
<1>3. CASE EnqueuePublish
  \* the queue only gets longer
  <2>1. Len(Contents') = Len(Contents) + 1
    BY <1>3, PublishAppends, ContentsType
  <2>2. UNCHANGED <<cpc, depth, reqs>> /\ TargetBatch' = TargetBatch
    BY <1>3 DEF EnqueuePublish, TargetBatch, consVars
  <2> QED BY <1>0, <2>1, <2>2 DEF BatchCovered, BatchIsFilled
<1>4. CASE LoadDepth
  <2>1. /\ depth' = Len(Contents) /\ Contents' = Contents /\ reqs' = <<>>
        /\ cpc' = "check"
    BY <1>4, ContentsType DEF LoadDepth, BatchCovered, Contents
  <2>2. /\ TargetBatch' \in Nat /\ TargetBatch' >= 1
        /\ (depth' > 0 => TargetBatch' <= depth')
    BY <1>0, <2>1 DEF TargetBatch
  <2>3. Len(reqs') = 0
    BY <2>1
  <2> QED BY <1>0, <2>1, <2>2, <2>3 DEF BatchCovered, BatchIsFilled
<1>5. CASE DequeueCheck
  <2>1. /\ UNCHANGED <<depth, reqs>> /\ TargetBatch' = TargetBatch /\ Contents' = Contents
        /\ cpc = "check"
        /\ cpc' = IF Len(reqs) < TargetBatch /\ head # tail THEN "copy" ELSE "send"
    BY <1>5 DEF DequeueCheck, TargetBatch, Contents
  <2>2. head = tail => Len(Contents) = 0
    BY ContentsEmpty, EmptySeq
  <2> QED BY <1>0, <2>1, <2>2 DEF BatchCovered, BatchIsFilled
<1>6. CASE DequeueCopy
  <2>1. Len(reqs') = Len(reqs) + 1
    <3>1. requests[head] \in Requests /\ reqs \in Seq(Requests)
          /\ reqs' = Append(reqs, requests[head])
      BY <1>6, OldestIsRequest DEF QueueTypeOK, DequeueCopy, SlotHandshake
    <3> QED BY <3>1, AppendProperties
  <2>2. /\ UNCHANGED depth /\ TargetBatch' = TargetBatch /\ Contents' = Contents
        /\ cpc = "copy" /\ cpc' = "advance"
    BY <1>6 DEF DequeueCopy, TargetBatch, Contents
  <2> QED BY <1>0, <2>1, <2>2 DEF BatchCovered, BatchIsFilled
<1>7. CASE DequeueAdvance
  <2>1. Len(Contents') = Len(Contents) - 1
    BY <1>7, AdvanceRemoves, ContentsType
  <2>2. /\ UNCHANGED <<depth, reqs>> /\ TargetBatch' = TargetBatch
        /\ cpc = "advance" /\ cpc' = "check"
    BY <1>7 DEF DequeueAdvance, TargetBatch
  <2> QED BY <1>0, <2>1, <2>2 DEF BatchCovered, BatchIsFilled
<1>8. CASE SendBatch
  BY <1>8 DEF SendBatch, BatchCovered, BatchIsFilled
<1>9. CASE UNCHANGED queueVars
  BY <1>9 DEF queueVars, consVars, BatchCovered, BatchIsFilled, TargetBatch, Contents
<1> QED BY <1>1, <1>2, <1>3, <1>4, <1>5, <1>6, <1>7, <1>8, <1>9 DEF QueueNext, Producer, Consumer

\* FullInv is an inductive invariant of the specification.
THEOREM QueueInvariant == QueueSpec => []FullInv
<1>1. FullInv /\ [QueueNext]_queueVars => FullInv'
  BY NextQueueType, NextSlotHandshake, NextFifoOrder, NextBatch DEF FullInv, QueueInv
<1> QED BY <1>1, InitFullInv, PTL DEF QueueSpec

\* Requests come out of the queue once and in order, for every queue size.
THEOREM QueueFifoOrder == QueueSpec => []FifoOrder
BY QueueInvariant, PTL DEF FullInv, QueueInv

\* A batch sized by the observed depth is filled: the TX thread never sends
\* fewer answers than it saw waiting, up to max_batch_size.
THEOREM BatchAlwaysFilled == QueueSpec => []BatchIsFilled
BY QueueInvariant, PTL DEF FullInv

\* Every step of the queue is a step of the bounded FIFO or leaves it alone.
LEMMA StepFifo ==
  ASSUME QueueInv, [QueueNext]_queueVars
  PROVE  [Fifo!Next]_Fifo!fifoVars
<1>1. CASE EnqueueCheck
  <2>1. Contents' = Contents /\ taken' = taken
    BY <1>1 DEF EnqueueCheck, consVars, Contents
  <2>2. CASE RingFull(tail, head, Size)
    <3>1. RingCount(tail, head, Size) = Size - 1
      BY <2>2, QueueSizeAssumption, RingFullValue DEF QueueInv, QueueTypeOK, QueueSlots
    <3>2. Len(Contents) = Size - 1
      BY <3>1, ContentsType DEF QueueInv
    <3> QED BY <1>1, <2>1, <2>2, <3>2 DEF EnqueueCheck, Fifo!Next, Fifo!Refuse, Fifo!fifoVars
  <2>3. CASE ~RingFull(tail, head, Size)
    BY <1>1, <2>1, <2>3 DEF EnqueueCheck, Fifo!fifoVars
  <2> QED BY <2>2, <2>3
<1>2. CASE EnqueueStore
  BY <1>2, StoreKeepsContents DEF EnqueueStore, consVars, Fifo!fifoVars
<1>3. CASE EnqueuePublish
  BY <1>3, PublishAppends DEF EnqueuePublish, consVars, Fifo!Next, Fifo!Accept
<1>4. CASE DequeueAdvance
  BY <1>4, AdvanceRemoves DEF DequeueAdvance, prodVars, Fifo!Next, Fifo!Remove
<1>5. CASE UNCHANGED <<head, tail, requests, rejected, taken>>
  BY <1>5 DEF Contents, Fifo!fifoVars
<1> QED
  BY <1>1, <1>2, <1>3, <1>4, <1>5
  DEF QueueNext, Producer, Consumer, LoadDepth, DequeueCheck, DequeueCopy, SendBatch,
      queueVars, prodVars, consVars

\* The return packet queue implements the bounded FIFO that ServerRoundTrip
\* uses in its place.
THEOREM QueueImplementsFifo == QueueSpec => ImplementsFifo
<1>1. QueueInit => Fifo!Init
  BY InitFullInv, ContentsEmpty DEF QueueInit, Fifo!Init, FullInv, QueueInv
<1>2. FullInv /\ [QueueNext]_queueVars => [Fifo!Next]_Fifo!fifoVars
  BY StepFifo DEF FullInv
<1> QED BY <1>1, <1>2, QueueInvariant, PTL DEF QueueSpec, ImplementsFifo, Fifo!Spec

-----------------------------------------------------------------------------
(* The inductive invariant of the server *)

Increasing(sq) == \A j, k \in 1 .. Len(sq) : j < k => sq[j] < sq[k]
Before(S, T)   == \A x \in S, y \in T : x < y

\* The requests in flight, from the queue through the batch to the wire, keep
\* the order of arrival.
InOrder ==
  /\ Increasing(queue) /\ Increasing(batch) /\ Increasing(answers)
  /\ Before(Ids(answers), Ids(batch)) /\ Before(Ids(answers), Ids(queue))
  /\ Before(Ids(batch), Ids(queue))

\* They are of datagrams that asked for an answer and were not turned away; the
\* datagram about to be queued is later than all of them.
Handled == Ids(answers) \cup Ids(batch) \cup Ids(queue)

Requested ==
  /\ \A a \in Handled \cup refused :
       a <= Cur /\ arrivals[a].bytes >= 8 /\ (rpc = "enqueue" => a < Cur)
  /\ Handled \cap refused = {}
  /\ rpc = "enqueue" => arrivals[Cur].bytes >= 8
  /\ rpc \in {"enqueue", "storeTs", "storeIp", "entry", "rxStats"} => Cur >= 1

\* Where the TX thread has a batch, and where requests still to be recorded.
TxPlace ==
  /\ tpc \in {"send", "fallback"} => batch # <<>>
  /\ tpc \notin {"dequeue", "send", "fallback"} => batch = <<>>
  /\ tpc \in {"record", "readTs", "readIp"} <=> torec # <<>>
  /\ Ids(torec) \subseteq Ids(answers)

\* The TX timestamps on the wire, in the error queue, in the hands of the TS
\* code and in the file are of different answers.
Pkts(rs) == [k \in 1 .. Len(rs) |-> rs[k].pkt]
Distinct(sq) == \A j, k \in 1 .. Len(sq) : j # k => sq[j] # sq[k]

StampPlace ==
  /\ wire \cup Ids(errq) \cup Ids(Pkts(txRows)) \subseteq Ids(answers)
  /\ Distinct(errq) /\ Distinct(Pkts(txRows))
  /\ wire \cap Ids(errq) = {} /\ wire \cap Ids(Pkts(txRows)) = {}
  /\ Ids(errq) \cap Ids(Pkts(txRows)) = {}
  /\ spc = "log" => /\ msg \in Ids(answers)
                    /\ msg \notin wire \cup Ids(errq) \cup Ids(Pkts(txRows))

\* A slot of the correlation arrays holds the latest datagram that was filed
\* under it; pending are the places of the RX thread where Cur is not.
LatestOfSlot(arr, ds, a) ==
  LET x == arr[Index(ds[a].seq)] IN x \in a .. Len(ds) /\ Index(ds[x].seq) = Index(ds[a].seq)

LatestFiled(arr, pending) ==
  \A a \in 1 .. Cur : (a < Cur \/ rpc \notin pending) => LatestOfSlot(arr, arrivals, a)

Correlated == /\ LatestFiled(corrTs, {"enqueue", "storeTs"})
              /\ LatestFiled(corrIp, {"enqueue", "storeTs", "storeIp"})

\* The kernel's timestamps in pkt_data, and those of a slot, are the last that
\* came up to the datagram they stand beside.
KernelFiled ==
  /\ LastStamped(Cur, pktKer) /\ (ctlRoom <=> pktKer = Cur)
  /\ \A s \in Slots : corrTs[s] \in 0 .. Cur /\ LastStamped(corrTs[s], corrKer[s])

\* Every datagram but the one being recorded has its statistics entry.
Counted ==
  StatsEnabled =>
    \A a \in 1 .. Cur :
      (a < Cur \/ rpc \notin {"enqueue", "storeTs", "storeIp", "entry"}) =>
        \E k \in 1 .. Len(stats) : stats[k].seq = SeqOf(a)

\* The turns of a call that counted nothing were failed reads, with CSV output.
Turns ==
  /\ done <= turn /\ (spc = "log" => done < turn)
  /\ CsvEnabled => turn <= done + errors + (IF spc = "log" THEN 1 ELSE 0)

\* Who runs the TS code: its own thread until it has been joined, then the RX
\* thread, after a signal, until the drain is over.
Draining ==
  /\ spc \in {"loop", "health"} => phase # "main"
  /\ rpc \in {"recv", "enqueue", "storeTs", "storeIp", "entry", "rxStats", "joinTs"}
       => phase # "main"
  /\ rpc = "drain" => graceful /\ phase = "main" /\ spc \in {"recv", "log"}
  /\ rpc \in {"stopTx", "joinTx", "done"} => spc = "done"

ServerInv ==
  /\ TypeOK /\ InOrder /\ Requested /\ TxPlace /\ RowsFollowSends /\ StampPlace
  /\ Correlated /\ KernelFiled /\ Counted /\ Turns /\ Draining

\* The drain after a signal found the error queue empty, unless the reads of a
\* whole call failed.
DrainEnded == CsvEnabled /\ errors < TsBatch => DrainEmptiesQueue

-----------------------------------------------------------------------------
(* Sequences of arrivals *)

\* The arrivals in a sequence are its range.
LEMMA IdsRange ==
  ASSUME NEW S, NEW s \in Seq(S)
  PROVE  Ids(s) = Range(s)
BY LenProperties DEF Ids, Range

\* Nothing is in the empty sequence.
LEMMA IdsEmpty == Ids(<<>>) = {}
BY DEF Ids

\* A queue that is not empty has a head, and a tail that is one shorter.
LEMMA IdsElement ==
  ASSUME NEW S, NEW s \in Seq(S), s # <<>>
  PROVE  /\ Head(s) \in Ids(s) /\ Head(s) \in S /\ Tail(s) \in Seq(S)
         /\ Len(Tail(s)) = Len(s) - 1 /\ Len(s) \in Nat \ {0}
<1>1. Len(s) \in Nat \ {0} /\ Head(s) = s[1]
  BY EmptySeq, HeadTailProperties
<1> QED BY <1>1, HeadTailProperties DEF Ids

\* What joins a queue at its end.
LEMMA IdsAppend ==
  ASSUME NEW S, NEW s \in Seq(S), NEW x \in S
  PROVE  /\ Append(s, x) \in Seq(S) /\ Len(Append(s, x)) = Len(s) + 1
         /\ Ids(Append(s, x)) = Ids(s) \cup {x}
<1>1. Append(s, x) \in Seq(S) /\ Len(Append(s, x)) = Len(s) + 1
  BY AppendProperties
<1>2. Ids(Append(s, x)) = Range(Append(s, x)) /\ Ids(s) = Range(s)
  BY <1>1, IdsRange
<1> QED BY <1>1, <1>2, RangeAppend

\* What leaves it at its head.
LEMMA IdsTail ==
  ASSUME NEW S, NEW s \in Seq(S), s # <<>>
  PROVE  Ids(s) = Ids(Tail(s)) \cup {Head(s)}
<1>1. Tail(s) \in Seq(S)
  BY IdsElement
<1>2. Ids(Tail(s)) = Range(Tail(s)) /\ Ids(s) = Range(s)
  BY <1>1, IdsRange
<1> QED BY <1>2, RangeTail

\* What is sent joins what was sent before.
LEMMA IdsConcat ==
  ASSUME NEW S, NEW p \in Seq(S), NEW q \in Seq(S)
  PROVE  p \o q \in Seq(S) /\ Ids(p \o q) = Ids(p) \cup Ids(q)
<1>1. p \o q \in Seq(S)
  BY ConcatProperties
<1>2. Ids(p \o q) = Range(p \o q) /\ Ids(p) = Range(p) /\ Ids(q) = Range(q)
  BY <1>1, IdsRange
<1> QED BY <1>1, <1>2, RangeConcatenation

\* The first n requests of a batch.
LEMMA Prefix ==
  ASSUME NEW S, NEW s \in Seq(S), NEW n \in 1 .. Len(s)
  PROVE  LET p == SubSeq(s, 1, n) IN
         /\ p \in Seq(S) /\ p # <<>> /\ Ids(p) \subseteq Ids(s)
         /\ Increasing(s) => Increasing(p)
<1> DEFINE p == SubSeq(s, 1, n)
<1>1. Len(s) \in Nat /\ n \in Int /\ \A i \in 1 .. n : s[i] \in S
  BY LenProperties, ElementOfSeq
<1>2. p \in Seq(S) /\ Len(p) = n /\ \A i \in 1 .. n : p[i] = s[i]
  <2>1. /\ p \in Seq(S)
        /\ Len(p) = IF 1 <= n THEN n - 1 + 1 ELSE 0
        /\ \A i \in 1 .. n - 1 + 1 : p[i] = s[1 + i - 1]
    BY <1>1, SubSeqProperties
  <2> HIDE DEF p
  <2>2. Len(p) = n /\ n - 1 + 1 = n
    BY <1>1, <2>1
  <2>3. ASSUME NEW i \in 1 .. n PROVE p[i] = s[i]
    <3>1. p[i] = s[1 + i - 1] /\ 1 + i - 1 = i
      BY <1>1, <2>1, <2>2
    <3> QED BY <3>1
  <2> QED BY <2>1, <2>2, <2>3
<1> HIDE DEF p
<1>3. p # <<>>
  BY <1>1, <1>2, EmptySeq
<1>4. Ids(p) \subseteq Ids(s)
  BY <1>1, <1>2 DEF Ids
<1>5. Increasing(s) => Increasing(p)
  BY <1>1, <1>2 DEF Increasing
<1> QED BY <1>2, <1>3, <1>4, <1>5 DEF p

\* A queue stays increasing when something later joins it.
LEMMA IncreasingAppend ==
  ASSUME NEW S, NEW s \in Seq(S), NEW x \in S, Increasing(s), Before(Ids(s), {x})
  PROVE  Increasing(Append(s, x))
<1> DEFINE t == Append(s, x)
<1>1. /\ Len(t) = Len(s) + 1 /\ Len(s) \in Nat /\ t[Len(s) + 1] = x
      /\ \A k \in 1 .. Len(s) : t[k] = s[k]
  BY AppendProperties, LenProperties
<1>2. \A k \in 1 .. Len(s) : s[k] < x
  BY DEF Before, Ids
<1> HIDE DEF t
<1>3. ASSUME NEW j \in 1 .. Len(t), NEW k \in 1 .. Len(t), j < k PROVE t[j] < t[k]
  <2>1. j \in 1 .. Len(s)
    BY <1>1, <1>3
  <2>2. CASE k \in 1 .. Len(s)
    BY <1>1, <1>3, <2>1, <2>2 DEF Increasing
  <2>3. CASE k = Len(s) + 1
    BY <1>1, <1>2, <2>1, <2>3
  <2> QED BY <1>1, <2>2, <2>3
<1> QED BY <1>3 DEF Increasing, t

\* Its head is the earliest.
LEMMA IncreasingTail ==
  ASSUME NEW S, NEW s \in Seq(S), s # <<>>, Increasing(s)
  PROVE  Increasing(Tail(s)) /\ Before({Head(s)}, Ids(Tail(s)))
<1> DEFINE t == Tail(s)
<1>1. /\ Len(t) = Len(s) - 1 /\ Len(s) \in Nat \ {0} /\ Head(s) = s[1]
      /\ \A k \in 1 .. Len(t) : t[k] = s[k + 1]
  BY HeadTailProperties, EmptySeq
<1> HIDE DEF t
<1>2. ASSUME NEW j \in 1 .. Len(t), NEW k \in 1 .. Len(t), j < k PROVE t[j] < t[k]
  <2>1. j + 1 \in 1 .. Len(s) /\ k + 1 \in 1 .. Len(s) /\ j + 1 < k + 1
    BY <1>1, <1>2
  <2> QED BY <1>1, <2>1 DEF Increasing
<1>3. ASSUME NEW k \in 1 .. Len(t) PROVE Head(s) < t[k]
  <2>1. 1 \in 1 .. Len(s) /\ k + 1 \in 1 .. Len(s) /\ 1 < k + 1
    BY <1>1, <1>3
  <2> QED BY <1>1, <2>1 DEF Increasing
<1> QED BY <1>2, <1>3 DEF Increasing, Before, Ids, t

\* Later answers after earlier ones.
LEMMA IncreasingConcat ==
  ASSUME NEW S, NEW p \in Seq(S), NEW q \in Seq(S), Increasing(p), Increasing(q),
         Before(Ids(p), Ids(q))
  PROVE  Increasing(p \o q)
<1> DEFINE r == p \o q
<1>1. /\ Len(r) = Len(p) + Len(q) /\ Len(p) \in Nat /\ Len(q) \in Nat
      /\ \A i \in 1 .. Len(p) + Len(q) : r[i] = IF i <= Len(p) THEN p[i] ELSE q[i - Len(p)]
  BY ConcatProperties, LenProperties
<1>2. \A i \in 1 .. Len(p), j \in 1 .. Len(q) : p[i] < q[j]
  BY DEF Before, Ids
<1> HIDE DEF r
<1>3. ASSUME NEW j \in 1 .. Len(r), NEW k \in 1 .. Len(r), j < k PROVE r[j] < r[k]
  <2>1. CASE k <= Len(p)
    <3>1. j \in 1 .. Len(p) /\ k \in 1 .. Len(p) /\ r[j] = p[j] /\ r[k] = p[k]
      BY <1>1, <1>3, <2>1
    <3> QED BY <1>3, <3>1 DEF Increasing
  <2>2. CASE j <= Len(p) /\ k > Len(p)
    <3>1. j \in 1 .. Len(p) /\ k - Len(p) \in 1 .. Len(q) /\ r[j] = p[j] /\ r[k] = q[k - Len(p)]
      BY <1>1, <1>3, <2>2
    <3> QED BY <1>2, <3>1
  <2>3. CASE j > Len(p)
    <3>1. /\ j - Len(p) \in 1 .. Len(q) /\ k - Len(p) \in 1 .. Len(q)
          /\ j - Len(p) < k - Len(p) /\ r[j] = q[j - Len(p)] /\ r[k] = q[k - Len(p)]
      BY <1>1, <1>3, <2>3
    <3> QED BY <3>1 DEF Increasing
  <2> QED BY <1>1, <2>1, <2>2, <2>3
<1> QED BY <1>3 DEF Increasing, r

\* No repetition: one more, one less.
LEMMA DistinctAppend ==
  ASSUME NEW S, NEW s \in Seq(S), NEW x \in S, Distinct(s), x \notin Ids(s)
  PROVE  Distinct(Append(s, x))
<1> DEFINE t == Append(s, x)
<1>1. /\ Len(t) = Len(s) + 1 /\ Len(s) \in Nat /\ t[Len(s) + 1] = x
      /\ \A k \in 1 .. Len(s) : t[k] = s[k]
  BY AppendProperties, LenProperties
<1>2. \A k \in 1 .. Len(s) : s[k] # x
  BY DEF Ids
<1> HIDE DEF t
<1>3. ASSUME NEW j \in 1 .. Len(t), NEW k \in 1 .. Len(t), j # k PROVE t[j] # t[k]
  <2>1. CASE j \in 1 .. Len(s) /\ k \in 1 .. Len(s)
    BY <1>1, <1>3, <2>1 DEF Distinct
  <2>2. CASE j = Len(s) + 1 /\ k \in 1 .. Len(s)
    BY <1>1, <1>2, <2>2
  <2>3. CASE k = Len(s) + 1 /\ j \in 1 .. Len(s)
    BY <1>1, <1>2, <2>3
  <2> QED BY <1>1, <1>3, <2>1, <2>2, <2>3
<1> QED BY <1>3 DEF Distinct, t

\* Removing the head removes all there is of it.
LEMMA DistinctTail ==
  ASSUME NEW S, NEW s \in Seq(S), s # <<>>, Distinct(s)
  PROVE  Distinct(Tail(s)) /\ Head(s) \notin Ids(Tail(s))
<1> DEFINE t == Tail(s)
<1>1. /\ Len(t) = Len(s) - 1 /\ Len(s) \in Nat \ {0} /\ Head(s) = s[1]
      /\ \A k \in 1 .. Len(t) : t[k] = s[k + 1]
  BY HeadTailProperties, EmptySeq
<1> HIDE DEF t
<1>2. ASSUME NEW j \in 1 .. Len(t), NEW k \in 1 .. Len(t), j # k PROVE t[j] # t[k]
  <2>1. j + 1 \in 1 .. Len(s) /\ k + 1 \in 1 .. Len(s) /\ j + 1 # k + 1
    BY <1>1, <1>2
  <2> QED BY <1>1, <2>1 DEF Distinct
<1>3. ASSUME NEW k \in 1 .. Len(t) PROVE Head(s) # t[k]
  <2>1. 1 \in 1 .. Len(s) /\ k + 1 \in 1 .. Len(s) /\ 1 # k + 1
    BY <1>1, <1>3
  <2> QED BY <1>1, <2>1 DEF Distinct
<1> QED BY <1>2, <1>3 DEF Distinct, Ids, t

\* The packets of the rows of a file.
LEMMA PktsType ==
  ASSUME NEW R, NEW S, NEW rs \in Seq(R), \A r \in R : r.pkt \in S
  PROVE  Pkts(rs) \in Seq(S) /\ Len(Pkts(rs)) = Len(rs)
<1>1. Len(rs) \in Nat /\ \A k \in 1 .. Len(rs) : rs[k] \in R
  BY LenProperties, ElementOfSeq
<1>2. \A k \in 1 .. Len(rs) : rs[k].pkt \in S
  BY <1>1
<1> QED BY <1>1, <1>2 DEF Pkts

\* A row that is added adds its packet.
LEMMA PktsAppend ==
  ASSUME NEW R, NEW S, NEW rs \in Seq(R), NEW r \in R, \A x \in R : x.pkt \in S
  PROVE  Pkts(Append(rs, r)) = Append(Pkts(rs), r.pkt)
<1> DEFINE t == Append(rs, r)
           q == Pkts(rs)
           a == Pkts(t)
           b == Append(q, r.pkt)
<1>1. /\ t \in Seq(R) /\ Len(t) = Len(rs) + 1 /\ t[Len(rs) + 1] = r /\ Len(rs) \in Nat
      /\ \A k \in 1 .. Len(rs) : t[k] = rs[k]
  BY AppendProperties, LenProperties
<1>2. q \in Seq(S) /\ Len(q) = Len(rs) /\ r.pkt \in S
  BY PktsType
<1>3. a \in Seq(S) /\ Len(a) = Len(rs) + 1
  BY <1>1, PktsType
<1>4. /\ b \in Seq(S) /\ Len(b) = Len(rs) + 1 /\ b[Len(rs) + 1] = r.pkt
      /\ \A k \in 1 .. Len(rs) : b[k] = q[k]
  <2> HIDE DEF q
  <2> QED BY <1>2, AppendProperties
<1>5. \A k \in 1 .. Len(rs) : q[k] = rs[k].pkt
  BY DEF Pkts
<1>6. \A k \in 1 .. Len(rs) + 1 : a[k] = t[k].pkt
  BY <1>1 DEF Pkts
<1> HIDE DEF a, b, t, q
<1>7. ASSUME NEW k \in 1 .. Len(rs) + 1 PROVE a[k] = b[k]
  <2>1. CASE k \in 1 .. Len(rs)
    BY <1>1, <1>4, <1>5, <1>6, <2>1
  <2>2. CASE k = Len(rs) + 1
    BY <1>1, <1>4, <1>6, <2>2
  <2> QED BY <1>1, <2>1, <2>2
<1>8. a = b
  BY <1>1, <1>3, <1>4, <1>7, SeqEqual
<1> QED BY <1>8 DEF a, b, t, q

-----------------------------------------------------------------------------
(* Types *)

\* The datagram the RX thread works on is one of the arrivals.
LEMMA CurType ==
  ASSUME TypeOK
  PROVE  /\ Cur \in Nat /\ Cur \in Stamp /\ Cur <= MaxArrivals
         /\ \A a \in 1 .. Cur : /\ a \in Arrivals /\ arrivals[a] \in Datagram
                                /\ SeqOf(a) \in 0 .. SeqSpace - 1 /\ Index(SeqOf(a)) \in Slots
<1>1. Cur \in Nat /\ Cur <= MaxArrivals /\ arrivals \in Seq(Datagram)
  BY LenProperties DEF TypeOK, RxType, Cur
<1>2. \A a \in 1 .. Cur : arrivals[a] \in Datagram
  BY <1>1, ElementOfSeq DEF Cur
<1>3. \A s \in 0 .. SeqSpace - 1 : Index(s) \in Slots
  BY ServerAssumption DEF Index, Slots
<1>4. \A a \in 1 .. Cur : SeqOf(a) \in 0 .. SeqSpace - 1
  BY <1>2 DEF Datagram, SeqOf
<1> QED BY <1>1, <1>2, <1>3, <1>4, ServerAssumption DEF Stamp, Arrivals

\* What the RX thread received before stays as it is.
LEMMA ReceiveFacts ==
  ASSUME TypeOK, NEW s \in Seqs, NEW n \in Sizes, Receive(s, n)
  PROVE  /\ arrivals' \in Seq(Datagram) /\ Cur' = Cur + 1 /\ Cur' <= MaxArrivals
         /\ arrivals'[Cur'].bytes = n
         /\ \A a \in 1 .. Cur : arrivals'[a] = arrivals[a]
<1> DEFINE d == [seq |-> IF n >= 4 THEN s ELSE NoSeq, bytes |-> n]
<1>1. d \in Datagram /\ d.bytes = n
  BY ServerAssumption DEF Datagram, NoSeq
<1>2. arrivals' = Append(arrivals, d) /\ arrivals \in Seq(Datagram) /\ Cur < MaxArrivals
  BY DEF Receive, TypeOK, RxType
<1> HIDE DEF d
<1>3. /\ arrivals' \in Seq(Datagram) /\ Len(arrivals') = Len(arrivals) + 1
      /\ arrivals'[Len(arrivals) + 1] = d
      /\ \A a \in 1 .. Len(arrivals) : arrivals'[a] = arrivals[a]
  BY <1>1, <1>2, AppendProperties
<1>4. Len(arrivals) \in Nat
  BY <1>2, LenProperties
<1> QED BY <1>1, <1>2, <1>3, <1>4, ServerAssumption DEF Cur

\* The initial state has the types.
LEMMA InitTypeOK == Init => TypeOK
<1> SUFFICES ASSUME Init PROVE TypeOK
  OBVIOUS
<1>0. graceful \in BOOLEAN /\ sawEmpty \in BOOLEAN /\ ctlRoom \in BOOLEAN
  BY Zenon DEF Init
<1>1. RxType
  <2>1. /\ rpc = "recv" /\ arrivals = <<>> /\ refused = {}
        /\ corrTs = [i \in Slots |-> 0] /\ corrIp = [i \in Slots |-> 0]
        /\ corrKer = [i \in Slots |-> 0] /\ pktKer = 0
    BY DEF Init
  <2>2. /\ corrTs \in [Slots -> Stamp] /\ corrIp \in [Slots -> Stamp]
        /\ corrKer \in [Slots -> Stamp] /\ pktKer \in Stamp
    BY <2>1, ServerAssumption DEF Stamp
  <2>3. arrivals \in Seq(Datagram) /\ Cur <= MaxArrivals
    BY <2>1, ServerAssumption DEF Cur
  <2> QED BY <1>0, <2>1, <2>2, <2>3 DEF RxType
<1>2. TxType
  BY ServerAssumption DEF Init, TxType, Stamp
<1>3. TsType
  <2>1. /\ spc = "loop" /\ phase = "run" /\ turn = 0 /\ done = 0 /\ errors = 0 /\ msg = 0
        /\ txRows = <<>>
    BY DEF Init
  <2> QED BY <1>0, <2>1, ServerAssumption DEF TsType, Stamp
<1>4. SharedType
  BY ServerAssumption DEF Init, SharedType
<1> QED BY <1>1, <1>2, <1>3, <1>4 DEF TypeOK

\* The actions that leave the state of the RX thread alone.
LEMMA RxFrame ==
  ASSUME \/ TxLoop \/ TxDequeue \/ (\E n \in 1 .. MaxBatch : TxSend(n)) \/ TxSendNone
         \/ TxFallback \/ (\E ok \in BOOLEAN : TxSendto(ok))
         \/ TxRecord \/ TxReadTs \/ TxReadIp
         \/ TsLoop \/ TsHealth \/ TsError \/ TsReceive \/ TsLog
         \/ (\E a \in Arrivals : KernelStamp(a)) \/ CancelTs \/ Finished \/ UNCHANGED vars
  PROVE  UNCHANGED rxVars
BY DEF TxLoop, TxDequeue, TxSend, TxSendNone, TxFallback, TxSendto, TxRecord, TxReadTs,
       TxReadIp, TsLoop, TsHealth, TsError, TsReceive, TsLog, KernelStamp, CancelTs,
       Finished, vars

\* The actions that leave the state of the TX thread alone.
LEMMA TxFrame ==
  ASSUME \/ (\E s \in Seqs, n \in Sizes : Receive(s, n)) \/ Enqueue \/ StoreTs \/ StoreIp
         \/ CreateEntry \/ RxStats \/ (\E g \in BOOLEAN : LeaveLoop(g)) \/ JoinTs \/ CancelTs
         \/ StopTx \/ JoinTx \/ TsLoop \/ TsHealth \/ TsEnd \/ TsError \/ TsReceive \/ TsLog
         \/ (\E a \in Arrivals : KernelStamp(a)) \/ Finished \/ UNCHANGED vars
  PROVE  UNCHANGED txVars
BY DEF Receive, Enqueue, StoreTs, StoreIp, CreateEntry, RxStats, LeaveLoop, JoinTs,
       CancelTs, StopTx, JoinTx, TsLoop, TsHealth, TsEnd, TsError, TsReceive, TsLog,
       KernelStamp, Finished, vars

\* The actions that leave the state of the TS code alone.
LEMMA TsFrame ==
  ASSUME \/ (\E s \in Seqs, n \in Sizes : Receive(s, n)) \/ Enqueue \/ StoreTs \/ StoreIp
         \/ CreateEntry \/ RxStats \/ (\E g \in BOOLEAN : LeaveLoop(g)) \/ StopTx \/ JoinTx
         \/ TxLoop \/ TxDequeue \/ (\E n \in 1 .. MaxBatch : TxSend(n)) \/ TxSendNone
         \/ TxFallback \/ (\E ok \in BOOLEAN : TxSendto(ok))
         \/ TxRecord \/ TxReadTs \/ TxReadIp
         \/ (\E a \in Arrivals : KernelStamp(a)) \/ Finished \/ UNCHANGED vars
  PROVE  UNCHANGED tsVars
BY DEF Receive, Enqueue, StoreTs, StoreIp, CreateEntry, RxStats, LeaveLoop, StopTx, JoinTx,
       TxLoop, TxDequeue, TxSend, TxSendNone, TxFallback, TxSendto, TxRecord, TxReadTs,
       TxReadIp, KernelStamp, Finished, vars

\* The actions that leave the queue alone.
LEMMA QueueFrame ==
  ASSUME \/ (\E s \in Seqs, n \in Sizes : Receive(s, n)) \/ StoreTs \/ StoreIp
         \/ CreateEntry \/ RxStats \/ (\E g \in BOOLEAN : LeaveLoop(g)) \/ JoinTs
         \/ CancelTs \/ StopTx \/ JoinTx \/ TxLoop
         \/ (\E n \in 1 .. MaxBatch : TxSend(n)) \/ TxSendNone \/ TxFallback
         \/ (\E ok \in BOOLEAN : TxSendto(ok)) \/ TxRecord \/ TxReadTs \/ TxReadIp
         \/ TsLoop \/ TsHealth \/ TsEnd \/ TsError \/ TsReceive \/ TsLog
         \/ (\E a \in Arrivals : KernelStamp(a)) \/ Finished \/ UNCHANGED vars
  PROVE  UNCHANGED queue
BY DEF Receive, StoreTs, StoreIp, CreateEntry, RxStats, LeaveLoop, JoinTs, CancelTs,
       StopTx, JoinTx, TxLoop, TxSend, TxSendNone, TxFallback, TxSendto, TxRecord,
       TxReadTs, TxReadIp, TsLoop, TsHealth, TsEnd, TsError, TsReceive, TsLog,
       KernelStamp, Finished, vars

\* The actions that send nothing and deliver no TX timestamp.
LEMMA WireFrame ==
  ASSUME \/ (\E s \in Seqs, n \in Sizes : Receive(s, n)) \/ Enqueue \/ StoreTs
         \/ StoreIp \/ CreateEntry \/ RxStats \/ (\E g \in BOOLEAN : LeaveLoop(g))
         \/ JoinTs \/ CancelTs \/ StopTx \/ JoinTx \/ TxLoop \/ TxDequeue \/ TxSendNone
         \/ TxFallback \/ TxRecord \/ TxReadTs \/ TxReadIp \/ TsLoop \/ TsHealth
         \/ TsEnd \/ TsError \/ TsReceive \/ TsLog \/ Finished \/ UNCHANGED vars
  PROVE  UNCHANGED wire
BY DEF Receive, Enqueue, StoreTs, StoreIp, CreateEntry, RxStats, LeaveLoop, JoinTs,
       CancelTs, StopTx, JoinTx, TxLoop, TxDequeue, TxSendNone, TxFallback, TxRecord,
       TxReadTs, TxReadIp, TsLoop, TsHealth, TsEnd, TsError, TsReceive, TsLog, Finished,
       vars

\* The actions that leave the error queue alone.
LEMMA ErrqFrame ==
  ASSUME \/ (\E s \in Seqs, n \in Sizes : Receive(s, n)) \/ Enqueue \/ StoreTs
         \/ StoreIp \/ CreateEntry \/ RxStats \/ (\E g \in BOOLEAN : LeaveLoop(g))
         \/ JoinTs \/ CancelTs \/ StopTx \/ JoinTx \/ TxLoop \/ TxDequeue
         \/ (\E n \in 1 .. MaxBatch : TxSend(n)) \/ TxSendNone \/ TxFallback
         \/ (\E ok \in BOOLEAN : TxSendto(ok)) \/ TxRecord \/ TxReadTs \/ TxReadIp
         \/ TsLoop \/ TsEnd \/ TsError \/ TsLog \/ Finished \/ UNCHANGED vars
  PROVE  UNCHANGED errq
BY DEF Receive, Enqueue, StoreTs, StoreIp, CreateEntry, RxStats, LeaveLoop, JoinTs,
       CancelTs, StopTx, JoinTx, TxLoop, TxDequeue, TxSend, TxSendNone, TxFallback,
       TxSendto, TxRecord, TxReadTs, TxReadIp, TsLoop, TsEnd, TsError, TsLog, Finished,
       vars

\* The step is one of the actions.
LEMMA StepCases ==
  ASSUME [Next]_vars
  PROVE  \/ (\E s \in Seqs, n \in Sizes : Receive(s, n)) \/ Enqueue \/ StoreTs \/ StoreIp
         \/ CreateEntry \/ RxStats \/ (\E g \in BOOLEAN : LeaveLoop(g)) \/ JoinTs \/ CancelTs
         \/ StopTx \/ JoinTx \/ TxLoop \/ TxDequeue \/ (\E n \in 1 .. MaxBatch : TxSend(n))
         \/ TxSendNone \/ TxFallback \/ (\E ok \in BOOLEAN : TxSendto(ok)) \/ TxRecord
         \/ TxReadTs \/ TxReadIp \/ TsLoop \/ TsHealth \/ TsEnd \/ TsError \/ TsReceive
         \/ TsLog \/ (\E a \in Arrivals : KernelStamp(a)) \/ Finished \/ UNCHANGED vars
BY DEF Next, Rx, Tx, Ts

\* Every step preserves the types of the RX thread.
LEMMA NextRxType == ServerInv /\ [Next]_vars => RxType'
<1> SUFFICES ASSUME ServerInv, [Next]_vars PROVE RxType'
  OBVIOUS
<1>0. TypeOK /\ RxType /\ Requested
  BY DEF ServerInv, TypeOK
<1>1. CASE \E s \in Seqs, n \in Sizes : Receive(s, n)
  <2>1. PICK s \in Seqs, n \in Sizes : Receive(s, n)
    BY <1>1
  <2>2. arrivals' \in Seq(Datagram) /\ Cur' <= MaxArrivals
    BY <1>0, <2>1, ReceiveFacts
  <2>3. /\ rpc' \in {"enqueue", "storeTs"}
        /\ UNCHANGED <<graceful, refused, corrTs, corrKer, corrIp>>
    BY <2>1 DEF Receive
  <2>4. ctlRoom' \in BOOLEAN
    BY <2>1, Zenon DEF Receive
  <2>5. pktKer' \in Stamp
    <3>1. pktKer' \in {Cur + 1, pktKer} /\ Cur < MaxArrivals
      BY <2>1 DEF Receive
    <3>2. Cur \in Nat
      BY <1>0, CurType
    <3>3. Cur + 1 \in Stamp
      BY <3>1, <3>2, ServerAssumption DEF Stamp
    <3> QED BY <1>0, <3>1, <3>3 DEF RxType
  <2> QED BY <1>0, <2>2, <2>3, <2>4, <2>5 DEF RxType
<1>2. CASE Enqueue
  <2>1. Cur \in Arrivals
    BY <1>0, <1>2, CurType DEF Enqueue, Requested
  <2>2. /\ rpc' = "storeTs" /\ refused' \subseteq refused \cup {Cur}
        /\ UNCHANGED <<arrivals, graceful, ctlRoom, pktKer, corrTs, corrKer, corrIp>>
    BY <1>2 DEF Enqueue
  <2> QED BY <1>0, <2>1, <2>2 DEF RxType, Cur
<1>3. CASE StoreTs \/ StoreIp
  <2>1. Cur \in Stamp
    BY <1>0, CurType
  <2>2. /\ corrTs' \in [Slots -> Stamp] /\ corrIp' \in [Slots -> Stamp]
        /\ corrKer' \in [Slots -> Stamp]
    BY <1>0, <1>3, <2>1 DEF StoreTs, StoreIp, RxType
  <2>3. /\ rpc' \in {"storeIp", "entry", "recv"}
        /\ UNCHANGED <<arrivals, graceful, refused, ctlRoom, pktKer>>
    BY <1>3 DEF StoreTs, StoreIp
  <2> QED BY <1>0, <2>2, <2>3 DEF RxType, Cur
<1>4. CASE CreateEntry \/ RxStats \/ JoinTs \/ StopTx \/ JoinTx
  <2>1. /\ rpc' \in {"rxStats", "recv", "drain", "stopTx", "joinTx", "done"}
        /\ UNCHANGED <<arrivals, graceful, refused, ctlRoom, pktKer, corrTs, corrKer, corrIp>>
    BY <1>4 DEF CreateEntry, RxStats, JoinTs, StopTx, JoinTx
  <2> QED BY <1>0, <2>1 DEF RxType, Cur
<1>5. CASE \E g \in BOOLEAN : LeaveLoop(g)
  <2>1. /\ rpc' = "joinTs" /\ graceful' \in BOOLEAN
        /\ UNCHANGED <<arrivals, refused, ctlRoom, pktKer, corrTs, corrKer, corrIp>>
    BY <1>5 DEF LeaveLoop
  <2> QED BY <1>0, <2>1 DEF RxType, Cur
<1>6. CASE TsEnd
  <2>1. /\ rpc' \in {rpc, "stopTx"}
        /\ UNCHANGED <<arrivals, graceful, refused, ctlRoom, pktKer, corrTs, corrKer, corrIp>>
    BY <1>6 DEF TsEnd, TsReturn
  <2> QED BY <1>0, <2>1 DEF RxType, Cur
<1>7. CASE UNCHANGED rxVars
  BY <1>0, <1>7 DEF RxType, Cur, rxVars
<1> QED BY <1>1, <1>2, <1>3, <1>4, <1>5, <1>6, <1>7, StepCases, RxFrame

\* Every step preserves the types of the TX thread; a batch never outgrows
\* its target.
LEMMA NextTxType == ServerInv /\ [Next]_vars => TxType'
<1> SUFFICES ASSUME ServerInv, [Next]_vars PROVE TxType'
  OBVIOUS
<1>0. /\ TypeOK /\ RxType /\ TxType /\ SharedType /\ TxPlace /\ Requested
      /\ InOrder /\ StampPlace
  BY DEF ServerInv, TypeOK
<1>1. CASE TxLoop
  <2>1. target' \in 1 .. MaxBatch
    BY <1>0, <1>1, ServerAssumption, EmptySeq, LenProperties DEF TxLoop, TxType, SharedType
  <2>2. tpc' \in {"dequeue", "done"}
        /\ UNCHANGED <<batch, torec, rowTs, rowKer, rows, answers, viaMmsg>>
    BY <1>1 DEF TxLoop
  <2> QED BY <1>0, <2>1, <2>2 DEF TxType
<1>2. CASE TxDequeue
  <2>1. /\ batch' \in Seq(Arrivals) /\ Len(batch') <= MaxBatch
    <3>1. CASE Len(batch) < target /\ queue # <<>> /\ batch' = Append(batch, Head(queue))
      <4>1. Head(queue) \in Arrivals
        BY <1>0, <3>1, IdsElement DEF SharedType
      <4>2. /\ batch' \in Seq(Arrivals) /\ Len(batch') = Len(batch) + 1
        BY <1>0, <3>1, <4>1, IdsAppend DEF TxType
      <4>3. Len(batch) \in Nat /\ target \in 1 .. MaxBatch /\ Len(batch) < target
        BY <1>0, <3>1, LenProperties DEF TxType
      <4> QED BY <4>2, <4>3, ServerAssumption
    <3>2. CASE batch' = batch
      BY <1>0, <3>2 DEF TxType
    <3> QED BY <1>2, <3>1, <3>2 DEF TxDequeue
  <2>2. /\ tpc' \in {tpc, "loop", "send"} /\ target' \in {target, 1}
        /\ UNCHANGED <<torec, rowTs, rowKer, rows, answers, viaMmsg>>
    BY <1>2 DEF TxDequeue
  <2> QED BY <1>0, <2>1, <2>2, ServerAssumption DEF TxType
<1>3. CASE \E n \in 1 .. MaxBatch : TxSend(n)
  <2>1. PICK n \in 1 .. MaxBatch : TxSend(n)
    BY <1>3
  <2>2. n \in 1 .. Len(batch) /\ batch \in Seq(Arrivals)
    BY <1>0, <2>1 DEF TxSend, TxType
  <2> DEFINE p == SubSeq(batch, 1, n)
  <2>3. p \in Seq(Arrivals)
    BY <2>2, Prefix
  <2>4. /\ answers' = answers \o p /\ viaMmsg' = viaMmsg \o p /\ torec' = p
        /\ batch' = <<>> /\ tpc' = NextRecord(torec') /\ UNCHANGED <<target, rowTs, rowKer, rows>>
    BY <2>1 DEF TxSend, Send
  <2> HIDE DEF p
  <2>5. answers' \in Seq(Arrivals) /\ viaMmsg' \in Seq(Arrivals)
    BY <1>0, <2>3, <2>4, IdsConcat DEF TxType
  <2>6. tpc' \in {"loop", "record", "readTs"}
    BY <2>4 DEF NextRecord
  <2> QED BY <1>0, <2>3, <2>4, <2>5, <2>6, ServerAssumption DEF TxType
<1>4. CASE TxSendNone
  BY <1>0, <1>4, ServerAssumption DEF TxSendNone, TxType
<1>5. CASE TxFallback
  BY <1>0, <1>5 DEF TxFallback, TxType
<1>6. CASE \E ok \in BOOLEAN : TxSendto(ok)
  <2>1. /\ tpc = "fallback" /\ batch' = Tail(batch) /\ tpc' \in {"loop", "fallback"}
        /\ answers' \in {answers, answers \o <<Head(batch)>>}
        /\ UNCHANGED <<target, torec, rowTs, rowKer, rows, viaMmsg>>
    BY <1>6 DEF TxSendto, Send
  <2>2. /\ Head(batch) \in Arrivals /\ Tail(batch) \in Seq(Arrivals)
        /\ Len(Tail(batch)) = Len(batch) - 1 /\ Len(batch) \in Nat /\ Len(batch) <= MaxBatch
    BY <1>0, <2>1, IdsElement DEF TxType, TxPlace
  <2>3. answers \o <<Head(batch)>> \in Seq(Arrivals)
    BY <1>0, <2>2, IdsConcat DEF TxType
  <2>4. answers' \in Seq(Arrivals)
    BY <1>0, <2>1, <2>3 DEF TxType
  <2>5. batch' \in Seq(Arrivals) /\ Len(batch') <= MaxBatch
    BY <2>1, <2>2, ServerAssumption
  <2> QED BY <1>0, <2>1, <2>4, <2>5 DEF TxType
<1>7. CASE TxRecord
  <2>1. torec # <<>>
    BY <1>0, <1>7 DEF TxRecord, TxPlace
  <2>2. Tail(torec) \in Seq(Arrivals)
    BY <1>0, <2>1, IdsElement DEF TxType
  <2>3. /\ torec' \in {torec, Tail(torec)} /\ tpc' \in {"readTs", "loop", "record"}
        /\ UNCHANGED <<target, batch, rowTs, rowKer, rows, answers, viaMmsg>>
    BY <1>7 DEF TxRecord, NextRecord
  <2> QED BY <1>0, <2>2, <2>3 DEF TxType
<1>8. CASE TxReadTs \/ TxReadIp
  <2>1. torec # <<>>
    BY <1>0, <1>8 DEF TxReadTs, TxReadIp, TxPlace
  <2> DEFINE a == Head(torec)
  <2>2. a \in Arrivals /\ Tail(torec) \in Seq(Arrivals) /\ a \in Ids(answers)
    BY <1>0, <2>1, IdsElement DEF TxType, TxPlace
  <2>3. a \in 1 .. Cur
    BY <1>0, <2>2 DEF Requested, Handled, Arrivals
  <2>4. /\ corrTs[Index(SeqOf(a))] \in Stamp /\ corrIp[Index(SeqOf(a))] \in Stamp
        /\ corrKer[Index(SeqOf(a))] \in Stamp
    BY <1>0, <2>3, CurType DEF RxType
  <2> HIDE DEF a
  <2>5. CASE TxReadTs
    <3>1. /\ rowTs' = corrTs[Index(SeqOf(a))] /\ rowKer' = corrKer[Index(SeqOf(a))]
          /\ tpc' = "readIp"
          /\ UNCHANGED <<target, batch, torec, rows, answers, viaMmsg>>
      BY <2>5 DEF TxReadTs, a
    <3> QED BY <1>0, <2>4, <3>1 DEF TxType
  <2>6. CASE TxReadIp
    <3> DEFINE r == [pkt |-> a, ts |-> rowTs, ker |-> rowKer,
                    ip |-> corrIp[Index(SeqOf(a))]]
    <3>1. /\ rows' = Append(rows, r) /\ torec' = Tail(torec) /\ rowTs' = 0
          /\ rowKer' = 0 /\ tpc' = NextRecord(Tail(torec))
          /\ UNCHANGED <<target, batch, answers, viaMmsg>>
      BY <2>6 DEF TxReadIp, a
    <3>2. r \in [pkt : Arrivals, ts : Stamp, ker : Stamp, ip : Stamp]
      BY <1>0, <2>2, <2>4 DEF TxType
    <3> HIDE DEF r
    <3>3. rows' \in Seq([pkt : Arrivals, ts : Stamp, ker : Stamp, ip : Stamp])
      BY <1>0, <3>1, <3>2, IdsAppend DEF TxType
    <3>4. tpc' \in {"loop", "record", "readTs"} /\ rowTs' \in Stamp
          /\ rowKer' \in Stamp
      BY <3>1, ServerAssumption DEF NextRecord, Stamp
    <3> QED BY <1>0, <2>2, <3>1, <3>3, <3>4 DEF TxType
  <2> QED BY <1>8, <2>5, <2>6
<1>9. CASE UNCHANGED txVars
  BY <1>0, <1>9 DEF TxType, txVars
<1> QED BY <1>1, <1>2, <1>3, <1>4, <1>5, <1>6, <1>7, <1>8, <1>9, StepCases, TxFrame

\* Every step preserves the types of the TS code; a call counts no more
\* timestamps than it has turns.
LEMMA NextTsType == ServerInv /\ [Next]_vars => TsType'
<1> SUFFICES ASSUME ServerInv, [Next]_vars PROVE TsType'
  OBVIOUS
<1>0. /\ TypeOK /\ RxType /\ TsType /\ SharedType /\ Turns /\ Requested /\ StampPlace
  BY DEF ServerInv, TypeOK
<1>1. CASE JoinTs \/ TsLoop \/ TsHealth
  <2>1. /\ spc' \in {spc, "recv"} /\ phase' \in {phase, "main", "run", "final"}
        /\ UNCHANGED <<turn, done, msg, sawEmpty, errors, txRows>>
    BY <1>1 DEF JoinTs, TsLoop, TsHealth, TsTest
  <2> QED BY <1>0, <2>1 DEF TsType
<1>2. CASE CancelTs
  <2>1. /\ spc' = "done" /\ phase' = "final" /\ turn' = 0 /\ done' = 0
        /\ UNCHANGED <<msg, sawEmpty, errors, txRows>>
    BY <1>2 DEF CancelTs
  <2> QED BY <1>0, <2>1, ServerAssumption DEF TsType
<1>3. CASE TsEnd
  <2>1. /\ spc' \in {"health", "recv", "done"} /\ turn' = 0 /\ done' = 0
        /\ UNCHANGED <<phase, msg, errors, txRows>>
    BY <1>3 DEF TsEnd, TsReturn
  <2>2. sawEmpty' \in BOOLEAN
    BY <1>3, Zenon DEF TsEnd
  <2> QED BY <1>0, <2>1, <2>2, ServerAssumption DEF TsType
<1>4. CASE TsError
  <2>1. /\ errors' = errors + 1 /\ turn' = turn + 1 /\ turn < TsBatch /\ errors < MaxErrors
        /\ UNCHANGED <<spc, phase, done, msg, sawEmpty, txRows>>
    BY <1>4 DEF TsError
  <2>2. turn' \in 0 .. TsBatch /\ errors' \in 0 .. MaxErrors
    BY <1>0, <2>1, ServerAssumption DEF TsType
  <2> QED BY <1>0, <2>1, <2>2 DEF TsType
<1>5. CASE TsReceive
  <2>1. /\ turn' = turn + 1 /\ turn < TsBatch /\ spc' = "log"
        /\ errq # <<>> /\ msg' = Head(errq)
        /\ UNCHANGED <<phase, done, sawEmpty, errors, txRows>>
    BY <1>5 DEF TsReceive
  <2>2. turn' \in 0 .. TsBatch
    BY <1>0, <2>1, ServerAssumption DEF TsType
  <2>3. Head(errq) \in Arrivals
    BY <1>0, <2>1, IdsElement DEF SharedType
  <2>4. msg' \in Stamp
    BY <2>1, <2>3, ServerAssumption DEF Stamp, Arrivals
  <2> QED BY <1>0, <2>1, <2>2, <2>4 DEF TsType
<1>6. CASE TsLog
  <2>1. msg \in 1 .. Cur /\ msg \in Arrivals
    <3>1. msg \in Ids(answers)
      BY <1>0, <1>6 DEF TsLog, StampPlace
    <3>2. msg <= Cur
      BY <1>0, <3>1 DEF Requested, Handled
    <3>3. msg \in Arrivals
      <4>1. answers \in Seq(Arrivals)
        BY <1>0 DEF TypeOK, TxType
      <4> QED BY <3>1, <4>1, ElementOfSeq DEF Ids
    <3> QED BY <1>0, <3>2, <3>3, CurType DEF Arrivals
  <2> DEFINE r == [pkt |-> msg, ip |-> corrIp[Index(SeqOf(msg))]]
             R == [pkt : Arrivals, ip : Stamp]
  <2>2. r \in R
    BY <1>0, <2>1, CurType DEF RxType
  <2>3. /\ txRows' \in {txRows, Append(txRows, r)} /\ done' \in {done, done + 1}
        /\ spc' = "recv" /\ msg' = 0 /\ spc = "log"
        /\ UNCHANGED <<phase, turn, sawEmpty, errors>>
    BY <1>6 DEF TsLog
  <2> HIDE DEF r
  <2>4. txRows' \in Seq(R)
    <3>1. txRows \in Seq(R)
      BY <1>0 DEF TsType
    <3>2. Append(txRows, r) \in Seq(R)
      BY <2>2, <3>1, IdsAppend
    <3> QED BY <2>3, <3>1, <3>2
  <2>5. done' \in 0 .. TsBatch
    BY <1>0, <2>3, ServerAssumption DEF TsType, Turns
  <2> QED BY <1>0, <2>3, <2>4, <2>5, ServerAssumption DEF TsType, Stamp
<1>7. CASE UNCHANGED tsVars
  BY <1>0, <1>7 DEF TsType, tsVars
<1> QED BY <1>1, <1>2, <1>3, <1>4, <1>5, <1>6, <1>7, StepCases, TsFrame

\* An update of the statistics changes a timestamp of one entry at most.
LEMMA UpdateKeeps ==
  ASSUME NEW es \in Seq(Entry), NEW a \in Stamp, pktKer \in Stamp,
         NEW fs \in {UpdateRx(es, a), UpdateAppTx(es, a), UpdateTx(es, a)}
  PROVE  /\ fs \in Seq(Entry) /\ Len(fs) = Len(es)
         /\ \A k \in 1 .. Len(es) : fs[k].seq = es[k].seq
<1> DEFINE f == Found(es, SeqOf(a))
<1>1. \/ fs = es \/ fs = [es EXCEPT ![f].rx = a, ![f].ker = pktKer]
      \/ fs = [es EXCEPT ![f].appTx = a] \/ fs = [es EXCEPT ![f].tx = a]
  BY DEF UpdateRx, UpdateAppTx, UpdateTx
<1>2. DOMAIN es = 1 .. Len(es) /\ Len(es) \in Nat /\ \A k \in 1 .. Len(es) : es[k] \in Entry
  BY LenProperties, ElementOfSeq
<1> HIDE DEF f
<1>3. /\ DOMAIN fs = 1 .. Len(es) /\ fs = [k \in 1 .. Len(es) |-> fs[k]]
      /\ \A k \in 1 .. Len(es) :
           \/ fs[k] = es[k] \/ fs[k] = [es[k] EXCEPT !.rx = a, !.ker = pktKer]
           \/ fs[k] = [es[k] EXCEPT !.appTx = a] \/ fs[k] = [es[k] EXCEPT !.tx = a]
  <2>1. CASE fs = es
    BY <1>2, <2>1
  <2>2. CASE fs = [es EXCEPT ![f].rx = a, ![f].ker = pktKer]
    BY <1>2, <2>2
  <2>3. CASE fs = [es EXCEPT ![f].appTx = a]
    BY <1>2, <2>3
  <2>4. CASE fs = [es EXCEPT ![f].tx = a]
    BY <1>2, <2>4
  <2> QED BY <1>1, <2>1, <2>2, <2>3, <2>4
<1>4. ASSUME NEW k \in 1 .. Len(es) PROVE fs[k] \in Entry /\ fs[k].seq = es[k].seq
  <2>1. es[k] \in Entry
    BY <1>2
  <2>2. CASE fs[k] = [es[k] EXCEPT !.rx = a, !.ker = pktKer]
    BY <2>1, <2>2 DEF Entry
  <2>3. CASE fs[k] = [es[k] EXCEPT !.appTx = a] \/ fs[k] = [es[k] EXCEPT !.tx = a]
             \/ fs[k] = es[k]
    BY <2>1, <2>3 DEF Entry
  <2> QED BY <1>3, <2>2, <2>3
<1>5. fs \in [1 .. Len(es) -> Entry]
  BY <1>3, <1>4
<1>6. fs \in Seq(Entry)
  BY <1>2, <1>5
<1>7. Len(fs) = Len(es)
  <2>1. DOMAIN fs = 1 .. Len(es) /\ Len(es) \in Nat
    BY <1>2, <1>3
  <2> QED BY <2>1
<1> QED BY <1>4, <1>6, <1>7

\* What a step does to the statistics ring: an entry for Cur is added, or the
\* entries keep their sequence numbers.
SameSeqs == Len(stats') >= Len(stats) /\ \A k \in 1 .. Len(stats) : stats'[k].seq = stats[k].seq

\* The ring keeps its entries, and creating one adds it.
LEMMA StatsSteps ==
  ASSUME ServerInv, [Next]_vars
  PROVE  /\ stats' \in Seq(Entry) /\ SameSeqs
         /\ CreateEntry => \E k \in 1 .. Len(stats') : stats'[k].seq = SeqOf(Cur)
<1>0. TypeOK /\ stats \in Seq(Entry) /\ Len(stats) \in Nat /\ Cur \in Stamp /\ pktKer \in Stamp
  BY CurType, LenProperties DEF ServerInv, TypeOK, SharedType, RxType
<1>1. CASE CreateEntry
  <2>1. stats' = Append(stats, NewEntry(Cur)) /\ Cur \in 1 .. Cur
    BY <1>0, <1>1, CurType DEF ServerInv, Requested, CreateEntry
  <2>2. NewEntry(Cur) \in Entry /\ NewEntry(Cur).seq = SeqOf(Cur)
    BY <1>0, <2>1, CurType, ServerAssumption DEF NewEntry, Entry, Stamp
  <2>3. /\ stats' \in Seq(Entry) /\ Len(stats') = Len(stats) + 1
        /\ stats'[Len(stats) + 1] = NewEntry(Cur)
        /\ \A k \in 1 .. Len(stats) : stats'[k] = stats[k]
    BY <1>0, <2>1, <2>2, AppendProperties
  <2>4. Len(stats) + 1 \in 1 .. Len(stats')
    BY <1>0, <2>3
  <2> QED BY <1>0, <2>2, <2>3, <2>4 DEF SameSeqs
<1>2. CASE RxStats \/ TxRecord \/ TsLog
  <2>1. \/ stats' = stats
        \/ \E a \in Stamp : stats' \in {UpdateRx(stats, a), UpdateAppTx(stats, a),
                                        UpdateTx(stats, a)}
    <3>1. CASE RxStats
      BY <1>0, <3>1 DEF RxStats
    <3>2. CASE TxRecord
      <4>1. torec # <<>> /\ torec \in Seq(Arrivals)
        BY <3>2 DEF TxRecord, ServerInv, TxPlace, TypeOK, TxType
      <4>2. Head(torec) \in Stamp
        BY <4>1, IdsElement, ServerAssumption DEF Arrivals, Stamp
      <4> QED BY <3>2, <4>2 DEF TxRecord
    <3>3. CASE TsLog
      <4>1. msg \in Stamp
        BY DEF ServerInv, TypeOK, TsType
      <4> QED BY <3>3, <4>1 DEF TsLog
    <3> QED BY <1>2, <3>1, <3>2, <3>3
  <2>2. CASE stats' = stats
    BY <1>0, <1>2, <2>2 DEF SameSeqs, CreateEntry, RxStats, TxRecord, TsLog, rxVars, txVars
  <2>3. CASE \E a \in Stamp : stats' \in {UpdateRx(stats, a), UpdateAppTx(stats, a),
                                        UpdateTx(stats, a)}
    <3>1. PICK a \in Stamp : stats' \in {UpdateRx(stats, a), UpdateAppTx(stats, a),
                                        UpdateTx(stats, a)}
      BY <2>3
    <3>2. /\ stats' \in Seq(Entry) /\ Len(stats') = Len(stats)
          /\ \A k \in 1 .. Len(stats) : stats'[k].seq = stats[k].seq
      BY <1>0, <3>1, UpdateKeeps
    <3> QED BY <1>0, <1>1, <3>2 DEF SameSeqs
  <2> QED BY <1>1, <2>1, <2>2, <2>3
<1>3. CASE UNCHANGED stats
  BY <1>0, <1>1, <1>3 DEF SameSeqs
<1> QED BY <1>1, <1>2, <1>3, StepCases DEF Receive, Enqueue, StoreTs, StoreIp, LeaveLoop,
       JoinTs, CancelTs, StopTx, JoinTx, TxLoop, TxDequeue, TxSend, TxSendNone, TxFallback,
       TxSendto, TxReadTs, TxReadIp, TsLoop, TsHealth, TsEnd, TsError, TsReceive,
       KernelStamp, Finished, vars

\* Every step preserves the types of what the threads share.
LEMMA NextSharedType == ServerInv /\ [Next]_vars => SharedType'
<1> SUFFICES ASSUME ServerInv, [Next]_vars PROVE SharedType'
  OBVIOUS
<1>0. TypeOK /\ SharedType /\ TxType /\ Requested /\ TxPlace /\ stats' \in Seq(Entry)
  BY StatsSteps DEF ServerInv, TypeOK
<1>1. queue' \in Seq(Arrivals) /\ Len(queue') <= QueueCap
  <2>1. CASE Enqueue
    <3>1. Cur \in Arrivals
      BY <1>0, <2>1, CurType DEF Enqueue, Requested
    <3>2. CASE Len(queue) < QueueCap /\ queue' = Append(queue, Cur)
      <4>1. queue' \in Seq(Arrivals) /\ Len(queue') = Len(queue) + 1 /\ Len(queue) \in Nat
        BY <1>0, <3>1, <3>2, IdsAppend, LenProperties DEF SharedType
      <4> QED BY <3>2, <4>1, ServerAssumption
    <3>3. CASE queue' = queue
      BY <1>0, <3>3 DEF SharedType
    <3> QED BY <2>1, <3>2, <3>3 DEF Enqueue
  <2>2. CASE TxDequeue
    <3>1. CASE queue # <<>> /\ queue' = Tail(queue)
      <4>1. queue' \in Seq(Arrivals) /\ Len(queue') = Len(queue) - 1 /\ Len(queue) \in Nat
        BY <1>0, <3>1, IdsElement DEF SharedType
      <4> QED BY <1>0, <4>1, ServerAssumption DEF SharedType
    <3>2. CASE queue' = queue
      BY <1>0, <3>2 DEF SharedType
    <3> QED BY <2>2, <3>1, <3>2 DEF TxDequeue
  <2>3. CASE UNCHANGED queue
    BY <1>0, <2>3 DEF SharedType
  <2> QED BY <2>1, <2>2, <2>3, StepCases, QueueFrame
<1>2. wire' \subseteq Arrivals
  <2>1. CASE \E n \in 1 .. MaxBatch : TxSend(n)
    <3>1. PICK n \in 1 .. MaxBatch : TxSend(n)
      BY <2>1
    <3>2. n \in 1 .. Len(batch) /\ batch \in Seq(Arrivals)
      BY <1>0, <3>1 DEF TxSend, TxType
    <3>3. Ids(SubSeq(batch, 1, n)) \subseteq Ids(batch) /\ Ids(batch) \subseteq Arrivals
      BY <3>2, Prefix, ElementOfSeq DEF Ids
    <3>4. wire' = wire \cup Ids(SubSeq(batch, 1, n))
      BY <3>1 DEF TxSend, Send
    <3> QED BY <1>0, <3>3, <3>4 DEF SharedType
  <2>2. CASE \E ok \in BOOLEAN : TxSendto(ok)
    <3>1. Head(batch) \in Arrivals
      BY <1>0, <2>2, IdsElement DEF TxSendto, TxPlace, TxType
    <3>2. Ids(<<Head(batch)>>) = {Head(batch)}
      BY DEF Ids
    <3>3. wire' \in {wire, wire \cup Ids(<<Head(batch)>>)}
      BY <2>2 DEF TxSendto, Send
    <3> QED BY <1>0, <3>1, <3>2, <3>3 DEF SharedType
  <2>3. CASE \E a \in Arrivals : KernelStamp(a)
    BY <1>0, <2>3 DEF SharedType, KernelStamp
  <2>4. CASE UNCHANGED wire
    BY <1>0, <2>4 DEF SharedType
  <2> QED BY <2>1, <2>2, <2>3, <2>4, StepCases, WireFrame
<1>3. errq' \in Seq(Arrivals)
  <2>1. CASE \E a \in Arrivals : KernelStamp(a)
    BY <1>0, <2>1, IdsAppend DEF SharedType, KernelStamp
  <2>2. CASE TsHealth \/ TsReceive
    <3>1. errq' = errq \/ (errq # <<>> /\ errq' = Tail(errq))
      BY <2>2 DEF TsHealth, TsReceive
    <3> QED BY <1>0, <3>1, IdsElement DEF SharedType
  <2>3. CASE UNCHANGED errq
    BY <1>0, <2>3 DEF SharedType
  <2> QED BY <2>1, <2>2, <2>3, StepCases, ErrqFrame
<1>4. txRunning' \in {0, 1} /\ tsRunning' \in {0, 1}
  <2>1. CASE StopTx \/ (\E g \in BOOLEAN : LeaveLoop(g))
    BY <1>0, <2>1 DEF SharedType, StopTx, LeaveLoop
  <2>2. CASE UNCHANGED flags
    BY <1>0, <2>2 DEF SharedType, flags
  <2> QED BY <2>1, <2>2, StepCases DEF Receive, Enqueue, StoreTs, StoreIp, CreateEntry,
       RxStats, JoinTs, CancelTs, JoinTx, TxLoop, TxDequeue, TxSend, TxSendNone, TxFallback,
       TxSendto, TxRecord, TxReadTs, TxReadIp, TsLoop, TsHealth, TsEnd, TsError, TsReceive,
       TsLog, KernelStamp, Finished, vars
<1> QED BY <1>0, <1>1, <1>2, <1>3, <1>4 DEF SharedType

\* Every step preserves the types.
LEMMA NextTypeOK == ServerInv /\ [Next]_vars => TypeOK'
BY NextRxType, NextTxType, NextTsType, NextSharedType DEF TypeOK

-----------------------------------------------------------------------------
(* The requests on their way *)

\* The sequences of requests and TX timestamps are of arrivals.
LEMMA SeqTypes ==
  ASSUME TypeOK
  PROVE  /\ queue \in Seq(Arrivals) /\ batch \in Seq(Arrivals) /\ answers \in Seq(Arrivals)
         /\ torec \in Seq(Arrivals) /\ errq \in Seq(Arrivals)
         /\ Ids(queue) \cup Ids(batch) \cup Ids(answers) \cup Ids(errq) \subseteq Arrivals
<1>1. /\ queue \in Seq(Arrivals) /\ batch \in Seq(Arrivals) /\ answers \in Seq(Arrivals)
      /\ torec \in Seq(Arrivals) /\ errq \in Seq(Arrivals)
  BY DEF TypeOK, TxType, SharedType
<1>2. \A s \in Seq(Arrivals) : Ids(s) \subseteq Arrivals
  BY ElementOfSeq DEF Ids
<1> QED BY <1>1, <1>2

\* sendmmsg and sendto: some of the first requests of the batch leave, and what
\* stays in the batch is later.
LEMMA SendFacts ==
  ASSUME ServerInv,
         (\E n \in 1 .. MaxBatch : TxSend(n)) \/ (\E ok \in BOOLEAN : TxSendto(ok))
  PROVE  \E out \in Seq(Arrivals) :
           /\ answers' = answers \o out /\ wire' = wire \cup Ids(out)
           /\ Increasing(out) /\ Ids(out) \subseteq Ids(batch)
           /\ batch' \in Seq(Arrivals) /\ Increasing(batch') /\ Ids(batch') \subseteq Ids(batch)
           /\ Before(Ids(out), Ids(batch'))
<1>0. /\ TypeOK /\ batch \in Seq(Arrivals) /\ answers \in Seq(Arrivals)
      /\ Increasing(batch) /\ TxPlace
  BY SeqTypes DEF ServerInv, InOrder
<1>e. /\ <<>> \in Seq(Arrivals) /\ Increasing(<<>>)
      /\ \A S : Before(S, Ids(<<>>)) /\ Before(Ids(<<>>), S)
  BY IdsEmpty DEF Increasing, Before
<1>1. CASE \E n \in 1 .. MaxBatch : TxSend(n)
  <2>1. PICK n \in 1 .. MaxBatch : TxSend(n)
    BY <1>1
  <2>2. /\ n \in 1 .. Len(batch) /\ answers' = answers \o SubSeq(batch, 1, n)
        /\ wire' = wire \cup Ids(SubSeq(batch, 1, n)) /\ batch' = <<>>
    BY <2>1 DEF TxSend, Send
  <2>3. /\ SubSeq(batch, 1, n) \in Seq(Arrivals) /\ Increasing(SubSeq(batch, 1, n))
        /\ Ids(SubSeq(batch, 1, n)) \subseteq Ids(batch)
    BY <1>0, <2>2, Prefix
  <2>4. Ids(batch') \subseteq Ids(batch)
    BY <2>2, IdsEmpty
  <2> QED BY <1>e, <2>2, <2>3, <2>4
<1>2. CASE \E ok \in BOOLEAN : TxSendto(ok)
  <2>1. batch # <<>> /\ batch' = Tail(batch)
    BY <1>0, <1>2 DEF TxSendto, TxPlace
  <2>2. /\ Head(batch) \in Arrivals /\ Head(batch) \in Ids(batch) /\ batch' \in Seq(Arrivals)
        /\ Ids(batch') \subseteq Ids(batch)
        /\ Increasing(batch') /\ Before({Head(batch)}, Ids(batch'))
    BY <1>0, <2>1, IdsElement, IdsTail, IncreasingTail
  <2>3. CASE answers' = answers \o <<Head(batch)>> /\ wire' = wire \cup Ids(<<Head(batch)>>)
    <3>1. /\ <<Head(batch)>> \in Seq(Arrivals) /\ Ids(<<Head(batch)>>) = {Head(batch)}
          /\ Increasing(<<Head(batch)>>)
      BY <2>2 DEF Ids, Increasing
    <3> QED BY <2>2, <2>3, <3>1
  <2>4. CASE answers' = answers /\ wire' = wire
    <3>1. answers' = answers \o <<>> /\ wire' = wire \cup Ids(<<>>)
      BY <1>0, <2>4, ConcatEmptySeq, IdsEmpty
    <3>2. Ids(<<>>) \subseteq Ids(batch)
      BY IdsEmpty
    <3> QED BY <1>e, <2>2, <3>1, <3>2
  <2> QED BY <1>2, <2>3, <2>4 DEF TxSendto, Send
<1> QED BY <1>1, <1>2

\* What is in the batch or queued has not been sent.
LEMMA NotYetSent ==
  ASSUME TypeOK, InOrder
  PROVE  Ids(answers) \cap Ids(batch) = {} /\ Ids(answers) \cap Ids(queue) = {}
<1>1. \A a \in Arrivals : ~(a < a)
  BY DEF Arrivals
<1> QED BY <1>1, SeqTypes DEF InOrder, Before

\* The actions of the TX thread that take no request on.
LEMMA FlowFrame ==
  ASSUME \/ TxLoop \/ TxFallback \/ TxRecord \/ TxReadTs \/ TxReadIp \/ UNCHANGED txVars
  PROVE  UNCHANGED <<batch, answers>>
BY DEF TxLoop, TxFallback, TxRecord, TxReadTs, TxReadIp, txVars

\* Every step preserves the order of the requests in flight.
LEMMA NextInOrder == ServerInv /\ [Next]_vars => InOrder'
<1> SUFFICES ASSUME ServerInv, [Next]_vars PROVE InOrder'
  OBVIOUS
<1>0. /\ TypeOK /\ InOrder /\ Requested
      /\ queue \in Seq(Arrivals) /\ batch \in Seq(Arrivals) /\ answers \in Seq(Arrivals)
  BY SeqTypes DEF ServerInv
<1>1. CASE Enqueue
  <2>1. UNCHANGED <<batch, answers>>
    BY <1>1, TxFrame, FlowFrame
  <2>2. CASE queue' = Append(queue, Cur)
    <3>1. Cur \in Arrivals
      BY <1>0, <1>1, CurType DEF Enqueue, Requested
    <3>2. Before(Ids(queue), {Cur}) /\ Before(Ids(batch), {Cur}) /\ Before(Ids(answers), {Cur})
      BY <1>0, <1>1 DEF Enqueue, Requested, Handled, Before
    <3>3. Ids(queue') = Ids(queue) \cup {Cur} /\ Increasing(queue')
      BY <1>0, <2>2, <3>1, <3>2, IdsAppend, IncreasingAppend DEF InOrder
    <3> QED BY <1>0, <2>1, <3>2, <3>3 DEF InOrder, Before
  <2>3. CASE queue' = queue
    BY <1>0, <2>1, <2>3 DEF InOrder
  <2> QED BY <1>1, <2>2, <2>3 DEF Enqueue
<1>2. CASE TxDequeue
  <2>1. CASE queue # <<>> /\ batch' = Append(batch, Head(queue)) /\ queue' = Tail(queue)
    <3>1. /\ Head(queue) \in Arrivals /\ Ids(queue) = Ids(queue') \cup {Head(queue)}
          /\ Increasing(queue') /\ Before({Head(queue)}, Ids(queue'))
      BY <1>0, <2>1, IdsElement, IdsTail, IncreasingTail DEF InOrder
    <3>2. Before(Ids(batch), {Head(queue)})
      BY <1>0, <3>1 DEF InOrder, Before
    <3>3. Ids(batch') = Ids(batch) \cup {Head(queue)} /\ Increasing(batch')
      BY <1>0, <2>1, <3>1, <3>2, IdsAppend, IncreasingAppend DEF InOrder
    <3>4. answers' = answers
      BY <1>2 DEF TxDequeue
    <3> QED BY <1>0, <3>1, <3>2, <3>3, <3>4 DEF InOrder, Before
  <2>2. CASE UNCHANGED <<batch, queue>>
    BY <1>0, <1>2, <2>2 DEF TxDequeue, InOrder
  <2> QED BY <1>2, <2>1, <2>2 DEF TxDequeue
<1>3. CASE (\E n \in 1 .. MaxBatch : TxSend(n)) \/ (\E ok \in BOOLEAN : TxSendto(ok))
  <2>1. PICK out \in Seq(Arrivals) :
           /\ answers' = answers \o out
           /\ Increasing(out) /\ Ids(out) \subseteq Ids(batch)
           /\ batch' \in Seq(Arrivals) /\ Increasing(batch') /\ Ids(batch') \subseteq Ids(batch)
           /\ Before(Ids(out), Ids(batch'))
    BY <1>3, SendFacts
  <2>2. Before(Ids(answers), Ids(out))
    BY <1>0, <2>1 DEF InOrder, Before
  <2>3. Ids(answers') = Ids(answers) \cup Ids(out) /\ Increasing(answers')
    BY <1>0, <2>1, <2>2, IdsConcat, IncreasingConcat DEF InOrder
  <2>4. queue' = queue
    BY <1>3, QueueFrame
  <2> QED BY <1>0, <2>1, <2>2, <2>3, <2>4 DEF InOrder, Before
<1>4. CASE TxSendNone
  <2>1. batch' = <<>> /\ answers' = answers /\ queue' = queue
    BY <1>4 DEF TxSendNone
  <2>2. Ids(batch') = {} /\ Increasing(batch')
    BY <2>1, IdsEmpty DEF Increasing
  <2> QED BY <1>0, <2>1, <2>2 DEF InOrder, Before
<1>5. CASE UNCHANGED queue /\ UNCHANGED <<batch, answers>>
  BY <1>0, <1>5 DEF InOrder
<1> QED BY <1>1, <1>2, <1>3, <1>4, <1>5, StepCases, TxFrame, QueueFrame, FlowFrame

\* A step turns a request away, queues the current one, or leaves no request
\* where it was not before.
LEMMA HandledSteps ==
  ASSUME ServerInv, [Next]_vars
  PROVE  \/ /\ Enqueue /\ Handled' = Handled \cup {Cur} /\ refused' = refused
         \/ /\ Enqueue /\ Handled' = Handled /\ refused' = refused \cup {Cur}
         \/ ~Enqueue /\ Handled' \subseteq Handled /\ refused' = refused
<1>0. /\ TypeOK /\ InOrder /\ Requested
      /\ queue \in Seq(Arrivals) /\ batch \in Seq(Arrivals) /\ answers \in Seq(Arrivals)
  BY SeqTypes DEF ServerInv
<1>1. CASE Enqueue
  <2>1. UNCHANGED <<batch, answers>>
    BY <1>1, TxFrame, FlowFrame
  <2>2. CASE queue' = Append(queue, Cur) /\ refused' = refused
    <3>1. Cur \in Arrivals
      BY <1>0, <1>1, CurType DEF Enqueue, Requested
    <3>2. Ids(queue') = Ids(queue) \cup {Cur}
      BY <1>0, <2>2, <3>1, IdsAppend
    <3> QED BY <1>1, <2>1, <2>2, <3>2 DEF Handled
  <2>3. CASE queue' = queue /\ refused' = refused \cup {Cur}
    BY <1>1, <2>1, <2>3 DEF Handled
  <2> QED BY <1>1, <2>2, <2>3 DEF Enqueue
<1>2. ASSUME ~Enqueue PROVE refused' = refused
  <2>1. CASE UNCHANGED rxVars
    BY <2>1 DEF rxVars
  <2>2. CASE ~UNCHANGED rxVars
    BY <1>2, <2>2, StepCases, RxFrame DEF Receive, StoreTs, StoreIp, CreateEntry, RxStats,
       LeaveLoop, JoinTs, StopTx, JoinTx, TsEnd
  <2> QED BY <2>1, <2>2
<1>3. ASSUME ~Enqueue PROVE Handled' \subseteq Handled
  <2>1. CASE TxDequeue
    <3>1. CASE queue # <<>> /\ batch' = Append(batch, Head(queue)) /\ queue' = Tail(queue)
      <4>1. /\ Head(queue) \in Arrivals /\ Ids(queue) = Ids(queue') \cup {Head(queue)}
        BY <1>0, <3>1, IdsElement, IdsTail
      <4>2. Ids(batch') = Ids(batch) \cup {Head(queue)}
        BY <1>0, <3>1, <4>1, IdsAppend
      <4>3. answers' = answers
        BY <2>1 DEF TxDequeue
      <4> QED BY <4>1, <4>2, <4>3 DEF Handled
    <3>2. CASE UNCHANGED <<batch, queue>>
      BY <2>1, <3>2 DEF TxDequeue, Handled
    <3> QED BY <2>1, <3>1, <3>2 DEF TxDequeue
  <2>2. CASE (\E n \in 1 .. MaxBatch : TxSend(n)) \/ (\E ok \in BOOLEAN : TxSendto(ok))
    <3>1. PICK out \in Seq(Arrivals) :
             /\ answers' = answers \o out /\ Ids(out) \subseteq Ids(batch)
             /\ Ids(batch') \subseteq Ids(batch)
      BY <2>2, SendFacts
    <3>2. Ids(answers') = Ids(answers) \cup Ids(out)
      BY <1>0, <3>1, IdsConcat
    <3>3. queue' = queue
      BY <2>2, QueueFrame
    <3> QED BY <3>1, <3>2, <3>3 DEF Handled
  <2>3. CASE TxSendNone
    BY <2>3, IdsEmpty DEF TxSendNone, Handled
  <2>4. CASE UNCHANGED queue /\ UNCHANGED <<batch, answers>>
    BY <2>4 DEF Handled
  <2> QED BY <1>3, <2>1, <2>2, <2>3, <2>4, StepCases, TxFrame, QueueFrame, FlowFrame
<1> QED BY <1>1, <1>2, <1>3

\* What a step does to the datagrams: one more, or the same.
LEMMA ArrivalSteps ==
  ASSUME [Next]_vars, ~(\E s \in Seqs, n \in Sizes : Receive(s, n))
  PROVE  arrivals' = arrivals
<1>1. CASE UNCHANGED rxVars
  BY <1>1 DEF rxVars
<1>2. CASE ~UNCHANGED rxVars
  BY <1>2, StepCases, RxFrame DEF Enqueue, StoreTs, StoreIp, CreateEntry, RxStats,
     LeaveLoop, JoinTs, StopTx, JoinTx, TsEnd
<1> QED BY <1>1, <1>2

\* Where the RX thread goes next.
LEMMA RxMoves ==
  ASSUME Draining, [Next]_vars, ~(\E s \in Seqs, n \in Sizes : Receive(s, n))
  PROVE  /\ rpc' # "enqueue" \/ rpc = "enqueue"
         /\ Enqueue => rpc = "enqueue" /\ rpc' = "storeTs"
         /\ rpc' = "storeTs" => rpc \in {"enqueue", "storeTs"}
         /\ rpc' = "storeIp" => rpc = "storeIp" \/ StoreTs
         /\ rpc' = "entry" => rpc = "entry" \/ StoreIp
         /\ rpc' = "rxStats" => rpc = "rxStats" \/ CreateEntry
         /\ rpc = "enqueue" => rpc' = "enqueue" \/ Enqueue
         /\ rpc = "storeTs" => rpc' = "storeTs" \/ StoreTs
         /\ rpc = "storeIp" => rpc' = "storeIp" \/ StoreIp
         /\ rpc = "entry" => rpc' = "entry" \/ CreateEntry
<1>1. CASE UNCHANGED rxVars
  <2>1. rpc' = rpc
    BY <1>1 DEF rxVars
  <2>2. Enqueue => rpc = "enqueue" /\ rpc' = "storeTs"
    BY DEF Enqueue
  <2> QED BY <2>1, <2>2
<1>2. CASE ~UNCHANGED rxVars
  <2>1. CASE Enqueue \/ StoreTs \/ StoreIp \/ CreateEntry \/ RxStats
    BY <2>1 DEF Enqueue, StoreTs, StoreIp, CreateEntry, RxStats
  <2>2. CASE (\E g \in BOOLEAN : LeaveLoop(g)) \/ JoinTs \/ StopTx \/ JoinTx
    BY <2>2 DEF LeaveLoop, JoinTs, StopTx, JoinTx, Enqueue
  <2>3. CASE TsEnd
    <3>1. /\ rpc' = rpc \/ (phase = "main" /\ rpc' = "stopTx")
          /\ Enqueue => rpc = "enqueue" /\ rpc' = "storeTs"
      BY <2>3 DEF TsEnd, TsReturn, Enqueue
    <3> QED BY <3>1 DEF Draining
  <2> QED BY <1>2, <2>1, <2>2, <2>3, StepCases, RxFrame
<1> QED BY <1>1, <1>2

\* Every step preserves whose requests are in flight.
LEMMA NextRequested == ServerInv /\ [Next]_vars => Requested'
<1> SUFFICES ASSUME ServerInv, [Next]_vars PROVE Requested'
  OBVIOUS
<1>0. /\ TypeOK /\ Requested /\ Draining /\ Cur \in Nat
      /\ Handled \cup refused \subseteq Arrivals
  BY CurType, SeqTypes DEF ServerInv, Handled, TypeOK, RxType
<1>1. CASE \E s \in Seqs, n \in Sizes : Receive(s, n)
  <2>1. PICK s \in Seqs, n \in Sizes : Receive(s, n)
    BY <1>1
  <2>2. /\ Cur' = Cur + 1 /\ arrivals'[Cur'].bytes = n
        /\ \A a \in 1 .. Cur : arrivals'[a] = arrivals[a]
    BY <1>0, <2>1, ReceiveFacts
  <2>3. rpc = "recv" /\ rpc' = IF n >= 8 THEN "enqueue" ELSE "storeTs"
    BY <2>1 DEF Receive
  <2>4. ~Enqueue
    BY <2>3 DEF Enqueue
  <2>5. Handled' \subseteq Handled /\ refused' = refused
    BY <2>4, HandledSteps
  <2>6. ASSUME NEW a \in Handled' \cup refused'
        PROVE  a <= Cur' /\ arrivals'[a].bytes >= 8 /\ (rpc' = "enqueue" => a < Cur')
    <3>1. a \in Arrivals /\ a <= Cur /\ arrivals[a].bytes >= 8
      BY <1>0, <2>5, <2>6 DEF Requested
    <3>2. a \in 1 .. Cur
      BY <1>0, <3>1 DEF Arrivals
    <3> QED BY <1>0, <2>2, <3>1, <3>2
  <2>7. rpc' = "enqueue" => arrivals'[Cur'].bytes >= 8
    BY <2>2, <2>3
  <2>8. Cur' >= 1
    BY <1>0, <2>2
  <2> QED BY <1>0, <2>5, <2>6, <2>7, <2>8 DEF Requested
<1>2. CASE ~\E s \in Seqs, n \in Sizes : Receive(s, n)
  <2>1. arrivals' = arrivals /\ Cur' = Cur
    BY <1>2, ArrivalSteps DEF Cur
  <2>2. /\ rpc' # "enqueue" \/ rpc = "enqueue"
        /\ Enqueue => rpc = "enqueue" /\ rpc' = "storeTs"
        /\ rpc' \in {"enqueue", "storeTs", "storeIp", "entry", "rxStats"} =>
             rpc \in {"enqueue", "storeTs", "storeIp", "entry", "rxStats"}
    <3>1. /\ StoreTs => rpc = "storeTs"
          /\ StoreIp => rpc = "storeIp"
          /\ CreateEntry => rpc = "entry"
      BY DEF StoreTs, StoreIp, CreateEntry
    <3> QED BY <1>0, <1>2, <3>1, RxMoves
  <2>3. CASE Enqueue
    <3>1. /\ rpc = "enqueue" /\ rpc' = "storeTs" /\ Cur >= 1 /\ arrivals[Cur].bytes >= 8
          /\ \A a \in Handled \cup refused : a < Cur
      BY <1>0, <2>2, <2>3 DEF Requested
    <3>2. Cur \notin Handled \cup refused
      BY <1>0, <3>1
    <3>3. Handled' \cup refused' = Handled \cup refused \cup {Cur} /\ Handled' \cap refused' = {}
      BY <1>0, <2>3, <3>2, HandledSteps DEF Requested
    <3>4. \A a \in Handled' \cup refused' : a <= Cur /\ arrivals[a].bytes >= 8
      BY <1>0, <3>1, <3>3 DEF Requested
    <3> QED BY <2>1, <3>1, <3>3, <3>4 DEF Requested
  <2>4. CASE ~Enqueue
    <3>1. Handled' \subseteq Handled /\ refused' = refused
      BY <2>4, HandledSteps
    <3>2. Handled' \cap refused' = {}
      BY <1>0, <3>1 DEF Requested
    <3>3. \A a \in Handled' \cup refused' :
            a <= Cur /\ arrivals[a].bytes >= 8 /\ (rpc' = "enqueue" => a < Cur)
      BY <1>0, <2>2, <3>1 DEF Requested
    <3> QED BY <1>0, <2>1, <2>2, <3>2, <3>3 DEF Requested
  <2> QED BY <2>3, <2>4
<1> QED BY <1>1, <1>2

\* Every step preserves where the TX thread has its requests.
LEMMA NextTxPlace == ServerInv /\ [Next]_vars => TxPlace'
<1> SUFFICES ASSUME ServerInv, [Next]_vars PROVE TxPlace'
  OBVIOUS
<1>0. /\ TypeOK /\ TxPlace /\ InOrder
      /\ queue \in Seq(Arrivals) /\ batch \in Seq(Arrivals) /\ answers \in Seq(Arrivals)
      /\ torec \in Seq(Arrivals)
  BY SeqTypes DEF ServerInv
<1>1. CASE TxLoop
  <2>1. tpc = "loop" /\ tpc' \in {"dequeue", "done"} /\ UNCHANGED <<batch, torec, answers>>
    BY <1>1 DEF TxLoop
  <2> QED BY <1>0, <2>1 DEF TxPlace
<1>2. CASE TxDequeue
  <2>1. tpc = "dequeue" /\ UNCHANGED <<torec, answers>>
    BY <1>2 DEF TxDequeue
  <2>2. \/ tpc' = "dequeue" \/ (tpc' = "loop" /\ batch' = <<>>)
        \/ (tpc' = "send" /\ batch' # <<>>)
    BY <1>2 DEF TxDequeue
  <2> QED BY <1>0, <2>1, <2>2 DEF TxPlace
<1>3. CASE \E n \in 1 .. MaxBatch : TxSend(n)
  <2>1. PICK n \in 1 .. MaxBatch : TxSend(n)
    BY <1>3
  <2> DEFINE p == SubSeq(batch, 1, n)
  <2>2. /\ n \in 1 .. Len(batch) /\ answers' = answers \o p
        /\ torec' = p /\ batch' = <<>> /\ tpc' = NextRecord(p)
    BY <2>1 DEF TxSend, Send
  <2>3. p \in Seq(Arrivals) /\ p # <<>>
    BY <1>0, <2>2, Prefix
  <2> HIDE DEF p
  <2>4. Ids(torec') \subseteq Ids(answers')
    BY <1>0, <2>2, <2>3, IdsConcat
  <2>5. tpc' \in {"record", "readTs"}
    BY <2>2, <2>3 DEF NextRecord
  <2> QED BY <2>2, <2>3, <2>4, <2>5 DEF TxPlace
<1>4. CASE TxSendNone
  BY <1>0, <1>4 DEF TxSendNone, TxPlace
<1>5. CASE TxFallback
  BY <1>0, <1>5 DEF TxFallback, TxPlace
<1>6. CASE \E ok \in BOOLEAN : TxSendto(ok)
  <2>1. /\ tpc = "fallback" /\ tpc' = (IF batch' = <<>> THEN "loop" ELSE "fallback")
        /\ torec' = torec
    BY <1>6 DEF TxSendto
  <2>2. torec = <<>>
    BY <1>0, <2>1 DEF TxPlace
  <2>3. Ids(torec') = {}
    BY <2>1, <2>2, IdsEmpty
  <2> QED BY <2>1, <2>2, <2>3 DEF TxPlace
<1>7. CASE TxRecord \/ TxReadIp
  <2>1. /\ tpc \in {"record", "readIp"} /\ UNCHANGED <<batch, answers>>
        /\ \/ torec' = torec /\ tpc' = "readTs"
           \/ torec' = Tail(torec) /\ tpc' = NextRecord(Tail(torec))
    BY <1>7 DEF TxRecord, TxReadIp
  <2>2. torec # <<>> /\ batch = <<>>
    BY <1>0, <2>1 DEF TxPlace
  <2>3. Ids(Tail(torec)) \subseteq Ids(torec)
    BY <1>0, <2>2, IdsTail
  <2>4. \/ tpc' \in {"record", "readTs"} /\ torec' # <<>>
        \/ tpc' = "loop" /\ torec' = <<>>
    BY <2>1, <2>2 DEF NextRecord
  <2> QED BY <1>0, <2>1, <2>2, <2>3, <2>4 DEF TxPlace
<1>8. CASE TxReadTs
  BY <1>0, <1>8 DEF TxReadTs, TxPlace
<1>9. CASE UNCHANGED txVars
  BY <1>0, <1>9 DEF TxPlace, txVars
<1> QED BY <1>1, <1>2, <1>3, <1>4, <1>5, <1>6, <1>7, <1>8, <1>9, StepCases, TxFrame

\* Every step preserves that the rows follow the sends.
LEMMA NextRowsFollowSends == ServerInv /\ [Next]_vars => RowsFollowSends'
<1> DEFINE R == [pkt : Arrivals, ts : Stamp, ker : Stamp, ip : Stamp]
<1> SUFFICES ASSUME ServerInv, [Next]_vars, CsvEnabled
             PROVE  viaMmsg' = Pkts(rows)' \o torec'
  BY DEF RowsFollowSends, Pkts
<1>0. /\ TypeOK /\ TxPlace /\ torec \in Seq(Arrivals) /\ rows \in Seq(R)
      /\ viaMmsg = Pkts(rows) \o torec /\ \A r \in R : r.pkt \in Arrivals
      /\ Pkts(rows) \in Seq(Arrivals) /\ batch \in Seq(Arrivals)
  <2>1. /\ TypeOK /\ TxPlace /\ torec \in Seq(Arrivals) /\ rows \in Seq(R)
        /\ viaMmsg = Pkts(rows) \o torec /\ batch \in Seq(Arrivals)
    BY DEF ServerInv, TypeOK, TxType, RowsFollowSends, Pkts
  <2>2. \A r \in R : r.pkt \in Arrivals
    OBVIOUS
  <2> QED BY <2>1, <2>2, PktsType
<1> HIDE DEF R
<1>1. CASE \E n \in 1 .. MaxBatch : TxSend(n)
  <2>1. PICK n \in 1 .. MaxBatch : TxSend(n)
    BY <1>1
  <2>2. /\ tpc = "send" /\ n \in 1 .. Len(batch) /\ viaMmsg' = viaMmsg \o SubSeq(batch, 1, n)
        /\ torec' = SubSeq(batch, 1, n) /\ rows' = rows
    BY <2>1 DEF TxSend
  <2>3. torec = <<>>
    BY <1>0, <2>2 DEF TxPlace
  <2>4. viaMmsg = Pkts(rows)
    BY <1>0, <2>3, ConcatEmptySeq
  <2> QED BY <2>2, <2>4
<1>2. CASE TxReadIp
  <2> DEFINE r == [pkt |-> Head(torec), ts |-> rowTs, ker |-> rowKer,
                   ip |-> corrIp[Index(SeqOf(Head(torec)))]]
  <2>1. /\ tpc = "readIp" /\ rows' = Append(rows, r) /\ torec' = Tail(torec)
        /\ viaMmsg' = viaMmsg /\ r.pkt = Head(torec)
    BY <1>2 DEF TxReadIp
  <2>2. torec # <<>>
    BY <1>0, <2>1 DEF TxPlace
  <2>3. r \in R
    <3>1. Head(torec) \in Ids(answers) /\ Head(torec) \in Arrivals
      BY <1>0, <2>2, IdsElement DEF TxPlace
    <3>2. Head(torec) \in 1 .. Cur
      BY <3>1 DEF ServerInv, Requested, Handled, Arrivals
    <3>3. corrIp[Index(SeqOf(Head(torec)))] \in Stamp /\ rowTs \in Stamp /\ rowKer \in Stamp
      BY <1>0, <3>2, CurType DEF TypeOK, RxType, TxType
    <3> QED BY <3>1, <3>3 DEF R
  <2> HIDE DEF r
  <2>4. Pkts(rows') = Append(Pkts(rows), Head(torec))
    <3>1. Pkts(Append(rows, r)) = Append(Pkts(rows), r.pkt)
      BY <1>0, <2>3, PktsAppend
    <3> QED BY <2>1, <3>1
  <2>5. Append(Pkts(rows), Head(torec)) \o Tail(torec) = Pkts(rows) \o torec
    BY <1>0, <2>2, MoveHead
  <2>6. Pkts(rows)' = Pkts(rows')
    BY DEF Pkts
  <2> QED BY <1>0, <2>1, <2>4, <2>5, <2>6
<1>3. CASE TxRecord
  BY <1>0, <1>3 DEF TxRecord, Pkts
<1>4. CASE UNCHANGED <<viaMmsg, rows, torec>>
  BY <1>0, <1>4 DEF Pkts
<1>5. CASE TxLoop \/ TxDequeue \/ TxSendNone \/ TxFallback \/ TxReadTs
           \/ (\E ok \in BOOLEAN : TxSendto(ok)) \/ UNCHANGED txVars
  <2>1. UNCHANGED <<viaMmsg, rows, torec>>
    BY <1>5 DEF TxLoop, TxDequeue, TxSendNone, TxFallback, TxReadTs, TxSendto, txVars
  <2> QED BY <1>4, <2>1
<1> QED BY <1>1, <1>2, <1>3, <1>5, StepCases, TxFrame

-----------------------------------------------------------------------------
(* The TX timestamps *)

\* Every step preserves that a TX timestamp is at one place.
LEMMA NextStampPlace == ServerInv /\ [Next]_vars => StampPlace'
<1> DEFINE R == [pkt : Arrivals, ip : Stamp]
<1> SUFFICES ASSUME ServerInv, [Next]_vars PROVE StampPlace'
  OBVIOUS
<1>0. /\ TypeOK /\ InOrder /\ StampPlace /\ errq \in Seq(Arrivals)
      /\ answers \in Seq(Arrivals) /\ batch \in Seq(Arrivals)
      /\ txRows \in Seq(R) /\ Pkts(txRows) \in Seq(Arrivals)
      /\ \A r \in R : r.pkt \in Arrivals
  <2>1. /\ TypeOK /\ InOrder /\ StampPlace /\ errq \in Seq(Arrivals)
        /\ answers \in Seq(Arrivals) /\ batch \in Seq(Arrivals) /\ txRows \in Seq(R)
    BY SeqTypes DEF ServerInv, TypeOK, TsType
  <2>2. \A r \in R : r.pkt \in Arrivals
    OBVIOUS
  <2> QED BY <2>1, <2>2, PktsType
<1>p. Pkts(txRows)' = Pkts(txRows')
  BY DEF Pkts
<1> HIDE DEF R
<1>1. CASE (\E n \in 1 .. MaxBatch : TxSend(n)) \/ (\E ok \in BOOLEAN : TxSendto(ok))
  <2>1. PICK out \in Seq(Arrivals) :
          /\ answers' = answers \o out /\ wire' = wire \cup Ids(out)
          /\ Ids(out) \subseteq Ids(batch)
    BY <1>1, SendFacts
  <2>2. Ids(answers') = Ids(answers) \cup Ids(out)
    BY <1>0, <2>1, IdsConcat
  <2>3. Ids(out) \cap Ids(answers) = {}
    BY <1>0, <2>1, NotYetSent
  <2>4. errq' = errq /\ UNCHANGED tsVars
    BY <1>1, ErrqFrame, TsFrame
  <2>5. txRows' = txRows /\ spc' = spc /\ msg' = msg
    BY <2>4 DEF tsVars
  <2> QED BY <1>0, <1>p, <2>1, <2>2, <2>3, <2>4, <2>5 DEF StampPlace
<1>2. CASE \E a \in Arrivals : KernelStamp(a)
  <2>1. PICK a \in Arrivals : KernelStamp(a)
    BY <1>2
  <2>2. /\ a \in wire /\ wire' = wire \ {a} /\ errq' = Append(errq, a)
        /\ UNCHANGED <<answers, txRows, spc, msg>>
    BY <2>1 DEF KernelStamp, txVars, tsVars
  <2>3. Ids(errq') = Ids(errq) \cup {a}
    BY <1>0, <2>2, IdsAppend
  <2>4. Distinct(errq')
    BY <1>0, <2>2, DistinctAppend DEF StampPlace
  <2> QED BY <1>0, <1>p, <2>2, <2>3, <2>4 DEF StampPlace
<1>3. CASE TsHealth \/ TsReceive
  <2>1. UNCHANGED <<wire, answers, txRows>>
    BY <1>3 DEF TsHealth, TsReceive, txVars
  <2>2. CASE errq' = errq /\ spc' # "log"
    BY <1>0, <1>p, <2>1, <2>2 DEF StampPlace
  <2>3. CASE errq # <<>> /\ errq' = Tail(errq) /\ (spc' = "log" => msg' = Head(errq))
    <3>1. /\ Ids(errq) = Ids(errq') \cup {Head(errq)} /\ Distinct(errq')
          /\ Head(errq) \notin Ids(errq')
      BY <1>0, <2>3, IdsTail, DistinctTail DEF StampPlace
    <3> QED BY <1>0, <1>p, <2>1, <2>3, <3>1 DEF StampPlace
  <2> QED BY <1>3, <2>2, <2>3 DEF TsHealth, TsReceive, TsTest
<1>4. CASE TsLog
  <2> DEFINE r == [pkt |-> msg, ip |-> corrIp[Index(SeqOf(msg))]]
  <2>1. /\ UNCHANGED <<wire, errq, answers>> /\ spc = "log" /\ spc' = "recv"
    BY <1>4 DEF TsLog, txVars
  <2>2. /\ msg \in Ids(answers) /\ msg \notin wire \cup Ids(errq) \cup Ids(Pkts(txRows))
    BY <1>0, <2>1 DEF StampPlace
  <2>3. CASE txRows' = Append(txRows, r)
    <3>1. r.pkt = msg
      OBVIOUS
    <3>2. r \in R
      <4>1. msg \in Arrivals
        BY <1>0, <2>2, SeqTypes
      <4>2. msg \in 1 .. Cur
        BY <2>2, <4>1 DEF ServerInv, Requested, Handled, Arrivals
      <4>3. corrIp[Index(SeqOf(msg))] \in Stamp
        BY <1>0, <4>2, CurType DEF TypeOK, RxType
      <4> QED BY <4>1, <4>3 DEF R
    <3> HIDE DEF r
    <3>3. Pkts(Append(txRows, r)) = Append(Pkts(txRows), r.pkt)
      BY <1>0, <3>2, PktsAppend
    <3>4. Pkts(txRows') = Append(Pkts(txRows), msg)
      BY <2>3, <3>1, <3>3
    <3>5. msg \in Arrivals
      BY <1>0, <2>2, SeqTypes
    <3>6. Ids(Pkts(txRows')) = Ids(Pkts(txRows)) \cup {msg}
      BY <1>0, <3>4, <3>5, IdsAppend
    <3>7. Distinct(Pkts(txRows'))
      BY <1>0, <2>2, <3>4, <3>5, DistinctAppend DEF StampPlace
    <3> QED BY <1>0, <1>p, <2>1, <2>2, <3>6, <3>7 DEF StampPlace
  <2>4. CASE txRows' = txRows
    BY <1>0, <1>p, <2>1, <2>4 DEF StampPlace
  <2> QED BY <1>4, <2>3, <2>4 DEF TsLog
<1>5. CASE JoinTs \/ CancelTs \/ TsLoop \/ TsEnd \/ TsError
  <2>1. UNCHANGED <<wire, errq, answers, txRows, msg>> /\ (spc' = "log" => spc = "log")
    BY <1>5 DEF JoinTs, CancelTs, TsLoop, TsTest, TsEnd, TsReturn, TsError, txVars
  <2> QED BY <1>0, <1>p, <2>1 DEF StampPlace
<1>6. CASE TxDequeue \/ TxSendNone \/ TxLoop \/ TxFallback \/ TxRecord \/ TxReadTs \/ TxReadIp
  <2>1. UNCHANGED <<wire, errq, answers, txRows, msg, spc>>
    BY <1>6 DEF TxDequeue, TxSendNone, TxLoop, TxFallback, TxRecord, TxReadTs, TxReadIp, tsVars
  <2> QED BY <1>0, <1>p, <2>1 DEF StampPlace
<1>7. CASE UNCHANGED txVars /\ UNCHANGED tsVars /\ UNCHANGED wire /\ UNCHANGED errq
  <2>1. UNCHANGED <<wire, errq, answers, txRows, msg, spc>>
    BY <1>7 DEF txVars, tsVars
  <2> QED BY <1>0, <1>p, <2>1 DEF StampPlace
<1> QED BY <1>1, <1>2, <1>3, <1>4, <1>5, <1>6, <1>7, StepCases, TxFrame, TsFrame,
           WireFrame, ErrqFrame

-----------------------------------------------------------------------------
(* The correlation arrays and the statistics *)

\* A slot is overwritten only by the datagram being filed.
LEMMA CorrSteps ==
  ASSUME [Next]_vars
  PROVE  /\ UNCHANGED <<corrTs, corrKer>> \/ StoreTs
         /\ corrIp' = corrIp \/ StoreIp
<1>1. CASE UNCHANGED rxVars
  BY <1>1 DEF rxVars
<1>2. CASE ~UNCHANGED rxVars
  BY <1>2, StepCases, RxFrame DEF Receive, Enqueue, StoreTs, StoreIp, CreateEntry, RxStats,
     LeaveLoop, JoinTs, StopTx, JoinTx, TsEnd
<1> QED BY <1>1, <1>2

\* Filing a datagram makes it the latest of its slot and changes no other slot.
LEMMA FileLast ==
  ASSUME NEW ds \in Seq(Datagram), NEW arr \in [Slots -> Stamp],
         Len(ds) >= 1, \A a \in 1 .. Len(ds) : a < Len(ds) => LatestOfSlot(arr, ds, a)
  PROVE  \A a \in 1 .. Len(ds) :
           LatestOfSlot([arr EXCEPT ![Index(ds[Len(ds)].seq)] = Len(ds)], ds, a)
<1> DEFINE c   == Len(ds)
           new == [arr EXCEPT ![Index(ds[c].seq)] = c]
<1> SUFFICES ASSUME NEW a \in 1 .. c PROVE LatestOfSlot(new, ds, a)
  OBVIOUS
<1>1. c \in Nat /\ c \in 1 .. c /\ \A b \in 1 .. c : Index(ds[b].seq) \in Slots
  <2>1. c \in Nat /\ \A b \in 1 .. c : ds[b] \in Datagram
    BY LenProperties, ElementOfSeq
  <2>2. \A x \in 0 .. SeqSpace - 1 : Index(x) \in Slots
    BY ServerAssumption DEF Index, Slots
  <2> QED BY <2>1, <2>2 DEF Datagram
<1> HIDE DEF c
<1>2. CASE Index(ds[a].seq) = Index(ds[c].seq)
  <2>1. new[Index(ds[a].seq)] = c
    BY <1>1, <1>2
  <2> HIDE DEF new
  <2> QED BY <1>1, <1>2, <2>1 DEF LatestOfSlot, c
<1>3. CASE Index(ds[a].seq) # Index(ds[c].seq)
  <2>1. new[Index(ds[a].seq)] = arr[Index(ds[a].seq)]
    BY <1>1, <1>3
  <2>2. a < c
    BY <1>1, <1>3
  <2>3. LatestOfSlot(arr, ds, a)
    BY <2>2 DEF c
  <2> HIDE DEF new
  <2> QED BY <2>1, <2>3 DEF LatestOfSlot
<1> QED BY <1>2, <1>3

\* A datagram that arrives leaves the slots of the earlier ones alone.
LEMMA ReceiveKeepsSlots ==
  ASSUME NEW ds \in Seq(Datagram), NEW es \in Seq(Datagram), NEW arr, NEW a \in 1 .. Len(ds),
         Len(es) = Len(ds) + 1, \A b \in 1 .. Len(ds) : es[b] = ds[b], LatestOfSlot(arr, ds, a)
  PROVE  LatestOfSlot(arr, es, a)
<1> DEFINE x == arr[Index(ds[a].seq)]
<1>1. x \in a .. Len(ds) /\ Index(ds[x].seq) = Index(ds[a].seq) /\ es[a] = ds[a]
  BY DEF LatestOfSlot
<1>2. Len(ds) \in Nat
  BY LenProperties
<1> HIDE DEF x
<1>3. x \in 1 .. Len(ds)
  BY <1>1, <1>2
<1>4. x \in a .. Len(es) /\ es[x] = ds[x]
  BY <1>1, <1>2, <1>3
<1> QED BY <1>1, <1>4 DEF LatestOfSlot, x

\* Every step preserves what the slots of the correlation arrays hold.
LEMMA NextCorrelated == ServerInv /\ [Next]_vars => Correlated'
<1> SUFFICES ASSUME ServerInv, [Next]_vars PROVE Correlated'
  OBVIOUS
<1> DEFINE P == {"enqueue", "storeTs"}
           I == {"enqueue", "storeTs", "storeIp"}
<1>0. /\ TypeOK /\ Draining /\ Requested /\ arrivals \in Seq(Datagram) /\ Cur = Len(arrivals)
      /\ corrTs \in [Slots -> Stamp] /\ corrIp \in [Slots -> Stamp] /\ Cur \in Nat
      /\ \A a \in 1 .. Cur : (a < Cur \/ rpc \notin P) => LatestOfSlot(corrTs, arrivals, a)
      /\ \A a \in 1 .. Cur : (a < Cur \/ rpc \notin I) => LatestOfSlot(corrIp, arrivals, a)
  BY CurType DEF ServerInv, TypeOK, RxType, Correlated, LatestFiled, Cur
<1>g. /\ Cur' = Len(arrivals')
      /\ (\A a \in 1 .. Cur' : (a < Cur' \/ rpc' \notin P) => LatestOfSlot(corrTs', arrivals', a))
           => LatestFiled(corrTs, P)'
      /\ (\A a \in 1 .. Cur' : (a < Cur' \/ rpc' \notin I) => LatestOfSlot(corrIp', arrivals', a))
           => LatestFiled(corrIp, I)'
  BY DEF LatestFiled, Cur, LatestOfSlot, Index
<1>1. CASE \E s \in Seqs, n \in Sizes : Receive(s, n)
  <2>1. PICK s \in Seqs, n \in Sizes : Receive(s, n)
    BY <1>1
  <2>2. /\ arrivals' \in Seq(Datagram) /\ Cur' = Cur + 1
        /\ \A a \in 1 .. Cur : arrivals'[a] = arrivals[a]
    BY <1>0, <2>1, ReceiveFacts
  <2>3. /\ rpc = "recv" /\ rpc' \in P /\ UNCHANGED <<corrTs, corrIp>>
    BY <2>1 DEF Receive
  <2>4. ASSUME NEW a \in 1 .. Cur', a < Cur'
        PROVE  LatestOfSlot(corrTs, arrivals', a) /\ LatestOfSlot(corrIp, arrivals', a)
    <3>1. a \in 1 .. Cur
      BY <1>0, <2>2, <2>4
    <3>2. LatestOfSlot(corrTs, arrivals, a) /\ LatestOfSlot(corrIp, arrivals, a)
      BY <1>0, <2>3, <3>1
    <3> QED BY <1>0, <1>g, <2>2, <3>1, <3>2, ReceiveKeepsSlots
  <2>5. rpc' \in I
    BY <2>3
  <2> QED BY <1>g, <2>3, <2>4, <2>5 DEF Correlated
<1>2. CASE ~\E s \in Seqs, n \in Sizes : Receive(s, n)
  <2>1. arrivals' = arrivals /\ Cur' = Cur
    BY <1>2, ArrivalSteps DEF Cur
  <2>2. \A a \in 1 .. Cur : (a < Cur \/ rpc' \notin P) => LatestOfSlot(corrTs', arrivals, a)
    <3>1. CASE StoreTs
      <4>1. rpc = "storeTs" /\ corrTs' = [corrTs EXCEPT ![Index(arrivals[Cur].seq)] = Cur]
        BY <3>1 DEF StoreTs, SeqOf
      <4>2. Cur >= 1
        BY <1>0, <4>1 DEF Requested
      <4> QED BY <1>0, <4>1, <4>2, FileLast
    <3>2. CASE ~StoreTs
      <4>1. corrTs' = corrTs /\ (rpc' \notin P => rpc \notin P)
        BY <1>0, <1>2, <3>2, CorrSteps, RxMoves
      <4> QED BY <1>0, <4>1
    <3> QED BY <3>1, <3>2
  <2>3. \A a \in 1 .. Cur : (a < Cur \/ rpc' \notin I) => LatestOfSlot(corrIp', arrivals, a)
    <3>1. CASE StoreIp
      <4>1. rpc = "storeIp" /\ corrIp' = [corrIp EXCEPT ![Index(arrivals[Cur].seq)] = Cur]
        BY <3>1 DEF StoreIp, SeqOf
      <4>2. Cur >= 1
        BY <1>0, <4>1 DEF Requested
      <4> QED BY <1>0, <4>1, <4>2, FileLast
    <3>2. CASE ~StoreIp
      <4>1. StoreTs => rpc' = "storeIp"
        BY DEF StoreTs
      <4>2. Enqueue => rpc' = "storeTs"
        BY DEF Enqueue
      <4>3. corrIp' = corrIp /\ (rpc' \notin I => rpc \notin I)
        BY <1>0, <1>2, <3>2, <4>1, <4>2, CorrSteps, RxMoves
      <4> QED BY <1>0, <4>3
    <3> QED BY <3>1, <3>2
  <2> QED BY <1>g, <2>1, <2>2, <2>3 DEF Correlated
<1> QED BY <1>1, <1>2

\* pkt_data takes the timestamps of a new datagram only if there is still room
\* for its control messages.
LEMMA ReceiveStamps ==
  ASSUME NEW c \in Nat, NEW g \in Nat, NEW room \in BOOLEAN, NEW room2 \in BOOLEAN, NEW g2,
         LastStamped(c, g), room <=> g = c, room2 <=> room /\ c + 1 \notin Unstamped,
         g2 = IF room2 THEN c + 1 ELSE g
  PROVE  LastStamped(c + 1, g2) /\ (room2 <=> g2 = c + 1)
<1>0. g \in 0 .. c /\ (\A b \in 1 .. g : b \notin Unstamped) /\ (g < c => g + 1 \in Unstamped)
  BY DEF LastStamped
<1>1. CASE room2
  <2>1. g = c /\ c + 1 \notin Unstamped /\ g2 = c + 1
    BY <1>1
  <2>2. \A b \in 1 .. c + 1 : b \notin Unstamped
    BY <1>0, <2>1
  <2> QED BY <1>1, <2>1, <2>2 DEF LastStamped
<1>2. CASE ~room2
  <2>1. g2 = g /\ g < c + 1
    BY <1>0, <1>2
  <2>2. g + 1 \in Unstamped
    <3>1. CASE g = c
      BY <1>2, <3>1
    <3>2. CASE g # c
      BY <1>0, <3>2
    <3> QED BY <3>1, <3>2
  <2> QED BY <1>0, <1>2, <2>1, <2>2 DEF LastStamped
<1> QED BY <1>1, <1>2

\* Every step preserves what the kernel's timestamps are.
LEMMA NextKernelFiled == ServerInv /\ [Next]_vars => KernelFiled'
<1> SUFFICES ASSUME ServerInv, [Next]_vars PROVE KernelFiled'
  OBVIOUS
<1>0. /\ TypeOK /\ KernelFiled /\ Requested /\ Cur \in Nat /\ pktKer \in Nat
      /\ ctlRoom \in BOOLEAN
      /\ corrTs \in [Slots -> Stamp] /\ corrKer \in [Slots -> Stamp]
  <2>1. TypeOK /\ KernelFiled /\ Requested /\ RxType
    BY DEF ServerInv, TypeOK
  <2>2. Cur \in Nat
    BY <2>1, CurType
  <2>3. pktKer \in Nat
    BY <2>1, ServerAssumption DEF RxType, Stamp
  <2> QED BY <2>1, <2>2, <2>3 DEF RxType
<1>1. CASE \E s \in Seqs, n \in Sizes : Receive(s, n)
  <2>1. PICK s \in Seqs, n \in Sizes : Receive(s, n)
    BY <1>1
  <2>2. Cur' = Cur + 1
    BY <1>0, <2>1, ReceiveFacts
  <2>3. /\ ctlRoom' = (ctlRoom /\ Cur + 1 \notin Unstamped)
        /\ pktKer' = IF ctlRoom' THEN Cur + 1 ELSE pktKer
        /\ UNCHANGED <<corrTs, corrKer>>
    BY <2>1 DEF Receive
  <2>4. LastStamped(Cur + 1, pktKer') /\ (ctlRoom' <=> pktKer' = Cur + 1)
    BY <1>0, <2>3, ReceiveStamps, Zenon DEF KernelFiled
  <2>5. \A k \in Slots : corrTs[k] \in 0 .. Cur + 1 /\ LastStamped(corrTs[k], corrKer[k])
    BY <1>0 DEF KernelFiled
  <2> QED BY <2>2, <2>3, <2>4, <2>5 DEF KernelFiled, LastStamped
<1>2. CASE StoreTs
  <2> DEFINE i == Index(SeqOf(Cur))
  <2>1. /\ rpc = "storeTs" /\ corrTs' = [corrTs EXCEPT ![i] = Cur]
        /\ corrKer' = [corrKer EXCEPT ![i] = pktKer]
        /\ UNCHANGED <<ctlRoom, pktKer, arrivals>>
    BY <1>2 DEF StoreTs
  <2> HIDE DEF i
  <2>2. Cur' = Cur
    BY <2>1 DEF Cur
  <2>3. ASSUME NEW k \in Slots
        PROVE  corrTs'[k] \in 0 .. Cur /\ LastStamped(corrTs'[k], corrKer'[k])
    <3>1. CASE k = i
      <4>1. corrTs'[k] = Cur /\ corrKer'[k] = pktKer
        BY <1>0, <2>1, <3>1
      <4> QED BY <1>0, <4>1 DEF KernelFiled
    <3>2. CASE k # i
      <4>1. corrTs'[k] = corrTs[k] /\ corrKer'[k] = corrKer[k]
        BY <1>0, <2>1, <3>2
      <4> QED BY <1>0, <4>1 DEF KernelFiled
    <3> QED BY <3>1, <3>2
  <2> QED BY <1>0, <2>1, <2>2, <2>3 DEF KernelFiled, LastStamped
<1>3. CASE UNCHANGED <<ctlRoom, pktKer, arrivals, corrTs, corrKer>>
  BY <1>0, <1>3 DEF KernelFiled, LastStamped, Cur
<1>4. CASE Enqueue \/ StoreIp \/ CreateEntry \/ RxStats \/ JoinTs \/ StopTx \/ JoinTx
           \/ (\E g \in BOOLEAN : LeaveLoop(g)) \/ TsEnd \/ UNCHANGED rxVars
  <2>1. UNCHANGED <<ctlRoom, pktKer, arrivals, corrTs, corrKer>>
    BY <1>4 DEF Enqueue, StoreIp, CreateEntry, RxStats, JoinTs, StopTx, JoinTx, LeaveLoop,
                TsEnd, rxVars
  <2> QED BY <1>3, <2>1
<1> QED BY <1>1, <1>2, <1>4, StepCases, RxFrame

\* Every step preserves that the datagrams have their entries.
LEMMA NextCounted == ServerInv /\ [Next]_vars => Counted'
<1> DEFINE P == {"enqueue", "storeTs", "storeIp", "entry"}
           Has(es, q) == \E k \in 1 .. Len(es) : es[k].seq = q
<1> SUFFICES ASSUME ServerInv, [Next]_vars, StatsEnabled,
                    NEW a \in 1 .. Cur', a < Cur' \/ rpc' \notin P
             PROVE  Has(stats', arrivals'[a].seq)
  BY DEF Counted, SeqOf
<1>0. /\ TypeOK /\ Draining /\ Requested /\ Cur \in Nat
      /\ \A b \in 1 .. Cur : (b < Cur \/ rpc \notin P) => Has(stats, arrivals[b].seq)
  BY CurType DEF ServerInv, Counted, SeqOf
<1>1. \A q : Has(stats, q) => Has(stats', q)
  <2>1. SameSeqs /\ Len(stats) \in Nat /\ Len(stats') \in Nat
    BY <1>0, StatsSteps, LenProperties DEF TypeOK, SharedType
  <2> SUFFICES ASSUME NEW q, NEW k \in 1 .. Len(stats), stats[k].seq = q
               PROVE  \E m \in 1 .. Len(stats') : stats'[m].seq = q
    OBVIOUS
  <2>2. k \in 1 .. Len(stats') /\ stats'[k].seq = q
    BY <2>1 DEF SameSeqs
  <2> QED BY <2>2
<1>2. CASE \E s \in Seqs, n \in Sizes : Receive(s, n)
  <2>1. PICK s \in Seqs, n \in Sizes : Receive(s, n)
    BY <1>2
  <2>2. Cur' = Cur + 1 /\ \A b \in 1 .. Cur : arrivals'[b] = arrivals[b]
    BY <1>0, <2>1, ReceiveFacts
  <2>3. rpc = "recv" /\ rpc' \in P
    BY <2>1 DEF Receive
  <2>4. a \in 1 .. Cur
    BY <1>0, <2>2, <2>3
  <2>5. Has(stats, arrivals[a].seq)
    BY <1>0, <2>3, <2>4
  <2> QED BY <1>1, <2>2, <2>4, <2>5
<1>3. CASE ~\E s \in Seqs, n \in Sizes : Receive(s, n)
  <2>1. arrivals' = arrivals /\ Cur' = Cur
    BY <1>3, ArrivalSteps DEF Cur
  <2>2. CASE CreateEntry /\ a = Cur
    <3>1. \E k \in 1 .. Len(stats') : stats'[k].seq = SeqOf(Cur)
      BY <2>2, StatsSteps
    <3> QED BY <2>1, <2>2, <3>1 DEF SeqOf
  <2>3. CASE ~(CreateEntry /\ a = Cur)
    <3>1. (StoreTs => rpc' = "storeIp") /\ (Enqueue => rpc' = "storeTs")
      BY DEF StoreTs, Enqueue
    <3>2. StoreIp => rpc' = "entry"
      BY DEF StoreIp
    <3>3. a < Cur \/ rpc \notin P
      BY <1>0, <1>3, <2>1, <2>3, <3>1, <3>2, RxMoves
    <3>4. Has(stats, arrivals[a].seq)
      BY <1>0, <2>1, <3>3
    <3> QED BY <1>1, <2>1, <3>4
  <2> QED BY <2>2, <2>3
<1> QED BY <1>2, <1>3

-----------------------------------------------------------------------------
(* The calls of the TS code and the shutdown *)

\* Every step preserves the account of the turns of a call.
LEMMA NextTurns == ServerInv /\ [Next]_vars => Turns'
<1> SUFFICES ASSUME ServerInv, [Next]_vars PROVE Turns'
  OBVIOUS
<1>0. /\ Turns /\ turn \in Nat /\ done \in Nat /\ errors \in Nat
  BY ServerAssumption DEF ServerInv, TypeOK, TsType
<1>1. CASE JoinTs \/ TsLoop \/ TsHealth
  <2>1. UNCHANGED <<turn, done, errors>> /\ spc # "log" /\ spc' # "log"
    BY <1>1 DEF JoinTs, TsLoop, TsHealth, TsTest
  <2> QED BY <1>0, <2>1 DEF Turns
<1>2. CASE CancelTs \/ TsEnd
  <2>1. turn' = 0 /\ done' = 0 /\ errors' = errors /\ spc' # "log"
    BY <1>2 DEF CancelTs, TsEnd, TsReturn
  <2> QED BY <1>0, <2>1 DEF Turns
<1>3. CASE TsError
  <2>1. errors' = errors + 1 /\ turn' = turn + 1 /\ done' = done /\ spc = "recv" /\ spc' = spc
    BY <1>3 DEF TsError
  <2> QED BY <1>0, <2>1 DEF Turns
<1>4. CASE TsReceive
  <2>1. errors' = errors /\ turn' = turn + 1 /\ done' = done /\ spc = "recv" /\ spc' = "log"
    BY <1>4 DEF TsReceive
  <2> QED BY <1>0, <2>1 DEF Turns
<1>5. CASE TsLog
  <2>1. /\ UNCHANGED <<errors, turn>> /\ spc = "log" /\ spc' = "recv"
        /\ IF CsvEnabled THEN done' = done + 1 ELSE done' = done
    BY <1>5 DEF TsLog
  <2> QED BY <1>0, <2>1 DEF Turns
<1>6. CASE UNCHANGED tsVars
  BY <1>0, <1>6 DEF Turns, tsVars
<1> QED BY <1>1, <1>2, <1>3, <1>4, <1>5, <1>6, StepCases, TsFrame

\* Every step preserves who runs the TS code.
LEMMA NextDraining == ServerInv /\ [Next]_vars => Draining'
<1> SUFFICES ASSUME ServerInv, [Next]_vars PROVE Draining'
  OBVIOUS
<1>0. Draining /\ RxType /\ TsType
  BY DEF ServerInv, TypeOK
<1>1. CASE (\E s \in Seqs, n \in Sizes : Receive(s, n)) \/ (\E g \in BOOLEAN : LeaveLoop(g))
  <2>1. /\ rpc = "recv" /\ rpc' \in {"enqueue", "storeTs", "joinTs"} /\ UNCHANGED <<spc, phase>>
    BY <1>1 DEF Receive, LeaveLoop, tsVars
  <2> QED BY <1>0, <2>1 DEF Draining
<1>2. CASE Enqueue \/ StoreTs \/ StoreIp \/ CreateEntry \/ RxStats
  <2>1. /\ rpc \in {"enqueue", "storeTs", "storeIp", "entry", "rxStats"}
        /\ rpc' \in {"storeTs", "storeIp", "entry", "rxStats", "recv"}
        /\ UNCHANGED <<spc, phase>>
    BY <1>2 DEF Enqueue, StoreTs, StoreIp, CreateEntry, RxStats, tsVars
  <2> QED BY <1>0, <2>1 DEF Draining
<1>3. CASE JoinTs
  BY <1>0, <1>3 DEF Draining, JoinTs
<1>4. CASE CancelTs
  BY <1>0, <1>4 DEF Draining, CancelTs, rxVars
<1>5. CASE StopTx \/ JoinTx
  <2>1. rpc \in {"stopTx", "joinTx"} /\ rpc' \in {"joinTx", "done"} /\ UNCHANGED <<spc, phase>>
    BY <1>5 DEF StopTx, JoinTx, tsVars
  <2> QED BY <1>0, <2>1 DEF Draining
<1>6. CASE TsLoop \/ TsHealth
  <2>1. /\ spc \in {"loop", "health"} /\ spc' = "recv" /\ phase' # "main"
        /\ UNCHANGED <<rpc, graceful>>
    BY <1>6 DEF TsLoop, TsHealth, TsTest, rxVars
  <2> QED BY <1>0, <2>1 DEF Draining
<1>7. CASE TsEnd
  <2>1. /\ spc = "recv" /\ UNCHANGED <<graceful, phase>>
        /\ \/ phase = "run" /\ spc' = "health" /\ rpc' = rpc
           \/ phase # "run" /\ spc' = "recv" /\ rpc' = rpc
           \/ phase = "main" /\ spc' = "done" /\ rpc' = "stopTx"
           \/ phase # "run" /\ phase # "main" /\ spc' = "done" /\ rpc' = rpc
    BY <1>7 DEF TsEnd, TsReturn
  <2> QED BY <1>0, <2>1 DEF Draining
<1>8. CASE TsError \/ TsReceive \/ TsLog
  <2>1. /\ spc \in {"recv", "log"} /\ spc' \in {"recv", "log"} /\ UNCHANGED <<rpc, graceful, phase>>
    BY <1>8 DEF TsError, TsReceive, TsLog, rxVars
  <2> QED BY <1>0, <2>1 DEF Draining
<1>9. CASE UNCHANGED rxVars /\ UNCHANGED tsVars
  BY <1>0, <1>9 DEF Draining, rxVars, tsVars
<1> QED BY <1>1, <1>2, <1>3, <1>4, <1>5, <1>6, <1>7, <1>8, <1>9, StepCases, RxFrame, TsFrame

\* Nothing has been received, sent or filed at the start.
LEMMA InitServerInv == Init => ServerInv
<1> SUFFICES ASSUME Init PROVE ServerInv
  OBVIOUS
<1>1. TypeOK
  BY InitTypeOK
<1>2. /\ rpc = "recv" /\ tpc = "loop" /\ spc = "loop" /\ phase = "run" /\ Cur = 0
      /\ queue = <<>> /\ batch = <<>> /\ answers = <<>> /\ torec = <<>> /\ errq = <<>>
      /\ txRows = <<>> /\ rows = <<>> /\ viaMmsg = <<>> /\ wire = {} /\ refused = {}
      /\ turn = 0 /\ done = 0 /\ errors = 0
  BY DEF Init, Cur
<1>k. KernelFiled
  <2>1. /\ pktKer = 0 /\ ctlRoom = TRUE
        /\ corrTs = [i \in Slots |-> 0] /\ corrKer = [i \in Slots |-> 0]
    BY DEF Init
  <2>2. LastStamped(0, 0)
    BY DEF LastStamped
  <2> QED BY <1>2, <2>1, <2>2 DEF KernelFiled
<1>3. InOrder
  BY <1>2, IdsEmpty DEF InOrder, Increasing, Before
<1>4. Requested
  BY <1>2, IdsEmpty DEF Requested, Handled
<1>5. TxPlace
  BY <1>2, IdsEmpty DEF TxPlace
<1>6. Pkts(txRows) = <<>> /\ Pkts(rows) = <<>>
  BY <1>2 DEF Pkts
<1>7. StampPlace
  BY <1>2, <1>6, IdsEmpty DEF StampPlace, Distinct
<1>8. RowsFollowSends
  BY <1>2 DEF RowsFollowSends
<1>9. Correlated /\ Counted
  BY <1>2 DEF Correlated, LatestFiled, Counted
<1>10. Turns /\ Draining
  BY <1>2 DEF Turns, Draining
<1> QED BY <1>1, <1>k, <1>3, <1>4, <1>5, <1>7, <1>8, <1>9, <1>10 DEF ServerInv

\* ServerInv is an inductive invariant of the specification.
THEOREM ServerInvariant == Spec => []ServerInv
<1>1. Init => ServerInv
  BY InitServerInv
<1>2. ServerInv /\ [Next]_vars => ServerInv'
  BY NextTypeOK, NextInOrder, NextRequested, NextTxPlace, NextRowsFollowSends, NextStampPlace,
     NextCorrelated, NextKernelFiled, NextCounted, NextTurns, NextDraining DEF ServerInv
<1> QED BY <1>1, <1>2, PTL DEF Spec

\* A datagram is answered at most once, in order of arrival and only if it asked;
\* exactly the answers that left through sendmmsg get a row; a TX timestamp is
\* logged at most once, for an answer that was sent.
THEOREM AnswersOnce == Spec => []OnceInv
<1>1. ServerInv => OnceInv
  <2> SUFFICES ASSUME ServerInv PROVE OnceInv
    OBVIOUS
  <2>0. /\ TypeOK /\ InOrder /\ Requested /\ StampPlace /\ RowsFollowSends
    BY DEF ServerInv
  <2>1. AnswersOnceInOrder
    <3>1. \A k \in 1 .. Len(answers) : arrivals[answers[k]].bytes >= 8
      BY <2>0 DEF Requested, Handled, Ids
    <3>2. \A j, k \in 1 .. Len(answers) : j < k => answers[j] < answers[k]
      BY <2>0 DEF InOrder, Increasing
    <3>3. Ids(answers) \cap (refused \cup Ids(queue)) = {}
      BY <2>0, NotYetSent DEF Requested, Handled
    <3> QED BY <3>1, <3>2, <3>3 DEF AnswersOnceInOrder
  <2>2. TxStampOnce
    <3>1. TxStampOnce <=> /\ Distinct(Pkts(txRows))
                          /\ Ids(Pkts(txRows)) \subseteq Ids(answers)
                          /\ Ids(Pkts(txRows)) \cap (wire \cup Ids(errq)) = {}
      BY DEF TxStampOnce, Pkts, Distinct
    <3> QED BY <2>0, <3>1 DEF StampPlace
  <2> QED BY <2>0, <2>1, <2>2 DEF OnceInv
<1> QED BY <1>1, ServerInvariant, PTL

\* Every step preserves the outcome of the drain: it ends with a call that
\* counted nothing, and without a whole batch of failed reads such a call can
\* only have found the queue empty.
LEMMA NextDrainEnded == ServerInv /\ DrainEnded /\ [Next]_vars => DrainEnded'
<1> SUFFICES ASSUME ServerInv, DrainEnded, [Next]_vars, CsvEnabled, errors' < TsBatch
             PROVE  DrainEmptiesQueue'
  BY DEF DrainEnded
<1> DEFINE E == {"stopTx", "joinTx", "done"}
<1>0. /\ Draining /\ Turns /\ turn \in Nat /\ done \in Nat /\ errors \in Nat /\ TsBatch \in Nat
  BY ServerAssumption DEF ServerInv, TypeOK, TsType
<1>1. CASE TsEnd
  <2>1. /\ spc = "recv"
        /\ turn = TsBatch \/ errq = <<>>
        /\ graceful' = graceful /\ errors' = errors
        /\ sawEmpty' = (phase = "main" /\ errq = <<>>)
    BY <1>1 DEF TsEnd
  <2>2. rpc \notin E
    BY <1>0, <2>1 DEF Draining
  <2>3. rpc' \in E => phase = "main" /\ ~(done > 0)
    BY <1>1, <2>2 DEF TsEnd, TsReturn
  <2>4. rpc' \in E => turn # TsBatch
    BY <1>0, <2>1, <2>3 DEF Turns
  <2> QED BY <2>1, <2>3, <2>4 DEF DrainEmptiesQueue
<1>2. CASE TsError
  <2>1. /\ errors' = errors + 1 /\ UNCHANGED <<sawEmpty, rpc, graceful>>
    BY <1>2 DEF TsError, rxVars
  <2>2. DrainEmptiesQueue
    BY <1>0, <2>1 DEF DrainEnded
  <2> QED BY <2>1, <2>2 DEF DrainEmptiesQueue
<1>3. CASE ~TsEnd /\ ~TsError
  <2>1. UNCHANGED <<sawEmpty, errors>>
    <3>1. CASE UNCHANGED tsVars
      BY <3>1 DEF tsVars
    <3>2. CASE JoinTs \/ CancelTs \/ TsLoop \/ TsHealth \/ TsReceive \/ TsLog
      BY <3>2 DEF JoinTs, CancelTs, TsLoop, TsHealth, TsReceive, TsLog
    <3> QED BY <1>3, <3>1, <3>2, StepCases, TsFrame
  <2>2. DrainEmptiesQueue
    BY <1>0, <2>1 DEF DrainEnded
  <2>3. rpc' \in E /\ graceful' => rpc \in E /\ graceful
    <3>1. CASE UNCHANGED rxVars
      BY <3>1 DEF rxVars
    <3>2. CASE (\E s \in Seqs, n \in Sizes : Receive(s, n)) \/ Enqueue \/ StoreTs \/ StoreIp
               \/ CreateEntry \/ RxStats \/ (\E g \in BOOLEAN : LeaveLoop(g))
      <4>1. rpc' \in {"enqueue", "storeTs", "storeIp", "entry", "recv", "rxStats", "joinTs"}
        BY <3>2 DEF Receive, Enqueue, StoreTs, StoreIp, CreateEntry, RxStats, LeaveLoop
      <4> QED BY <4>1
    <3>3. CASE JoinTs
      BY <3>3 DEF JoinTs
    <3>4. CASE StopTx \/ JoinTx
      BY <3>4 DEF StopTx, JoinTx
    <3> QED BY <1>3, <3>1, <3>2, <3>3, <3>4, StepCases, RxFrame
  <2> QED BY <2>1, <2>2, <2>3 DEF DrainEmptiesQueue
<1> QED BY <1>1, <1>2, <1>3

\* With CSV output, the drain after a signal ends on an empty error queue, as long
\* as fewer than TX_TIMESTAMP_BATCH_SIZE of its reads failed.  (Without CSV output
\* a call counts no timestamps, and the drain is a single call.)
THEOREM DrainComplete ==
  ASSUME CsvEnabled
  PROVE  Spec => [](errors < TsBatch => DrainEmptiesQueue)
<1>1. Init => DrainEnded
  BY DEF Init, DrainEnded, DrainEmptiesQueue
<1>2. ServerInv /\ DrainEnded /\ [Next]_vars => DrainEnded'
  BY NextDrainEnded
<1>3. DrainEnded => (errors < TsBatch => DrainEmptiesQueue)
  BY DEF DrainEnded
<1> QED BY <1>1, <1>2, <1>3, ServerInvariant, PTL DEF Spec

-----------------------------------------------------------------------------
(* What the rows and the statistics take from the RX thread *)

\* An answer is of a datagram that has arrived and been queued.
LEMMA AnswerArrived ==
  ASSUME ServerInv, NEW a \in Ids(answers)
  PROVE  a \in 1 .. Cur /\ (rpc = "enqueue" => a < Cur)
<1>1. a \in Arrivals /\ Cur \in Nat
  BY SeqTypes, CurType DEF ServerInv
<1>2. a <= Cur /\ (rpc = "enqueue" => a < Cur)
  BY DEF ServerInv, Requested, Handled
<1> QED BY <1>1, <1>2 DEF Arrivals

\* The correlation arrays hold an answer's own data, outside the two windows.
LEMMA SlotOwnOrExcused ==
  ASSUME ServerInv, NEW a \in Ids(answers)
  PROVE  /\ OwnOrExcused(corrTs[Index(SeqOf(a))], a, {"storeTs"})
         /\ OwnOrExcused(corrIp[Index(SeqOf(a))], a, {"storeTs", "storeIp"})
<1>1. a \in 1 .. Cur /\ (rpc = "enqueue" => a < Cur) /\ Cur \in Nat
  BY AnswerArrived, CurType DEF ServerInv
<1>2. ASSUME NEW arr, NEW unfiled, LatestOfSlot(arr, arrivals, a)
      PROVE  OwnOrExcused(arr[Index(SeqOf(a))], a, unfiled)
  <2> DEFINE x == arr[Index(SeqOf(a))]
  <2>1. x \in a .. Cur /\ Index(SeqOf(x)) = Index(SeqOf(a))
    BY <1>2 DEF LatestOfSlot, SeqOf, Cur
  <2> HIDE DEF x
  <2>2. x = a \/ x > a
    BY <1>1, <2>1
  <2>3. OwnOrExcused(x, a, unfiled)
    BY <2>1, <2>2 DEF OwnOrExcused, SameSlot
  <2> QED BY <2>3 DEF x
<1>3. OwnOrExcused(corrTs[Index(SeqOf(a))], a, {"storeTs"})
  <2>1. CASE a = Cur /\ rpc = "storeTs"
    BY <2>1 DEF OwnOrExcused
  <2>2. CASE ~(a = Cur /\ rpc = "storeTs")
    <3>1. LatestOfSlot(corrTs, arrivals, a)
      BY <1>1, <2>2 DEF ServerInv, Correlated, LatestFiled
    <3> QED BY <1>2, <3>1
  <2> QED BY <2>1, <2>2
<1>4. OwnOrExcused(corrIp[Index(SeqOf(a))], a, {"storeTs", "storeIp"})
  <2>1. CASE a = Cur /\ rpc \in {"storeTs", "storeIp"}
    BY <2>1 DEF OwnOrExcused
  <2>2. CASE ~(a = Cur /\ rpc \in {"storeTs", "storeIp"})
    <3>1. LatestOfSlot(corrIp, arrivals, a)
      BY <1>1, <2>2 DEF ServerInv, Correlated, LatestFiled
    <3> QED BY <1>2, <3>1
  <2> QED BY <2>1, <2>2
<1> QED BY <1>3, <1>4

\* The next request to be recorded has been answered.
LEMMA NextToRecord ==
  ASSUME ServerInv, tpc \in {"record", "readTs", "readIp"}
  PROVE  Head(torec) \in Ids(answers)
<1>1. torec # <<>> /\ torec \in Seq(Arrivals) /\ Ids(torec) \subseteq Ids(answers)
  BY SeqTypes DEF ServerInv, TxPlace
<1> QED BY <1>1, IdsElement

\* A row of the main file is written by TxReadIp, of the TX file by TsLog.
LEMMA RowSteps ==
  ASSUME ServerInv, [Next]_vars
  PROVE  /\ rows' = rows \/ TxReadIp
         /\ txRows' = txRows \/ TsLog
         /\ (tpc = "readTs" /\ tpc' = "readIp") => TxReadTs
<1>1. /\ rows' = rows \/ TxReadIp
      /\ (tpc = "readTs" /\ tpc' = "readIp") => TxReadTs
  <2>1. CASE UNCHANGED txVars
    BY <2>1 DEF txVars
  <2>2. CASE TxLoop \/ TxDequeue \/ (\E n \in 1 .. MaxBatch : TxSend(n)) \/ TxSendNone
             \/ TxFallback \/ (\E ok \in BOOLEAN : TxSendto(ok)) \/ TxRecord \/ TxReadTs
             \/ TxReadIp
    BY <2>2 DEF TxLoop, TxDequeue, TxSend, TxSendNone, TxFallback, TxSendto, TxRecord,
                TxReadTs, TxReadIp
  <2> QED BY <2>1, <2>2, StepCases, TxFrame
<1>2. txRows' = txRows \/ TsLog
  <2>1. CASE UNCHANGED tsVars
    BY <2>1 DEF tsVars
  <2>2. CASE JoinTs \/ CancelTs \/ TsLoop \/ TsHealth \/ TsEnd \/ TsError \/ TsReceive \/ TsLog
    BY <2>2 DEF JoinTs, CancelTs, TsLoop, TsHealth, TsEnd, TsError, TsReceive, TsLog
  <2> QED BY <2>1, <2>2, StepCases, TsFrame
<1> QED BY <1>1, <1>2

\* What was appended last is at the end.
LEMMA LastAppended ==
  ASSUME NEW S, NEW s \in Seq(S), NEW x \in S
  PROVE  Append(s, x)[Len(Append(s, x))] = x
BY AppendProperties

\* A step that reads the correlation arrays for a row reads the packet's own
\* data, outside the two windows.
LEMMA RowsOwnOrExcused ==
  ASSUME ServerInv, [Next]_vars
  PROVE  /\ (tpc = "readTs" /\ tpc' = "readIp") =>
              OwnOrExcused(rowTs', Head(torec), {"storeTs"})
         /\ Len(rows') > Len(rows) =>
              OwnOrExcused(rows'[Len(rows')].ip, Head(torec), {"storeTs", "storeIp"})
         /\ Len(txRows') > Len(txRows) =>
              OwnOrExcused(txRows'[Len(txRows')].ip, msg, {"storeTs", "storeIp"})
<1>0. TypeOK
  BY DEF ServerInv
<1>1. ASSUME tpc = "readTs", tpc' = "readIp"
      PROVE  OwnOrExcused(rowTs', Head(torec), {"storeTs"})
  <2>1. TxReadTs
    BY <1>1, RowSteps
  <2>2. rowTs' = corrTs[Index(SeqOf(Head(torec)))]
    BY <2>1 DEF TxReadTs
  <2>3. Head(torec) \in Ids(answers)
    BY <1>1, NextToRecord
  <2> QED BY <2>2, <2>3, SlotOwnOrExcused
<1>2. ASSUME Len(rows') > Len(rows)
      PROVE  OwnOrExcused(rows'[Len(rows')].ip, Head(torec), {"storeTs", "storeIp"})
  <2> DEFINE a == Head(torec)
             r == [pkt |-> a, ts |-> rowTs, ker |-> rowKer, ip |-> corrIp[Index(SeqOf(a))]]
             R == [pkt : Arrivals, ts : Stamp, ker : Stamp, ip : Stamp]
  <2>1. TxReadIp
    <3>1. rows \in Seq(R)
      BY <1>0 DEF TypeOK, TxType
    <3>2. Len(rows) \in Nat
      BY <3>1, LenProperties
    <3> QED BY <1>2, <3>2, RowSteps
  <2>2. tpc = "readIp" /\ rows' = Append(rows, r)
    BY <2>1 DEF TxReadIp
  <2>3. a \in Ids(answers)
    BY <2>2, NextToRecord
  <2>4. a \in 1 .. Cur /\ a \in Arrivals
    BY <1>0, <2>3, AnswerArrived, CurType
  <2>5. r \in R /\ rows \in Seq(R) /\ r.ip = corrIp[Index(SeqOf(a))]
    BY <1>0, <2>4, CurType DEF TypeOK, RxType, TxType
  <2>6. OwnOrExcused(r.ip, a, {"storeTs", "storeIp"})
    BY <2>3, <2>5, SlotOwnOrExcused
  <2> HIDE DEF r, R
  <2>7. rows'[Len(rows')] = r
    BY <2>2, <2>5, LastAppended
  <2> QED BY <2>6, <2>7
<1>3. ASSUME Len(txRows') > Len(txRows)
      PROVE  OwnOrExcused(txRows'[Len(txRows')].ip, msg, {"storeTs", "storeIp"})
  <2> DEFINE r == [pkt |-> msg, ip |-> corrIp[Index(SeqOf(msg))]]
             R == [pkt : Arrivals, ip : Stamp]
  <2>1. TsLog
    <3>1. txRows \in Seq(R)
      BY <1>0 DEF TypeOK, TsType
    <3>2. Len(txRows) \in Nat
      BY <3>1, LenProperties
    <3> QED BY <1>3, <3>2, RowSteps
  <2>2. spc = "log" /\ txRows' = Append(txRows, r)
    <3>1. spc = "log" /\ (txRows' = Append(txRows, r) \/ txRows' = txRows)
      BY <2>1 DEF TsLog
    <3>2. Len(txRows) \in Nat
      <4>1. txRows \in Seq(R)
        BY <1>0 DEF TypeOK, TsType
      <4> QED BY <4>1, LenProperties
    <3> HIDE DEF r
    <3> QED BY <1>3, <3>1, <3>2
  <2>3. msg \in Ids(answers)
    BY <2>2 DEF ServerInv, StampPlace
  <2>4. msg \in 1 .. Cur /\ msg \in Arrivals
    BY <1>0, <2>3, AnswerArrived, CurType
  <2>5. r \in R /\ txRows \in Seq(R) /\ r.ip = corrIp[Index(SeqOf(msg))]
    BY <1>0, <2>4, CurType DEF TypeOK, RxType, TsType
  <2>6. OwnOrExcused(r.ip, msg, {"storeTs", "storeIp"})
    BY <2>3, <2>5, SlotOwnOrExcused
  <2> HIDE DEF r, R
  <2>7. txRows'[Len(txRows')] = r
    BY <2>2, <2>5, LastAppended
  <2> QED BY <2>6, <2>7
<1> QED BY <1>1, <1>2, <1>3

\* The application RX timestamp and the client in a row belong to the row's packet, unless
\* the RX thread has not filed them yet or a later packet has taken the slot.
THEOREM OwnStamps == Spec => OwnStampOnceFiled
<1>1. ServerInv /\ [Next]_vars =>
        [ /\ (tpc = "readTs" /\ tpc' = "readIp") =>
               OwnOrExcused(rowTs', Head(torec), {"storeTs"})
          /\ Len(rows') > Len(rows) =>
               OwnOrExcused(rows'[Len(rows')].ip, Head(torec), {"storeTs", "storeIp"})
          /\ Len(txRows') > Len(txRows) =>
               OwnOrExcused(txRows'[Len(txRows')].ip, msg, {"storeTs", "storeIp"}) ]_vars
  BY RowsOwnOrExcused
<1> QED BY <1>1, ServerInvariant, PTL DEF Spec, OwnStampOnceFiled

\* The hardware and kernel RX timestamps in a row are those filed with the row's
\* packet, with the same two exceptions; they are of the last datagram that came
\* with RX timestamps before the first that did not, or of the packet itself.
THEOREM KernelStamps == Spec => KernelStampOwnOrStale
<1>1. ServerInv /\ [Next]_vars =>
        [ (tpc = "readTs" /\ tpc' = "readIp") =>
            \E x \in 0 .. Cur : /\ OwnOrExcused(x, Head(torec), {"storeTs"})
                                /\ LastStamped(x, rowKer') ]_vars
  <2> SUFFICES ASSUME ServerInv, [Next]_vars, tpc = "readTs", tpc' = "readIp"
               PROVE  \E x \in 0 .. Cur : /\ OwnOrExcused(x, Head(torec), {"storeTs"})
                                          /\ LastStamped(x, rowKer')
    OBVIOUS
  <2> DEFINE a == Head(torec)
             i == Index(SeqOf(a))
  <2>1. rowKer' = corrKer[i]
    BY RowSteps DEF TxReadTs
  <2>2. a \in Ids(answers)
    BY NextToRecord
  <2>3. i \in Slots
    BY <2>2, AnswerArrived, CurType DEF ServerInv
  <2>4. corrTs[i] \in 0 .. Cur /\ LastStamped(corrTs[i], corrKer[i])
    BY <2>3 DEF ServerInv, KernelFiled
  <2>5. OwnOrExcused(corrTs[i], a, {"storeTs"})
    BY <2>2, SlotOwnOrExcused
  <2> HIDE DEF i, a
  <2>6. \E x \in 0 .. Cur : OwnOrExcused(x, a, {"storeTs"}) /\ LastStamped(x, rowKer')
    BY <2>1, <2>4, <2>5
  <2> QED BY <2>6 DEF a
<1> QED BY <1>1, ServerInvariant, PTL DEF Spec, KernelStampOwnOrStale

\* The newest entry of a sequence number is found when there is one.
LEMMA FoundIfThere ==
  ASSUME NEW es \in Seq(Entry), NEW q, NEW k \in 1 .. Len(es), es[k].seq = q
  PROVE  Found(es, q) # 0
<1> DEFINE hits == {j \in 1 .. Len(es) : es[j].seq = q}
           T    == {Len(es) - j : j \in hits}
<1>0. Len(es) \in Nat
  BY LenProperties
<1>1. T \subseteq Nat /\ Len(es) - k \in T
  BY <1>0
<1>2. PICK x \in T : \A y \in T : <<y, x>> \notin OpToRel(<, Nat)
  BY <1>1, NatLessThanWellFounded, WFMin
<1>3. PICK m \in hits : x = Len(es) - m
  BY <1>2
<1>4. ASSUME NEW j \in hits PROVE j <= m
  <2>1. Len(es) - j \in T /\ Len(es) - j \in Nat
    BY <1>1
  <2> DEFINE y == Len(es) - j
  <2>2. <<y, x>> \in Nat \X Nat /\ <<y, x>>[1] = y /\ <<y, x>>[2] = x
    BY <1>1, <2>1
  <2>3. ~(y < x)
    BY <1>2, <2>1, <2>2 DEF OpToRel
  <2> QED BY <1>0, <1>3, <2>3
<1>5. (CHOOSE i \in hits : \A j \in hits : j <= i) \in hits
  BY <1>4
<1>6. Found(es, q) = CHOOSE i \in hits : \A j \in hits : j <= i
  <2>1. hits # {}
    BY <1>3
  <2>2. Found(es, q) = IF hits = {} THEN 0 ELSE CHOOSE i \in hits : \A j \in hits : j <= i
    BY DEF Found
  <2> HIDE DEF hits
  <2> QED BY <2>1, <2>2
<1>7. 0 \notin hits
  BY <1>0
<1> HIDE DEF hits
<1> QED BY <1>5, <1>6, <1>7

\* The entry of an answer is there, outside the window.
LEMMA EntryThere ==
  ASSUME ServerInv, StatsEnabled, NEW a \in Ids(answers), Found(stats, SeqOf(a)) = 0
  PROVE  a = Cur /\ rpc \in {"storeTs", "storeIp", "entry"}
<1>1. a \in 1 .. Cur /\ (rpc = "enqueue" => a < Cur) /\ Cur \in Nat
  BY AnswerArrived, CurType DEF ServerInv
<1>2. ~\E k \in 1 .. Len(stats) : stats[k].seq = SeqOf(a)
  BY FoundIfThere DEF ServerInv, TypeOK, SharedType
<1>3. ~(a < Cur \/ rpc \notin {"enqueue", "storeTs", "storeIp", "entry"})
  BY <1>1, <1>2 DEF ServerInv, Counted
<1> QED BY <1>1, <1>3

\* With statistics, an update by the TX or the TS thread is lost only while the RX
\* thread is between queueing that very packet and creating its entry.
THEOREM UpdatesLost ==
  ASSUME StatsEnabled
  PROVE  Spec => UpdateLostOnlyIfOvertaken
<1>1. ServerInv /\ [Next]_vars =>
        [ /\ (/\ tpc = "record" /\ <<tpc, torec>>' # <<tpc, torec>>
              /\ Found(stats, SeqOf(Head(torec))) = 0)
               => Head(torec) = Cur /\ rpc \in {"storeTs", "storeIp", "entry"}
          /\ (spc = "log" /\ spc' = "recv" /\ Found(stats, SeqOf(msg)) = 0)
               => msg = Cur /\ rpc \in {"storeTs", "storeIp", "entry"} ]_vars
  <2> SUFFICES ASSUME ServerInv, [Next]_vars
               PROVE  /\ (tpc = "record" /\ Found(stats, SeqOf(Head(torec))) = 0)
                           => Head(torec) = Cur /\ rpc \in {"storeTs", "storeIp", "entry"}
                      /\ (spc = "log" /\ Found(stats, SeqOf(msg)) = 0)
                           => msg = Cur /\ rpc \in {"storeTs", "storeIp", "entry"}
    OBVIOUS
  <2>1. tpc = "record" => Head(torec) \in Ids(answers)
    BY NextToRecord
  <2>2. spc = "log" => msg \in Ids(answers)
    BY DEF ServerInv, StampPlace
  <2> QED BY <2>1, <2>2, EntryThere
<1> QED BY <1>1, ServerInvariant, PTL DEF Spec, UpdateLostOnlyIfOvertaken

=============================================================================
