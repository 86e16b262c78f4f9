------------------------- MODULE ReturnPacketQueue --------------------------
(***************************************************************************)
(* The lock-free queue between the RX and the TX thread of                 *)
(* timestamp_server in round-trip mode (ReturnPacketQueue).  The RX thread *)
(* appends at tail (enqueue_return_packet_request); the TX thread removes  *)
(* at head, in batches whose size follows the depth of the queue           *)
(* (tx_thread_func, dequeue_return_packet_batch).  A step is one access to *)
(* memory the two threads share; ServerRoundTrip uses the queue as the     *)
(* BoundedFifo it is shown to implement here.                              *)
(*                                                                         *)
(* Head and tail have swapped roles with respect to the CSV ring.  The     *)
(* dequeue publishes head with a relaxed store; on x86, where the programs *)
(* run, no earlier load is delayed past it.                                *)
(***************************************************************************)
EXTENDS Ring

CONSTANTS Size,         \* slots (4096)
          MaxBatchSize, \* max_batch_size (128)
          MaxOffered    \* bound: calls of enqueue_return_packet_request

ASSUME QueueSizeAssumption  == Size \in Nat /\ Size > 1 /\ IsPowerOf2(Size)
ASSUME QueueBoundAssumption == MaxBatchSize \in Nat \ {0} /\ MaxOffered \in Nat

VARIABLES head,      \* queue->head, written by the TX thread only
          tail,      \* queue->tail, written by the RX thread only
          requests,  \* queue->requests
          ppc,       \* where the RX thread is in the enqueue
          offered,   \* requests offered so far; a request is its number
          rejected,  \* enqueues that returned false
          accepted,  \* history: requests published
          cpc,       \* where the TX thread is
          depth,     \* queue_depth
          reqs,      \* batch_requests
          taken      \* history: requests removed

prodVars  == <<ppc, offered, rejected, accepted>>
consVars  == <<cpc, depth, reqs, taken>>
queueVars == <<head, tail, requests, prodVars, consVars>>

QueueSlots == 0 .. Size - 1
Garbage    == 0                     \* what aligned_alloc left in a slot
Requests   == 1 .. MaxOffered
Contents   == RingContents(requests, tail, head, Size)

\* create_return_packet_queue
QueueInit ==
  /\ head = 0 /\ tail = 0 /\ requests = [i \in QueueSlots |-> Garbage]
  /\ ppc = "idle" /\ offered = 0 /\ rejected = 0 /\ accepted = <<>>
  /\ cpc = "depth" /\ depth = 0 /\ reqs = <<>> /\ taken = <<>>

-----------------------------------------------------------------------------
(* enqueue_return_packet_request, RX thread *)

EnqueueCheck ==
  /\ ppc = "idle" /\ offered < MaxOffered
  /\ offered' = offered + 1
  /\ \/ /\ RingFull(tail, head, Size)
        /\ rejected' = rejected + 1 /\ UNCHANGED ppc
     \/ /\ ~RingFull(tail, head, Size)
        /\ ppc' = "store" /\ UNCHANGED rejected
  /\ UNCHANGED <<head, tail, requests, accepted, consVars>>

EnqueueStore ==
  /\ ppc = "store"
  /\ requests' = [requests EXCEPT ![tail] = offered]
  /\ ppc' = "publish"
  /\ UNCHANGED <<head, tail, offered, rejected, accepted, consVars>>

EnqueuePublish ==
  /\ ppc = "publish"
  /\ tail' = RingNext(tail, Size)
  /\ accepted' = Append(accepted, offered) /\ ppc' = "idle"
  /\ UNCHANGED <<head, requests, offered, rejected, consVars>>

-----------------------------------------------------------------------------
(* TX thread *)

\* min(max_batch_size, queue_depth), but at least 1
TargetBatch == IF depth = 0 THEN 1
               ELSE IF depth < MaxBatchSize THEN depth ELSE MaxBatchSize

\* Mutant: the depth is taken as (head - tail) & size_mask.
LoadDepth_Swapped ==
  /\ cpc = "depth"
  /\ depth' = RingCount(head, tail, Size) /\ cpc' = "check"
  /\ UNCHANGED <<head, tail, requests, prodVars, reqs, taken>>

\* queue_depth = (tail - head) & size_mask
LoadDepth ==
  /\ cpc = "depth"
  /\ depth' = RingCount(tail, head, Size) /\ cpc' = "check"
  /\ UNCHANGED <<head, tail, requests, prodVars, reqs, taken>>

\* Top of dequeue_return_packet_batch's loop: take another request, or hand
\* the batch to sendmmsg.
DequeueCheck ==
  /\ cpc = "check"
  /\ cpc' = IF Len(reqs) < TargetBatch /\ head # tail THEN "copy" ELSE "send"
  /\ UNCHANGED <<head, tail, requests, prodVars, depth, reqs, taken>>

DequeueCopy ==
  /\ cpc = "copy"
  /\ reqs' = Append(reqs, requests[head]) /\ cpc' = "advance"
  /\ UNCHANGED <<head, tail, requests, prodVars, depth, taken>>

DequeueAdvance ==
  /\ cpc = "advance"
  /\ head' = RingNext(head, Size)
  /\ taken' = Append(taken, reqs[Len(reqs)]) /\ cpc' = "check"
  /\ UNCHANGED <<tail, requests, prodVars, depth, reqs>>

\* The batch has been dealt with; batch_count starts again from 0.
SendBatch ==
  /\ cpc = "send"
  /\ reqs' = <<>> /\ depth' = 0 /\ cpc' = "depth"
  /\ UNCHANGED <<head, tail, requests, prodVars, taken>>

-----------------------------------------------------------------------------
Producer  == EnqueueCheck \/ EnqueueStore \/ EnqueuePublish
Consumer  == LoadDepth \/ DequeueCheck \/ DequeueCopy \/ DequeueAdvance \/ SendBatch
QueueNext == Producer \/ Consumer

QueueSpec == QueueInit /\ [][QueueNext]_queueVars
-----------------------------------------------------------------------------
(* Properties *)

\* Every variable has its type; the indices stay inside the ring.
QueueTypeOK ==
  /\ head \in QueueSlots /\ tail \in QueueSlots
  /\ requests \in [QueueSlots -> Requests \cup {Garbage}]
  /\ ppc \in {"idle", "store", "publish"}
  /\ offered \in 0 .. MaxOffered /\ rejected \in Nat /\ accepted \in Seq(Requests)
  /\ cpc \in {"depth", "check", "copy", "advance", "send"}
  /\ depth \in 0 .. Size - 1 /\ reqs \in Seq(Requests) /\ taken \in Seq(Requests)

\* Requests come out of the queue once and in the order they went in.
FifoOrder == accepted = taken \o Contents

\* What each thread learnt from its test still holds when it stores its index.
SlotHandshake ==
  /\ ppc # "idle" => offered > 0 /\ ~RingFull(tail, head, Size)
  /\ ppc = "publish" => requests[tail] = offered
  /\ cpc \in {"copy", "advance"} => head # tail
  /\ cpc = "advance" => reqs # <<>> /\ reqs[Len(reqs)] = requests[head]

\* The depth is never an overestimate: a batch sized by it is always filled,
\* although the queue changes between the load of tail and the dequeues.
BatchIsFilled ==
  (cpc = "send" /\ depth > 0) => Len(reqs) = TargetBatch

\* From the load of the depth on, what the TX thread has taken and what is
\* still queued cover the target of the batch.
BatchCovered ==
  /\ cpc = "depth" => reqs = <<>>
  /\ cpc = "check" => Len(reqs) <= TargetBatch
  /\ cpc = "copy" => Len(reqs) < TargetBatch
  /\ cpc = "advance" => Len(reqs) <= TargetBatch
  /\ (depth > 0 /\ cpc \in {"check", "copy"}) => TargetBatch <= Len(reqs) + Len(Contents)
  /\ (depth > 0 /\ cpc = "advance") => TargetBatch <= Len(reqs) - 1 + Len(Contents)

QueueInv == QueueTypeOK /\ FifoOrder /\ SlotHandshake

\* First in, first out, and batches that are always filled, with what both rest
\* on: an inductive invariant.
FullInv == QueueInv /\ BatchCovered /\ BatchIsFilled

\* The queue implements the bounded FIFO of capacity Size - 1: an enqueue
\* returns false only when Size - 1 requests are waiting.
Fifo == INSTANCE BoundedFifo WITH
          Items <- Requests, Capacity <- Size - 1,
          queue <- Contents, removed <- taken, refused <- rejected
ImplementsFifo == Fifo!Spec
=============================================================================
