---------------------------- MODULE BoundedFifo -----------------------------
(***************************************************************************)
(* What the single-producer single-consumer rings of the timestamping      *)
(* programs promise their callers: a first-in first-out queue of bounded   *)
(* capacity that refuses an item only when it is full, and hands every     *)
(* accepted item out at most once and in order.  CsvRingBuffer and         *)
(* ReturnPacketQueue are shown to implement it.                            *)
(***************************************************************************)
EXTENDS Naturals, Sequences

CONSTANTS Items,     \* what may be put into the queue
          Capacity   \* how many items it holds at once

VARIABLES queue,     \* accepted and not yet removed, oldest first
          removed,   \* everything handed to the consumer, in order
          refused    \* how many items were turned away

fifoVars == <<queue, removed, refused>>

Init == queue = <<>> /\ removed = <<>> /\ refused = 0

Accept == /\ Len(queue) < Capacity
          /\ \E x \in Items : queue' = Append(queue, x)
          /\ UNCHANGED <<removed, refused>>

Refuse == /\ Len(queue) = Capacity
          /\ refused' = refused + 1
          /\ UNCHANGED <<queue, removed>>

Remove == /\ queue # <<>>
          /\ removed' = Append(removed, Head(queue))
          /\ queue' = Tail(queue)
          /\ UNCHANGED refused

Next == Accept \/ Refuse \/ Remove

Spec == Init /\ [][Next]_fifoVars
=============================================================================
