-------------------------------- MODULE Ring --------------------------------
(***************************************************************************)
(* Index arithmetic of the power-of-two rings of the timestamping programs *)
(* (timestamp_common.h).  The code writes (i + 1) & size_mask with         *)
(* size_mask = size - 1; for a power-of-two size that is (i + 1) % size.   *)
(* One slot always stays empty, so head = tail means "empty" and           *)
(* RingNext(head) = tail means "full".                                     *)
(***************************************************************************)
EXTENDS Integers, Sequences

\* (i + 1) & size_mask
RingNext(i, n) == (i + 1) % n

\* Mutants: no test for a full ring; a test that gives up a slot too early.
RingFull_Never(head, tail, n) == FALSE
RingFull_Early(head, tail, n) ==
  RingNext(head, n) = tail \/ RingNext(RingNext(head, n), n) = tail

\* next_head == tail
RingFull(head, tail, n) == RingNext(head, n) = tail

\* (head - tail) & size_mask: how many slots are occupied
RingCount(head, tail, n) == (head - tail) % n

\* The occupied slots of buf, oldest first
RingContents(buf, head, tail, n) ==
  [k \in 1 .. RingCount(head, tail, n) |-> buf[(tail + k - 1) % n]]

\* The size check of csv_buffer_create: (size & (size - 1)) = 0
IsPowerOf2(n) == \E e \in 0 .. n : n = 2 ^ e

\* The smallest power of two that is at least n.
next_power_of_2(n) ==
  CHOOSE p \in n .. 2 * n : IsPowerOf2(p) /\ \A q \in n .. p - 1 : ~IsPowerOf2(q)
=============================================================================
