------------------------ MODULE CsvRingBufferProofs -------------------------
(***************************************************************************)
(* Proofs about CsvRingBuffer for every ring size, batch size and number   *)
(* of entries: the ring loses, repeats and reorders nothing, and it        *)
(* implements the bounded queue of BoundedFifo.                            *)
(*                                                                         *)
(* FifoOrder is not inductive by itself.  RingInv adds what each thread    *)
(* learnt from its test of the other thread's index and may still rely on  *)
(* (SlotHandshake), and the types.                                         *)
(*                                                                         *)
(* The second half is about CsvJoin, the reader of the files the rings are *)
(* written to, for all options, input files and rows, and while loggers    *)
(* append to the files: the tables of the program fit together, its sort   *)
(* and its binary search are right, and FullJoinInv is its inductive       *)
(* invariant.                                                              *)
(***************************************************************************)
EXTENDS CsvRingBuffer, CsvJoin, RingLemmas, FiniteSetTheorems

\* The slots always hold values of one set, so the ring lemmas apply.
LEMMA ContentsType ==
  ASSUME TypeOK
  PROVE  /\ Contents \in Seq(Entries \cup {Garbage})
         /\ Len(Contents) = Count
BY SizeAssumption, RingContentsType DEF TypeOK, Contents, Count, Slots

\* ... in the next state as in this one
LEMMA ContentsTypeNext ==
  ASSUME TypeOK'
  PROVE  Len(Contents') = Count'
BY SizeAssumption, RingContentsType DEF TypeOK, Contents, Count, Slots

\* An empty ring has empty contents.
LEMMA ContentsOfEmpty ==
  ASSUME TypeOK, head = tail
  PROVE  Contents = <<>>
<1>1. Count = 0
  BY SizeAssumption, RingCountValue DEF TypeOK, Count, Slots
<1> QED BY <1>1, ContentsType, EmptySeq

\* The oldest entry of a non-empty ring was accepted: it is a real entry.
LEMMA OldestIsEntry ==
  ASSUME TypeOK, FifoOrder, head # tail
  PROVE  /\ Contents # <<>> /\ Head(Contents) = entries[tail]
         /\ entries[tail] \in Entries
         /\ accepted = Append(taken, entries[tail]) \o Tail(Contents)
<1> DEFINE E == Entries \cup {Garbage}
<1>1. Contents # <<>> /\ Head(Contents) = entries[tail]
  BY SizeAssumption, RingAdvance DEF TypeOK, Contents, Slots
<1>2. Contents \in Seq(E) /\ taken \in Seq(E) /\ taken \in Seq(Entries) /\ accepted \in Seq(Entries)
  <2>1. taken \in Seq(E)
    BY SeqMonotonic DEF TypeOK
  <2> QED BY <2>1, ContentsType DEF TypeOK
<1>3. /\ Len(accepted) = Len(taken) + Len(Contents)
      /\ \A i \in 1 .. Len(taken) + Len(Contents) :
           accepted[i] = IF i <= Len(taken) THEN taken[i] ELSE Contents[i - Len(taken)]
  BY <1>2, ConcatProperties DEF FifoOrder
<1>4. Len(Contents) >= 1 /\ Len(Contents) \in Nat /\ Len(taken) \in Nat /\ Contents[1] = entries[tail]
  BY <1>1, <1>2
<1>5. accepted[Len(taken) + 1] = entries[tail]
  BY <1>3, <1>4
<1>6. entries[tail] \in Entries
  BY <1>2, <1>3, <1>4, <1>5
<1>7. Append(taken, entries[tail]) \o Tail(Contents) = taken \o Contents
  BY <1>1, <1>2, <1>4, <1>6, MoveHead
<1> QED BY <1>1, <1>6, <1>7 DEF FifoOrder

\* csv_format_batch keeps a prefix of the batch.
LEMMA FormatIsPrefix ==
  ASSUME NEW b \in Seq(Entries)
  PROVE  /\ csv_format_batch(b) \in Seq(Entries)
         /\ \A n \in 0 .. Len(csv_format_batch(b)) :
              SubSeq(csv_format_batch(b), 1, n) \in Seq(Entries)
<1> DEFINE D == {i \in 1 .. Len(b) :
                   (i - 1) * RowBytes < BatchSize * SlotBytes - SlotBytes}
           m == Cardinality(D)
<1>1. IsFiniteSet(1 .. Len(b)) /\ Cardinality(1 .. Len(b)) = Len(b)
  <2>1. Len(b) \in Nat
    OBVIOUS
  <2>2. /\ IsFiniteSet(1 .. Len(b))
        /\ Cardinality(1 .. Len(b)) = IF 1 > Len(b) THEN 0 ELSE Len(b) - 1 + 1
    BY <2>1, FS_Interval
  <2> QED BY <2>1, <2>2
<1>2. m \in 0 .. Len(b)
  <2>1. D \subseteq 1 .. Len(b)
    OBVIOUS
  <2> HIDE DEF D
  <2>2. IsFiniteSet(D) /\ Cardinality(D) <= Len(b)
    BY <1>1, <2>1, FS_Subset
  <2> QED BY <2>2, FS_CardinalityType
<1>3. csv_format_batch(b) = SubSeq(b, 1, m)
  BY DEF csv_format_batch
<1> HIDE DEF m
<1>4. csv_format_batch(b) \in Seq(Entries)
  <2>1. \A i \in 1 .. m : b[i] \in Entries
    BY <1>2
  <2> QED BY <1>2, <1>3, <2>1, SubSeqProperties
<1>5. ASSUME NEW n \in 0 .. Len(csv_format_batch(b))
      PROVE  SubSeq(csv_format_batch(b), 1, n) \in Seq(Entries)
  <2> DEFINE r == csv_format_batch(b)
  <2> HIDE DEF r
  <2>1. r \in Seq(Entries) /\ n \in 0 .. Len(r)
    BY <1>4 DEF r
  <2>2. \A i \in 1 .. n : r[i] \in Entries
    BY <2>1
  <2>3. SubSeq(r, 1, n) \in Seq(Entries)
    BY <2>1, <2>2, SubSeqProperties
  <2> QED BY <2>3 DEF r
<1> QED BY <1>4, <1>5

\* The initial state satisfies the invariant.
LEMMA InitRingInv == Init => RingInv
<1> SUFFICES ASSUME Init PROVE RingInv
  OBVIOUS
<1>1. TypeOK
  BY SizeAssumption, BoundsAssumption DEF Init, TypeOK, Slots, Garbage
<1>2. SlotHandshake
  BY DEF Init, SlotHandshake
<1>3. FifoOrder
  BY <1>1, ContentsOfEmpty DEF Init, FifoOrder
<1> QED BY <1>1, <1>2, <1>3 DEF RingInv

\* Steps that leave the ring, its indices and its histories alone keep the
\* order of the entries.
LEMMA FifoOrderUnchanged ==
  ASSUME FifoOrder, UNCHANGED <<ringVars, accepted, taken>>
  PROVE  FifoOrder'
BY DEF FifoOrder, Contents, ringVars

\* Every step preserves the types.
LEMMA NextTypeOK ==
  ASSUME RingInv, [Next]_vars
  PROVE  TypeOK'
<1> USE DEF RingInv
<1> USE SizeAssumption, BoundsAssumption
<1>1. CASE csv_buffer_create \/ csv_buffer_create_fails
  BY <1>1 DEF TypeOK, csv_buffer_create, csv_buffer_create_fails, ringVars, prodVars, wrtVars
<1>2. CASE EnqueueCheck
  BY <1>2 DEF TypeOK, EnqueueCheck, ringVars, prodVars, wrtVars
<1>3. CASE EnqueueCopy
  BY <1>3 DEF TypeOK, EnqueueCopy, SlotHandshake, Entries, ringVars, prodVars, wrtVars
<1>4. CASE EnqueuePublish
  <2>1. offered \in Entries
    BY <1>4 DEF TypeOK, EnqueuePublish, SlotHandshake, Entries
  <2>2. accepted' \in Seq(Entries)
    BY <1>4, <2>1 DEF TypeOK, EnqueuePublish
  <2>3. head' \in Slots
    BY <1>4, RingNextValue DEF TypeOK, EnqueuePublish, Slots
  <2> QED BY <1>4, <2>2, <2>3 DEF TypeOK, EnqueuePublish, wrtVars
<1>5. CASE WriterStart \/ WriterLoop \/ DequeueCheck
  <2>1. CASE WriterStart
    BY <2>1 DEF TypeOK, WriterStart, ringVars, prodVars
  <2>2. CASE WriterLoop
    <3>1. final' \in BOOLEAN
      BY <2>2 DEF WriterLoop
    <3> QED BY <2>2, <3>1 DEF TypeOK, WriterLoop, ringVars, prodVars
  <2>3. CASE DequeueCheck
    <3>1. wpc' \in {"copy", "write", "done", "loop"}
      BY <2>3 DEF DequeueCheck
    <3> QED BY <2>3, <3>1 DEF TypeOK, DequeueCheck, ringVars, prodVars
  <2> QED BY <1>5, <2>1, <2>2, <2>3
<1>6. CASE DequeueCopy
  <2>1. entries[tail] \in Entries
    BY <1>6, OldestIsEntry DEF DequeueCopy, SlotHandshake
  <2>2. batch' \in Seq(Entries)
    BY <1>6, <2>1 DEF TypeOK, DequeueCopy
  <2> QED BY <1>6, <2>2 DEF TypeOK, DequeueCopy, ringVars, prodVars
<1>7. CASE DequeueAdvance
  <2>1. batch[Len(batch)] \in Entries
    BY <1>7 DEF TypeOK, DequeueAdvance, SlotHandshake
  <2>2. taken' \in Seq(Entries)
    BY <1>7, <2>1 DEF TypeOK, DequeueAdvance
  <2>3. tail' \in Slots
    BY <1>7, RingNextValue DEF TypeOK, DequeueAdvance, Slots
  <2> QED BY <1>7, <2>2, <2>3 DEF TypeOK, DequeueAdvance, prodVars
<1>8. CASE WriteBatch
  <2> DEFINE rows == csv_format_batch(batch)
  <2>1. PICK n \in 0 .. Len(rows) :
           /\ n < Len(rows) => faults < MaxFaults
           /\ file' = file \o SubSeq(rows, 1, n)
           /\ faults' = IF n < Len(rows) THEN faults + 1 ELSE faults
    BY <1>8 DEF WriteBatch
  <2>2. SubSeq(rows, 1, n) \in Seq(Entries)
    BY FormatIsPrefix DEF TypeOK
  <2>3. file' \in Seq(Entries)
    BY <2>1, <2>2, ConcatProperties DEF TypeOK
  <2>4. faults' \in 0 .. MaxFaults
    BY <2>1 DEF TypeOK
  <2> QED BY <1>8, <2>3, <2>4 DEF TypeOK, WriteBatch, ringVars, prodVars
<1>9. CASE DestroyStop \/ DestroyJoin
  BY <1>9 DEF TypeOK, DestroyStop, DestroyJoin, ringVars, prodVars, wrtVars
<1>10. CASE Finished \/ UNCHANGED vars
  BY <1>10 DEF TypeOK, Finished, vars, ringVars, prodVars, wrtVars
<1> QED BY <1>1, <1>2, <1>3, <1>4, <1>5, <1>6, <1>7, <1>8, <1>9, <1>10
       DEF Next, Producer, Writer

\* Every step preserves what the two threads rely on between test and store.
LEMMA NextSlotHandshake ==
  ASSUME RingInv, [Next]_vars
  PROVE  SlotHandshake'
<1> USE DEF RingInv
<1> USE SizeAssumption, BoundsAssumption
<1>1. CASE csv_buffer_create \/ csv_buffer_create_fails
  BY <1>1 DEF SlotHandshake, csv_buffer_create, csv_buffer_create_fails,
              ringVars, prodVars, wrtVars
<1>2. CASE EnqueueCheck
  <2>1. offered' > 0
    BY <1>2 DEF TypeOK, EnqueueCheck
  <2> QED BY <1>2, <2>1 DEF SlotHandshake, EnqueueCheck, ringVars, prodVars, wrtVars
<1>3. CASE EnqueueCopy
  \* the slot at head is not the one the writer is copying
  <2>1. entries'[head] = offered
    BY <1>3 DEF TypeOK, EnqueueCopy
  <2>2. head # tail => entries'[tail] = entries[tail]
    BY <1>3 DEF TypeOK, EnqueueCopy
  <2> QED BY <1>3, <2>1, <2>2 DEF SlotHandshake, EnqueueCopy, ringVars, prodVars, wrtVars
<1>4. CASE EnqueuePublish
  <2>1. head # tail => head' # tail
    BY <1>4 DEF SlotHandshake, EnqueuePublish, RingFull
  <2> QED BY <1>4, <2>1 DEF SlotHandshake, EnqueuePublish, wrtVars
<1>5. CASE WriterStart \/ WriterLoop
  BY <1>5 DEF SlotHandshake, WriterStart, WriterLoop, ringVars, prodVars
<1>6. CASE DequeueCheck
  BY <1>6 DEF SlotHandshake, DequeueCheck, ringVars, prodVars
<1>7. CASE DequeueCopy
  <2>1. /\ batch' # <<>> /\ batch'[Len(batch')] = entries[tail]
    <3>1. entries[tail] \in Entries
      BY <1>7, OldestIsEntry DEF DequeueCopy, SlotHandshake
    <3>2. batch \in Seq(Entries) /\ batch' = Append(batch, entries[tail])
      BY <1>7 DEF TypeOK, DequeueCopy
    <3> QED BY <3>1, <3>2, AppendProperties
  <2> QED BY <1>7, <2>1 DEF SlotHandshake, DequeueCopy, ringVars, prodVars
<1>8. CASE DequeueAdvance
  \* giving a slot back leaves the ring with room
  <2>1. ~RingFull(head, tail, Size) => ~RingFull(head', tail', Size)
    <3> SUFFICES ASSUME ~RingFull(head, tail, Size)
                 PROVE  ~RingFull(head', tail', Size)
      OBVIOUS
    <3>1. /\ head \in 0 .. Size-1 /\ tail \in 0 .. Size-1 /\ head # tail
          /\ head' = head /\ tail' = RingNext(tail, Size)
      BY <1>8 DEF TypeOK, DequeueAdvance, SlotHandshake, Slots
    <3>2. RingNext(tail, Size) = IF tail = Size-1 THEN 0 ELSE tail + 1
      BY <3>1, RingNextValue
    <3>3. RingNext(head, Size) = IF head = Size-1 THEN 0 ELSE head + 1
      BY <3>1, RingNextValue
    <3>4. RingNext(head', Size) # tail'
      BY <3>1, <3>2, <3>3
    <3> QED BY <3>4 DEF RingFull
  <2> QED BY <1>8, <2>1 DEF SlotHandshake, DequeueAdvance, prodVars
<1>9. CASE WriteBatch
  BY <1>9 DEF SlotHandshake, WriteBatch, ringVars, prodVars
<1>10. CASE DestroyStop \/ DestroyJoin
  BY <1>10 DEF SlotHandshake, DestroyStop, DestroyJoin, ringVars, prodVars, wrtVars
<1>11. CASE Finished \/ UNCHANGED vars
  BY <1>11 DEF SlotHandshake, Finished, vars, ringVars, prodVars, wrtVars
<1> QED BY <1>1, <1>2, <1>3, <1>4, <1>5, <1>6, <1>7, <1>8, <1>9, <1>10, <1>11
       DEF Next, Producer, Writer

\* The producer's copy into the slot at head does not change the contents.
LEMMA CopyKeepsContents ==
  ASSUME RingInv, EnqueueCopy
  PROVE  Contents' = Contents
<1>1. /\ head \in 0 .. Size-1 /\ tail \in 0 .. Size-1
      /\ entries \in [0 .. Size-1 -> Entries \cup {Garbage}]
      /\ entries' = [entries EXCEPT ![head] = offered] /\ UNCHANGED <<head, tail>>
  BY DEF RingInv, TypeOK, EnqueueCopy, Slots
<1>2. RingContents([entries EXCEPT ![head] = offered], head, tail, Size)
        = RingContents(entries, head, tail, Size)
  BY <1>1, SizeAssumption, RingStoreInvisible
<1> QED BY <1>1, <1>2 DEF Contents

\* Publishing appends the offered entry to the contents and to the history.
LEMMA PublishAppends ==
  ASSUME RingInv, EnqueuePublish
  PROVE  /\ Contents' = Append(Contents, offered) /\ offered \in Entries
         /\ Len(Contents) < Size - 1
<1>1. /\ head \in 0 .. Size-1 /\ tail \in 0 .. Size-1
      /\ entries \in [0 .. Size-1 -> Entries \cup {Garbage}]
      /\ head' = RingNext(head, Size) /\ UNCHANGED <<tail, entries>>
      /\ ~RingFull(head, tail, Size) /\ entries[head] = offered
  BY DEF RingInv, TypeOK, EnqueuePublish, SlotHandshake, Slots
<1>2. RingContents(entries, RingNext(head, Size), tail, Size)
        = Append(RingContents(entries, head, tail, Size), entries[head])
  BY <1>1, SizeAssumption, RingPublish
<1>3. offered \in Entries
  BY DEF RingInv, TypeOK, EnqueuePublish, SlotHandshake, Entries
<1>4. Len(Contents) < Size - 1
  <2>1. RingCount(head, tail, Size) # Size - 1 /\ RingCount(head, tail, Size) \in 0 .. Size-1
    BY <1>1, SizeAssumption, RingFullValue, RingCountValue
  <2> QED BY <2>1, ContentsType, SizeAssumption DEF RingInv, Count
<1> QED BY <1>1, <1>2, <1>3, <1>4 DEF Contents

\* Giving a slot back removes the oldest entry, the one just copied.
LEMMA AdvanceRemoves ==
  ASSUME RingInv, DequeueAdvance
  PROVE  /\ Contents # <<>> /\ Contents' = Tail(Contents)
         /\ taken' = Append(taken, Head(Contents))
<1>1. /\ head \in 0 .. Size-1 /\ tail \in 0 .. Size-1 /\ head # tail
      /\ entries \in [0 .. Size-1 -> Entries \cup {Garbage}]
      /\ tail' = RingNext(tail, Size) /\ UNCHANGED <<head, entries>>
      /\ taken' = Append(taken, entries[tail])
  BY DEF RingInv, TypeOK, DequeueAdvance, SlotHandshake, Slots
<1>2. /\ RingContents(entries, head, tail, Size) # <<>>
      /\ Head(RingContents(entries, head, tail, Size)) = entries[tail]
      /\ RingContents(entries, head, RingNext(tail, Size), Size)
           = Tail(RingContents(entries, head, tail, Size))
  BY <1>1, SizeAssumption, RingAdvance
<1> QED BY <1>1, <1>2 DEF Contents

\* Every step preserves the order of the entries.
LEMMA NextFifoOrder ==
  ASSUME RingInv, [Next]_vars
  PROVE  FifoOrder'
<1> USE DEF RingInv
<1>1. CASE EnqueueCopy
  BY <1>1, CopyKeepsContents DEF FifoOrder, EnqueueCopy, wrtVars
<1>2. CASE EnqueuePublish
  <2>1. /\ taken \in Seq(Entries \cup {Garbage}) /\ Contents \in Seq(Entries \cup {Garbage})
        /\ offered \in Entries \cup {Garbage}
    <3>1. taken \in Seq(Entries \cup {Garbage})
      BY SeqMonotonic DEF TypeOK
    <3> QED BY <1>2, <3>1, ContentsType, PublishAppends
  <2>2. taken \o Append(Contents, offered) = Append(taken \o Contents, offered)
    BY <2>1, ConcatAppend
  <2> QED BY <1>2, <2>2, PublishAppends DEF FifoOrder, EnqueuePublish, wrtVars
<1>3. CASE DequeueAdvance
  <2>1. taken \in Seq(Entries \cup {Garbage}) /\ Contents \in Seq(Entries \cup {Garbage})
    <3>1. taken \in Seq(Entries \cup {Garbage})
      BY SeqMonotonic DEF TypeOK
    <3> QED BY <3>1, ContentsType
  <2>2. Append(taken, Head(Contents)) \o Tail(Contents) = taken \o Contents
    BY <1>3, <2>1, AdvanceRemoves, MoveHead
  <2> QED BY <1>3, <2>2, AdvanceRemoves DEF FifoOrder, DequeueAdvance, prodVars
<1>4. CASE UNCHANGED <<ringVars, accepted, taken>>
  BY <1>4, FifoOrderUnchanged
<1> QED
  BY <1>1, <1>2, <1>3, <1>4
  DEF Next, Producer, Writer, csv_buffer_create, csv_buffer_create_fails, EnqueueCheck,
      WriterStart, WriterLoop, DequeueCheck, DequeueCopy, WriteBatch, DestroyStop,
      DestroyJoin, Finished, vars, ringVars, prodVars, wrtVars

\* RingInv is an inductive invariant of the specification.
THEOREM RingInvariant == Spec => []RingInv
<1>1. RingInv /\ [Next]_vars => RingInv'
  BY NextTypeOK, NextSlotHandshake, NextFifoOrder DEF RingInv
<1> QED BY <1>1, InitRingInv, PTL DEF Spec

\* Types: the indices never leave the ring, and what the writer thread copies
\* is always a complete entry, never an uninitialised slot.
THEOREM TypeCorrect == Spec => []TypeOK
BY RingInvariant, PTL DEF RingInv

\* The lock-free ring loses, duplicates and reorders nothing: for every ring
\* size, the published entries are the dequeued ones followed by the contents.
THEOREM FifoOrderHolds == Spec => []FifoOrder
BY RingInvariant, PTL DEF RingInv

\* Neither thread's test of the other's index is stale when it acts on it.
THEOREM HandshakeHolds == Spec => []SlotHandshake
BY RingInvariant, PTL DEF RingInv

\* The initial state is an empty queue.
LEMMA InitFifo == Init => Fifo!Init
<1> SUFFICES ASSUME Init PROVE Fifo!Init
  OBVIOUS
<1>1. Contents = <<>>
  BY InitRingInv, ContentsOfEmpty DEF Init, RingInv
<1> QED BY <1>1 DEF Init, Fifo!Init

\* Every step of the ring is a step of the queue or leaves it alone.
LEMMA StepFifo ==
  ASSUME RingInv, [Next]_vars
  PROVE  [Fifo!Next]_Fifo!fifoVars
<1>1. CASE EnqueueCheck
  <2>1. Contents' = Contents /\ taken' = taken
    BY <1>1 DEF EnqueueCheck, ringVars, wrtVars, Contents
  <2>2. CASE RingFull(head, tail, Size)
    <3>1. RingCount(head, tail, Size) = Size - 1
      BY <2>2, SizeAssumption, RingFullValue DEF RingInv, TypeOK, Slots
    <3>2. Len(Contents) = Size - 1
      BY <3>1, ContentsType DEF RingInv, Count
    <3> QED BY <1>1, <2>1, <2>2, <3>2 DEF EnqueueCheck, Fifo!Next, Fifo!Refuse, Fifo!fifoVars
  <2>3. CASE ~RingFull(head, tail, Size)
    BY <1>1, <2>1, <2>3 DEF EnqueueCheck, Fifo!fifoVars
  <2> QED BY <2>2, <2>3
<1>2. CASE EnqueueCopy
  BY <1>2, CopyKeepsContents DEF EnqueueCopy, wrtVars, Fifo!fifoVars
<1>3. CASE EnqueuePublish
  BY <1>3, PublishAppends DEF EnqueuePublish, wrtVars, Fifo!Next, Fifo!Accept
<1>4. CASE DequeueAdvance
  BY <1>4, AdvanceRemoves DEF DequeueAdvance, prodVars, Fifo!Next, Fifo!Remove
<1>5. CASE UNCHANGED <<ringVars, refused, taken>>
  BY <1>5 DEF ringVars, Contents, Fifo!fifoVars
<1> QED
  BY <1>1, <1>2, <1>3, <1>4, <1>5
  DEF Next, Producer, Writer, csv_buffer_create, csv_buffer_create_fails,
      WriterStart, WriterLoop, DequeueCheck, DequeueCopy, WriteBatch, DestroyStop,
      DestroyJoin, Finished, vars, ringVars, prodVars, wrtVars

\* The CSV ring implements the bounded queue: entries come out once and in
\* order, and csv_enqueue_fast refuses one only when Size - 1 are waiting.
THEOREM RingImplementsFifo == Spec => ImplementsFifo
<1>1. RingInv /\ [Next]_vars => [Fifo!Next]_Fifo!fifoVars
  BY StepFifo
<1> QED BY <1>1, InitFifo, RingInvariant, PTL DEF Spec, ImplementsFifo, Fifo!Spec

-----------------------------------------------------------------------------
(* The writer thread: what becomes of the entries that leave the ring.     *)
(*                                                                         *)
(* FileFollowsRing and FinalFlushLossBound speak of the file and the ring  *)
(* at the end of a batch.  WriterInv says what holds in the middle of one: *)
(* which of the taken entries are in the batch, and how many of those that *)
(* the final flush found it has already taken.                             *)

\* Entries are published in the order they are offered.
Ascending ==
  /\ \A j, k \in 1 .. Len(accepted) : j < k => accepted[j] < accepted[k]
  /\ \A k \in 1 .. Len(accepted) : accepted[k] <= offered /\ (ppc # "idle" => accepted[k] < offered)

\* The taken entries of earlier batches
Settled == CASE wpc \in {"dequeue", "copy", "write"} -> Len(taken) - Len(batch)
             [] wpc = "advance" -> Len(taken) - Len(batch) + 1
             [] OTHER -> Len(taken)

\* The batch is what was taken since.
Batched ==
  /\ Settled \in Nat
  /\ wpc \in {"dequeue", "copy", "write"} => \A k \in 1 .. Len(batch) : batch[k] = taken[Settled + k]
  /\ wpc = "advance" => \A k \in 1 .. Len(batch) - 1 : batch[k] = taken[Settled + k]
  /\ Len(batch) <= BatchSize /\ (wpc = "copy" => Len(batch) < BatchSize)

\* The file has rows of earlier batches, in order; all of them without a fault.
Filed ==
  /\ \A k \in 1 .. Len(file) : \E j \in 1 .. Settled : file[k] = taken[j]
  /\ \A j, k \in 1 .. Len(file) : j < k => file[j] < file[k]
  /\ faults = 0 => Len(file) = Settled /\ \A k \in 1 .. Settled : file[k] = taken[k]

\* The final flush starts when nothing is published any more; it ends with an
\* empty ring or a full batch.
Flushed ==
  /\ life \in {"joining", "freed"} => ppc = "idle"
  /\ life = "open" => running = 1
  /\ life \in {"unborn", "failed"} => wpc = "none"
  /\ final => /\ life \in {"joining", "freed"}
              /\ wpc \in {"dequeue", "copy", "advance", "write", "done"}
              /\ Count + Len(batch) <= IF wpc = "advance" THEN Size ELSE Size - 1
              /\ wpc \in {"write", "done"} => Count = 0 \/ Len(batch) >= BatchSize

\* The inductive invariant of ring and writer
WriterInv == RingInv /\ Ascending /\ Batched /\ Filed /\ Flushed

-----------------------------------------------------------------------------
\* The taken entries are the first accepted ones, the oldest one in the ring is
\* the next, and the rest is in the ring.
LEMMA TakenFirst ==
  ASSUME RingInv
  PROVE  /\ Len(taken) \in Nat /\ Len(batch) \in Nat /\ Len(file) \in Nat /\ Len(accepted) \in Nat
         /\ Len(accepted) = Len(taken) + Count /\ Count \in 0 .. Size - 1
         /\ \A k \in 1 .. Len(taken) : accepted[k] = taken[k]
         /\ Count = 0 <=> head = tail
<1> DEFINE E == Entries \cup {Garbage}
<1>1. /\ taken \in Seq(Entries) /\ batch \in Seq(Entries) /\ file \in Seq(Entries)
      /\ accepted \in Seq(Entries) /\ TypeOK
  BY DEF RingInv, TypeOK
<1>2. Contents \in Seq(E) /\ taken \in Seq(E) /\ Len(Contents) = Count
  BY <1>1, SeqMonotonic, ContentsType
<1>3. Count \in 0 .. Size - 1 /\ (Count = 0 <=> head = tail)
  <2>1. head \in 0 .. Size - 1 /\ tail \in 0 .. Size - 1 /\ Size \in Nat /\ Size > 1
    BY <1>1, SizeAssumption DEF TypeOK, Slots
  <2>2. /\ Count = IF head >= tail THEN head - tail ELSE head - tail + Size
        /\ Count \in 0 .. Size - 1
    BY <2>1, RingCountValue DEF Count
  <2> QED BY <2>1, <2>2
<1>4. accepted = taken \o Contents
  BY DEF RingInv, FifoOrder
<1>5. /\ Len(accepted) = Len(taken) + Len(Contents)
      /\ \A k \in 1 .. Len(taken) + Len(Contents) :
           accepted[k] = IF k <= Len(taken) THEN taken[k] ELSE Contents[k - Len(taken)]
  BY <1>2, <1>4, ConcatProperties
<1>6. /\ Len(taken) \in Nat /\ Len(batch) \in Nat /\ Len(file) \in Nat /\ Len(accepted) \in Nat
      /\ Len(Contents) \in Nat
  BY <1>1, <1>2, LenProperties
<1>7. \A k \in 1 .. Len(taken) : accepted[k] = taken[k]
  <2>1. \A k \in 1 .. Len(taken) : k \in 1 .. Len(taken) + Len(Contents) /\ k <= Len(taken)
    BY <1>6
  <2> QED BY <1>5, <2>1
<1> QED BY <1>2, <1>3, <1>5, <1>6, <1>7

\* A product grows with its factors.
LEMMA ProductGrows ==
  ASSUME NEW a \in Nat, NEW b \in Nat \ {0}, NEW r \in Nat, NEW s \in Nat, a <= b, r < s
  PROVE  a * r < b * s
<1>1. a * r <= b * r
  OBVIOUS
<1>2. b * r < b * s
  OBVIOUS
<1>3. a * r \in Int /\ b * r \in Int /\ b * s \in Int
  OBVIOUS
<1> QED BY <1>1, <1>2, <1>3

\* csv_format_batch formats the whole of a batch: the buffer has room for it.
LEMMA FormatIsWhole ==
  ASSUME NEW b \in Seq(Entries), Len(b) <= BatchSize
  PROVE  csv_format_batch(b) = b
<1> DEFINE D == {i \in 1 .. Len(b) :
                   (i - 1) * RowBytes < BatchSize * SlotBytes - SlotBytes}
<1>0. Len(b) \in Nat
  BY LenProperties
<1>1. \A i \in 1 .. Len(b) : (i - 1) * RowBytes < BatchSize * SlotBytes - SlotBytes
  <2> SUFFICES ASSUME NEW i \in 1 .. Len(b)
               PROVE  (i - 1) * RowBytes < BatchSize * SlotBytes - SlotBytes
    OBVIOUS
  <2>1. i - 1 \in Nat /\ BatchSize - 1 \in Nat \ {0} /\ i - 1 <= BatchSize - 1
    BY <1>0, BatchAssumption
  <2>2. (i - 1) * RowBytes < (BatchSize - 1) * SlotBytes
    BY <2>1, RowAssumption, ProductGrows
  <2>3. (BatchSize - 1) * SlotBytes = BatchSize * SlotBytes - SlotBytes
    BY BatchAssumption, RowAssumption
  <2> QED BY <2>2, <2>3
<1>2. D = 1 .. Len(b)
  BY <1>1
<1>3. Cardinality(1 .. Len(b)) = Len(b)
  <2>1. Cardinality(1 .. Len(b)) = IF 1 > Len(b) THEN 0 ELSE Len(b) - 1 + 1
    BY <1>0, FS_Interval
  <2> QED BY <1>0, <2>1
<1>4. csv_format_batch(b) = SubSeq(b, 1, Len(b))
  BY <1>2, <1>3 DEF csv_format_batch
<1>5. SubSeq(b, 1, Len(b)) = b
  BY SubSeqFull
<1> QED BY <1>4, <1>5

\* The initial state satisfies the writer's invariant.
LEMMA InitWriterInv == Init => WriterInv
<1> SUFFICES ASSUME Init PROVE WriterInv
  OBVIOUS
<1>1. RingInv
  BY InitRingInv
<1>2. Len(<<>>) = 0
  OBVIOUS
<1>3. Ascending
  BY <1>2 DEF Init, Ascending
<1>4. Settled = 0
  BY <1>2 DEF Init, Settled
<1>5. Batched /\ Filed
  BY <1>2, <1>4, BatchAssumption DEF Init, Batched, Filed
<1>6. Flushed
  BY DEF Init, Flushed
<1> QED BY <1>1, <1>3, <1>5, <1>6 DEF WriterInv

\* Which thread may change what
LEMMA WriterFrames ==
  ASSUME [Next]_vars
  PROVE  /\ EnqueueCheck \/ EnqueuePublish \/ EnqueueCopy \/ UNCHANGED <<offered, accepted, ppc>>
         /\ \/ WriterStart \/ WriterLoop \/ DequeueCheck \/ DequeueCopy \/ DequeueAdvance \/ WriteBatch
            \/ csv_buffer_create
            \/ UNCHANGED <<wpc, batch, taken, file, faults, final>>
         /\ EnqueueCheck \/ EnqueueCopy \/ EnqueuePublish \/ DequeueAdvance \/ UNCHANGED Count
         /\ \/ csv_buffer_create \/ csv_buffer_create_fails \/ DestroyStop \/ DestroyJoin
            \/ UNCHANGED <<life, running>>
BY DEF Next, Producer, Writer, csv_buffer_create, csv_buffer_create_fails, EnqueueCheck, EnqueueCopy,
       EnqueuePublish, WriterStart, WriterLoop, DequeueCheck, DequeueCopy, DequeueAdvance, WriteBatch,
       DestroyStop, DestroyJoin, Finished, vars, ringVars, prodVars, wrtVars, Count

\* Every step keeps the published entries in the order they are offered.
LEMMA NextAscending ==
  ASSUME WriterInv, [Next]_vars
  PROVE  Ascending'
<1>0. /\ Ascending /\ accepted \in Seq(Entries) /\ offered \in Nat /\ Len(accepted) \in Nat
      /\ \A k \in 1 .. Len(accepted) : accepted[k] \in Nat
  BY BoundsAssumption, LenProperties, ElementOfSeq DEF WriterInv, RingInv, TypeOK, Entries
<1>1. CASE EnqueueCheck
  <2>1. UNCHANGED accepted /\ offered' = offered + 1 /\ ppc = "idle"
    BY <1>1 DEF EnqueueCheck
  <2> QED BY <1>0, <2>1 DEF Ascending
<1>2. CASE EnqueueCopy
  BY <1>0, <1>2 DEF Ascending, EnqueueCopy
<1>3. CASE EnqueuePublish
  <2>1. /\ accepted' = Append(accepted, offered) /\ UNCHANGED offered /\ ppc # "idle" /\ ppc' = "idle"
        /\ offered \in Entries
    BY <1>3, PublishAppends DEF EnqueuePublish, WriterInv
  <2>2. /\ Len(accepted') = Len(accepted) + 1
        /\ \A k \in 1 .. Len(accepted) : accepted'[k] = accepted[k]
        /\ accepted'[Len(accepted) + 1] = offered
    BY <1>0, <2>1, AppendProperties
  <2>3. \A k \in 1 .. Len(accepted) : accepted[k] < offered
    BY <1>0, <2>1 DEF Ascending
  <2>4. \A k \in 1 .. Len(accepted') : k \in 1 .. Len(accepted) \/ k = Len(accepted) + 1
    BY <1>0, <2>2
  <2>5. ASSUME NEW j \in 1 .. Len(accepted'), NEW k \in 1 .. Len(accepted'), j < k
        PROVE  accepted'[j] < accepted'[k]
    <3>1. j \in 1 .. Len(accepted)
      BY <1>0, <2>2, <2>5
    <3>2. CASE k \in 1 .. Len(accepted)
      BY <1>0, <2>2, <2>5, <3>1, <3>2 DEF Ascending
    <3>3. CASE k = Len(accepted) + 1
      BY <2>2, <2>3, <3>1, <3>3
    <3> QED BY <2>4, <3>2, <3>3
  <2>6. \A k \in 1 .. Len(accepted') : accepted'[k] <= offered'
    BY <1>0, <2>1, <2>2, <2>3, <2>4
  <2> QED BY <2>1, <2>5, <2>6 DEF Ascending
<1>4. CASE UNCHANGED <<offered, accepted, ppc>>
  BY <1>0, <1>4 DEF Ascending
<1> QED BY <1>1, <1>2, <1>3, <1>4, WriterFrames

\* Settled, by the place of the writer
LEMMA SettledValue ==
  /\ wpc \in {"dequeue", "copy", "write"} => Settled = Len(taken) - Len(batch)
  /\ wpc = "advance" => Settled = Len(taken) - Len(batch) + 1
  /\ wpc \notin {"dequeue", "copy", "write", "advance"} => Settled = Len(taken)
BY DEF Settled

LEMMA SettledNext ==
  /\ wpc' \in {"dequeue", "copy", "write"} => Settled' = Len(taken') - Len(batch')
  /\ wpc' = "advance" => Settled' = Len(taken') - Len(batch') + 1
  /\ wpc' \notin {"dequeue", "copy", "write", "advance"} => Settled' = Len(taken')
BY DEF Settled

\* A step of the writer other than its write() moves no row and settles no entry.
LEMMA FiledUnchanged ==
  ASSUME WriterInv, UNCHANGED <<file, faults>>, Settled' = Settled, Settled <= Len(taken),
         \A k \in 1 .. Len(taken) : taken'[k] = taken[k]
  PROVE  Filed'
<1>1. Settled \in Nat /\ Len(taken) \in Nat /\ Filed
  BY TakenFirst DEF WriterInv, Batched
<1>2. \A k \in 1 .. Settled : taken'[k] = taken[k]
  BY <1>1
<1> QED BY <1>1, <1>2 DEF Filed

\* Every step keeps the batch in line with what was taken.
LEMMA NextBatched ==
  ASSUME WriterInv, [Next]_vars, ~WriteBatch
  PROVE  Batched' /\ Filed'
<1> USE BatchAssumption
<1>0. /\ Len(taken) \in Nat /\ Len(batch) \in Nat /\ Settled \in Nat /\ Batched /\ Filed
      /\ batch \in Seq(Entries) /\ taken \in Seq(Entries)
  BY TakenFirst DEF WriterInv, Batched, RingInv, TypeOK
<1>l. /\ Settled <= Len(taken)
      /\ wpc = "advance" => Len(batch) > 0
  <2>1. wpc = "advance" => Len(batch) > 0
    <3>1. wpc = "advance" => batch # <<>>
      BY DEF WriterInv, RingInv, SlotHandshake
    <3> QED BY <1>0, <3>1, EmptySeq
  <2> QED BY <1>0, <2>1, SettledValue
<1>e. Len(<<>>) = 0
  OBVIOUS
<1>1. CASE WriterStart \/ csv_buffer_create
  <2>1. /\ UNCHANGED <<taken, batch, file, faults>> /\ wpc' \in {"start", "loop", "done"}
        /\ wpc \notin {"dequeue", "copy", "write", "advance"}
    BY <1>1 DEF WriterStart, csv_buffer_create, WriterInv, Flushed
  <2>2. Settled' = Settled
    BY <2>1, SettledValue, SettledNext
  <2> QED BY <1>0, <1>l, <2>1, <2>2, FiledUnchanged DEF Batched
<1>2. CASE WriterLoop
  <2>1. UNCHANGED <<taken, file, faults>> /\ batch' = <<>> /\ wpc = "loop" /\ wpc' = "dequeue"
    BY <1>2 DEF WriterLoop
  <2>2. Settled' = Settled
    BY <1>0, <1>e, <2>1, SettledValue, SettledNext
  <2> QED BY <1>0, <1>e, <1>l, <2>1, <2>2, FiledUnchanged DEF Batched
<1>3. CASE DequeueCheck
  <2>1. /\ UNCHANGED <<taken, batch, file, faults>> /\ wpc = "dequeue"
        /\ \/ wpc' = "copy" /\ Len(batch) < BatchSize
           \/ wpc' = "write"
           \/ wpc' \in {"done", "loop"} /\ batch = <<>>
    BY <1>3 DEF DequeueCheck
  <2>2. Settled' = Settled
    BY <1>0, <1>e, <2>1, SettledValue, SettledNext
  <2>3. Batched'
    BY <1>0, <2>1, <2>2 DEF Batched
  <2> QED BY <1>0, <1>l, <2>1, <2>2, <2>3, FiledUnchanged
<1>4. CASE DequeueCopy
  <2>1. /\ UNCHANGED <<taken, file, faults>> /\ wpc = "copy" /\ wpc' = "advance"
        /\ batch' = Append(batch, entries[tail])
    BY <1>4 DEF DequeueCopy
  <2>2. entries[tail] \in Entries
    BY <2>1, OldestIsEntry DEF WriterInv, RingInv, SlotHandshake
  <2>3. Len(batch') = Len(batch) + 1 /\ \A k \in 1 .. Len(batch) : batch'[k] = batch[k]
    BY <1>0, <2>1, <2>2, AppendProperties
  <2>4. Settled' = Settled
    BY <1>0, <2>1, <2>3, SettledValue, SettledNext
  <2>5. Len(batch') - 1 = Len(batch) /\ Len(batch) < BatchSize /\ Len(batch') <= BatchSize
    BY <1>0, <2>1, <2>3 DEF Batched
  <2>6. \A k \in 1 .. Len(batch) : batch'[k] = taken'[Settled' + k]
    BY <1>0, <2>1, <2>3, <2>4 DEF Batched
  <2>7. Batched'
    BY <1>0, <2>1, <2>4, <2>5, <2>6 DEF Batched
  <2> QED BY <1>0, <1>l, <2>1, <2>4, <2>7, FiledUnchanged
<1>5. CASE DequeueAdvance
  <2>1. /\ UNCHANGED <<batch, file, faults>> /\ wpc = "advance" /\ wpc' = "dequeue"
        /\ taken' = Append(taken, batch[Len(batch)])
    BY <1>5 DEF DequeueAdvance
  <2>2. Len(batch) \in 1 .. Len(batch) /\ batch[Len(batch)] \in Entries
    BY <1>0, <1>l, <2>1, ElementOfSeq
  <2>3. /\ Len(taken') = Len(taken) + 1 /\ \A k \in 1 .. Len(taken) : taken'[k] = taken[k]
        /\ taken'[Len(taken) + 1] = batch[Len(batch)]
    BY <1>0, <2>1, <2>2, AppendProperties
  <2>4. Settled = Len(taken) - Len(batch) + 1 /\ Settled' = Len(taken) + 1 - Len(batch)
    BY <2>1, <2>3, SettledValue, SettledNext
  <2>5. Settled' = Settled
    BY <1>0, <2>4
  <2>6. ASSUME NEW k \in 1 .. Len(batch) PROVE batch'[k] = taken'[Settled' + k]
    <3>1. CASE k = Len(batch)
      <4>1. Settled' + k = Len(taken) + 1
        BY <1>0, <2>4, <3>1
      <4> QED BY <2>1, <2>3, <3>1, <4>1
    <3>2. CASE k # Len(batch)
      <4>1. k \in 1 .. Len(batch) - 1 /\ Settled + k \in 1 .. Len(taken)
        BY <1>0, <2>4, <3>2
      <4> QED BY <1>0, <2>1, <2>3, <2>5, <4>1 DEF Batched
    <3> QED BY <3>1, <3>2
  <2>7. Batched'
    BY <1>0, <2>1, <2>5, <2>6 DEF Batched
  <2> QED BY <1>l, <2>1, <2>3, <2>5, <2>7, FiledUnchanged
<1>6. CASE UNCHANGED <<wpc, batch, taken, file, faults, final>>
  <2>1. Settled' = Settled
    BY <1>6 DEF Settled
  <2>2. Batched'
    BY <1>0, <1>6, <2>1 DEF Batched
  <2> QED BY <1>l, <1>6, <2>1, <2>2, FiledUnchanged
<1> QED BY <1>1, <1>2, <1>3, <1>4, <1>5, <1>6, WriterFrames

\* One write(): what reaches the file are the first rows of the batch.
LEMMA WriteFollows ==
  ASSUME WriterInv, WriteBatch
  PROVE  Batched' /\ Filed'
<1> USE BatchAssumption
<1>0. /\ Len(taken) \in Nat /\ Len(batch) \in Nat /\ Len(file) \in Nat /\ Settled \in Nat
      /\ Batched /\ Filed /\ batch \in Seq(Entries) /\ file \in Seq(Entries) /\ faults \in Nat
      /\ taken \in Seq(Entries)
  BY BoundsAssumption, TakenFirst DEF WriterInv, Batched, RingInv, TypeOK
<1>1. /\ wpc = "write" /\ wpc' \in {"loop", "done"} /\ UNCHANGED <<batch, taken>>
  BY DEF WriteBatch
<1>2. csv_format_batch(batch) = batch
  BY <1>0, FormatIsWhole DEF Batched
<1>3. PICK n \in 0 .. Len(batch) :
        /\ file' = file \o SubSeq(batch, 1, n)
        /\ faults' = IF n < Len(batch) THEN faults + 1 ELSE faults
  BY <1>2 DEF WriteBatch
<1> DEFINE new == SubSeq(batch, 1, n)
<1>4. new \in Seq(Entries) /\ Len(new) = n /\ \A k \in 1 .. n : new[k] = batch[k]
  <2>1. \A k \in 1 .. n : batch[k] \in Entries
    BY <1>0, ElementOfSeq
  <2>2. /\ new \in Seq(Entries) /\ Len(new) = IF 1 <= n THEN n - 1 + 1 ELSE 0
        /\ \A k \in 1 .. n - 1 + 1 : new[k] = batch[1 + k - 1]
    BY <1>0, <2>1, SubSeqProperties
  <2> HIDE DEF new
  <2> QED BY <1>0, <2>2
<1>5. file' = file \o new
  BY <1>3
<1> HIDE DEF new
<1>6. /\ Len(file') = Len(file) + n
      /\ \A k \in 1 .. Len(file) + n : file'[k] = IF k <= Len(file) THEN file[k] ELSE new[k - Len(file)]
  <2>1. /\ Len(file \o new) = Len(file) + Len(new)
        /\ \A k \in 1 .. Len(file) + Len(new) :
             (file \o new)[k] = IF k <= Len(file) THEN file[k] ELSE new[k - Len(file)]
    BY <1>0, <1>4, ConcatProperties
  <2>2. Len(new) = n
    BY <1>4
  <2> QED BY <1>5, <2>1, <2>2, Zenon
<1>7. Settled = Len(taken) - Len(batch) /\ Settled' = Len(taken)
  BY <1>1, SettledValue, SettledNext
<1>8. Batched'
  BY <1>0, <1>1, <1>7 DEF Batched
\* a row is an old one, or that of an entry of the batch
<1>9. ASSUME NEW k \in 1 .. Len(file')
      PROVE  \/ k \in 1 .. Len(file) /\ file'[k] = file[k]
             \/ /\ k - Len(file) \in 1 .. n
                /\ Settled + (k - Len(file)) \in 1 .. Len(taken)
                /\ file'[k] = taken[Settled + (k - Len(file))]
  <2>1. CASE k <= Len(file)
    BY <1>0, <1>6, <2>1
  <2>2. CASE ~(k <= Len(file))
    <3>1. k - Len(file) \in 1 .. n /\ k - Len(file) \in 1 .. Len(batch)
      BY <1>0, <1>6, <2>2
    <3>2. file'[k] = batch[k - Len(file)]
      BY <1>0, <1>4, <1>6, <2>2, <3>1
    <3>3. batch[k - Len(file)] = taken[Settled + (k - Len(file))]
      BY <1>0, <1>1, <3>1 DEF Batched
    <3>4. Settled + (k - Len(file)) \in 1 .. Len(taken)
      BY <1>0, <1>7, <3>1
    <3> QED BY <3>1, <3>2, <3>3, <3>4
  <2> QED BY <2>1, <2>2
<1>10. \A k \in 1 .. Len(file') : \E j \in 1 .. Settled' : file'[k] = taken'[j]
  <2> SUFFICES ASSUME NEW k \in 1 .. Len(file') PROVE \E j \in 1 .. Len(taken) : file'[k] = taken[j]
    BY <1>1, <1>7
  <2>1. CASE k \in 1 .. Len(file) /\ file'[k] = file[k]
    <3>1. PICK j \in 1 .. Settled : file[k] = taken[j]
      BY <1>0, <2>1 DEF Filed
    <3>2. j \in 1 .. Len(taken)
      BY <1>0, <1>7
    <3> QED BY <2>1, <3>1, <3>2
  <2> QED BY <1>9, <2>1
\* the taken entries are in ascending order
<1>11. \A x, y \in 1 .. Len(taken) : x < y => taken[x] < taken[y]
  <2>1. \A x \in 1 .. Len(taken) : x \in 1 .. Len(accepted) /\ accepted[x] = taken[x]
    BY TakenFirst, SizeAssumption DEF WriterInv
  <2> QED BY <2>1 DEF WriterInv, Ascending
<1>12. ASSUME NEW j \in 1 .. Len(file'), NEW k \in 1 .. Len(file'), j < k
       PROVE  file'[j] < file'[k]
  <2>1. CASE k \in 1 .. Len(file)
    <3>1. j \in 1 .. Len(file) /\ file'[j] = file[j] /\ file'[k] = file[k]
      BY <1>0, <1>6, <1>12, <2>1
    <3> QED BY <1>0, <1>12, <2>1, <3>1 DEF Filed
  <2>2. CASE k \notin 1 .. Len(file)
    <3> DEFINE y == Settled + (k - Len(file))
    <3>1. y \in 1 .. Len(taken) /\ y > Settled /\ file'[k] = taken[y]
      BY <1>0, <1>9, <2>2
    <3> HIDE DEF y
    <3>2. CASE j \in 1 .. Len(file) /\ file'[j] = file[j]
      <4>1. PICK x \in 1 .. Settled : file[j] = taken[x]
        BY <1>0, <3>2 DEF Filed
      <4>2. x \in 1 .. Len(taken) /\ x < y
        BY <1>0, <1>7, <3>1
      <4> QED BY <1>11, <3>1, <3>2, <4>1, <4>2
    <3>3. CASE /\ j - Len(file) \in 1 .. n
               /\ Settled + (j - Len(file)) \in 1 .. Len(taken)
               /\ file'[j] = taken[Settled + (j - Len(file))]
      <4>1. Settled + (j - Len(file)) < y
        BY <1>0, <1>12 DEF y
      <4> QED BY <1>11, <3>1, <3>3, <4>1
    <3> QED BY <1>9, <3>2, <3>3
  <2> QED BY <2>1, <2>2
<1>13. ASSUME faults' = 0
       PROVE  Len(file') = Settled' /\ \A k \in 1 .. Settled' : file'[k] = taken'[k]
  <2>1. n = Len(batch) /\ faults = 0
    BY <1>0, <1>3, <1>13
  <2>2. Len(file) = Settled /\ \A k \in 1 .. Settled : file[k] = taken[k]
    BY <1>0, <2>1 DEF Filed
  <2>3. Len(file') = Settled'
    BY <1>0, <1>6, <1>7, <2>1, <2>2
  <2>4. ASSUME NEW k \in 1 .. Settled' PROVE file'[k] = taken'[k]
    <3>1. CASE k \in 1 .. Len(file) /\ file'[k] = file[k]
      BY <1>1, <2>2, <3>1
    <3>2. CASE file'[k] = taken[Settled + (k - Len(file))]
      <4>1. Settled + (k - Len(file)) = k
        BY <1>0, <1>7, <2>2
      <4> QED BY <1>1, <3>2, <4>1
    <3> QED BY <1>9, <2>3, <3>1, <3>2
  <2> QED BY <2>3, <2>4
<1>14. Filed'
  BY <1>10, <1>12, <1>13 DEF Filed
<1> QED BY <1>8, <1>14

\* Every step keeps what the final flush relies on.
LEMMA NextFlushed ==
  ASSUME WriterInv, [Next]_vars
  PROVE  Flushed'
<1> USE BatchAssumption, SizeAssumption
<1>0. /\ Flushed /\ Len(batch) \in Nat /\ Count \in 0 .. Size - 1 /\ (Count = 0 <=> head = tail)
      /\ batch \in Seq(Entries)
  BY TakenFirst DEF WriterInv, RingInv, TypeOK
<1>e. Len(<<>>) = 0
  OBVIOUS
<1>1. CASE csv_buffer_create \/ csv_buffer_create_fails
  <2>1. /\ life = "unborn" /\ UNCHANGED <<ppc, final>>
        /\ \/ life' = "open" /\ running' = 1
           \/ life' = "failed" /\ UNCHANGED wpc
    BY <1>1 DEF csv_buffer_create, csv_buffer_create_fails, prodVars, wrtVars
  <2>2. ~final' /\ wpc = "none"
    BY <1>0, <2>1 DEF Flushed
  <2> QED BY <2>1, <2>2 DEF Flushed
<1>2. CASE EnqueueCheck \/ EnqueueCopy \/ EnqueuePublish
  <2>1. /\ UNCHANGED <<life, running, wpc, final>>
        /\ life = "open" \/ ppc # "idle"
    BY <1>2 DEF EnqueueCheck, EnqueueCopy, EnqueuePublish, wrtVars
  <2>2. life \notin {"joining", "freed"} /\ ~final'
    BY <1>0, <2>1 DEF Flushed
  <2> QED BY <1>0, <2>1, <2>2 DEF Flushed
<1>3. CASE WriterStart
  <2>1. UNCHANGED <<life, running, ppc, final>> /\ wpc = "start"
    BY <1>3 DEF WriterStart, prodVars
  <2>2. ~final' /\ life \notin {"unborn", "failed"}
    BY <1>0, <2>1 DEF Flushed
  <2> QED BY <1>0, <2>1, <2>2 DEF Flushed
<1>4. CASE WriterLoop
  <2>1. /\ UNCHANGED <<life, running, ppc>> /\ wpc = "loop" /\ wpc' = "dequeue" /\ batch' = <<>>
        /\ Count' = Count
    BY <1>4 DEF WriterLoop, prodVars, ringVars, Count
  <2>2. final' => running = 0
    BY <1>4, Zenon DEF WriterLoop
  <2>3. life \in {"open", "joining", "freed"} /\ (final' => life \in {"joining", "freed"})
    BY <1>0, <2>1, <2>2 DEF Flushed, WriterInv, RingInv, TypeOK
  <2>4. Count' + Len(batch') <= Size - 1
    BY <1>0, <1>e, <2>1
  <2> QED BY <1>0, <2>1, <2>3, <2>4 DEF Flushed
<1>5. CASE DequeueCheck
  <2>1. /\ UNCHANGED <<life, running, ppc, final, batch>> /\ wpc = "dequeue"
        /\ Count' = Count
    BY <1>5 DEF DequeueCheck, prodVars, ringVars, Count
  <2>2. /\ wpc' \in {"copy", "write", "done", "loop"}
        /\ wpc' # "copy" => Len(batch) >= BatchSize \/ tail = head
        /\ final => wpc' # "loop"
    <3>1. wpc' = IF Len(batch) < BatchSize /\ tail # head THEN "copy"
                 ELSE IF batch # <<>> THEN "write"
                 ELSE IF final THEN "done" ELSE "loop"
      BY <1>5 DEF DequeueCheck
    <3>2. CASE Len(batch) < BatchSize /\ tail # head
      BY <3>1, <3>2
    <3>3. CASE ~(Len(batch) < BatchSize /\ tail # head)
      <4>1. Len(batch) >= BatchSize \/ tail = head
        BY <1>0, <3>3
      <4> QED BY <3>1, <3>3, <4>1
    <3> QED BY <3>2, <3>3
  <2>3. life \notin {"unborn", "failed"}
    BY <1>0, <2>1 DEF Flushed
  <2>4. CASE final
    <3>1. life \in {"joining", "freed"} /\ Count + Len(batch) <= Size - 1
      BY <1>0, <2>1, <2>4 DEF Flushed
    <3> QED BY <1>0, <2>1, <2>2, <2>3, <2>4, <3>1 DEF Flushed
  <2>5. CASE ~final
    BY <1>0, <2>1, <2>3, <2>5 DEF Flushed
  <2> QED BY <2>4, <2>5
<1>6. CASE DequeueCopy
  <2>1. /\ UNCHANGED <<life, running, ppc, final>> /\ wpc = "copy" /\ wpc' = "advance"
        /\ Count' = Count /\ batch' = Append(batch, entries[tail])
    BY <1>6 DEF DequeueCopy, prodVars, ringVars, Count
  <2>2. entries[tail] \in Entries
    BY <2>1, OldestIsEntry DEF WriterInv, RingInv, SlotHandshake
  <2>3. Len(batch') = Len(batch) + 1
    BY <1>0, <2>1, <2>2, AppendProperties
  <2>4. final => life \in {"joining", "freed"} /\ Count + Len(batch) <= Size - 1
    BY <1>0, <2>1 DEF Flushed
  <2>5. final => Count' + Len(batch') <= Size
    BY <1>0, <2>1, <2>3, <2>4
  <2>6. life \notin {"unborn", "failed"}
    BY <1>0, <2>1 DEF Flushed
  <2> QED BY <1>0, <2>1, <2>4, <2>5, <2>6 DEF Flushed
<1>7. CASE DequeueAdvance
  <2>1. /\ UNCHANGED <<life, running, ppc, final, batch>> /\ wpc = "advance" /\ wpc' = "dequeue"
    BY <1>7 DEF DequeueAdvance, prodVars
  <2>2. Count' = Count - 1
    <3>1. Contents # <<>> /\ Contents' = Tail(Contents)
      BY <1>7, AdvanceRemoves DEF WriterInv
    <3>2. Contents \in Seq(Entries \cup {Garbage}) /\ Len(Contents) = Count
      BY ContentsType DEF WriterInv, RingInv
    <3>3. TypeOK'
      BY NextTypeOK DEF WriterInv
    <3>4. Len(Contents') = Count'
      BY <3>3, ContentsTypeNext
    <3>5. Len(Tail(Contents)) = Len(Contents) - 1
      BY <3>1, <3>2, HeadTailProperties
    <3> QED BY <3>1, <3>2, <3>4, <3>5
  <2>3. final => life \in {"joining", "freed"} /\ Count + Len(batch) <= Size
    BY <1>0, <2>1 DEF Flushed
  <2>4. final => Count' + Len(batch') <= Size - 1
    BY <1>0, <2>1, <2>2, <2>3
  <2>5. life \notin {"unborn", "failed"}
    BY <1>0, <2>1 DEF Flushed
  <2> QED BY <1>0, <2>1, <2>3, <2>4, <2>5 DEF Flushed
<1>8. CASE WriteBatch
  <2>1. /\ UNCHANGED <<life, running, ppc, final, batch>> /\ wpc = "write"
        /\ Count' = Count
    BY <1>8 DEF WriteBatch, prodVars, ringVars, Count
  <2>2. wpc' = IF final THEN "done" ELSE "loop"
    BY <1>8 DEF WriteBatch
  <2>3. life \notin {"unborn", "failed"}
    BY <1>0, <2>1 DEF Flushed
  <2>4. CASE final
    <3>1. wpc' = "done"
      BY <2>2, <2>4
    <3> QED BY <1>0, <2>1, <2>3, <2>4, <3>1 DEF Flushed
  <2>5. CASE ~final
    BY <1>0, <2>1, <2>3, <2>5 DEF Flushed
  <2> QED BY <2>4, <2>5
<1>9. CASE DestroyStop \/ DestroyJoin
  <2>1. /\ UNCHANGED <<ppc, wpc, final, batch>> /\ Count' = Count
        /\ \/ life = "open" /\ ppc = "idle" /\ life' = "joining"
           \/ life = "joining" /\ life' = "freed"
    BY <1>9 DEF DestroyStop, DestroyJoin, prodVars, wrtVars, ringVars, Count
  <2> QED BY <1>0, <2>1 DEF Flushed
<1>10. CASE UNCHANGED vars
  <2>1. UNCHANGED <<life, running, ppc, wpc, final, batch>> /\ Count' = Count
    BY <1>10 DEF vars, prodVars, wrtVars, ringVars, Count
  <2> QED BY <1>0, <2>1 DEF Flushed
<1> QED BY <1>1, <1>2, <1>3, <1>4, <1>5, <1>6, <1>7, <1>8, <1>9, <1>10
        DEF Next, Producer, Writer, Finished

-----------------------------------------------------------------------------
\* WriterInv is an inductive invariant of the specification.
THEOREM WriterInvariant == Spec => []WriterInv
<1>1. WriterInv /\ [Next]_vars => WriterInv'
  BY NextTypeOK, NextSlotHandshake, NextFifoOrder, NextAscending, NextBatched, WriteFollows,
     NextFlushed DEF WriterInv, RingInv
<1> QED BY InitWriterInv, <1>1, PTL DEF Spec

\* Without a fault the file is what was taken, at the end of a batch.
LEMMA FileIsTaken ==
  ASSUME WriterInv, faults = 0, wpc \in {"loop", "done"}
  PROVE  file = taken
<1>1. Settled = Len(taken) /\ Filed /\ file \in Seq(Entries) /\ taken \in Seq(Entries)
  BY SettledValue DEF WriterInv, RingInv, TypeOK
<1>2. Len(file) = Len(taken) /\ \A k \in 1 .. Len(taken) : file[k] = taken[k]
  BY <1>1 DEF Filed
<1> QED BY <1>1, <1>2, SeqEqual

\* A row is at most once and in order in the file whatever write() does, and no
\* row that left the ring is missing while write() works (FileFollowsRing).
THEOREM FileIsRight == Spec => []FileFollowsRing
<1>1. WriterInv => FileFollowsRing
  <2> SUFFICES ASSUME WriterInv PROVE FileFollowsRing
    OBVIOUS
  <2>1. /\ Len(taken) \in Nat /\ Len(batch) \in Nat /\ Settled \in Nat /\ Filed
        /\ Len(accepted) = Len(taken) + Count /\ Count \in Nat
        /\ \A k \in 1 .. Len(taken) : accepted[k] = taken[k]
    BY TakenFirst, SizeAssumption DEF WriterInv, Batched
  <2>2. Settled <= Len(taken)
    <3>1. wpc = "advance" => Len(batch) > 0
      <4>1. wpc = "advance" => batch # <<>>
        BY DEF WriterInv, RingInv, SlotHandshake
      <4>2. batch \in Seq(Entries)
        BY DEF WriterInv, RingInv, TypeOK
      <4> QED BY <2>1, <4>1, <4>2, EmptySeq
    <3> QED BY <2>1, <3>1, SettledValue
  <2>3. \A k \in 1 .. Len(file) : \E j \in 1 .. Len(accepted) : file[k] = accepted[j]
    <3> SUFFICES ASSUME NEW k \in 1 .. Len(file)
                 PROVE  \E j \in 1 .. Len(accepted) : file[k] = accepted[j]
      OBVIOUS
    <3>1. PICK j \in 1 .. Settled : file[k] = taken[j]
      BY <2>1 DEF Filed
    <3>2. j \in 1 .. Len(taken) /\ j \in 1 .. Len(accepted)
      BY <2>1, <2>2
    <3> QED BY <2>1, <3>1, <3>2
  <2>4. RowsOnceInOrder
    BY <2>1, <2>3 DEF RowsOnceInOrder, Filed
  <2>5. NothingLostInWriter
    BY FileIsTaken DEF NothingLostInWriter
  <2> QED BY <2>4, <2>5 DEF FileFollowsRing
<1> QED BY WriterInvariant, <1>1, PTL

\* The final flush leaves only what a ring holds beyond one batch: the file is the
\* beginning of what was accepted (FinalFlushLossBound).
THEOREM FlushLossBounded == Spec => []FinalFlushLossBound
<1>1. WriterInv => FinalFlushLossBound
  <2> SUFFICES ASSUME WriterInv, life = "freed", faults = 0, wpc = "done", final
               PROVE  /\ file = SubSeq(accepted, 1, Len(file))
                      /\ Len(accepted) - Len(file) <= (IF Size - 1 > BatchSize
                                                       THEN Size - 1 - BatchSize ELSE 0)
    BY DEF FinalFlushLossBound
  <2>1. file = taken
    BY FileIsTaken
  <2>2. /\ Len(taken) \in Nat /\ Len(batch) \in Nat
        /\ Len(accepted) = Len(taken) + Count /\ Count \in Nat
        /\ \A k \in 1 .. Len(taken) : accepted[k] = taken[k]
        /\ taken \in Seq(Entries) /\ accepted \in Seq(Entries)
    BY TakenFirst, SizeAssumption DEF WriterInv, RingInv, TypeOK
  <2>3. /\ Count + Len(batch) <= Size - 1
        /\ Count = 0 \/ Len(batch) >= BatchSize
    BY DEF WriterInv, Flushed
  <2>4. SubSeq(accepted, 1, Len(taken)) = taken
    <3> DEFINE p == SubSeq(accepted, 1, Len(taken))
    <3>1. \A k \in 1 .. Len(taken) : accepted[k] \in Entries
      BY <2>2, ElementOfSeq
    <3>2. /\ p \in Seq(Entries) /\ Len(p) = IF 1 <= Len(taken) THEN Len(taken) - 1 + 1 ELSE 0
          /\ \A k \in 1 .. Len(taken) - 1 + 1 : p[k] = accepted[1 + k - 1]
      BY <2>2, <3>1, SubSeqProperties
    <3> HIDE DEF p
    <3>3. Len(p) = Len(taken) /\ \A k \in 1 .. Len(taken) : p[k] = accepted[k]
      BY <2>2, <3>2
    <3>4. p = taken
      BY <2>2, <3>2, <3>3, SeqEqual
    <3> QED BY <3>4 DEF p
  <2>5. Len(accepted) - Len(taken) = Count
    BY <2>2
  <2>6. Count <= IF Size - 1 > BatchSize THEN Size - 1 - BatchSize ELSE 0
    BY <2>2, <2>3, SizeAssumption, BatchAssumption
  <2> QED BY <2>1, <2>4, <2>5, <2>6
<1> QED BY WriterInvariant, <1>1, PTL

-----------------------------------------------------------------------------
(* The tables of the join tool *)

\* The header lines of the six kinds of file, and of any other.
LEMMA Headers ==
  /\ get_csv_header("CLIENT_MAIN_ONEWAY") = <<"clt_app_tx_ts">>
  /\ get_csv_header("CLIENT_MAIN_ROUNDTRIP") =
       <<"clt_app_tx_tsc_ts", "clt_app_tx_ts", "clt_hw_rx_ts", "clt_ker_rx_ts",
         "clt_app_rx_tsc_ts", "clt_app_rx_ts">>
  /\ get_csv_header("CLIENT_TX") = <<"clt_ker_tx_ts">>
  /\ get_csv_header("SERVER_MAIN_ONEWAY") = <<"svr_hw_rx_ts", "svr_ker_rx_ts", "svr_app_rx_ts">>
  /\ get_csv_header("SERVER_MAIN_ROUNDTRIP") =
       <<"svr_hw_rx_ts", "svr_ker_rx_ts", "svr_app_rx_ts", "svr_app_tx_ts">>
  /\ get_csv_header("SERVER_TX") = <<"svr_ker_tx_ts">>
  /\ get_csv_header("UNKNOWN") = <<"invalid">>
BY DEF get_csv_header

\* A row sets the fields of its file's header, in their order.
LEMMA FieldsAreHeader ==
  ASSUME NEW type \in CsvTypes
  PROVE  FieldsOf(type) = get_csv_header(type)
BY Headers DEF CsvTypes, FieldsOf

\* The names in a header are different from each other.
LEMMA HeaderNames ==
  ASSUME NEW type \in CsvTypes
  PROVE  /\ Len(get_csv_header(type)) \in Nat
         /\ DOMAIN get_csv_header(type) = 1 .. Len(get_csv_header(type))
         /\ \A j, k \in 1 .. Len(get_csv_header(type)) :
              get_csv_header(type)[j] = get_csv_header(type)[k] => j = k
<1> DEFINE h == get_csv_header(type)
<1> SUFFICES /\ Len(h) \in Nat /\ DOMAIN h = 1 .. Len(h)
             /\ \A j, k \in 1 .. Len(h) : h[j] = h[k] => j = k
  OBVIOUS
<1>1. CASE type = "CLIENT_MAIN_ONEWAY"
  <2>1. h = <<"clt_app_tx_ts">>
    BY <1>1, Headers
  <2> HIDE DEF h
  <2> QED BY <2>1
<1>2. CASE type = "CLIENT_MAIN_ROUNDTRIP"
  <2>1. h = <<"clt_app_tx_tsc_ts", "clt_app_tx_ts", "clt_hw_rx_ts", "clt_ker_rx_ts",
               "clt_app_rx_tsc_ts", "clt_app_rx_ts">>
    BY <1>2, Headers
  <2> HIDE DEF h
  <2> QED BY <2>1
<1>3. CASE type = "CLIENT_TX"
  <2>1. h = <<"clt_ker_tx_ts">>
    BY <1>3, Headers
  <2> HIDE DEF h
  <2> QED BY <2>1
<1>4. CASE type = "SERVER_MAIN_ONEWAY"
  <2>1. h = <<"svr_hw_rx_ts", "svr_ker_rx_ts", "svr_app_rx_ts">>
    BY <1>4, Headers
  <2> HIDE DEF h
  <2> QED BY <2>1
<1>5. CASE type = "SERVER_MAIN_ROUNDTRIP"
  <2>1. h = <<"svr_hw_rx_ts", "svr_ker_rx_ts", "svr_app_rx_ts", "svr_app_tx_ts">>
    BY <1>5, Headers
  <2> HIDE DEF h
  <2> QED BY <2>1
<1>6. CASE type = "SERVER_TX"
  <2>1. h = <<"svr_ker_tx_ts">>
    BY <1>6, Headers
  <2> HIDE DEF h
  <2> QED BY <2>1
<1> QED BY <1>1, <1>2, <1>3, <1>4, <1>5, <1>6 DEF CsvTypes

\* A header contains itself.
LEMMA ContainsItself ==
  ASSUME NEW header, Len(header) \in Nat
  PROVE  strstr(header, header)
BY DEF strstr

\* It does not contain a longer one.
LEMMA TooShort ==
  ASSUME NEW header, NEW columns, Len(header) \in Nat, Len(columns) \in Nat,
         Len(header) < Len(columns)
  PROVE  ~strstr(header, columns)
BY DEF strstr

\* detect_file_type tries the headers in turn: the first that is contained counts.
LEMMA FirstContained ==
  ASSUME NEW header, NEW n \in 1 .. 6,
         strstr(header, get_csv_header(DetectionOrder[n])),
         \A k \in 1 .. n - 1 : ~strstr(header, get_csv_header(DetectionOrder[k]))
  PROVE  detect_file_type(header) = DetectionOrder[n]
<1> DEFINE found == {k \in DOMAIN DetectionOrder : strstr(header, get_csv_header(DetectionOrder[k]))}
<1>0. DOMAIN DetectionOrder = 1 .. 6
  BY DEF DetectionOrder
<1>1. n \in found /\ \A k \in found : n <= k
  BY <1>0
<1>2. found \subseteq Int
  BY <1>0
<1> HIDE DEF found
<1>3. Min(found) = n
  <2>1. \A m \in found : (\A k \in found : m <= k) => m = n
    BY <1>1, <1>2
  <2> QED BY <1>1, <2>1 DEF Min
<1>4. found # {}
  BY <1>1
<1> QED BY <1>3, <1>4 DEF detect_file_type, found

\* The header of every kind of file is told from the others, in spite of
\* clt_app_tx_ts and clt_app_tx_tsc_ts, and of the two server headers of which one
\* begins with the other.
LEMMA DetectedType ==
  ASSUME NEW type \in CsvTypes \cup {"UNKNOWN"}
  PROVE  detect_file_type(get_csv_header(type)) = type
<1>0. /\ DetectionOrder[1] = "CLIENT_MAIN_ROUNDTRIP"
      /\ DetectionOrder[2] = "SERVER_MAIN_ROUNDTRIP"
      /\ DetectionOrder[3] = "SERVER_MAIN_ONEWAY"
      /\ DetectionOrder[4] = "CLIENT_MAIN_ONEWAY"
      /\ DetectionOrder[5] = "CLIENT_TX"
      /\ DetectionOrder[6] = "SERVER_TX"
  BY DEF DetectionOrder
<1>1. CASE type = "CLIENT_MAIN_ROUNDTRIP"
  <2>1. strstr(get_csv_header(type), get_csv_header(DetectionOrder[1]))
    <3>1. Len(get_csv_header(type)) \in Nat
      BY HeaderNames, <1>1 DEF CsvTypes
    <3> QED BY <1>0, <1>1, <3>1, ContainsItself
  <2>2. \A k \in 1 .. 1 - 1 : ~strstr(get_csv_header(type), get_csv_header(DetectionOrder[k]))
    OBVIOUS
  <2> QED BY <1>0, <1>1, <2>1, <2>2, FirstContained
<1>2. CASE type = "SERVER_MAIN_ROUNDTRIP"
  <2>1. strstr(get_csv_header(type), get_csv_header(DetectionOrder[2]))
    <3>1. Len(get_csv_header(type)) \in Nat
      BY HeaderNames, <1>2 DEF CsvTypes
    <3> QED BY <1>0, <1>2, <3>1, ContainsItself
  <2>2. ~strstr(get_csv_header(type), get_csv_header(DetectionOrder[1]))
    <3>1. Len(get_csv_header(type)) = 4 /\ Len(get_csv_header(DetectionOrder[1])) = 6
      BY <1>0, <1>2, Headers
    <3>2. /\ Len(get_csv_header(type)) \in Nat /\ Len(get_csv_header(DetectionOrder[1])) \in Nat
          /\ Len(get_csv_header(type)) < Len(get_csv_header(DetectionOrder[1]))
      BY <3>1
    <3> QED BY <3>2, TooShort, Zenon
  <2>3. \A k \in 1 .. 2 - 1 : ~strstr(get_csv_header(type), get_csv_header(DetectionOrder[k]))
    BY <2>2
  <2> QED BY <1>0, <1>2, <2>1, <2>3, FirstContained
<1>3. CASE type = "SERVER_MAIN_ONEWAY"
  <2>1. strstr(get_csv_header(type), get_csv_header(DetectionOrder[3]))
    <3>1. Len(get_csv_header(type)) \in Nat
      BY HeaderNames, <1>3 DEF CsvTypes
    <3> QED BY <1>0, <1>3, <3>1, ContainsItself
  <2>2. ~strstr(get_csv_header(type), get_csv_header(DetectionOrder[1]))
    <3>1. Len(get_csv_header(type)) = 3 /\ Len(get_csv_header(DetectionOrder[1])) = 6
      BY <1>0, <1>3, Headers
    <3>2. /\ Len(get_csv_header(type)) \in Nat /\ Len(get_csv_header(DetectionOrder[1])) \in Nat
          /\ Len(get_csv_header(type)) < Len(get_csv_header(DetectionOrder[1]))
      BY <3>1
    <3> QED BY <3>2, TooShort, Zenon
  <2>3. ~strstr(get_csv_header(type), get_csv_header(DetectionOrder[2]))
    <3>1. Len(get_csv_header(type)) = 3 /\ Len(get_csv_header(DetectionOrder[2])) = 4
      BY <1>0, <1>3, Headers
    <3>2. /\ Len(get_csv_header(type)) \in Nat /\ Len(get_csv_header(DetectionOrder[2])) \in Nat
          /\ Len(get_csv_header(type)) < Len(get_csv_header(DetectionOrder[2]))
      BY <3>1
    <3> QED BY <3>2, TooShort, Zenon
  <2>4. \A k \in 1 .. 3 - 1 : ~strstr(get_csv_header(type), get_csv_header(DetectionOrder[k]))
    BY <2>2, <2>3
  <2> QED BY <1>0, <1>3, <2>1, <2>4, FirstContained
<1>4. CASE type = "CLIENT_MAIN_ONEWAY"
  <2>1. strstr(get_csv_header(type), get_csv_header(DetectionOrder[4]))
    <3>1. Len(get_csv_header(type)) \in Nat
      BY HeaderNames, <1>4 DEF CsvTypes
    <3> QED BY <1>0, <1>4, <3>1, ContainsItself
  <2>2. ~strstr(get_csv_header(type), get_csv_header(DetectionOrder[1]))
    <3>1. Len(get_csv_header(type)) = 1 /\ Len(get_csv_header(DetectionOrder[1])) = 6
      BY <1>0, <1>4, Headers
    <3>2. /\ Len(get_csv_header(type)) \in Nat /\ Len(get_csv_header(DetectionOrder[1])) \in Nat
          /\ Len(get_csv_header(type)) < Len(get_csv_header(DetectionOrder[1]))
      BY <3>1
    <3> QED BY <3>2, TooShort, Zenon
  <2>3. ~strstr(get_csv_header(type), get_csv_header(DetectionOrder[2]))
    <3>1. Len(get_csv_header(type)) = 1 /\ Len(get_csv_header(DetectionOrder[2])) = 4
      BY <1>0, <1>4, Headers
    <3>2. /\ Len(get_csv_header(type)) \in Nat /\ Len(get_csv_header(DetectionOrder[2])) \in Nat
          /\ Len(get_csv_header(type)) < Len(get_csv_header(DetectionOrder[2]))
      BY <3>1
    <3> QED BY <3>2, TooShort, Zenon
  <2>4. ~strstr(get_csv_header(type), get_csv_header(DetectionOrder[3]))
    <3>1. Len(get_csv_header(type)) = 1 /\ Len(get_csv_header(DetectionOrder[3])) = 3
      BY <1>0, <1>4, Headers
    <3>2. /\ Len(get_csv_header(type)) \in Nat /\ Len(get_csv_header(DetectionOrder[3])) \in Nat
          /\ Len(get_csv_header(type)) < Len(get_csv_header(DetectionOrder[3]))
      BY <3>1
    <3> QED BY <3>2, TooShort, Zenon
  <2>5. \A k \in 1 .. 4 - 1 : ~strstr(get_csv_header(type), get_csv_header(DetectionOrder[k]))
    BY <2>2, <2>3, <2>4
  <2> QED BY <1>0, <1>4, <2>1, <2>5, FirstContained
<1>5. CASE type = "CLIENT_TX"
  <2>1. strstr(get_csv_header(type), get_csv_header(DetectionOrder[5]))
    <3>1. Len(get_csv_header(type)) \in Nat
      BY HeaderNames, <1>5 DEF CsvTypes
    <3> QED BY <1>0, <1>5, <3>1, ContainsItself
  <2>2. ~strstr(get_csv_header(type), get_csv_header(DetectionOrder[1]))
    <3>1. Len(get_csv_header(type)) = 1 /\ Len(get_csv_header(DetectionOrder[1])) = 6
      BY <1>0, <1>5, Headers
    <3>2. /\ Len(get_csv_header(type)) \in Nat /\ Len(get_csv_header(DetectionOrder[1])) \in Nat
          /\ Len(get_csv_header(type)) < Len(get_csv_header(DetectionOrder[1]))
      BY <3>1
    <3> QED BY <3>2, TooShort, Zenon
  <2>3. ~strstr(get_csv_header(type), get_csv_header(DetectionOrder[2]))
    <3>1. Len(get_csv_header(type)) = 1 /\ Len(get_csv_header(DetectionOrder[2])) = 4
      BY <1>0, <1>5, Headers
    <3>2. /\ Len(get_csv_header(type)) \in Nat /\ Len(get_csv_header(DetectionOrder[2])) \in Nat
          /\ Len(get_csv_header(type)) < Len(get_csv_header(DetectionOrder[2]))
      BY <3>1
    <3> QED BY <3>2, TooShort, Zenon
  <2>4. ~strstr(get_csv_header(type), get_csv_header(DetectionOrder[3]))
    <3>1. Len(get_csv_header(type)) = 1 /\ Len(get_csv_header(DetectionOrder[3])) = 3
      BY <1>0, <1>5, Headers
    <3>2. /\ Len(get_csv_header(type)) \in Nat /\ Len(get_csv_header(DetectionOrder[3])) \in Nat
          /\ Len(get_csv_header(type)) < Len(get_csv_header(DetectionOrder[3]))
      BY <3>1
    <3> QED BY <3>2, TooShort, Zenon
  <2>5. ~strstr(get_csv_header(type), get_csv_header(DetectionOrder[4]))
    BY <1>0, <1>5, Headers DEF strstr
  <2>6. \A k \in 1 .. 5 - 1 : ~strstr(get_csv_header(type), get_csv_header(DetectionOrder[k]))
    BY <2>2, <2>3, <2>4, <2>5
  <2> QED BY <1>0, <1>5, <2>1, <2>6, FirstContained
<1>6. CASE type = "SERVER_TX"
  <2>1. strstr(get_csv_header(type), get_csv_header(DetectionOrder[6]))
    <3>1. Len(get_csv_header(type)) \in Nat
      BY HeaderNames, <1>6 DEF CsvTypes
    <3> QED BY <1>0, <1>6, <3>1, ContainsItself
  <2>2. ~strstr(get_csv_header(type), get_csv_header(DetectionOrder[1]))
    <3>1. Len(get_csv_header(type)) = 1 /\ Len(get_csv_header(DetectionOrder[1])) = 6
      BY <1>0, <1>6, Headers
    <3>2. /\ Len(get_csv_header(type)) \in Nat /\ Len(get_csv_header(DetectionOrder[1])) \in Nat
          /\ Len(get_csv_header(type)) < Len(get_csv_header(DetectionOrder[1]))
      BY <3>1
    <3> QED BY <3>2, TooShort, Zenon
  <2>3. ~strstr(get_csv_header(type), get_csv_header(DetectionOrder[2]))
    <3>1. Len(get_csv_header(type)) = 1 /\ Len(get_csv_header(DetectionOrder[2])) = 4
      BY <1>0, <1>6, Headers
    <3>2. /\ Len(get_csv_header(type)) \in Nat /\ Len(get_csv_header(DetectionOrder[2])) \in Nat
          /\ Len(get_csv_header(type)) < Len(get_csv_header(DetectionOrder[2]))
      BY <3>1
    <3> QED BY <3>2, TooShort, Zenon
  <2>4. ~strstr(get_csv_header(type), get_csv_header(DetectionOrder[3]))
    <3>1. Len(get_csv_header(type)) = 1 /\ Len(get_csv_header(DetectionOrder[3])) = 3
      BY <1>0, <1>6, Headers
    <3>2. /\ Len(get_csv_header(type)) \in Nat /\ Len(get_csv_header(DetectionOrder[3])) \in Nat
          /\ Len(get_csv_header(type)) < Len(get_csv_header(DetectionOrder[3]))
      BY <3>1
    <3> QED BY <3>2, TooShort, Zenon
  <2>5. ~strstr(get_csv_header(type), get_csv_header(DetectionOrder[4]))
    BY <1>0, <1>6, Headers DEF strstr
  <2>6. ~strstr(get_csv_header(type), get_csv_header(DetectionOrder[5]))
    BY <1>0, <1>6, Headers DEF strstr
  <2>7. \A k \in 1 .. 6 - 1 : ~strstr(get_csv_header(type), get_csv_header(DetectionOrder[k]))
    BY <2>2, <2>3, <2>4, <2>5, <2>6
  <2> QED BY <1>0, <1>6, <2>1, <2>7, FirstContained
<1>7. CASE type = "UNKNOWN"
  <2>1. ~strstr(get_csv_header(type), get_csv_header(DetectionOrder[1]))
    BY <1>0, <1>7, Headers DEF strstr
  <2>2. ~strstr(get_csv_header(type), get_csv_header(DetectionOrder[2]))
    BY <1>0, <1>7, Headers DEF strstr
  <2>3. ~strstr(get_csv_header(type), get_csv_header(DetectionOrder[3]))
    BY <1>0, <1>7, Headers DEF strstr
  <2>4. ~strstr(get_csv_header(type), get_csv_header(DetectionOrder[4]))
    BY <1>0, <1>7, Headers DEF strstr
  <2>5. ~strstr(get_csv_header(type), get_csv_header(DetectionOrder[5]))
    BY <1>0, <1>7, Headers DEF strstr
  <2>6. ~strstr(get_csv_header(type), get_csv_header(DetectionOrder[6]))
    BY <1>0, <1>7, Headers DEF strstr
  <2>7. DOMAIN DetectionOrder = 1 .. 6
    BY DEF DetectionOrder
  <2>8. \A k \in DOMAIN DetectionOrder : ~strstr(get_csv_header(type), get_csv_header(DetectionOrder[k]))
    BY <2>1, <2>2, <2>3, <2>4, <2>5, <2>6, <2>7
  <2> QED BY <1>7, <2>8 DEF detect_file_type
<1> QED BY <1>1, <1>2, <1>3, <1>4, <1>5, <1>6, <1>7 DEF CsvTypes

\* The columns of all the input files together.
FieldNames ==
  {"clt_app_tx_tsc_ts", "clt_app_tx_ts", "clt_ker_tx_ts", "clt_hw_rx_ts", "clt_ker_rx_ts",
   "clt_app_rx_tsc_ts", "clt_app_rx_ts", "svr_hw_rx_ts", "svr_ker_rx_ts", "svr_app_rx_ts",
   "svr_app_tx_ts", "svr_ker_tx_ts"}

\* The columns of each file.
LEMMA HeaderSets ==
  /\ ToSet(get_csv_header("CLIENT_MAIN_ONEWAY")) = {"clt_app_tx_ts"}
  /\ ToSet(get_csv_header("CLIENT_TX")) = {"clt_ker_tx_ts"}
  /\ ToSet(get_csv_header("SERVER_TX")) = {"svr_ker_tx_ts"}
  /\ ToSet(get_csv_header("CLIENT_MAIN_ROUNDTRIP")) =
       {"clt_app_tx_tsc_ts", "clt_app_tx_ts", "clt_hw_rx_ts", "clt_ker_rx_ts",
        "clt_app_rx_tsc_ts", "clt_app_rx_ts"}
  /\ ToSet(get_csv_header("SERVER_MAIN_ONEWAY")) =
       {"svr_hw_rx_ts", "svr_ker_rx_ts", "svr_app_rx_ts"}
  /\ ToSet(get_csv_header("SERVER_MAIN_ROUNDTRIP")) =
       {"svr_hw_rx_ts", "svr_ker_rx_ts", "svr_app_rx_ts", "svr_app_tx_ts"}
<1> DEFINE S(type) == ToSet(get_csv_header(type))
<1>2. /\ S("CLIENT_MAIN_ONEWAY") = {"clt_app_tx_ts"}
      /\ S("CLIENT_TX") = {"clt_ker_tx_ts"}
      /\ S("SERVER_TX") = {"svr_ker_tx_ts"}
  BY Headers DEF ToSet
<1>3. S("CLIENT_MAIN_ROUNDTRIP") =
        {"clt_app_tx_tsc_ts", "clt_app_tx_ts", "clt_hw_rx_ts", "clt_ker_rx_ts",
         "clt_app_rx_tsc_ts", "clt_app_rx_ts"}
  BY Headers DEF ToSet
<1>4. S("SERVER_MAIN_ONEWAY") = {"svr_hw_rx_ts", "svr_ker_rx_ts", "svr_app_rx_ts"}
  BY Headers DEF ToSet
<1>5. S("SERVER_MAIN_ROUNDTRIP") =
        {"svr_hw_rx_ts", "svr_ker_rx_ts", "svr_app_rx_ts", "svr_app_tx_ts"}
  BY Headers DEF ToSet
<1> QED BY <1>2, <1>3, <1>4, <1>5

\* Fields is what the headers have.
LEMMA FieldsAre ==
  /\ Fields = FieldNames
  /\ \A type \in CsvTypes : ToSet(get_csv_header(type)) \subseteq Fields
<1>1. \A c : c \in Fields <=> \E type \in CsvTypes : c \in ToSet(get_csv_header(type))
  BY DEF Fields
<1> DEFINE S(type) == ToSet(get_csv_header(type))
<1>2. /\ S("CLIENT_MAIN_ONEWAY") = {"clt_app_tx_ts"} /\ S("CLIENT_TX") = {"clt_ker_tx_ts"}
      /\ S("SERVER_TX") = {"svr_ker_tx_ts"}
      /\ S("CLIENT_MAIN_ROUNDTRIP") =
           {"clt_app_tx_tsc_ts", "clt_app_tx_ts", "clt_hw_rx_ts", "clt_ker_rx_ts",
            "clt_app_rx_tsc_ts", "clt_app_rx_ts"}
      /\ S("SERVER_MAIN_ONEWAY") = {"svr_hw_rx_ts", "svr_ker_rx_ts", "svr_app_rx_ts"}
      /\ S("SERVER_MAIN_ROUNDTRIP") =
           {"svr_hw_rx_ts", "svr_ker_rx_ts", "svr_app_rx_ts", "svr_app_tx_ts"}
  BY HeaderSets
<1> HIDE DEF S
<1>3. \A c : c \in Fields <=> \/ c \in S("CLIENT_MAIN_ONEWAY") \/ c \in S("CLIENT_TX")
                              \/ c \in S("SERVER_TX") \/ c \in S("CLIENT_MAIN_ROUNDTRIP")
                              \/ c \in S("SERVER_MAIN_ONEWAY") \/ c \in S("SERVER_MAIN_ROUNDTRIP")
  BY <1>1 DEF CsvTypes, S
<1>4. Fields = FieldNames
  BY <1>2, <1>3 DEF FieldNames
<1>5. \A type \in CsvTypes : ToSet(get_csv_header(type)) \subseteq Fields
  BY <1>1
<1> QED BY <1>4, <1>5

\* The deltas have names of their own, and are between fields.
LEMMA DeltaNames ==
  /\ DOMAIN Delta = 1 .. 14
  /\ \A i \in 1 .. 14 : /\ Delta[i] = <<Delta[i][1], Delta[i][2], Delta[i][3]>>
                        /\ Delta[i][1] \in FieldNames /\ Delta[i][2] \in FieldNames
                        /\ Delta[i][3] \notin FieldNames
  /\ \A i, j \in 1 .. 14 : Delta[i][3] = Delta[j][3] => i = j
<1>1. /\ Delta[1] = <<"clt_app_tx_ts", "clt_ker_tx_ts", "d1_clt_app_tx_to_ker_tx">>
      /\ Delta[2] = <<"clt_hw_rx_ts", "clt_ker_rx_ts", "d6_clt_hw_rx_to_ker_rx">>
      /\ Delta[3] = <<"clt_ker_rx_ts", "clt_app_rx_ts", "d7_clt_ker_rx_to_app_rx">>
      /\ Delta[4] = <<"clt_app_tx_ts", "clt_hw_rx_ts", "rtt_d1_clt_app_tx_to_hw_rx">>
      /\ Delta[5] = <<"clt_app_tx_ts", "clt_app_rx_ts", "rtt_d2_clt_app_tx_to_app_rx">>
      /\ Delta[6] = <<"clt_app_tx_tsc_ts", "clt_app_rx_tsc_ts", "rtt_d3_clt_app_tx_tsc_to_app_rx_tsc">>
      /\ Delta[7] = <<"svr_hw_rx_ts", "svr_ker_rx_ts", "d2_svr_hw_rx_to_ker_rx">>
      /\ Delta[8] = <<"svr_ker_rx_ts", "svr_app_rx_ts", "d3_svr_ker_rx_to_app_rx">>
      /\ Delta[9] = <<"svr_app_rx_ts", "svr_app_tx_ts", "d4_svr_app_rx_to_app_tx">>
      /\ Delta[10] = <<"svr_app_tx_ts", "svr_ker_tx_ts", "d5_svr_app_tx_to_ker_tx">>
      /\ Delta[11] = <<"svr_hw_rx_ts", "svr_app_rx_ts", "tt_d1_svr_hw_rx_to_app_rx">>
      /\ Delta[12] = <<"svr_hw_rx_ts", "svr_ker_tx_ts", "tt_d2_svr_hw_rx_to_ker_tx">>
      /\ Delta[13] = <<"clt_ker_tx_ts", "svr_hw_rx_ts", "net_clt_ker_tx_to_svr_hw_rx">>
      /\ Delta[14] = <<"svr_ker_tx_ts", "clt_hw_rx_ts", "net_svr_ker_tx_to_clt_hw_rx">>
      /\ DOMAIN Delta = 1 .. 14
  BY DEF Delta
<1>2. \A i \in 1 .. 14 : \/ i = 1 \/ i = 2 \/ i = 3 \/ i = 4 \/ i = 5 \/ i = 6 \/ i = 7
                         \/ i = 8 \/ i = 9 \/ i = 10 \/ i = 11 \/ i = 12 \/ i = 13 \/ i = 14
  OBVIOUS
<1>3. \A i \in 1 .. 14 : /\ Delta[i] = <<Delta[i][1], Delta[i][2], Delta[i][3]>>
                         /\ Delta[i][1] \in FieldNames /\ Delta[i][2] \in FieldNames
                         /\ Delta[i][3] \notin FieldNames
  BY <1>1, <1>2 DEF FieldNames
<1>4. \A i, j \in 1 .. 14 : Delta[i][3] = Delta[j][3] => i = j
  BY <1>1, <1>2
<1> QED BY <1>1, <1>3, <1>4

\* The header line, the timestamps printed and the deltas of a mode and a target
\* fit together.
TablesFit(header, printed, ids) ==
  /\ Len(printed) \in Nat /\ Len(ids) \in Nat /\ Len(header) = Len(printed) + Len(ids)
  /\ DOMAIN printed = 1 .. Len(printed) /\ DOMAIN ids = 1 .. Len(ids)
  /\ DOMAIN header = 1 .. Len(header)
  /\ \A c \in 1 .. Len(printed) : header[c] = printed[c] /\ printed[c] \in FieldNames
  /\ \A c, e \in 1 .. Len(printed) : printed[c] = printed[e] => c = e
  /\ \A k \in 1 .. Len(ids) :
       /\ ids[k] \in 0 .. 13 /\ header[Len(printed) + k] = Delta[ids[k] + 1][3]
       /\ \E c \in 1 .. Len(printed) : printed[c] = Delta[ids[k] + 1][1]
       /\ \E c \in 1 .. Len(printed) : printed[c] = Delta[ids[k] + 1][2]
  /\ \A k, m \in 1 .. Len(ids) : ids[k] = ids[m] => k = m

\* --oneway, --client.
LEMMA OneWayClientTables ==
  TablesFit(get_output_header("oneway", "client"), PrintedFields("oneway", "client"),
            get_mode_delta_config("oneway", "client"))
<1> DEFINE header  == get_output_header("oneway", "client")
           printed == PrintedFields("oneway", "client")
           ids     == get_mode_delta_config("oneway", "client")
<1>1. header = <<"clt_app_tx_ts", "clt_ker_tx_ts", "d1_clt_app_tx_to_ker_tx">>
  BY DEF get_output_header
<1>2. printed = <<"clt_app_tx_ts", "clt_ker_tx_ts">>
  BY DEF PrintedFields
<1>3. ids = <<0>>
  BY DEF get_mode_delta_config
<1> HIDE DEF header, printed, ids
<1>4. /\ Len(printed) = 2 /\ Len(ids) = 1 /\ Len(header) = 3
      /\ DOMAIN printed = 1 .. 2 /\ DOMAIN ids = 1 .. 1 /\ DOMAIN header = 1 .. 3
  BY <1>1, <1>2, <1>3
<1>5. \A c \in 1 .. 2 : header[c] = printed[c] /\ printed[c] \in FieldNames
  BY <1>1, <1>2 DEF FieldNames
<1>6. \A c, e \in 1 .. 2 : printed[c] = printed[e] => c = e
  BY <1>2
<1>7. ASSUME NEW k \in 1 .. 1
      PROVE  /\ ids[k] \in 0 .. 13 /\ header[2 + k] = Delta[ids[k] + 1][3]
             /\ \E c \in 1 .. 2 : printed[c] = Delta[ids[k] + 1][1]
             /\ \E c \in 1 .. 2 : printed[c] = Delta[ids[k] + 1][2]
  <2>1. CASE k = 1
    <3>1. ids[k] = 0 /\ Delta[1] = <<"clt_app_tx_ts", "clt_ker_tx_ts", "d1_clt_app_tx_to_ker_tx">>
      BY <1>3, <2>1 DEF Delta
    <3>2. /\ header[3] = "d1_clt_app_tx_to_ker_tx" /\ printed[1] = "clt_app_tx_ts"
          /\ printed[2] = "clt_ker_tx_ts"
      BY <1>1, <1>2
    <3> QED BY <2>1, <3>1, <3>2
  <2> QED BY <2>1
<1>8. \A k, m \in 1 .. 1 : ids[k] = ids[m] => k = m
  BY <1>3
<1>9. /\ Len(printed) \in Nat /\ Len(ids) \in Nat /\ Len(header) = Len(printed) + Len(ids)
      /\ DOMAIN printed = 1 .. Len(printed) /\ DOMAIN ids = 1 .. Len(ids)
      /\ DOMAIN header = 1 .. Len(header)
  BY <1>4
<1>10. \A k \in 1 .. Len(ids) :
         /\ ids[k] \in 0 .. 13 /\ header[Len(printed) + k] = Delta[ids[k] + 1][3]
         /\ \E c \in 1 .. Len(printed) : printed[c] = Delta[ids[k] + 1][1]
         /\ \E c \in 1 .. Len(printed) : printed[c] = Delta[ids[k] + 1][2]
  BY <1>4, <1>7
<1>11. /\ \A c \in 1 .. Len(printed) : header[c] = printed[c] /\ printed[c] \in FieldNames
       /\ \A c, e \in 1 .. Len(printed) : printed[c] = printed[e] => c = e
       /\ \A k, m \in 1 .. Len(ids) : ids[k] = ids[m] => k = m
  BY <1>4, <1>5, <1>6, <1>8
<1>12. TablesFit(header, printed, ids)
  BY <1>9, <1>10, <1>11, Zenon DEF TablesFit
<1> QED BY <1>12 DEF header, printed, ids

\* --oneway, --server.
LEMMA OneWayServerTables ==
  TablesFit(get_output_header("oneway", "server"), PrintedFields("oneway", "server"),
            get_mode_delta_config("oneway", "server"))
<1> DEFINE header  == get_output_header("oneway", "server")
           printed == PrintedFields("oneway", "server")
           ids     == get_mode_delta_config("oneway", "server")
<1>1. header = <<"svr_hw_rx_ts", "svr_ker_rx_ts", "svr_app_rx_ts", "d2_svr_hw_rx_to_ker_rx",
                 "d3_svr_ker_rx_to_app_rx", "tt_d1_svr_hw_rx_to_app_rx">>
  BY DEF get_output_header
<1>2. printed = <<"svr_hw_rx_ts", "svr_ker_rx_ts", "svr_app_rx_ts">>
  BY DEF PrintedFields
<1>3. ids = <<6, 7, 10>>
  BY DEF get_mode_delta_config
<1> HIDE DEF header, printed, ids
<1>4. /\ Len(printed) = 3 /\ Len(ids) = 3 /\ Len(header) = 6
      /\ DOMAIN printed = 1 .. 3 /\ DOMAIN ids = 1 .. 3 /\ DOMAIN header = 1 .. 6
  BY <1>1, <1>2, <1>3
<1>5. \A c \in 1 .. 3 : header[c] = printed[c] /\ printed[c] \in FieldNames
  BY <1>1, <1>2 DEF FieldNames
<1>6. \A c, e \in 1 .. 3 : printed[c] = printed[e] => c = e
  BY <1>2
<1>7. ASSUME NEW k \in 1 .. 3
      PROVE  /\ ids[k] \in 0 .. 13 /\ header[3 + k] = Delta[ids[k] + 1][3]
             /\ \E c \in 1 .. 3 : printed[c] = Delta[ids[k] + 1][1]
             /\ \E c \in 1 .. 3 : printed[c] = Delta[ids[k] + 1][2]
  <2>1. CASE k = 1
    <3>1. ids[k] = 6 /\ Delta[7] = <<"svr_hw_rx_ts", "svr_ker_rx_ts", "d2_svr_hw_rx_to_ker_rx">>
      BY <1>3, <2>1 DEF Delta
    <3>2. /\ header[4] = "d2_svr_hw_rx_to_ker_rx" /\ printed[1] = "svr_hw_rx_ts"
          /\ printed[2] = "svr_ker_rx_ts"
      BY <1>1, <1>2
    <3> QED BY <2>1, <3>1, <3>2
  <2>2. CASE k = 2
    <3>1. ids[k] = 7 /\ Delta[8] = <<"svr_ker_rx_ts", "svr_app_rx_ts", "d3_svr_ker_rx_to_app_rx">>
      BY <1>3, <2>2 DEF Delta
    <3>2. /\ header[5] = "d3_svr_ker_rx_to_app_rx" /\ printed[2] = "svr_ker_rx_ts"
          /\ printed[3] = "svr_app_rx_ts"
      BY <1>1, <1>2
    <3> QED BY <2>2, <3>1, <3>2
  <2>3. CASE k = 3
    <3>1. ids[k] = 10 /\ Delta[11] = <<"svr_hw_rx_ts", "svr_app_rx_ts", "tt_d1_svr_hw_rx_to_app_rx">>
      BY <1>3, <2>3 DEF Delta
    <3>2. /\ header[6] = "tt_d1_svr_hw_rx_to_app_rx" /\ printed[1] = "svr_hw_rx_ts"
          /\ printed[3] = "svr_app_rx_ts"
      BY <1>1, <1>2
    <3> QED BY <2>3, <3>1, <3>2
  <2> QED BY <2>1, <2>2, <2>3
<1>8. \A k, m \in 1 .. 3 : ids[k] = ids[m] => k = m
  BY <1>3
<1>9. /\ Len(printed) \in Nat /\ Len(ids) \in Nat /\ Len(header) = Len(printed) + Len(ids)
      /\ DOMAIN printed = 1 .. Len(printed) /\ DOMAIN ids = 1 .. Len(ids)
      /\ DOMAIN header = 1 .. Len(header)
  BY <1>4
<1>10. \A k \in 1 .. Len(ids) :
         /\ ids[k] \in 0 .. 13 /\ header[Len(printed) + k] = Delta[ids[k] + 1][3]
         /\ \E c \in 1 .. Len(printed) : printed[c] = Delta[ids[k] + 1][1]
         /\ \E c \in 1 .. Len(printed) : printed[c] = Delta[ids[k] + 1][2]
  BY <1>4, <1>7
<1>11. /\ \A c \in 1 .. Len(printed) : header[c] = printed[c] /\ printed[c] \in FieldNames
       /\ \A c, e \in 1 .. Len(printed) : printed[c] = printed[e] => c = e
       /\ \A k, m \in 1 .. Len(ids) : ids[k] = ids[m] => k = m
  BY <1>4, <1>5, <1>6, <1>8
<1>12. TablesFit(header, printed, ids)
  BY <1>9, <1>10, <1>11, Zenon DEF TablesFit
<1> QED BY <1>12 DEF header, printed, ids

\* --oneway, --both.
LEMMA OneWayBothTables ==
  TablesFit(get_output_header("oneway", "both"), PrintedFields("oneway", "both"),
            get_mode_delta_config("oneway", "both"))
<1> DEFINE header  == get_output_header("oneway", "both")
           printed == PrintedFields("oneway", "both")
           ids     == get_mode_delta_config("oneway", "both")
<1>1. header = <<"clt_app_tx_ts", "clt_ker_tx_ts", "svr_hw_rx_ts", "svr_ker_rx_ts",
                 "svr_app_rx_ts", "d1_clt_app_tx_to_ker_tx", "d2_svr_hw_rx_to_ker_rx",
                 "d3_svr_ker_rx_to_app_rx", "tt_d1_svr_hw_rx_to_app_rx",
                 "net_clt_ker_tx_to_svr_hw_rx">>
  BY DEF get_output_header
<1>2. printed = <<"clt_app_tx_ts", "clt_ker_tx_ts", "svr_hw_rx_ts", "svr_ker_rx_ts",
                  "svr_app_rx_ts">>
  BY DEF PrintedFields
<1>3. ids = <<0, 6, 7, 10, 12>>
  BY DEF get_mode_delta_config
<1> HIDE DEF header, printed, ids
<1>4. /\ Len(printed) = 5 /\ Len(ids) = 5 /\ Len(header) = 10
      /\ DOMAIN printed = 1 .. 5 /\ DOMAIN ids = 1 .. 5 /\ DOMAIN header = 1 .. 10
  BY <1>1, <1>2, <1>3
<1>5. \A c \in 1 .. 5 : header[c] = printed[c] /\ printed[c] \in FieldNames
  BY <1>1, <1>2 DEF FieldNames
<1>6. \A c, e \in 1 .. 5 : printed[c] = printed[e] => c = e
  BY <1>2
<1>7. ASSUME NEW k \in 1 .. 5
      PROVE  /\ ids[k] \in 0 .. 13 /\ header[5 + k] = Delta[ids[k] + 1][3]
             /\ \E c \in 1 .. 5 : printed[c] = Delta[ids[k] + 1][1]
             /\ \E c \in 1 .. 5 : printed[c] = Delta[ids[k] + 1][2]
  <2>1. CASE k = 1
    <3>1. ids[k] = 0 /\ Delta[1] = <<"clt_app_tx_ts", "clt_ker_tx_ts", "d1_clt_app_tx_to_ker_tx">>
      BY <1>3, <2>1 DEF Delta
    <3>2. /\ header[6] = "d1_clt_app_tx_to_ker_tx" /\ printed[1] = "clt_app_tx_ts"
          /\ printed[2] = "clt_ker_tx_ts"
      BY <1>1, <1>2
    <3> QED BY <2>1, <3>1, <3>2
  <2>2. CASE k = 2
    <3>1. ids[k] = 6 /\ Delta[7] = <<"svr_hw_rx_ts", "svr_ker_rx_ts", "d2_svr_hw_rx_to_ker_rx">>
      BY <1>3, <2>2 DEF Delta
    <3>2. /\ header[7] = "d2_svr_hw_rx_to_ker_rx" /\ printed[3] = "svr_hw_rx_ts"
          /\ printed[4] = "svr_ker_rx_ts"
      BY <1>1, <1>2
    <3> QED BY <2>2, <3>1, <3>2
  <2>3. CASE k = 3
    <3>1. ids[k] = 7 /\ Delta[8] = <<"svr_ker_rx_ts", "svr_app_rx_ts", "d3_svr_ker_rx_to_app_rx">>
      BY <1>3, <2>3 DEF Delta
    <3>2. /\ header[8] = "d3_svr_ker_rx_to_app_rx" /\ printed[4] = "svr_ker_rx_ts"
          /\ printed[5] = "svr_app_rx_ts"
      BY <1>1, <1>2
    <3> QED BY <2>3, <3>1, <3>2
  <2>4. CASE k = 4
    <3>1. ids[k] = 10 /\ Delta[11] = <<"svr_hw_rx_ts", "svr_app_rx_ts", "tt_d1_svr_hw_rx_to_app_rx">>
      BY <1>3, <2>4 DEF Delta
    <3>2. /\ header[9] = "tt_d1_svr_hw_rx_to_app_rx" /\ printed[3] = "svr_hw_rx_ts"
          /\ printed[5] = "svr_app_rx_ts"
      BY <1>1, <1>2
    <3> QED BY <2>4, <3>1, <3>2
  <2>5. CASE k = 5
    <3>1. ids[k] = 12 /\ Delta[13] = <<"clt_ker_tx_ts", "svr_hw_rx_ts", "net_clt_ker_tx_to_svr_hw_rx">>
      BY <1>3, <2>5 DEF Delta
    <3>2. /\ header[10] = "net_clt_ker_tx_to_svr_hw_rx" /\ printed[2] = "clt_ker_tx_ts"
          /\ printed[3] = "svr_hw_rx_ts"
      BY <1>1, <1>2
    <3> QED BY <2>5, <3>1, <3>2
  <2> QED BY <2>1, <2>2, <2>3, <2>4, <2>5
<1>8. \A k, m \in 1 .. 5 : ids[k] = ids[m] => k = m
  BY <1>3
<1>9. /\ Len(printed) \in Nat /\ Len(ids) \in Nat /\ Len(header) = Len(printed) + Len(ids)
      /\ DOMAIN printed = 1 .. Len(printed) /\ DOMAIN ids = 1 .. Len(ids)
      /\ DOMAIN header = 1 .. Len(header)
  BY <1>4
<1>10. \A k \in 1 .. Len(ids) :
         /\ ids[k] \in 0 .. 13 /\ header[Len(printed) + k] = Delta[ids[k] + 1][3]
         /\ \E c \in 1 .. Len(printed) : printed[c] = Delta[ids[k] + 1][1]
         /\ \E c \in 1 .. Len(printed) : printed[c] = Delta[ids[k] + 1][2]
  BY <1>4, <1>7
<1>11. /\ \A c \in 1 .. Len(printed) : header[c] = printed[c] /\ printed[c] \in FieldNames
       /\ \A c, e \in 1 .. Len(printed) : printed[c] = printed[e] => c = e
       /\ \A k, m \in 1 .. Len(ids) : ids[k] = ids[m] => k = m
  BY <1>4, <1>5, <1>6, <1>8
<1>12. TablesFit(header, printed, ids)
  BY <1>9, <1>10, <1>11, Zenon DEF TablesFit
<1> QED BY <1>12 DEF header, printed, ids

\* --roundtrip, --client.
LEMMA RoundTripClientTables ==
  TablesFit(get_output_header("roundtrip", "client"), PrintedFields("roundtrip", "client"),
            get_mode_delta_config("roundtrip", "client"))
<1> DEFINE header  == get_output_header("roundtrip", "client")
           printed == PrintedFields("roundtrip", "client")
           ids     == get_mode_delta_config("roundtrip", "client")
<1>1. header = <<"clt_app_tx_tsc_ts", "clt_app_tx_ts", "clt_ker_tx_ts", "clt_hw_rx_ts",
                 "clt_ker_rx_ts", "clt_app_rx_tsc_ts", "clt_app_rx_ts",
                 "d1_clt_app_tx_to_ker_tx", "d6_clt_hw_rx_to_ker_rx", "d7_clt_ker_rx_to_app_rx",
                 "rtt_d1_clt_app_tx_to_hw_rx", "rtt_d2_clt_app_tx_to_app_rx",
                 "rtt_d3_clt_app_tx_tsc_to_app_rx_tsc">>
  BY DEF get_output_header
<1>2. printed = <<"clt_app_tx_tsc_ts", "clt_app_tx_ts", "clt_ker_tx_ts", "clt_hw_rx_ts",
                  "clt_ker_rx_ts", "clt_app_rx_tsc_ts", "clt_app_rx_ts">>
  BY DEF PrintedFields
<1>3. ids = <<0, 1, 2, 3, 4, 5>>
  BY DEF get_mode_delta_config
<1> HIDE DEF header, printed, ids
<1>4. /\ Len(printed) = 7 /\ Len(ids) = 6 /\ Len(header) = 13
      /\ DOMAIN printed = 1 .. 7 /\ DOMAIN ids = 1 .. 6 /\ DOMAIN header = 1 .. 13
  BY <1>1, <1>2, <1>3
<1>5. \A c \in 1 .. 7 : header[c] = printed[c] /\ printed[c] \in FieldNames
  BY <1>1, <1>2 DEF FieldNames
<1>6. \A c, e \in 1 .. 7 : printed[c] = printed[e] => c = e
  BY <1>2
<1>7. ASSUME NEW k \in 1 .. 6
      PROVE  /\ ids[k] \in 0 .. 13 /\ header[7 + k] = Delta[ids[k] + 1][3]
             /\ \E c \in 1 .. 7 : printed[c] = Delta[ids[k] + 1][1]
             /\ \E c \in 1 .. 7 : printed[c] = Delta[ids[k] + 1][2]
  <2>1. CASE k = 1
    <3>1. ids[k] = 0 /\ Delta[1] = <<"clt_app_tx_ts", "clt_ker_tx_ts", "d1_clt_app_tx_to_ker_tx">>
      BY <1>3, <2>1 DEF Delta
    <3>2. /\ header[8] = "d1_clt_app_tx_to_ker_tx" /\ printed[2] = "clt_app_tx_ts"
          /\ printed[3] = "clt_ker_tx_ts"
      BY <1>1, <1>2
    <3> QED BY <2>1, <3>1, <3>2
  <2>2. CASE k = 2
    <3>1. ids[k] = 1 /\ Delta[2] = <<"clt_hw_rx_ts", "clt_ker_rx_ts", "d6_clt_hw_rx_to_ker_rx">>
      BY <1>3, <2>2 DEF Delta
    <3>2. /\ header[9] = "d6_clt_hw_rx_to_ker_rx" /\ printed[4] = "clt_hw_rx_ts"
          /\ printed[5] = "clt_ker_rx_ts"
      BY <1>1, <1>2
    <3> QED BY <2>2, <3>1, <3>2
  <2>3. CASE k = 3
    <3>1. ids[k] = 2 /\ Delta[3] = <<"clt_ker_rx_ts", "clt_app_rx_ts", "d7_clt_ker_rx_to_app_rx">>
      BY <1>3, <2>3 DEF Delta
    <3>2. /\ header[10] = "d7_clt_ker_rx_to_app_rx" /\ printed[5] = "clt_ker_rx_ts"
          /\ printed[7] = "clt_app_rx_ts"
      BY <1>1, <1>2
    <3> QED BY <2>3, <3>1, <3>2
  <2>4. CASE k = 4
    <3>1. ids[k] = 3 /\ Delta[4] = <<"clt_app_tx_ts", "clt_hw_rx_ts", "rtt_d1_clt_app_tx_to_hw_rx">>
      BY <1>3, <2>4 DEF Delta
    <3>2. /\ header[11] = "rtt_d1_clt_app_tx_to_hw_rx" /\ printed[2] = "clt_app_tx_ts"
          /\ printed[4] = "clt_hw_rx_ts"
      BY <1>1, <1>2
    <3> QED BY <2>4, <3>1, <3>2
  <2>5. CASE k = 5
    <3>1. ids[k] = 4 /\ Delta[5] = <<"clt_app_tx_ts", "clt_app_rx_ts", "rtt_d2_clt_app_tx_to_app_rx">>
      BY <1>3, <2>5 DEF Delta
    <3>2. /\ header[12] = "rtt_d2_clt_app_tx_to_app_rx" /\ printed[2] = "clt_app_tx_ts"
          /\ printed[7] = "clt_app_rx_ts"
      BY <1>1, <1>2
    <3> QED BY <2>5, <3>1, <3>2
  <2>6. CASE k = 6
    <3>1. /\ ids[k] = 5
          /\ Delta[6] = <<"clt_app_tx_tsc_ts", "clt_app_rx_tsc_ts",
                          "rtt_d3_clt_app_tx_tsc_to_app_rx_tsc">>
      BY <1>3, <2>6 DEF Delta
    <3>2. /\ header[13] = "rtt_d3_clt_app_tx_tsc_to_app_rx_tsc" /\ printed[1] = "clt_app_tx_tsc_ts"
          /\ printed[6] = "clt_app_rx_tsc_ts"
      BY <1>1, <1>2
    <3> QED BY <2>6, <3>1, <3>2
  <2> QED BY <2>1, <2>2, <2>3, <2>4, <2>5, <2>6
<1>8. \A k, m \in 1 .. 6 : ids[k] = ids[m] => k = m
  BY <1>3
<1>9. /\ Len(printed) \in Nat /\ Len(ids) \in Nat /\ Len(header) = Len(printed) + Len(ids)
      /\ DOMAIN printed = 1 .. Len(printed) /\ DOMAIN ids = 1 .. Len(ids)
      /\ DOMAIN header = 1 .. Len(header)
  BY <1>4
<1>10. \A k \in 1 .. Len(ids) :
         /\ ids[k] \in 0 .. 13 /\ header[Len(printed) + k] = Delta[ids[k] + 1][3]
         /\ \E c \in 1 .. Len(printed) : printed[c] = Delta[ids[k] + 1][1]
         /\ \E c \in 1 .. Len(printed) : printed[c] = Delta[ids[k] + 1][2]
  BY <1>4, <1>7
<1>11. /\ \A c \in 1 .. Len(printed) : header[c] = printed[c] /\ printed[c] \in FieldNames
       /\ \A c, e \in 1 .. Len(printed) : printed[c] = printed[e] => c = e
       /\ \A k, m \in 1 .. Len(ids) : ids[k] = ids[m] => k = m
  BY <1>4, <1>5, <1>6, <1>8
<1>12. TablesFit(header, printed, ids)
  BY <1>9, <1>10, <1>11, Zenon DEF TablesFit
<1> QED BY <1>12 DEF header, printed, ids

\* --roundtrip, --server.
LEMMA RoundTripServerTables ==
  TablesFit(get_output_header("roundtrip", "server"), PrintedFields("roundtrip", "server"),
            get_mode_delta_config("roundtrip", "server"))
<1> DEFINE header  == get_output_header("roundtrip", "server")
           printed == PrintedFields("roundtrip", "server")
           ids     == get_mode_delta_config("roundtrip", "server")
<1>1. header = <<"svr_hw_rx_ts", "svr_ker_rx_ts", "svr_app_rx_ts", "svr_app_tx_ts",
                 "svr_ker_tx_ts", "d2_svr_hw_rx_to_ker_rx", "d3_svr_ker_rx_to_app_rx",
                 "d4_svr_app_rx_to_app_tx", "d5_svr_app_tx_to_ker_tx",
                 "tt_d1_svr_hw_rx_to_app_rx", "tt_d2_svr_hw_rx_to_ker_tx">>
  BY DEF get_output_header
<1>2. printed = <<"svr_hw_rx_ts", "svr_ker_rx_ts", "svr_app_rx_ts", "svr_app_tx_ts",
                  "svr_ker_tx_ts">>
  BY DEF PrintedFields
<1>3. ids = <<6, 7, 8, 9, 10, 11>>
  BY DEF get_mode_delta_config, ServerRoundTripDeltas
<1> HIDE DEF header, printed, ids
<1>4. /\ Len(printed) = 5 /\ Len(ids) = 6 /\ Len(header) = 11
      /\ DOMAIN printed = 1 .. 5 /\ DOMAIN ids = 1 .. 6 /\ DOMAIN header = 1 .. 11
  BY <1>1, <1>2, <1>3
<1>5. \A c \in 1 .. 5 : header[c] = printed[c] /\ printed[c] \in FieldNames
  BY <1>1, <1>2 DEF FieldNames
<1>6. \A c, e \in 1 .. 5 : printed[c] = printed[e] => c = e
  BY <1>2
<1>7. ASSUME NEW k \in 1 .. 6
      PROVE  /\ ids[k] \in 0 .. 13 /\ header[5 + k] = Delta[ids[k] + 1][3]
             /\ \E c \in 1 .. 5 : printed[c] = Delta[ids[k] + 1][1]
             /\ \E c \in 1 .. 5 : printed[c] = Delta[ids[k] + 1][2]
  <2>1. CASE k = 1
    <3>1. ids[k] = 6 /\ Delta[7] = <<"svr_hw_rx_ts", "svr_ker_rx_ts", "d2_svr_hw_rx_to_ker_rx">>
      BY <1>3, <2>1 DEF Delta
    <3>2. /\ header[6] = "d2_svr_hw_rx_to_ker_rx" /\ printed[1] = "svr_hw_rx_ts"
          /\ printed[2] = "svr_ker_rx_ts"
      BY <1>1, <1>2
    <3> QED BY <2>1, <3>1, <3>2
  <2>2. CASE k = 2
    <3>1. ids[k] = 7 /\ Delta[8] = <<"svr_ker_rx_ts", "svr_app_rx_ts", "d3_svr_ker_rx_to_app_rx">>
      BY <1>3, <2>2 DEF Delta
    <3>2. /\ header[7] = "d3_svr_ker_rx_to_app_rx" /\ printed[2] = "svr_ker_rx_ts"
          /\ printed[3] = "svr_app_rx_ts"
      BY <1>1, <1>2
    <3> QED BY <2>2, <3>1, <3>2
  <2>3. CASE k = 3
    <3>1. ids[k] = 8 /\ Delta[9] = <<"svr_app_rx_ts", "svr_app_tx_ts", "d4_svr_app_rx_to_app_tx">>
      BY <1>3, <2>3 DEF Delta
    <3>2. /\ header[8] = "d4_svr_app_rx_to_app_tx" /\ printed[3] = "svr_app_rx_ts"
          /\ printed[4] = "svr_app_tx_ts"
      BY <1>1, <1>2
    <3> QED BY <2>3, <3>1, <3>2
  <2>4. CASE k = 4
    <3>1. ids[k] = 9 /\ Delta[10] = <<"svr_app_tx_ts", "svr_ker_tx_ts", "d5_svr_app_tx_to_ker_tx">>
      BY <1>3, <2>4 DEF Delta
    <3>2. /\ header[9] = "d5_svr_app_tx_to_ker_tx" /\ printed[4] = "svr_app_tx_ts"
          /\ printed[5] = "svr_ker_tx_ts"
      BY <1>1, <1>2
    <3> QED BY <2>4, <3>1, <3>2
  <2>5. CASE k = 5
    <3>1. ids[k] = 10 /\ Delta[11] = <<"svr_hw_rx_ts", "svr_app_rx_ts", "tt_d1_svr_hw_rx_to_app_rx">>
      BY <1>3, <2>5 DEF Delta
    <3>2. /\ header[10] = "tt_d1_svr_hw_rx_to_app_rx" /\ printed[1] = "svr_hw_rx_ts"
          /\ printed[3] = "svr_app_rx_ts"
      BY <1>1, <1>2
    <3> QED BY <2>5, <3>1, <3>2
  <2>6. CASE k = 6
    <3>1. ids[k] = 11 /\ Delta[12] = <<"svr_hw_rx_ts", "svr_ker_tx_ts", "tt_d2_svr_hw_rx_to_ker_tx">>
      BY <1>3, <2>6 DEF Delta
    <3>2. /\ header[11] = "tt_d2_svr_hw_rx_to_ker_tx" /\ printed[1] = "svr_hw_rx_ts"
          /\ printed[5] = "svr_ker_tx_ts"
      BY <1>1, <1>2
    <3> QED BY <2>6, <3>1, <3>2
  <2> QED BY <2>1, <2>2, <2>3, <2>4, <2>5, <2>6
<1>8. \A k, m \in 1 .. 6 : ids[k] = ids[m] => k = m
  BY <1>3
<1>9. /\ Len(printed) \in Nat /\ Len(ids) \in Nat /\ Len(header) = Len(printed) + Len(ids)
      /\ DOMAIN printed = 1 .. Len(printed) /\ DOMAIN ids = 1 .. Len(ids)
      /\ DOMAIN header = 1 .. Len(header)
  BY <1>4
<1>10. \A k \in 1 .. Len(ids) :
         /\ ids[k] \in 0 .. 13 /\ header[Len(printed) + k] = Delta[ids[k] + 1][3]
         /\ \E c \in 1 .. Len(printed) : printed[c] = Delta[ids[k] + 1][1]
         /\ \E c \in 1 .. Len(printed) : printed[c] = Delta[ids[k] + 1][2]
  BY <1>4, <1>7
<1>11. /\ \A c \in 1 .. Len(printed) : header[c] = printed[c] /\ printed[c] \in FieldNames
       /\ \A c, e \in 1 .. Len(printed) : printed[c] = printed[e] => c = e
       /\ \A k, m \in 1 .. Len(ids) : ids[k] = ids[m] => k = m
  BY <1>4, <1>5, <1>6, <1>8
<1>12. TablesFit(header, printed, ids)
  BY <1>9, <1>10, <1>11, Zenon DEF TablesFit
<1> QED BY <1>12 DEF header, printed, ids

\* --roundtrip, --both.
LEMMA RoundTripBothTables ==
  TablesFit(get_output_header("roundtrip", "both"), PrintedFields("roundtrip", "both"),
            get_mode_delta_config("roundtrip", "both"))
<1> DEFINE header  == get_output_header("roundtrip", "both")
           printed == PrintedFields("roundtrip", "both")
           ids     == get_mode_delta_config("roundtrip", "both")
<1>1. header = <<"clt_app_tx_tsc_ts", "clt_app_tx_ts", "clt_ker_tx_ts", "svr_hw_rx_ts",
                 "svr_ker_rx_ts", "svr_app_rx_ts", "svr_app_tx_ts", "svr_ker_tx_ts",
                 "clt_hw_rx_ts", "clt_ker_rx_ts", "clt_app_rx_tsc_ts", "clt_app_rx_ts",
                 "d1_clt_app_tx_to_ker_tx", "d6_clt_hw_rx_to_ker_rx", "d7_clt_ker_rx_to_app_rx",
                 "rtt_d1_clt_app_tx_to_hw_rx", "rtt_d2_clt_app_tx_to_app_rx",
                 "rtt_d3_clt_app_tx_tsc_to_app_rx_tsc", "d2_svr_hw_rx_to_ker_rx",
                 "d3_svr_ker_rx_to_app_rx", "d4_svr_app_rx_to_app_tx",
                 "d5_svr_app_tx_to_ker_tx", "tt_d1_svr_hw_rx_to_app_rx",
                 "tt_d2_svr_hw_rx_to_ker_tx", "net_clt_ker_tx_to_svr_hw_rx",
                 "net_svr_ker_tx_to_clt_hw_rx">>
  BY DEF get_output_header
<1>2. printed = <<"clt_app_tx_tsc_ts", "clt_app_tx_ts", "clt_ker_tx_ts", "svr_hw_rx_ts",
                  "svr_ker_rx_ts", "svr_app_rx_ts", "svr_app_tx_ts", "svr_ker_tx_ts",
                  "clt_hw_rx_ts", "clt_ker_rx_ts", "clt_app_rx_tsc_ts", "clt_app_rx_ts">>
  BY DEF PrintedFields
<1>3. ids = [k \in 1 .. 14 |-> k - 1]
  BY DEF get_mode_delta_config
<1> HIDE DEF header, printed, ids
<1>4. /\ Len(printed) = 12 /\ Len(ids) = 14 /\ Len(header) = 26
      /\ DOMAIN printed = 1 .. 12 /\ DOMAIN ids = 1 .. 14 /\ DOMAIN header = 1 .. 26
  BY <1>1, <1>2, <1>3
<1>5. \A c \in 1 .. 12 : header[c] = printed[c] /\ printed[c] \in FieldNames
  BY <1>1, <1>2 DEF FieldNames
<1>6. \A c, e \in 1 .. 12 : printed[c] = printed[e] => c = e
  BY <1>2
<1>7. ASSUME NEW k \in 1 .. 14
      PROVE  /\ ids[k] \in 0 .. 13 /\ header[12 + k] = Delta[ids[k] + 1][3]
             /\ \E c \in 1 .. 12 : printed[c] = Delta[ids[k] + 1][1]
             /\ \E c \in 1 .. 12 : printed[c] = Delta[ids[k] + 1][2]
  <2>1. CASE k = 1
    <3>1. ids[k] = 0 /\ Delta[1] = <<"clt_app_tx_ts", "clt_ker_tx_ts", "d1_clt_app_tx_to_ker_tx">>
      BY <1>3, <2>1 DEF Delta
    <3>2. /\ header[13] = "d1_clt_app_tx_to_ker_tx" /\ printed[2] = "clt_app_tx_ts"
          /\ printed[3] = "clt_ker_tx_ts"
      BY <1>1, <1>2
    <3> QED BY <2>1, <3>1, <3>2
  <2>2. CASE k = 2
    <3>1. ids[k] = 1 /\ Delta[2] = <<"clt_hw_rx_ts", "clt_ker_rx_ts", "d6_clt_hw_rx_to_ker_rx">>
      BY <1>3, <2>2 DEF Delta
    <3>2. /\ header[14] = "d6_clt_hw_rx_to_ker_rx" /\ printed[9] = "clt_hw_rx_ts"
          /\ printed[10] = "clt_ker_rx_ts"
      BY <1>1, <1>2
    <3> QED BY <2>2, <3>1, <3>2
  <2>3. CASE k = 3
    <3>1. ids[k] = 2 /\ Delta[3] = <<"clt_ker_rx_ts", "clt_app_rx_ts", "d7_clt_ker_rx_to_app_rx">>
      BY <1>3, <2>3 DEF Delta
    <3>2. /\ header[15] = "d7_clt_ker_rx_to_app_rx" /\ printed[10] = "clt_ker_rx_ts"
          /\ printed[12] = "clt_app_rx_ts"
      BY <1>1, <1>2
    <3> QED BY <2>3, <3>1, <3>2
  <2>4. CASE k = 4
    <3>1. ids[k] = 3 /\ Delta[4] = <<"clt_app_tx_ts", "clt_hw_rx_ts", "rtt_d1_clt_app_tx_to_hw_rx">>
      BY <1>3, <2>4 DEF Delta
    <3>2. /\ header[16] = "rtt_d1_clt_app_tx_to_hw_rx" /\ printed[2] = "clt_app_tx_ts"
          /\ printed[9] = "clt_hw_rx_ts"
      BY <1>1, <1>2
    <3> QED BY <2>4, <3>1, <3>2
  <2>5. CASE k = 5
    <3>1. ids[k] = 4 /\ Delta[5] = <<"clt_app_tx_ts", "clt_app_rx_ts", "rtt_d2_clt_app_tx_to_app_rx">>
      BY <1>3, <2>5 DEF Delta
    <3>2. /\ header[17] = "rtt_d2_clt_app_tx_to_app_rx" /\ printed[2] = "clt_app_tx_ts"
          /\ printed[12] = "clt_app_rx_ts"
      BY <1>1, <1>2
    <3> QED BY <2>5, <3>1, <3>2
  <2>6. CASE k = 6
    <3>1. /\ ids[k] = 5
          /\ Delta[6] = <<"clt_app_tx_tsc_ts", "clt_app_rx_tsc_ts",
                          "rtt_d3_clt_app_tx_tsc_to_app_rx_tsc">>
      BY <1>3, <2>6 DEF Delta
    <3>2. /\ header[18] = "rtt_d3_clt_app_tx_tsc_to_app_rx_tsc" /\ printed[1] = "clt_app_tx_tsc_ts"
          /\ printed[11] = "clt_app_rx_tsc_ts"
      BY <1>1, <1>2
    <3> QED BY <2>6, <3>1, <3>2
  <2>7. CASE k = 7
    <3>1. ids[k] = 6 /\ Delta[7] = <<"svr_hw_rx_ts", "svr_ker_rx_ts", "d2_svr_hw_rx_to_ker_rx">>
      BY <1>3, <2>7 DEF Delta
    <3>2. /\ header[19] = "d2_svr_hw_rx_to_ker_rx" /\ printed[4] = "svr_hw_rx_ts"
          /\ printed[5] = "svr_ker_rx_ts"
      BY <1>1, <1>2
    <3> QED BY <2>7, <3>1, <3>2
  <2>8. CASE k = 8
    <3>1. ids[k] = 7 /\ Delta[8] = <<"svr_ker_rx_ts", "svr_app_rx_ts", "d3_svr_ker_rx_to_app_rx">>
      BY <1>3, <2>8 DEF Delta
    <3>2. /\ header[20] = "d3_svr_ker_rx_to_app_rx" /\ printed[5] = "svr_ker_rx_ts"
          /\ printed[6] = "svr_app_rx_ts"
      BY <1>1, <1>2
    <3> QED BY <2>8, <3>1, <3>2
  <2>9. CASE k = 9
    <3>1. ids[k] = 8 /\ Delta[9] = <<"svr_app_rx_ts", "svr_app_tx_ts", "d4_svr_app_rx_to_app_tx">>
      BY <1>3, <2>9 DEF Delta
    <3>2. /\ header[21] = "d4_svr_app_rx_to_app_tx" /\ printed[6] = "svr_app_rx_ts"
          /\ printed[7] = "svr_app_tx_ts"
      BY <1>1, <1>2
    <3> QED BY <2>9, <3>1, <3>2
  <2>10. CASE k = 10
    <3>1. ids[k] = 9 /\ Delta[10] = <<"svr_app_tx_ts", "svr_ker_tx_ts", "d5_svr_app_tx_to_ker_tx">>
      BY <1>3, <2>10 DEF Delta
    <3>2. /\ header[22] = "d5_svr_app_tx_to_ker_tx" /\ printed[7] = "svr_app_tx_ts"
          /\ printed[8] = "svr_ker_tx_ts"
      BY <1>1, <1>2
    <3> QED BY <2>10, <3>1, <3>2
  <2>11. CASE k = 11
    <3>1. ids[k] = 10 /\ Delta[11] = <<"svr_hw_rx_ts", "svr_app_rx_ts", "tt_d1_svr_hw_rx_to_app_rx">>
      BY <1>3, <2>11 DEF Delta
    <3>2. /\ header[23] = "tt_d1_svr_hw_rx_to_app_rx" /\ printed[4] = "svr_hw_rx_ts"
          /\ printed[6] = "svr_app_rx_ts"
      BY <1>1, <1>2
    <3> QED BY <2>11, <3>1, <3>2
  <2>12. CASE k = 12
    <3>1. ids[k] = 11 /\ Delta[12] = <<"svr_hw_rx_ts", "svr_ker_tx_ts", "tt_d2_svr_hw_rx_to_ker_tx">>
      BY <1>3, <2>12 DEF Delta
    <3>2. /\ header[24] = "tt_d2_svr_hw_rx_to_ker_tx" /\ printed[4] = "svr_hw_rx_ts"
          /\ printed[8] = "svr_ker_tx_ts"
      BY <1>1, <1>2
    <3> QED BY <2>12, <3>1, <3>2
  <2>13. CASE k = 13
    <3>1. ids[k] = 12 /\ Delta[13] = <<"clt_ker_tx_ts", "svr_hw_rx_ts", "net_clt_ker_tx_to_svr_hw_rx">>
      BY <1>3, <2>13 DEF Delta
    <3>2. /\ header[25] = "net_clt_ker_tx_to_svr_hw_rx" /\ printed[3] = "clt_ker_tx_ts"
          /\ printed[4] = "svr_hw_rx_ts"
      BY <1>1, <1>2
    <3> QED BY <2>13, <3>1, <3>2
  <2>14. CASE k = 14
    <3>1. ids[k] = 13 /\ Delta[14] = <<"svr_ker_tx_ts", "clt_hw_rx_ts", "net_svr_ker_tx_to_clt_hw_rx">>
      BY <1>3, <2>14 DEF Delta
    <3>2. /\ header[26] = "net_svr_ker_tx_to_clt_hw_rx" /\ printed[8] = "svr_ker_tx_ts"
          /\ printed[9] = "clt_hw_rx_ts"
      BY <1>1, <1>2
    <3> QED BY <2>14, <3>1, <3>2
  <2> QED BY <2>1, <2>2, <2>3, <2>4, <2>5, <2>6, <2>7, <2>8, <2>9, <2>10, <2>11, <2>12, <2>13,
             <2>14
<1>8. \A k, m \in 1 .. 14 : ids[k] = ids[m] => k = m
  BY <1>3
<1>9. /\ Len(printed) \in Nat /\ Len(ids) \in Nat /\ Len(header) = Len(printed) + Len(ids)
      /\ DOMAIN printed = 1 .. Len(printed) /\ DOMAIN ids = 1 .. Len(ids)
      /\ DOMAIN header = 1 .. Len(header)
  BY <1>4
<1>10. \A k \in 1 .. Len(ids) :
         /\ ids[k] \in 0 .. 13 /\ header[Len(printed) + k] = Delta[ids[k] + 1][3]
         /\ \E c \in 1 .. Len(printed) : printed[c] = Delta[ids[k] + 1][1]
         /\ \E c \in 1 .. Len(printed) : printed[c] = Delta[ids[k] + 1][2]
  BY <1>4, <1>7
<1>11. /\ \A c \in 1 .. Len(printed) : header[c] = printed[c] /\ printed[c] \in FieldNames
       /\ \A c, e \in 1 .. Len(printed) : printed[c] = printed[e] => c = e
       /\ \A k, m \in 1 .. Len(ids) : ids[k] = ids[m] => k = m
  BY <1>4, <1>5, <1>6, <1>8
<1>12. TablesFit(header, printed, ids)
  BY <1>9, <1>10, <1>11, Zenon DEF TablesFit
<1> QED BY <1>12 DEF header, printed, ids

-----------------------------------------------------------------------------
(* Sorting and searching *)

\* A sequence whose values rise.
Rising(s) == \A j, k \in DOMAIN s : j < k => s[j] < s[k]

\* The smallest element, before the others in rising order.
LEMMA RisingOneMore ==
  ASSUME NEW n \in Nat, NEW S, S \subseteq Nat, NEW x \in S, \A y \in S : x <= y,
         NEW t \in [1 .. n -> S \ {x}], Rising(t)
  PROVE  \E s \in [1 .. n + 1 -> S] : Rising(s)
<1> DEFINE s == [i \in 1 .. n + 1 |-> IF i = 1 THEN x ELSE t[i - 1]]
<1>1. \A i \in 1 .. n + 1 : i # 1 => i - 1 \in 1 .. n /\ t[i - 1] \in S \ {x}
  BY SMT
<1>2. s \in [1 .. n + 1 -> S]
  BY <1>1
<1>3. ASSUME NEW j \in 1 .. n + 1, NEW k \in 1 .. n + 1, j < k PROVE s[j] < s[k]
  <2>1. k # 1 /\ s[k] = t[k - 1] /\ k - 1 \in 1 .. n /\ s[k] \in S \ {x}
    BY <1>1, <1>3
  <2>2. CASE j = 1
    <3>1. s[j] = x
      BY <2>2
    <3> DEFINE y == s[k]
    <3>2. y \in Nat /\ x \in Nat /\ x <= y /\ x # y
      BY <2>1
    <3> HIDE DEF y
    <3>3. x < y
      BY <3>2
    <3> QED BY <3>1, <3>3 DEF y
  <2>3. CASE j # 1
    <3>1. s[j] = t[j - 1] /\ j - 1 \in 1 .. n /\ j - 1 < k - 1
      BY <1>1, <1>3, <2>3
    <3> QED BY <2>1, <3>1 DEF Rising
  <2> QED BY <2>2, <2>3
<1>4. DOMAIN s = 1 .. n + 1
  OBVIOUS
<1>5. Rising(s)
  <2> HIDE DEF s
  <2> QED BY <1>3, <1>4 DEF Rising
<1> QED BY <1>2, <1>5

\* Every finite set of numbers can be put in rising order.
LEMMA RisingExists ==
  ASSUME NEW S, S \subseteq Nat, IsFiniteSet(S)
  PROVE  \E s \in [1 .. Cardinality(S) -> S] : Rising(s)
<1> DEFINE Sortable(n) == \A T : T \subseteq Nat /\ IsFiniteSet(T) /\ Cardinality(T) = n
                                   => \E s \in [1 .. n -> T] : Rising(s)
           Bad == {n \in Nat : ~Sortable(n)}
<1>1. Bad = {}
  <2> SUFFICES ASSUME Bad # {} PROVE FALSE
    OBVIOUS
  <2>1. PICK m \in Bad : \A y \in Bad : m <= y
    BY LeastOf
  <2>2. PICK T : T \subseteq Nat /\ IsFiniteSet(T) /\ Cardinality(T) = m
                 /\ ~(\E s \in [1 .. m -> T] : Rising(s))
    BY <2>1
  <2>3. m \in Nat
    BY <2>1
  <2>4. CASE m = 0
    <3>1. T = {} /\ 1 .. m = {}
      BY <2>2, <2>4, FS_EmptySet
    <3>2. <<>> \in [1 .. m -> T] /\ Rising(<<>>)
      BY <3>1 DEF Rising
    <3> QED BY <2>2, <3>2
  <2>5. CASE m # 0
    <3>1. T # {}
      BY <2>2, <2>5, FS_EmptySet
    <3>2. PICK x \in T : \A y \in T : x <= y
      BY <2>2, <3>1, LeastOf
    <3>3. IsFiniteSet(T \ {x}) /\ Cardinality(T \ {x}) = m - 1
      BY <2>2, <3>2, FS_RemoveElement
    <3>4. m - 1 \in Nat /\ ~(m <= m - 1)
      BY <2>3, <2>5
    <3>5. Sortable(m - 1)
      BY <2>1, <3>4
    <3>6. PICK t \in [1 .. m - 1 -> T \ {x}] : Rising(t)
      BY <2>2, <3>3, <3>5
    <3>7. \E s \in [1 .. (m - 1) + 1 -> T] : Rising(s)
      BY <2>2, <3>2, <3>4, <3>6, RisingOneMore
    <3>8. (m - 1) + 1 = m
      BY <2>3
    <3> QED BY <2>2, <3>7, <3>8
  <2> QED BY <2>4, <2>5
<1>2. Cardinality(S) \in Nat
  BY FS_CardinalityType
<1>3. Sortable(Cardinality(S))
  BY <1>1, <1>2
<1> QED BY <1>3

\* qsort: rising, and the very elements of the set.
LEMMA QsortRises ==
  ASSUME NEW S, S \subseteq Nat, IsFiniteSet(S)
  PROVE  /\ qsort(S) \in [1 .. Cardinality(S) -> S] /\ Cardinality(S) \in Nat
         /\ Rising(qsort(S))
         /\ \A x \in S : \E k \in 1 .. Cardinality(S) : qsort(S)[k] = x
<1> DEFINE n == Cardinality(S)
           t == qsort(S)
<1>0. n \in Nat
  BY FS_CardinalityType
<1>1. t \in [1 .. n -> S] /\ Rising(t)
  <2>1. \E s \in [1 .. n -> S] : Rising(s)
    BY RisingExists
  <2> QED BY <2>1 DEF qsort, Rising
<1> HIDE DEF t
<1>2. \A j, k \in 1 .. n : t[j] = t[k] => j = k
  <2> SUFFICES ASSUME NEW j \in 1 .. n, NEW k \in 1 .. n, t[j] = t[k], j # k PROVE FALSE
    OBVIOUS
  <2>1. j < k \/ k < j
    BY <1>0
  <2>2. DOMAIN t = 1 .. n /\ t[j] \in Nat /\ t[k] \in Nat
    BY <1>1
  <2> QED BY <1>1, <2>1, <2>2 DEF Rising
<1>3. t \in Injection(1 .. n, S)
  BY <1>1, <1>2 DEF Injection, IsInjective
<1>4. Cardinality(1 .. n) = n
  BY <1>0, FS_Interval
<1>5. t \in Surjection(1 .. n, S)
  BY <1>3, <1>4, FS_Injection
<1>6. \A x \in S : \E k \in 1 .. n : t[k] = x
  BY <1>5 DEF Surjection
<1> QED BY <1>0, <1>1, <1>6 DEF t

\* The records are in the order of their sequence numbers.
Sorted(table) ==
  /\ Len(table) \in Nat
  /\ \A k \in 1 .. Len(table) : table[k].seq \in Nat
  /\ \A j, k \in 1 .. Len(table) : j < k => table[j].seq < table[k].seq

\* One round of the search between lo and hi, with r the result of any other one.
SearchRound(table, seq, r, lo, hi) ==
  LET mid == lo + (hi - lo) \div 2 IN
    IF lo > hi THEN 0
    ELSE IF table[mid].seq = seq THEN mid
    ELSE IF table[mid].seq < seq THEN r[<<mid + 1, hi>>]
    ELSE r[<<lo, mid - 1>>]

\* k is the record with that number between lo and hi, or 0 if there is none.
FoundBetween(table, seq, k, lo, hi) ==
  \/ k \in lo .. hi /\ table[k].seq = seq
  \/ k = 0 /\ \A i \in lo .. hi : table[i].seq # seq

\* The middle is between the two bounds, and each half is shorter.
LEMMA Halves ==
  ASSUME NEW n \in Nat, NEW lo \in 1 .. n + 1, NEW hi \in 0 .. n, lo <= hi
  PROVE  LET mid == lo + (hi - lo) \div 2 IN
         /\ mid \in lo .. hi /\ mid \in 1 .. n /\ mid + 1 \in 1 .. n + 1 /\ mid - 1 \in 0 .. n
         /\ hi - (mid + 1) < hi - lo /\ (mid - 1) - lo < hi - lo
<1> DEFINE h == (hi - lo) \div 2
<1>1. h \in Nat /\ 2 * h <= hi - lo
  OBVIOUS
<1> HIDE DEF h
<1>2. LET mid == lo + h IN
         /\ mid \in lo .. hi /\ mid \in 1 .. n /\ mid + 1 \in 1 .. n + 1 /\ mid - 1 \in 0 .. n
         /\ hi - (mid + 1) < hi - lo /\ (mid - 1) - lo < hi - lo
  BY <1>1
<1> QED BY <1>2 DEF h

\* A record in the middle says which half to look in.
LEMMA OneHalf ==
  ASSUME NEW table, Sorted(table), NEW seq \in Int,
         NEW lo \in 1 .. Len(table) + 1, NEW hi \in 0 .. Len(table), NEW mid \in lo .. hi
  PROVE  /\ table[mid].seq = seq => \A i \in lo .. hi : table[i].seq = seq => i = mid
         /\ table[mid].seq < seq => \A i \in lo .. hi : table[i].seq = seq => i \in mid + 1 .. hi
         /\ (table[mid].seq # seq /\ ~(table[mid].seq < seq)) =>
              \A i \in lo .. hi : table[i].seq = seq => i \in lo .. mid - 1
<1> DEFINE n == Len(table)
           v(i) == table[i].seq
<1>1. n \in Nat /\ \A i \in 1 .. n : v(i) \in Nat
  BY DEF Sorted
<1>2. \A i, j \in 1 .. n : i < j => v(i) < v(j)
  BY DEF Sorted
<1>3. \A i \in lo .. hi : i \in 1 .. n /\ i \in Int
  BY <1>1
<1>4. mid \in 1 .. n /\ mid \in Int
  BY <1>3
<1> HIDE DEF n, v
<1>5. ASSUME NEW i \in lo .. hi, v(i) = seq
      PROVE  /\ v(mid) = seq => i = mid
             /\ v(mid) < seq => i > mid
             /\ (v(mid) # seq /\ ~(v(mid) < seq)) => i < mid
  <2>1. i \in 1 .. n /\ i \in Int
    BY <1>3
  <2>2. (i < mid => v(i) < v(mid)) /\ (mid < i => v(mid) < v(i))
    BY <1>2, <1>4, <2>1
  <2>3. v(i) \in Nat /\ v(mid) \in Nat
    BY <1>1, <1>4, <2>1
  <2> QED BY <1>4, <1>5, <2>1, <2>2, <2>3
<1>6. \A i \in lo .. hi : /\ i > mid => i \in mid + 1 .. hi
                          /\ i < mid => i \in lo .. mid - 1
  BY <1>1, <1>4
<1> QED BY <1>5, <1>6 DEF v

\* If the rounds on the halves are right, so is this one.
LEMMA RoundRight ==
  ASSUME NEW table, Sorted(table), NEW seq \in Int, NEW r,
         NEW lo \in 1 .. Len(table) + 1, NEW hi \in 0 .. Len(table),
         \A l \in 1 .. Len(table) + 1 : \A h \in 0 .. Len(table) :
           h - l < hi - lo => FoundBetween(table, seq, r[<<l, h>>], l, h)
  PROVE  FoundBetween(table, seq, SearchRound(table, seq, r, lo, hi), lo, hi)
<1> DEFINE n   == Len(table)
           mid == lo + (hi - lo) \div 2
           k   == SearchRound(table, seq, r, lo, hi)
<1>0. n \in Nat
  BY DEF Sorted
<1>1. CASE lo > hi
  <2>1. k = 0 /\ lo .. hi = {}
    BY <1>0, <1>1 DEF SearchRound
  <2> QED BY <2>1 DEF FoundBetween
<1>2. CASE ~(lo > hi)
  <2>0. lo <= hi
    BY <1>0, <1>2
  <2>1. /\ mid \in lo .. hi /\ mid \in 1 .. n /\ mid + 1 \in 1 .. n + 1 /\ mid - 1 \in 0 .. n
        /\ hi - (mid + 1) < hi - lo /\ (mid - 1) - lo < hi - lo
    BY <1>0, <2>0, Halves
  <2>2. k = IF table[mid].seq = seq THEN mid
            ELSE IF table[mid].seq < seq THEN r[<<mid + 1, hi>>] ELSE r[<<lo, mid - 1>>]
    BY <1>2 DEF SearchRound
  <2>3. /\ FoundBetween(table, seq, r[<<mid + 1, hi>>], mid + 1, hi)
        /\ FoundBetween(table, seq, r[<<lo, mid - 1>>], lo, mid - 1)
    <3> HIDE DEF mid
    <3> QED BY <2>1
  <2> HIDE DEF mid, k, n
  <2>4. mid + 1 .. hi \subseteq lo .. hi /\ lo .. mid - 1 \subseteq lo .. hi
    BY <1>0, <2>1
  <2>5. CASE table[mid].seq = seq
    <3>1. k = mid
      BY <2>2, <2>5
    <3>2. FoundBetween(table, seq, k, lo, hi)
      BY <2>1, <2>5, <3>1 DEF FoundBetween
    <3> QED BY <3>2 DEF k
  <2>6. CASE table[mid].seq # seq /\ table[mid].seq < seq
    <3>1. k = r[<<mid + 1, hi>>]
      BY <2>2, <2>6
    <3>2. FoundBetween(table, seq, k, mid + 1, hi)
      BY <2>3, <3>1
    <3>3. \A i \in lo .. hi : table[i].seq = seq => i \in mid + 1 .. hi
      BY <2>1, <2>6, OneHalf
    <3>4. FoundBetween(table, seq, k, lo, hi)
      BY <2>4, <3>2, <3>3, Zenon DEF FoundBetween
    <3> QED BY <3>4 DEF k
  <2>7. CASE table[mid].seq # seq /\ ~(table[mid].seq < seq)
    <3>1. k = r[<<lo, mid - 1>>]
      BY <2>2, <2>7
    <3>2. FoundBetween(table, seq, k, lo, mid - 1)
      BY <2>3, <3>1
    <3>3. \A i \in lo .. hi : table[i].seq = seq => i \in lo .. mid - 1
      BY <2>1, <2>7, OneHalf
    <3>4. FoundBetween(table, seq, k, lo, hi)
      BY <2>4, <3>2, <3>3, Zenon DEF FoundBetween
    <3> QED BY <3>4 DEF k
  <2> QED BY <2>5, <2>6, <2>7
<1> QED BY <1>1, <1>2

\* There is a function that computes the search: the one that looks everywhere.
LEMMA SearchExists ==
  ASSUME NEW table, Sorted(table), NEW seq \in Int
  PROVE  \E r : r = [b \in (1 .. Len(table) + 1) \X (0 .. Len(table)) |->
                       SearchRound(table, seq, r, b[1], b[2])]
<1> DEFINE n == Len(table)
           D == (1 .. n + 1) \X (0 .. n)
           At(l, h) == IF \E i \in l .. h : table[i].seq = seq
                         THEN CHOOSE i \in l .. h : table[i].seq = seq ELSE 0
           r == [b \in D |-> At(b[1], b[2])]
<1>0. n \in Nat
  BY DEF Sorted
<1>1. \A l, h : FoundBetween(table, seq, At(l, h), l, h)
  <2> TAKE l, h
  <2>1. CASE \E i \in l .. h : table[i].seq = seq
    <3>1. At(l, h) \in l .. h /\ table[At(l, h)].seq = seq
      BY <2>1
    <3> QED BY <3>1 DEF FoundBetween
  <2>2. CASE ~ \E i \in l .. h : table[i].seq = seq
    <3>1. At(l, h) = 0
      BY <2>2
    <3> QED BY <2>2, <3>1 DEF FoundBetween
  <2> QED BY <2>1, <2>2
<1>2. \A l \in 1 .. n + 1 : \A h \in 0 .. n : r[<<l, h>>] = At(l, h)
  <2> SUFFICES ASSUME NEW l \in 1 .. n + 1, NEW h \in 0 .. n PROVE r[<<l, h>>] = At(l, h)
    OBVIOUS
  <2>1. <<l, h>> \in D /\ <<l, h>>[1] = l /\ <<l, h>>[2] = h
    OBVIOUS
  <2> HIDE DEF D, At
  <2> QED BY <2>1
<1> HIDE DEF At, r
<1>3. ASSUME NEW l \in 1 .. n + 1, NEW h \in 0 .. n
      PROVE  At(l, h) = SearchRound(table, seq, r, l, h)
  <2> DEFINE k == SearchRound(table, seq, r, l, h)
             a == At(l, h)
  <2>1. FoundBetween(table, seq, k, l, h)
    BY <1>1, <1>2, RoundRight
  <2>2. FoundBetween(table, seq, a, l, h)
    BY <1>1
  <2> HIDE DEF k, a
  <2>3. \A i \in l .. h : i \in 1 .. n /\ i \in Int /\ i # 0
    BY <1>0
  <2>4. \A i, j \in l .. h : table[i].seq = seq /\ table[j].seq = seq => i = j
    <3> SUFFICES ASSUME NEW i \in l .. h, NEW j \in l .. h, table[i].seq = seq, table[j].seq = seq
                 PROVE  i = j
      OBVIOUS
    <3>1. i \in 1 .. n /\ j \in 1 .. n
      BY <2>3
    <3>2. ~(i < j) /\ ~(j < i)
      BY <3>1 DEF Sorted
    <3> QED BY <1>0, <3>1, <3>2
  <2>5. k = a
    BY <2>1, <2>2, <2>4, Zenon DEF FoundBetween
  <2> QED BY <2>5 DEF k, a
<1>4. r = [b \in D |-> SearchRound(table, seq, r, b[1], b[2])]
  <2>1. \A b \in D : At(b[1], b[2]) = SearchRound(table, seq, r, b[1], b[2])
    BY <1>3
  <2>2. r = [b \in D |-> At(b[1], b[2])]
    BY Zenon DEF r
  <2> HIDE DEF D
  <2> QED BY <2>1, <2>2, Zenon
<1> QED BY <1>4, Zenon

\* Whatever the function, it is right on every interval, by the length of the
\* interval.
LEMMA SearchRight ==
  ASSUME NEW table, Sorted(table), NEW seq \in Int, NEW r,
         \A l \in 1 .. Len(table) + 1 : \A h \in 0 .. Len(table) :
           r[<<l, h>>] = SearchRound(table, seq, r, l, h)
  PROVE  \A l \in 1 .. Len(table) + 1 : \A h \in 0 .. Len(table) :
           FoundBetween(table, seq, r[<<l, h>>], l, h)
<1> DEFINE n == Len(table)
           OK(l, h) == FoundBetween(table, seq, r[<<l, h>>], l, h)
           Bad == {m \in Nat : \E l \in 1 .. n + 1 : \E h \in 0 .. n : m = (h - l) + n + 1 /\ ~OK(l, h)}
<1>0. n \in Nat
  BY DEF Sorted
<1> SUFFICES ASSUME Bad # {} PROVE FALSE
  <2>1. \A l \in 1 .. n + 1 : \A h \in 0 .. n : (h - l) + n + 1 \in Nat
    BY <1>0
  <2> HIDE DEF OK
  <2>2. \A l \in 1 .. n + 1 : \A h \in 0 .. n : OK(l, h)
    BY <2>1
  <2> QED BY <2>2 DEF OK
<1>1. PICK m \in Bad : \A y \in Bad : m <= y
  BY LeastOf
<1>2. PICK lo \in 1 .. n + 1, hi \in 0 .. n : m = (hi - lo) + n + 1 /\ ~OK(lo, hi)
  BY <1>1
<1>3. ASSUME NEW l \in 1 .. n + 1, NEW h \in 0 .. n, h - l < hi - lo PROVE OK(l, h)
  <2> HIDE DEF OK
  <2>1. (h - l) + n + 1 \in Nat /\ ~(m <= (h - l) + n + 1)
    <3>1. m = (hi - lo) + n + 1
      BY <1>2
    <3> HIDE DEF n, Bad
    <3> QED BY <1>0, <1>3, <3>1
  <2>2. (h - l) + n + 1 \notin Bad
    BY <1>1, <2>1
  <2> QED BY <2>1, <2>2
<1>4. FoundBetween(table, seq, SearchRound(table, seq, r, lo, hi), lo, hi)
  BY <1>3, RoundRight
<1>5. OK(lo, hi)
  BY <1>4
<1> QED BY <1>2, <1>5

\* find_record_by_seq: the record with that number, or 0 if there is none.
LEMMA SearchFinds ==
  ASSUME NEW table, Sorted(table), NEW seq \in Int
  PROVE  FoundBetween(table, seq, find_record_by_seq(table, seq), 1, Len(table))
<1> DEFINE n == Len(table)
           D == (1 .. n + 1) \X (0 .. n)
           r == CHOOSE f : f = [b \in D |-> SearchRound(table, seq, f, b[1], b[2])]
<1>0. n \in Nat
  BY DEF Sorted
<1>1. find_record_by_seq(table, seq) = r[<<1, n>>]
  BY DEF find_record_by_seq, SearchRound
<1>2. r = [b \in D |-> SearchRound(table, seq, r, b[1], b[2])]
  <2>1. \E f : f = [b \in D |-> SearchRound(table, seq, f, b[1], b[2])]
    BY SearchExists
  <2> HIDE DEF D
  <2> QED BY <2>1, Zenon
<1> HIDE DEF r
<1>3. \A l \in 1 .. n + 1 : \A h \in 0 .. n : r[<<l, h>>] = SearchRound(table, seq, r, l, h)
  <2> SUFFICES ASSUME NEW l \in 1 .. n + 1, NEW h \in 0 .. n
               PROVE  r[<<l, h>>] = SearchRound(table, seq, r, l, h)
    OBVIOUS
  <2>1. <<l, h>> \in D /\ <<l, h>>[1] = l /\ <<l, h>>[2] = h
    OBVIOUS
  <2> HIDE DEF D
  <2> QED BY <1>2, <2>1
<1>4. 1 \in 1 .. n + 1 /\ n \in 0 .. n
  BY <1>0
<1>5. FoundBetween(table, seq, r[<<1, n>>], 1, n)
  BY <1>3, <1>4, SearchRight
<1> QED BY <1>1, <1>5

-----------------------------------------------------------------------------
(* The inductive invariant of the join *)

\* The options, and the records of the table.
Options == [mode : {None, "oneway", "roundtrip"}, target : {None, "client", "server", "both"},
            ip : BOOLEAN, port : BOOLEAN, files : BOOLEAN]
Records == [seq : Nat, ts : [Fields -> Cells]]

\* The types, and that no more is loaded than there are files.
JoinTypes ==
  /\ files \in Seq(InputFiles) /\ opt \in Options
  /\ pc \in {"options", "validate", "load", "populate", "write", "success", "failure"}
  /\ types \in Seq(CsvTypes \cup {"UNKNOWN"}) /\ (types = <<>> \/ Len(types) = Len(files))
  /\ loaded \in Seq(SUBSET Nat) /\ Len(loaded) <= Len(files)
  /\ \A f \in 1 .. Len(loaded) : IsFiniteSet(loaded[f])
  /\ records \in Seq(Records) /\ filled \in 0 .. Len(files) /\ line \in Nat
  /\ appends \in 0 .. MaxAppends

\* A mode and a target have been chosen.
Chosen == opt.mode \in {"oneway", "roundtrip"} /\ opt.target \in {"client", "server", "both"}

\* A mode, a target and files of known types.
Ready ==
  /\ Chosen
  /\ Len(types) = Len(files) /\ Len(files) # 0
  /\ \A k \in 1 .. Len(types) : types[k] \in CsvTypes

\* What has been done when a phase begins.
Phases ==
  /\ pc \in {"options", "validate"} => types = <<>> /\ loaded = <<>>
  /\ pc \in {"options", "validate", "load"} => records = <<>> /\ filled = 0
  /\ pc # "populate" => line = 0
  /\ pc = "validate" => Chosen
  /\ (loaded # <<>> \/ pc \in {"load", "populate", "write"}) => Ready
  /\ pc \in {"populate", "write"} => records # <<>> /\ Len(loaded) = Len(files)
  /\ pc = "populate" => filled < Len(files) /\ line <= Len(files[filled + 1].rows)
  /\ pc = "write" => filled = Len(files)
  /\ Written => pc = "success" /\ filled = Len(files) /\ loaded # <<>>
  /\ (pc = "success" /\ loaded # <<>>) =>
       Len(loaded) = Len(files) /\ (Written <=> records # <<>>)

\* The numbers loaded from a file are still in it: a logger only appends.
LoadedFromRows ==
  \A f \in 1 .. Len(loaded) : \A s \in loaded[f] :
    \E j \in DOMAIN files[f].rows : Usable(files[f].rows[j]) /\ files[f].rows[j].seq = s

\* The table has the common numbers, sorted, which the binary search relies on.
TableIsJoin ==
  /\ Sorted(records)
  /\ (records # <<>> \/ (pc = "success" /\ loaded # <<>>)) =>
       {records[k].seq : k \in DOMAIN records} = find_common_sequences

\* A timestamp in the table is from a row of its number and column.
InSomeRow(seq, c, cell) ==
  \E f \in DOMAIN files : \E r \in ToSet(files[f].rows) :
    LET written == get_csv_header(files[f].type) IN
      /\ Usable(r) /\ r.seq = seq
      /\ \E p \in DOMAIN written : written[p] = c /\ p <= Len(r.cells) /\ r.cells[p] = cell

CellsFromRows ==
  \A k \in DOMAIN records : \A c \in Fields :
    records[k].ts[c] # Null => InSomeRow(records[k].seq, c, records[k].ts[c])

\* All rows of a number are complete.
Whole(seq) ==
  \A f \in DOMAIN files : \A r \in ToSet(files[f].rows) :
    Usable(r) /\ r.seq = seq =>
      Len(r.cells) = Len(get_csv_header(files[f].type)) /\ Null \notin ToSet(r.cells)

\* File f, or a row of that number in it, has been read.
ReadRow(f, seq) ==
  \/ f <= filled
  \/ f = filled + 1 /\ \E j \in 1 .. line : /\ j \in DOMAIN files[f].rows
                                            /\ Usable(files[f].rows[j]) /\ files[f].rows[j].seq = seq

\* A file that has been read has set its columns.
Covered ==
  \A k \in DOMAIN records : Whole(records[k].seq) =>
    \A f \in DOMAIN files : ReadRow(f, records[k].seq) =>
      \A c \in ToSet(get_csv_header(files[f].type)) : records[k].ts[c] # Null

\* The output is the table.
OutputRight ==
  Written => output.rows = [k \in DOMAIN records |-> format_output_record(records[k])]

\* All of it.
FullJoinInv ==
  /\ JoinTypes /\ DetectedRight /\ Phases /\ LoadedFromRows /\ TableIsJoin
  /\ CellsFromRows /\ Covered /\ OutputRight

-----------------------------------------------------------------------------
(* The files *)

\* The parameters and the state, type by type.
LEMMA JoinFacts ==
  ASSUME FullJoinInv
  PROVE  /\ files \in Seq(InputFiles) /\ Len(files) \in Nat /\ DOMAIN files = 1 .. Len(files)
         /\ types \in Seq(CsvTypes \cup {"UNKNOWN"}) /\ Len(types) \in Nat
         /\ DOMAIN types = 1 .. Len(types)
         /\ loaded \in Seq(SUBSET Nat) /\ Len(loaded) \in Nat /\ DOMAIN loaded = 1 .. Len(loaded)
         /\ records \in Seq(Records) /\ Len(records) \in Nat
         /\ DOMAIN records = 1 .. Len(records)
         /\ filled \in Nat /\ filled <= Len(files) /\ Len(loaded) <= Len(files)
         /\ line \in Nat
<1>1. /\ files \in Seq(InputFiles) /\ types \in Seq(CsvTypes \cup {"UNKNOWN"})
      /\ loaded \in Seq(SUBSET Nat) /\ records \in Seq(Records) /\ line \in Nat
      /\ filled \in 0 .. Len(files) /\ Len(loaded) <= Len(files)
  BY DEF FullJoinInv, JoinTypes
<1>2. Len(files) \in Nat /\ DOMAIN files = 1 .. Len(files)
  BY <1>1, LenProperties
<1>3. Len(types) \in Nat /\ DOMAIN types = 1 .. Len(types)
  BY <1>1, LenProperties
<1>4. Len(loaded) \in Nat /\ DOMAIN loaded = 1 .. Len(loaded)
  BY <1>1, LenProperties
<1>5. Len(records) \in Nat /\ DOMAIN records = 1 .. Len(records)
  BY <1>1, LenProperties
<1> QED BY <1>1, <1>2, <1>3, <1>4, <1>5

\* A file has a type and rows.
LEMMA FileFacts ==
  ASSUME NEW F \in Seq(InputFiles), NEW f \in 1 .. Len(F)
  PROVE  /\ F[f] \in InputFiles /\ F[f].type \in CsvTypes \cup {"UNKNOWN"}
         /\ F[f].rows \in Seq(Rows) /\ Len(F[f].rows) \in Nat
         /\ DOMAIN F[f].rows = 1 .. Len(F[f].rows)
         /\ \A j \in DOMAIN F[f].rows : F[f].rows[j] \in Rows
<1>1. F[f] \in InputFiles
  BY ElementOfSeq
<1>2. F[f].type \in CsvTypes \cup {"UNKNOWN"} /\ F[f].rows \in Seq(Rows)
  BY <1>1 DEF InputFiles
<1> DEFINE R == F[f].rows
<1> HIDE DEF R
<1>3. R \in Seq(Rows)
  BY <1>2 DEF R
<1>4. Len(R) \in Nat /\ DOMAIN R = 1 .. Len(R)
  BY <1>3, LenProperties
<1>5. \A j \in DOMAIN R : R[j] \in Rows
  BY <1>3, <1>4, ElementOfSeq
<1> QED BY <1>1, <1>2, <1>4, <1>5 DEF R

\* Rows are only ever appended.
Grown ==
  /\ Len(files') = Len(files) /\ DOMAIN files' = DOMAIN files
  /\ \A g \in DOMAIN files :
       /\ files'[g].type = files[g].type
       /\ \A j \in DOMAIN files[g].rows : /\ j \in DOMAIN files'[g].rows
                                          /\ files'[g].rows[j] = files[g].rows[j]

\* AppendRow keeps the types, and what was there.
LEMMA AppendFacts ==
  ASSUME FullJoinInv, NEW f, AppendRow(f)
  PROVE  /\ files' \in Seq(InputFiles) /\ Grown
         /\ UNCHANGED <<args, opt, pc, types, loaded, records, filled, line, output>>
         /\ pc \in {"load", "populate"} /\ appends' \in 0 .. MaxAppends
<1>0. /\ pc \in {"load", "populate"} /\ f \in DOMAIN files /\ appends < MaxAppends
      /\ appends' = appends + 1
      /\ UNCHANGED <<args, opt, pc, types, loaded, records, filled, line, output>>
  BY DEF AppendRow
<1>1. appends' \in 0 .. MaxAppends
  BY <1>0, JoinAssumption DEF FullJoinInv, JoinTypes
<1>2. PICK row \in NewRows(files[f].type) : files' = [files EXCEPT ![f].rows = Append(@, row)]
  BY DEF AppendRow
<1>3. f \in 1 .. Len(files) /\ files \in Seq(InputFiles)
  BY <1>0, JoinFacts
<1> DEFINE old == files[f].rows
           new == [files[f] EXCEPT !.rows = Append(old, row)]
<1>4. /\ files[f] \in InputFiles /\ files[f].type \in CsvTypes \cup {"UNKNOWN"}
      /\ old \in Seq(Rows) /\ DOMAIN old = 1 .. Len(old) /\ Len(old) \in Nat
  BY <1>3, FileFacts
<1>5. row \in Rows
  BY <1>2, <1>4, JoinAssumption
<1>6. Append(old, row) \in Seq(Rows) /\ Len(Append(old, row)) = Len(old) + 1
      /\ \A j \in 1 .. Len(old) : Append(old, row)[j] = old[j]
  <2> HIDE DEF old
  <2> QED BY <1>4, <1>5, AppendProperties
<1>7. /\ new \in InputFiles /\ new.type = files[f].type /\ new.rows = Append(old, row)
  BY <1>4, <1>6 DEF InputFiles
<1>8. files' = [files EXCEPT ![f] = new]
  BY <1>2
<1> HIDE DEF new
<1>9. /\ files' \in Seq(InputFiles) /\ Len(files') = Len(files) /\ DOMAIN files' = DOMAIN files
      /\ files'[f] = new /\ \A g \in DOMAIN files : g # f => files'[g] = files[g]
  <2>1. files' \in Seq(InputFiles) /\ Len(files') = Len(files)
    BY <1>3, <1>7, <1>8, ExceptSeq
  <2> QED BY <1>0, <1>3, <1>8, <2>1
<1>10. ASSUME NEW g \in DOMAIN files
       PROVE  /\ files'[g].type = files[g].type
              /\ \A j \in DOMAIN files[g].rows : /\ j \in DOMAIN files'[g].rows
                                                 /\ files'[g].rows[j] = files[g].rows[j]
  <2>1. CASE g # f
    BY <1>9, <2>1
  <2>2. CASE g = f
    <3>1. files'[g].rows = Append(old, row) /\ files'[g].type = files[g].type
      BY <1>7, <1>9, <2>2
    <3>2. DOMAIN Append(old, row) = 1 .. Len(old) + 1
      <4> HIDE DEF old
      <4> QED BY <1>6, LenProperties
    <3>3. \A j \in DOMAIN old : j \in DOMAIN Append(old, row) /\ Append(old, row)[j] = old[j]
      <4> HIDE DEF old
      <4> QED BY <1>4, <1>6, <3>2
    <3> QED BY <2>2, <3>1, <3>3
  <2> QED BY <2>1, <2>2
<1> QED BY <1>0, <1>1, <1>9, <1>10 DEF Grown

\* What the files are known to hold, they go on holding.
LEMMA GrownFacts ==
  ASSUME Grown
  PROVE  /\ \A g \in DOMAIN files : ToSet(files[g].rows) \subseteq ToSet(files'[g].rows)
         /\ \A s, c, cell : InSomeRow(s, c, cell) => InSomeRow(s, c, cell)'
         /\ \A s : Whole(s)' => Whole(s)
<1>1. ASSUME NEW g \in DOMAIN files PROVE ToSet(files[g].rows) \subseteq ToSet(files'[g].rows)
  BY DEF Grown, ToSet
<1>2. ASSUME NEW s, NEW c, NEW cell, InSomeRow(s, c, cell) PROVE InSomeRow(s, c, cell)'
  <2>0. PICK f \in DOMAIN files : \E r \in ToSet(files[f].rows) :
          /\ Usable(r) /\ r.seq = s
          /\ \E p \in DOMAIN get_csv_header(files[f].type) :
               /\ get_csv_header(files[f].type)[p] = c /\ p <= Len(r.cells) /\ r.cells[p] = cell
    BY <1>2 DEF InSomeRow
  <2>1. PICK r \in ToSet(files[f].rows) :
          /\ Usable(r) /\ r.seq = s
          /\ \E p \in DOMAIN get_csv_header(files[f].type) :
               /\ get_csv_header(files[f].type)[p] = c /\ p <= Len(r.cells) /\ r.cells[p] = cell
    BY <2>0
  <2>2. f \in DOMAIN files' /\ files'[f].type = files[f].type /\ r \in ToSet(files'[f].rows)
    BY <1>1 DEF Grown
  <2> QED BY <2>1, <2>2 DEF InSomeRow
<1>3. ASSUME NEW s, Whole(s)' PROVE Whole(s)
  <2> SUFFICES ASSUME NEW f \in DOMAIN files, NEW r \in ToSet(files[f].rows), Usable(r), r.seq = s
               PROVE  Len(r.cells) = Len(get_csv_header(files[f].type)) /\ Null \notin ToSet(r.cells)
    BY DEF Whole
  <2>1. f \in DOMAIN files' /\ files'[f].type = files[f].type /\ r \in ToSet(files'[f].rows)
    BY <1>1 DEF Grown
  <2> QED BY <1>3, <2>1 DEF Whole
<1> QED BY <1>1, <1>2, <1>3

-----------------------------------------------------------------------------
(* The steps before the table, and those of a logger *)

\* The table keeps what it has as long as nothing it is about changes.
LEMMA KeepTable ==
  ASSUME FullJoinInv, UNCHANGED <<files, loaded, records, filled, line>>
  PROVE  /\ LoadedFromRows' /\ CellsFromRows' /\ Covered' /\ Sorted(records)'
         /\ find_common_sequences' = find_common_sequences
<1>1. LoadedFromRows'
  BY DEF FullJoinInv, LoadedFromRows
<1>2. \A s, c, cell : InSomeRow(s, c, cell)' <=> InSomeRow(s, c, cell)
  BY DEF InSomeRow
<1>3. CellsFromRows'
  <2>1. CellsFromRows
    BY DEF FullJoinInv
  <2> QED BY <1>2, <2>1 DEF CellsFromRows
<1>4. \A s : Whole(s)' <=> Whole(s)
  BY Zenon DEF Whole
<1>5. \A f, s : ReadRow(f, s)' <=> ReadRow(f, s)
  BY Zenon DEF ReadRow
<1>6. Covered'
  <2>1. Covered
    BY DEF FullJoinInv
  <2> QED BY <1>4, <1>5, <2>1 DEF Covered
<1>7. Sorted(records)'
  BY DEF FullJoinInv, TableIsJoin
<1>8. find_common_sequences' = find_common_sequences
  BY DEF find_common_sequences
<1> QED BY <1>1, <1>3, <1>6, <1>7, <1>8

\* A step of the options or the validation, before anything is loaded.
LEMMA EarlyStep ==
  ASSUME FullJoinInv, pc \in {"options", "validate"},
         UNCHANGED <<files, loaded, records, filled, line, output, appends>>,
         opt' \in Options, pc' \in {"options", "validate", "load", "success", "failure"},
         pc' \in {"options", "validate"} => types' = <<>>,
         types' \in Seq(CsvTypes \cup {"UNKNOWN"}), types' = <<>> \/ Len(types') = Len(files),
         DetectedRight', pc' = "validate" => Chosen', pc' = "load" => Ready'
  PROVE  FullJoinInv'
<1>1. JoinTypes'
  BY DEF FullJoinInv, JoinTypes
<1>2. loaded = <<>> /\ records = <<>> /\ filled = 0 /\ line = 0 /\ ~Written
  BY DEF FullJoinInv, Phases
<1>3. ~Written'
  BY <1>2 DEF Written
<1>4. Phases'
  BY <1>2, <1>3 DEF Phases
<1>5. LoadedFromRows' /\ CellsFromRows' /\ Covered' /\ Sorted(records)'
  BY KeepTable
<1>6. TableIsJoin'
  BY <1>2, <1>5 DEF TableIsJoin
<1>7. OutputRight'
  BY <1>3 DEF OutputRight
<1> QED BY <1>1, <1>4, <1>5, <1>6, <1>7 DEF FullJoinInv

\* An option.
LEMMA ParseOptionStep ==
  ASSUME FullJoinInv, ParseOption
  PROVE  FullJoinInv'
<1>1. /\ pc = "options"
      /\ UNCHANGED <<files, types, loaded, records, filled, line, output, appends>>
  BY DEF ParseOption
<1>2. opt \in Options /\ types \in Seq(CsvTypes \cup {"UNKNOWN"})
  BY DEF FullJoinInv, JoinTypes
<1>3. opt' \in Options /\ pc' \in {"options", "success", "failure"}
  <2> DEFINE o == Head(args)
  <2> HIDE DEF o
  <2>1. \/ /\ o \in {"oneway", "roundtrip"} /\ opt.mode = None
           /\ opt' = [opt EXCEPT !.mode = o] /\ UNCHANGED pc
        \/ /\ o \in {"client", "server", "both"} /\ opt.target = None
           /\ opt' = [opt EXCEPT !.target = o] /\ UNCHANGED pc
        \/ opt' = [opt EXCEPT !.ip = TRUE] /\ UNCHANGED pc
        \/ opt' = [opt EXCEPT !.port = TRUE] /\ UNCHANGED pc
        \/ opt' = [opt EXCEPT !.files = TRUE] /\ UNCHANGED pc
        \/ UNCHANGED <<opt, pc>>
        \/ pc' = "success" /\ UNCHANGED opt
        \/ pc' = "failure" /\ UNCHANGED opt
    BY DEF ParseOption, o
  <2> QED BY <1>1, <1>2, <2>1 DEF Options
<1>4. types = <<>>
  BY <1>1 DEF FullJoinInv, Phases
<1>5. DetectedRight'
  BY <1>1 DEF FullJoinInv, DetectedRight
<1> QED BY <1>1, <1>2, <1>3, <1>4, <1>5, EarlyStep

\* The end of the options.
LEMMA ParseDoneStep ==
  ASSUME FullJoinInv, ParseDone
  PROVE  FullJoinInv'
<1>1. /\ pc = "options" /\ pc' \in {"validate", "failure"}
      /\ UNCHANGED <<opt, files, types, loaded, records, filled, line, output, appends>>
  BY DEF ParseDone
<1>2. opt \in Options /\ types \in Seq(CsvTypes \cup {"UNKNOWN"})
  BY DEF FullJoinInv, JoinTypes
<1>3. pc' = "validate" => Chosen'
  BY <1>1, <1>2 DEF ParseDone, Options, Chosen
<1>4. types = <<>>
  BY <1>1 DEF FullJoinInv, Phases
<1>5. DetectedRight'
  BY <1>1 DEF FullJoinInv, DetectedRight
<1> QED BY <1>1, <1>2, <1>3, <1>4, <1>5, EarlyStep

\* A file cannot be opened.
LEMMA OpenFailsStep ==
  ASSUME FullJoinInv, OpenFails
  PROVE  FullJoinInv'
<1>1. /\ pc \in {"validate", "load", "populate", "write"} /\ line = 0 /\ pc' = "failure"
      /\ UNCHANGED <<args, opt, files, types, loaded, records, filled, line, output, appends>>
  BY DEF OpenFails
<1>2. JoinTypes'
  BY <1>1 DEF FullJoinInv, JoinTypes
<1>3. DetectedRight'
  BY <1>1 DEF FullJoinInv, DetectedRight
<1>4. ~Written'
  BY <1>1 DEF FullJoinInv, Phases, Written
<1>5. (Ready' <=> Ready) /\ (Chosen' <=> Chosen)
  BY <1>1 DEF Ready, Chosen
<1>6. Phases'
  BY <1>1, <1>4, <1>5 DEF FullJoinInv, Phases
<1>7. /\ LoadedFromRows' /\ CellsFromRows' /\ Covered' /\ Sorted(records)'
      /\ find_common_sequences' = find_common_sequences
  BY <1>1, KeepTable
<1>8. TableIsJoin'
  BY <1>1, <1>7 DEF FullJoinInv, TableIsJoin
<1>9. OutputRight'
  BY <1>4 DEF OutputRight
<1> QED BY <1>2, <1>3, <1>6, <1>7, <1>8, <1>9 DEF FullJoinInv

\* Nothing happens.
LEMMA JoinStutter ==
  ASSUME FullJoinInv, UNCHANGED joinVars
  PROVE  FullJoinInv'
<1>1. UNCHANGED <<args, opt, files, pc, types, loaded, records, filled, line, output, appends>>
  BY DEF joinVars
<1>2. JoinTypes'
  BY <1>1 DEF FullJoinInv, JoinTypes
<1>3. DetectedRight'
  BY <1>1 DEF FullJoinInv, DetectedRight
<1>4. Written' <=> Written
  BY <1>1 DEF Written
<1>5. (Ready' <=> Ready) /\ (Chosen' <=> Chosen)
  BY <1>1 DEF Ready, Chosen
<1>6. Phases'
  BY <1>1, <1>4, <1>5 DEF FullJoinInv, Phases
<1>7. /\ LoadedFromRows' /\ CellsFromRows' /\ Covered' /\ Sorted(records)'
      /\ find_common_sequences' = find_common_sequences
  BY <1>1, KeepTable
<1>8. TableIsJoin'
  BY <1>1, <1>7 DEF FullJoinInv, TableIsJoin
<1>9. OutputRight'
  BY <1>1, <1>4 DEF FullJoinInv, OutputRight, format_output_record, Deltas
<1> QED BY <1>2, <1>3, <1>6, <1>7, <1>8, <1>9 DEF FullJoinInv

\* The detection and the check of the files.
LEMMA ValidateStep ==
  ASSUME FullJoinInv, validate_file_combination
  PROVE  FullJoinInv'
<1> DEFINE detected == [k \in DOMAIN files |-> detect_file_type(get_csv_header(files[k].type))]
<1>1. /\ pc = "validate" /\ UNCHANGED <<opt, files, loaded, records, filled, line, output, appends>>
      /\ types' = IF Len(files) = expected_file_count THEN detected ELSE <<>>
      /\ pc' \in {"load", "failure"}
      /\ pc' = "load" => /\ Len(files) = expected_file_count
                         /\ \A k \in DOMAIN files : detected[k] # "UNKNOWN"
  BY DEF validate_file_combination
<1>2. /\ files \in Seq(InputFiles) /\ opt \in Options
      /\ Len(files) \in Nat /\ DOMAIN files = 1 .. Len(files)
  BY JoinFacts DEF FullJoinInv, JoinTypes
<1>3. Chosen
  BY <1>1 DEF FullJoinInv, Phases
<1>4. expected_file_count # 0
  BY <1>3 DEF Chosen, expected_file_count
<1>5. \A k \in 1 .. Len(files) : /\ detected[k] = files[k].type
                                 /\ detected[k] \in CsvTypes \cup {"UNKNOWN"}
  BY <1>2, FileFacts, DetectedType
<1>6. detected \in [1 .. Len(files) -> CsvTypes \cup {"UNKNOWN"}]
  BY <1>2, <1>5
<1>7. detected \in Seq(CsvTypes \cup {"UNKNOWN"}) /\ Len(detected) = Len(files)
  <2> HIDE DEF detected
  <2> QED BY <1>2, <1>6, FunctionIsSeq
<1> HIDE DEF detected
<1>8. CASE Len(files) = expected_file_count
  <2>1. types' = detected
    BY <1>1, <1>8
  <2>2. DetectedRight'
    <3> SUFFICES ASSUME NEW k \in DOMAIN detected PROVE detected[k] = files[k].type
      BY <1>1, <2>1 DEF DetectedRight
    <3> QED BY <1>5, <1>6
  <2>3. pc' = "load" => Ready'
    <3> SUFFICES ASSUME pc' = "load" PROVE Ready'
      OBVIOUS
    <3>1. Len(files) # 0
      BY <1>4, <1>8
    <3>2. Chosen'
      BY <1>1, <1>3 DEF Chosen
    <3>3. \A k \in 1 .. Len(detected) : detected[k] \in CsvTypes
      BY <1>1, <1>2, <1>5, <1>7
    <3> QED BY <1>1, <1>7, <2>1, <3>1, <3>2, <3>3 DEF Ready
  <2> QED BY <1>1, <1>2, <1>7, <2>1, <2>2, <2>3, EarlyStep
<1>9. CASE Len(files) # expected_file_count
  <2>1. types' = <<>> /\ pc' = "failure" /\ types' \in Seq(CsvTypes \cup {"UNKNOWN"})
    BY <1>1, <1>9
  <2>2. DetectedRight'
    BY <2>1 DEF DetectedRight
  <2> QED BY <1>1, <1>2, <2>1, <2>2, EarlyStep
<1> QED BY <1>8, <1>9

\* A logger appends a row: nothing that the program relies on is undone.
LEMMA AppendRowStep ==
  ASSUME FullJoinInv, NEW f, AppendRow(f)
  PROVE  FullJoinInv'
<1>0. /\ files' \in Seq(InputFiles) /\ Grown
      /\ UNCHANGED <<args, opt, pc, types, loaded, records, filled, line, output>>
      /\ pc \in {"load", "populate"} /\ appends' \in 0 .. MaxAppends
  BY AppendFacts
<1>1. /\ Len(files') = Len(files) /\ DOMAIN files' = DOMAIN files
      /\ \A g \in DOMAIN files : files'[g].type = files[g].type
  BY <1>0 DEF Grown
<1>2. JoinTypes'
  BY <1>0, <1>1 DEF FullJoinInv, JoinTypes
<1>3. DetectedRight'
  <2>1. DOMAIN types \subseteq DOMAIN files
    BY JoinFacts DEF FullJoinInv, JoinTypes
  <2> QED BY <1>0, <1>1, <2>1 DEF FullJoinInv, DetectedRight
<1>4. ~Written'
  BY <1>0 DEF FullJoinInv, Phases, Written
<1>5. (Ready' <=> Ready) /\ (Chosen' <=> Chosen)
  BY <1>0, <1>1 DEF Ready, Chosen
<1>6. pc = "populate" => /\ filled + 1 \in DOMAIN files
                         /\ line <= Len(files[filled + 1].rows)
                         /\ line <= Len(files'[filled + 1].rows)
  <2> SUFFICES ASSUME pc = "populate"
               PROVE  /\ filled + 1 \in DOMAIN files /\ line <= Len(files[filled + 1].rows)
                      /\ line <= Len(files'[filled + 1].rows)
    OBVIOUS
  <2> DEFINE g == filled + 1
             R == files[g].rows
             S == files'[g].rows
  <2>1. filled < Len(files) /\ line <= Len(R) /\ line \in Nat /\ filled \in Nat
    BY JoinFacts DEF FullJoinInv, Phases
  <2>2. g \in DOMAIN files /\ g \in 1 .. Len(files) /\ g \in 1 .. Len(files')
    BY <1>1, <2>1, JoinFacts
  <2>3. Len(R) \in Nat /\ DOMAIN R = 1 .. Len(R)
    BY <2>2, JoinFacts, FileFacts
  <2>4. Len(S) \in Nat /\ DOMAIN S = 1 .. Len(S)
    BY <1>0, <2>2, FileFacts
  <2>5. \A j \in DOMAIN R : j \in DOMAIN S
    BY <1>0, <2>2 DEF Grown
  <2> HIDE DEF R, S, g
  <2>6. line <= Len(S)
    <3>1. CASE line = 0
      BY <2>4, <3>1
    <3>2. CASE line # 0
      <4>1. line \in DOMAIN R
        BY <2>1, <2>3, <3>2
      <4> QED BY <2>4, <2>5, <4>1
    <3> QED BY <3>1, <3>2
  <2> QED BY <2>1, <2>2, <2>6 DEF R, S, g
<1>7. Phases'
  BY <1>0, <1>1, <1>4, <1>5, <1>6 DEF FullJoinInv, Phases
<1>8. LoadedFromRows'
  <2> SUFFICES ASSUME NEW g \in 1 .. Len(loaded), NEW s \in loaded[g]
               PROVE  \E j \in DOMAIN files'[g].rows :
                        Usable(files'[g].rows[j]) /\ files'[g].rows[j].seq = s
    BY <1>0 DEF LoadedFromRows
  <2>1. PICK j \in DOMAIN files[g].rows :
          Usable(files[g].rows[j]) /\ files[g].rows[j].seq = s
    BY DEF FullJoinInv, LoadedFromRows
  <2>2. g \in DOMAIN files
    BY JoinFacts
  <2>3. j \in DOMAIN files'[g].rows /\ files'[g].rows[j] = files[g].rows[j]
    BY <1>0, <2>2 DEF Grown
  <2> QED BY <2>1, <2>3
<1>9. TableIsJoin'
  <2>1. find_common_sequences' = find_common_sequences
    BY <1>0 DEF find_common_sequences
  <2> QED BY <1>0, <2>1 DEF FullJoinInv, TableIsJoin
<1>10. CellsFromRows'
  <2>1. \A s, c, cell : InSomeRow(s, c, cell) => InSomeRow(s, c, cell)'
    BY <1>0, GrownFacts
  <2>2. CellsFromRows
    BY DEF FullJoinInv
  <2> QED BY <1>0, <2>1, <2>2 DEF CellsFromRows
<1>11. ASSUME NEW g \in DOMAIN files, NEW s, ReadRow(g, s)' PROVE ReadRow(g, s)
  <2>1. CASE g <= filled
    BY <2>1 DEF ReadRow
  <2>2. CASE ~(g <= filled)
    <3>1. g = filled + 1
      BY <1>0, <1>11, <2>2 DEF ReadRow
    <3>2. PICK j \in 1 .. line : /\ j \in DOMAIN files'[g].rows
                                 /\ Usable(files'[g].rows[j]) /\ files'[g].rows[j].seq = s
      BY <1>0, <1>11, <2>2 DEF ReadRow
    <3>3. pc = "populate"
      BY <3>2 DEF FullJoinInv, Phases
    <3>4. Len(files[g].rows) \in Nat /\ DOMAIN files[g].rows = 1 .. Len(files[g].rows)
      BY JoinFacts, FileFacts
    <3>5. j \in DOMAIN files[g].rows
      BY <1>6, <3>1, <3>2, <3>3, <3>4, JoinFacts
    <3>6. files'[g].rows[j] = files[g].rows[j]
      BY <1>0, <3>5 DEF Grown
    <3> QED BY <3>1, <3>2, <3>5, <3>6 DEF ReadRow
  <2> QED BY <2>1, <2>2
<1>12. Covered'
  <2>1. \A s : Whole(s)' => Whole(s)
    BY <1>0, GrownFacts
  <2>2. Covered
    BY DEF FullJoinInv
  <2> QED BY <1>0, <1>1, <1>11, <2>1, <2>2 DEF Covered
<1>13. OutputRight'
  BY <1>4 DEF OutputRight
<1> QED BY <1>2, <1>3, <1>7, <1>8, <1>9, <1>10, <1>12, <1>13 DEF FullJoinInv

\* The numbers in a file are finitely many, and each is in a usable row.
LEMMA LoadFacts ==
  ASSUME NEW f \in 1 .. Len(files), files \in Seq(InputFiles)
  PROVE  LET S == load_sequences_from_file(f) IN
         /\ S \subseteq Nat /\ IsFiniteSet(S)
         /\ \A s \in S : \E j \in DOMAIN files[f].rows :
              Usable(files[f].rows[j]) /\ files[f].rows[j].seq = s
<1> DEFINE R == files[f].rows
           D == {j \in DOMAIN R : Usable(R[j])}
           S == {R[k].seq : k \in D}
<1>0. load_sequences_from_file(f) = S
  BY DEF load_sequences_from_file
<1>1. Len(R) \in Nat /\ DOMAIN R = 1 .. Len(R) /\ \A j \in DOMAIN R : R[j] \in Rows
  BY FileFacts
<1> HIDE DEF R
<1>2. \A s \in S : \E j \in DOMAIN R : Usable(R[j]) /\ R[j].seq = s
  OBVIOUS
<1>3. S \subseteq Nat
  <2> SUFFICES ASSUME NEW k \in D PROVE R[k].seq \in Nat
    OBVIOUS
  <2> QED BY <1>1 DEF Rows, Usable
<1>4. IsFiniteSet(D)
  <2>1. IsFiniteSet(1 .. Len(R))
    BY <1>1, FS_Interval
  <2> QED BY <1>1, <2>1, FS_Subset
<1>5. IsFiniteSet(S)
  <2> DEFINE seqOf == [k \in D |-> R[k].seq]
  <2>1. seqOf \in [D -> S] /\ \A s \in S : \E k \in D : seqOf[k] = s
    OBVIOUS
  <2> HIDE DEF seqOf, S, D
  <2>2. seqOf \in Surjection(D, S)
    BY <2>1 DEF Surjection
  <2> QED BY <1>4, <2>2, FS_Surjection
<1> QED BY <1>0, <1>2, <1>3, <1>5 DEF R

\* load_sequences_from_file.
LEMMA LoadStep ==
  ASSUME FullJoinInv, Load
  PROVE  FullJoinInv'
<1> DEFINE n == Len(loaded) + 1
           S == load_sequences_from_file(n)
<1>0. /\ pc = "load" /\ Len(loaded) < Len(files) /\ loaded' = Append(loaded, S)
      /\ UNCHANGED <<args, opt, files, pc, types, records, filled, line, output, appends>>
  BY DEF Load
<1>1. /\ files \in Seq(InputFiles) /\ loaded \in Seq(SUBSET Nat) /\ Len(loaded) \in Nat
      /\ Len(files) \in Nat
  BY JoinFacts
<1>2. n \in 1 .. Len(files) /\ n \in Nat
  BY <1>0, <1>1
<1>3. /\ S \subseteq Nat /\ IsFiniteSet(S)
      /\ \A s \in S : \E j \in DOMAIN files[n].rows :
           Usable(files[n].rows[j]) /\ files[n].rows[j].seq = s
  <2> HIDE DEF n
  <2> QED BY <1>1, <1>2, LoadFacts
<1> HIDE DEF S
<1>4. /\ loaded' \in Seq(SUBSET Nat) /\ Len(loaded') = n
      /\ loaded'[n] = S /\ \A k \in 1 .. Len(loaded) : loaded'[k] = loaded[k]
  <2>1. S \in SUBSET Nat
    BY <1>3
  <2> QED BY <1>0, <1>1, <2>1, AppendProperties
<1>5. JoinTypes'
  <2>1. \A g \in 1 .. Len(loaded') : IsFiniteSet(loaded'[g])
    BY <1>1, <1>3, <1>4 DEF FullJoinInv, JoinTypes
  <2> QED BY <1>0, <1>2, <1>4, <2>1 DEF FullJoinInv, JoinTypes
<1>6. DetectedRight'
  BY <1>0 DEF FullJoinInv, DetectedRight
<1>7. ~Written'
  BY <1>0 DEF FullJoinInv, Phases, Written
<1>8. Ready'
  <2>1. Ready
    BY <1>0 DEF FullJoinInv, Phases
  <2> QED BY <1>0, <2>1 DEF Ready, Chosen
<1>9. Phases'
  BY <1>0, <1>7, <1>8 DEF FullJoinInv, Phases
<1>10. LoadedFromRows'
  <2> SUFFICES ASSUME NEW g \in 1 .. Len(loaded'), NEW s \in loaded'[g]
               PROVE  \E j \in DOMAIN files[g].rows :
                        Usable(files[g].rows[j]) /\ files[g].rows[j].seq = s
    BY <1>0 DEF LoadedFromRows
  <2>1. CASE g = n
    BY <1>3, <1>4, <2>1
  <2>2. CASE g # n
    <3>1. g \in 1 .. Len(loaded)
      BY <1>1, <1>4, <2>2
    <3>2. s \in loaded[g]
      BY <1>4, <3>1
    <3> QED BY <3>1, <3>2 DEF FullJoinInv, LoadedFromRows
  <2> QED BY <2>1, <2>2
<1>11. records' = <<>>
  BY <1>0 DEF FullJoinInv, Phases
<1>12. TableIsJoin'
  BY <1>0, <1>11 DEF FullJoinInv, TableIsJoin
<1>13. CellsFromRows' /\ Covered'
  BY <1>11 DEF CellsFromRows, Covered
<1>14. OutputRight'
  BY <1>7 DEF OutputRight
<1> QED BY <1>5, <1>6, <1>9, <1>10, <1>12, <1>13, <1>14 DEF FullJoinInv

\* qsort and create_record_table: one empty record for each common number.
LEMMA CreateTableStep ==
  ASSUME FullJoinInv, CreateTable
  PROVE  FullJoinInv'
<1> DEFINE C == find_common_sequences
           n == Cardinality(C)
           sorted == qsort(C)
           empty == [c \in Fields |-> Null]
           table == [k \in DOMAIN sorted |-> [seq |-> sorted[k], ts |-> empty]]
<1>0. /\ pc = "load" /\ Len(loaded) = Len(files) /\ records' = table
      /\ pc' = AfterJoin(sorted)
      /\ UNCHANGED <<args, opt, files, types, loaded, filled, line, output, appends>>
  BY DEF CreateTable
<1>1. /\ Ready /\ Len(files) # 0 /\ filled = 0 /\ line = 0 /\ ~Written
      /\ Len(files) \in Nat /\ Len(loaded) \in Nat /\ loaded \in Seq(SUBSET Nat)
  BY <1>0, JoinFacts DEF FullJoinInv, Phases, Ready
<1>2. loaded[1] \subseteq Nat /\ IsFiniteSet(loaded[1]) /\ loaded # <<>>
  <2>1. 1 \in 1 .. Len(loaded)
    BY <1>0, <1>1
  <2>2. loaded[1] \in SUBSET Nat
    BY <1>1, <2>1, ElementOfSeq
  <2> QED BY <2>1, <2>2 DEF FullJoinInv, JoinTypes
<1>3. C \subseteq Nat /\ IsFiniteSet(C)
  <2>1. C \subseteq loaded[1]
    BY DEF find_common_sequences
  <2> QED BY <1>2, <2>1, FS_Subset
<1> HIDE DEF C
<1>4. /\ sorted \in [1 .. n -> C] /\ n \in Nat /\ Rising(sorted)
      /\ \A x \in C : \E k \in 1 .. n : sorted[k] = x
  BY <1>3, QsortRises
<1>5. DOMAIN sorted = 1 .. n
  BY <1>4
<1>6. empty \in [Fields -> Cells] /\ \A c \in Fields : empty[c] = Null
  BY DEF Cells
<1> HIDE DEF sorted, n, empty
<1>7. /\ DOMAIN table = 1 .. n
      /\ \A k \in 1 .. n : table[k] = [seq |-> sorted[k], ts |-> empty]
  BY <1>5
<1>8. \A k \in 1 .. n : table[k].seq = sorted[k] /\ table[k].ts = empty
  BY <1>7
<1>9. table \in [1 .. n -> Records]
  <2>1. \A k \in 1 .. n : [seq |-> sorted[k], ts |-> empty] \in Records
    BY <1>3, <1>4, <1>6 DEF Records
  <2> QED BY <1>5, <2>1
<1> HIDE DEF table
<1>10. table \in Seq(Records) /\ Len(table) = n
  BY <1>4, <1>9, FunctionIsSeq
<1>11. JoinTypes'
  <2>1. pc' \in {"success", "populate"}
    BY <1>0 DEF AfterJoin
  <2> QED BY <1>0, <1>10, <2>1 DEF FullJoinInv, JoinTypes
<1>12. DetectedRight'
  BY <1>0 DEF FullJoinInv, DetectedRight
<1>13. ~Written'
  BY <1>0, <1>1 DEF Written
<1>14. \/ pc' = "success" /\ records' = <<>>
       \/ pc' = "populate" /\ records' # <<>>
  <2>1. Len(sorted) = n
    BY <1>4, FunctionIsSeq
  <2>2. sorted = <<>> <=> n = 0
    <3>1. sorted \in Seq(C)
      BY <1>4, FunctionIsSeq
    <3> QED BY <2>1, <3>1, EmptySeq
  <2>3. table = <<>> <=> n = 0
    BY <1>10, EmptySeq
  <2> QED BY <1>0, <2>2, <2>3 DEF AfterJoin
<1>15. Phases'
  <2>1. Ready'
    BY <1>0, <1>1 DEF Ready, Chosen
  <2>2. 0 <= Len(files[1].rows)
    BY <1>1, JoinFacts, FileFacts
  <2> QED BY <1>0, <1>1, <1>2, <1>13, <1>14, <2>1, <2>2 DEF Phases
<1>16. LoadedFromRows'
  BY <1>0 DEF FullJoinInv, LoadedFromRows
<1>17. TableIsJoin'
  <2>1. Sorted(table)
    <3>1. \A k \in 1 .. n : sorted[k] \in Nat
      BY <1>3, <1>4
    <3>2. \A j, k \in 1 .. n : j < k => sorted[j] < sorted[k]
      BY <1>4, <1>5 DEF Rising
    <3> QED BY <1>4, <1>8, <1>10, <3>1, <3>2 DEF Sorted
  <2>2. {table[k].seq : k \in DOMAIN table} = C
    <3>1. \A k \in DOMAIN table : table[k].seq \in C
      BY <1>4, <1>7, <1>8
    <3>2. \A x \in C : \E k \in DOMAIN table : table[k].seq = x
      BY <1>4, <1>7, <1>8
    <3> QED BY <3>1, <3>2
  <2>3. find_common_sequences' = C
    BY <1>0 DEF find_common_sequences, C
  <2> QED BY <1>0, <2>1, <2>2, <2>3 DEF TableIsJoin
<1>18. CellsFromRows'
  BY <1>0, <1>6, <1>7, <1>8 DEF CellsFromRows
<1>19. Covered'
  <2>1. \A f \in DOMAIN files : \A s : ~ReadRow(f, s)'
    <3> SUFFICES ASSUME NEW f \in 1 .. Len(files), NEW s PROVE ~ReadRow(f, s)'
      BY JoinFacts
    <3> QED BY <1>0, <1>1 DEF ReadRow
  <2> QED BY <1>0, <2>1 DEF Covered
<1>20. OutputRight'
  BY <1>13 DEF OutputRight
<1> QED BY <1>11, <1>12, <1>15, <1>16, <1>17, <1>18, <1>19, <1>20 DEF FullJoinInv

-----------------------------------------------------------------------------
(* Filling the table *)

\* A row is that of this number, and has a cell of that column.
GivesCell(type, row, seq, c, cell) ==
  /\ Usable(row) /\ row.seq = seq
  /\ \E p \in DOMAIN get_csv_header(type) :
       /\ get_csv_header(type)[p] = c /\ p <= Len(row.cells) /\ row.cells[p] = cell

\* The cell of a column of the file is in the row, if the row is long enough.
LEMMA CellOfColumn ==
  ASSUME NEW type \in CsvTypes, NEW row \in Rows, NEW c \in ToSet(get_csv_header(type)),
         Len(row.cells) >= Len(get_csv_header(type))
  PROVE  LET names == get_csv_header(type)
             p     == CHOOSE j \in DOMAIN names : names[j] = c
         IN  /\ p \in DOMAIN names /\ names[p] = c /\ p \in 1 .. Len(row.cells)
             /\ p <= Len(row.cells) /\ row.cells[p] \in Cells
             /\ row.cells[p] \in ToSet(row.cells)
<1> DEFINE names == get_csv_header(type)
           p     == CHOOSE j \in DOMAIN names : names[j] = c
           cells == row.cells
<1>1. Len(names) \in Nat /\ DOMAIN names = 1 .. Len(names)
  BY HeaderNames
<1>2. cells \in Seq(Cells)
  BY DEF Rows
<1>3. p \in DOMAIN names /\ names[p] = c
  <2>1. \E j \in DOMAIN names : names[j] = c
    BY DEF ToSet
  <2> QED BY <2>1
<1> HIDE DEF p, names, cells
<1>4. Len(cells) \in Nat /\ DOMAIN cells = 1 .. Len(cells)
  BY <1>2, LenProperties
<1>5. Len(cells) >= Len(names)
  BY DEF cells, names
<1>6. p \in 1 .. Len(cells) /\ p <= Len(cells)
  BY <1>1, <1>3, <1>4, <1>5
<1>7. cells[p] \in Cells
  BY <1>2, <1>6, ElementOfSeq
<1>8. cells[p] \in ToSet(cells)
  BY <1>4, <1>6 DEF ToSet
<1> QED BY <1>3, <1>6, <1>7, <1>8 DEF p, names, cells

\* One row of a file changes at most the record of its number.
LEMMA PopulatedFacts ==
  ASSUME NEW table \in Seq(Records), Sorted(table), NEW type \in CsvTypes, NEW row \in Rows
  PROVE  LET new == Populated(table, type, row) IN
         /\ new \in Seq(Records) /\ Len(new) = Len(table)
         /\ \A k \in 1 .. Len(table) : new[k].seq = table[k].seq
         /\ \A k \in 1 .. Len(table) : \A c \in Fields :
              \/ new[k].ts[c] = table[k].ts[c]
              \/ GivesCell(type, row, table[k].seq, c, new[k].ts[c])
         /\ \A k \in 1 .. Len(table) :
              (/\ Usable(row) /\ row.seq = table[k].seq
               /\ Len(row.cells) >= Len(get_csv_header(type)))
              => \A c \in ToSet(get_csv_header(type)) : new[k].ts[c] \in ToSet(row.cells)
<1> DEFINE names == get_csv_header(type)
           new   == Populated(table, type, row)
           n     == Len(table)
           i     == find_record_by_seq(table, row.seq)
           m     == IF Usable(row) THEN i ELSE 0
           P(c)  == CHOOSE j \in DOMAIN names : names[j] = c
           cellAt(c) == IF c \in ToSet(names) THEN row.cells[P(c)] ELSE table[m].ts[c]
           times == [c \in Fields |-> cellAt(c)]
<1>0. n \in Nat /\ DOMAIN table = 1 .. n
  BY LenProperties
<1>1. FieldsOf(type) = names
  BY FieldsAreHeader
<1>2. Len(names) \in Nat /\ Len(row.cells) \in Nat
  <2>1. row.cells \in Seq(Cells)
    BY DEF Rows
  <2> QED BY <2>1, HeaderNames, LenProperties
<1>3. ToSet(names) \subseteq Fields
  BY FieldsAre
<1>4. row.seq \in Int
  BY DEF Rows, Invalid
<1>5. \/ i \in 1 .. n /\ table[i].seq = row.seq
      \/ i = 0 /\ \A k \in 1 .. n : table[k].seq # row.seq
  BY <1>4, SearchFinds DEF FoundBetween
<1>6. new = IF m = 0 \/ Len(row.cells) < Len(names) THEN table
            ELSE [table EXCEPT ![m].ts = times]
  BY <1>1 DEF Populated
<1>7. \A k \in 1 .. n : table[k] \in Records
  BY ElementOfSeq
<1> HIDE DEF i
<1>8. CASE m = 0 \/ Len(row.cells) < Len(names)
  <2>1. new = table
    BY <1>6, <1>8
  <2>2. ASSUME NEW k \in 1 .. n, Usable(row), row.seq = table[k].seq,
               Len(row.cells) >= Len(names)
        PROVE  FALSE
    <3>1. m = 0
      BY <1>2, <1>8, <2>2
    <3>2. i = 0
      BY <2>2, <3>1
    <3> QED BY <1>5, <2>2, <3>2
  <2> HIDE DEF new
  <2> QED BY <2>1, <2>2 DEF new
<1>9. CASE ~(m = 0 \/ Len(row.cells) < Len(names))
  <2>0. Usable(row) /\ m = i /\ m \in 1 .. n /\ table[m].seq = row.seq
        /\ Len(row.cells) >= Len(names)
    BY <1>2, <1>5, <1>9
  <2>1. ASSUME NEW c \in ToSet(names)
        PROVE  /\ P(c) \in DOMAIN names /\ names[P(c)] = c /\ P(c) <= Len(row.cells)
               /\ row.cells[P(c)] \in Cells /\ row.cells[P(c)] \in ToSet(row.cells)
    BY <2>0, <2>1, CellOfColumn
  <2> HIDE DEF m, P
  <2>2. table[m] \in Records /\ table[m].ts \in [Fields -> Cells] /\ table[m].seq \in Nat
    <3>1. table[m] \in Records
      BY <1>7, <2>0
    <3> QED BY <3>1 DEF Records
  <2>3. \A c \in Fields : cellAt(c) \in Cells
    BY <2>1, <2>2
  <2>4. times \in [Fields -> Cells] /\ \A c \in Fields : times[c] = cellAt(c)
    BY <2>3
  <2> DEFINE rec == [table[m] EXCEPT !.ts = times]
  <2>5. rec \in Records /\ rec.seq = table[m].seq /\ rec.ts = times
    <3> HIDE DEF times
    <3> QED BY <2>2, <2>4 DEF Records
  <2>6. new = [table EXCEPT ![m] = rec]
    BY <1>6, <1>9
  <2> HIDE DEF rec, new, times
  <2>7. new \in Seq(Records) /\ Len(new) = n
    BY <1>0, <2>0, <2>5, <2>6, ExceptSeq
  <2>8. new[m] = rec /\ \A k \in 1 .. n : k # m => new[k] = table[k]
    BY <1>0, <2>0, <2>6
  <2>9. \A k \in 1 .. n : new[k].seq = table[k].seq
    BY <2>5, <2>8
  <2>10. ASSUME NEW k \in 1 .. n, NEW c \in Fields
         PROVE  \/ new[k].ts[c] = table[k].ts[c]
                \/ GivesCell(type, row, table[k].seq, c, new[k].ts[c])
    <3>1. CASE k # m
      BY <2>8, <3>1
    <3>2. CASE k = m /\ c \notin ToSet(names)
      BY <2>4, <2>5, <2>8, <3>2
    <3>3. CASE k = m /\ c \in ToSet(names)
      <4>1. new[k].ts[c] = row.cells[P(c)]
        BY <2>4, <2>5, <2>8, <3>3
      <4>2. P(c) \in DOMAIN names /\ names[P(c)] = c /\ P(c) <= Len(row.cells)
        BY <2>1, <3>3
      <4> QED BY <2>0, <3>3, <4>1, <4>2 DEF GivesCell
    <3> QED BY <3>1, <3>2, <3>3
  <2>11. ASSUME NEW k \in 1 .. n, row.seq = table[k].seq, NEW c \in ToSet(names)
         PROVE  new[k].ts[c] \in ToSet(row.cells)
    <3>1. k = m
      <4> DEFINE v(j) == table[j].seq
      <4>1. \A j \in 1 .. n : v(j) \in Nat
        BY DEF Sorted
      <4>2. \A a, b \in 1 .. n : a < b => v(a) < v(b)
        BY DEF Sorted
      <4>3. v(k) = v(m)
        BY <2>0, <2>11
      <4> HIDE DEF v
      <4> QED BY <1>0, <2>0, <4>1, <4>2, <4>3
    <3>2. new[k].ts[c] = row.cells[P(c)]
      BY <1>3, <2>4, <2>5, <2>8, <3>1
    <3> QED BY <2>1, <3>2
  <2> QED BY <2>7, <2>9, <2>10, <2>11 DEF new
<1> QED BY <1>8, <1>9

\* populate_timestamps_from_file reads a row.
LEMMA PopulateRowStep ==
  ASSUME FullJoinInv, PopulateRow
  PROVE  FullJoinInv'
<1> DEFINE g    == filled + 1
           R    == files[g].rows
           row  == R[line + 1]
           type == types[g]
<1>0. /\ pc = "populate" /\ line < Len(R) /\ records' = Populated(records, type, row)
      /\ line' = line + 1
      /\ UNCHANGED <<args, opt, files, pc, types, loaded, filled, output, appends>>
  BY DEF PopulateRow
<1>1. /\ Ready /\ filled < Len(files) /\ records # <<>> /\ ~Written
      /\ Len(loaded) = Len(files) /\ filled \in Nat /\ line \in Nat /\ Len(files) \in Nat
      /\ files \in Seq(InputFiles) /\ records \in Seq(Records) /\ Sorted(records)
  BY <1>0, JoinFacts DEF FullJoinInv, Phases, TableIsJoin
<1>2. g \in 1 .. Len(files) /\ g \in DOMAIN files /\ g \in Nat /\ g = filled + 1
  BY <1>1, JoinFacts
<1> HIDE DEF g
<1>3. Len(R) \in Nat /\ DOMAIN R = 1 .. Len(R) /\ \A j \in DOMAIN R : R[j] \in Rows
  BY <1>1, <1>2, FileFacts
<1> HIDE DEF R
<1>4. line + 1 \in DOMAIN R /\ row \in Rows /\ row \in ToSet(R)
  <2>1. line + 1 \in DOMAIN R
    BY <1>0, <1>1, <1>3
  <2> QED BY <1>3, <2>1 DEF ToSet
<1>5. type \in CsvTypes /\ type = files[g].type
  <2>1. g \in 1 .. Len(types) /\ g \in DOMAIN types
    BY <1>1, <1>2, JoinFacts DEF Ready
  <2> QED BY <1>1, <2>1 DEF Ready, FullJoinInv, DetectedRight
<1> HIDE DEF row, type
<1>6. /\ records' \in Seq(Records) /\ Len(records') = Len(records)
      /\ \A k \in 1 .. Len(records) : records'[k].seq = records[k].seq
      /\ \A k \in 1 .. Len(records) : \A c \in Fields :
           \/ records'[k].ts[c] = records[k].ts[c]
           \/ GivesCell(type, row, records[k].seq, c, records'[k].ts[c])
      /\ \A k \in 1 .. Len(records) :
           (/\ Usable(row) /\ row.seq = records[k].seq
            /\ Len(row.cells) >= Len(get_csv_header(type)))
           => \A c \in ToSet(get_csv_header(type)) : records'[k].ts[c] \in ToSet(row.cells)
  BY <1>0, <1>1, <1>4, <1>5, PopulatedFacts
<1>7. /\ Len(records) \in Nat /\ DOMAIN records = 1 .. Len(records)
      /\ DOMAIN records' = 1 .. Len(records)
  BY <1>1, <1>6, LenProperties
<1>8. JoinTypes'
  BY <1>0, <1>1, <1>6 DEF FullJoinInv, JoinTypes
<1>9. DetectedRight'
  BY <1>0 DEF FullJoinInv, DetectedRight
<1>10. ~Written'
  BY <1>0, <1>1 DEF Written
<1>11. Phases'
  <2>1. Ready'
    BY <1>0, <1>1 DEF Ready, Chosen
  <2>2. records' # <<>>
    <3>1. Len(records) # 0
      BY <1>1, EmptySeq
    <3> QED BY <1>6, <3>1
  <2>3. line' <= Len(R)
    BY <1>0, <1>1, <1>3
  <2>4. line' <= Len(files'[filled' + 1].rows)
    BY <1>0, <1>2, <2>3 DEF R
  <2> QED BY <1>0, <1>1, <1>10, <2>1, <2>2, <2>4 DEF Phases
<1>12. LoadedFromRows'
  BY <1>0 DEF FullJoinInv, LoadedFromRows
<1>13. TableIsJoin'
  <2>1. Sorted(records')
    BY <1>1, <1>6, <1>7 DEF Sorted
  <2>2. {records'[k].seq : k \in DOMAIN records'} = {records[k].seq : k \in DOMAIN records}
    BY <1>6, <1>7
  <2>3. {records[k].seq : k \in DOMAIN records} = find_common_sequences
    BY <1>1 DEF FullJoinInv, TableIsJoin
  <2>4. find_common_sequences' = find_common_sequences
    BY <1>0 DEF find_common_sequences
  <2> QED BY <2>1, <2>2, <2>3, <2>4 DEF TableIsJoin
<1>14. CellsFromRows'
  <2>1. \A s, c, cell : InSomeRow(s, c, cell)' <=> InSomeRow(s, c, cell)
    BY <1>0 DEF InSomeRow
  <2> SUFFICES ASSUME NEW k \in 1 .. Len(records), NEW c \in Fields, records'[k].ts[c] # Null
               PROVE  InSomeRow(records[k].seq, c, records'[k].ts[c])
    BY <1>6, <1>7, <2>1 DEF CellsFromRows
  <2>2. CASE records'[k].ts[c] = records[k].ts[c]
    BY <1>7, <2>2 DEF FullJoinInv, CellsFromRows
  <2>3. CASE GivesCell(type, row, records[k].seq, c, records'[k].ts[c])
    BY <1>2, <1>4, <1>5, <2>3 DEF GivesCell, InSomeRow, R
  <2> QED BY <1>6, <2>2, <2>3
<1>15. Covered'
  <2>1. \A s : Whole(s)' <=> Whole(s)
    BY <1>0, Zenon DEF Whole
  <2> SUFFICES ASSUME NEW k \in 1 .. Len(records), Whole(records[k].seq),
                      NEW f \in DOMAIN files, ReadRow(f, records[k].seq)',
                      NEW c \in ToSet(get_csv_header(files[f].type))
               PROVE  records'[k].ts[c] # Null
    BY <1>0, <1>6, <1>7, <2>1 DEF Covered
  <2> DEFINE s == records[k].seq
  <2>2. ASSUME Usable(row), row.seq = s
        PROVE  Len(row.cells) = Len(get_csv_header(type)) /\ Null \notin ToSet(row.cells)
    BY <1>2, <1>4, <1>5, <2>2 DEF Whole, R
  <2>3. c \in Fields
    <3>1. files[f].type \in CsvTypes
      <4>1. f \in 1 .. Len(types) /\ f \in DOMAIN types
        BY <1>1, JoinFacts DEF Ready
      <4> QED BY <1>1, <4>1 DEF Ready, FullJoinInv, DetectedRight
    <3> QED BY <3>1, FieldsAre
  <2>4. CASE ReadRow(f, s)
    <3>1. records[k].ts[c] # Null
      BY <1>7, <2>4 DEF FullJoinInv, Covered
    <3>2. CASE records'[k].ts[c] = records[k].ts[c]
      BY <3>1, <3>2
    <3>3. CASE GivesCell(type, row, s, c, records'[k].ts[c])
      <4>1. Null \notin ToSet(row.cells) /\ Len(row.cells) = Len(get_csv_header(type))
        BY <2>2, <3>3 DEF GivesCell
      <4>2. PICK p \in DOMAIN get_csv_header(type) :
              p <= Len(row.cells) /\ row.cells[p] = records'[k].ts[c]
        BY <3>3 DEF GivesCell
      <4>3. row.cells \in Seq(Cells)
        BY <1>4 DEF Rows
      <4>4. row.cells[p] \in ToSet(row.cells)
        <5> DEFINE cells == row.cells
        <5> HIDE DEF cells
        <5>1. Len(cells) \in Nat /\ DOMAIN cells = 1 .. Len(cells)
          BY <4>3, LenProperties DEF cells
        <5>2. p \in 1 .. Len(cells)
          BY <1>5, <4>1, <4>2, HeaderNames DEF cells
        <5>3. cells[p] \in ToSet(cells)
          BY <5>1, <5>2 DEF ToSet
        <5> QED BY <5>3 DEF cells
      <4> QED BY <4>1, <4>2, <4>4
    <3> QED BY <1>6, <2>3, <3>2, <3>3
  <2>5. CASE ~ReadRow(f, s)
    <3>1. ~(f <= filled)
      BY <2>5 DEF ReadRow
    <3>2. f = g
      BY <1>0, <1>2, <3>1 DEF ReadRow
    <3>3. PICK j \in 1 .. line + 1 : /\ j \in DOMAIN R /\ Usable(R[j]) /\ R[j].seq = s
      <4>1. \E j \in 1 .. line' : /\ j \in DOMAIN files'[f].rows
                                 /\ Usable(files'[f].rows[j]) /\ files'[f].rows[j].seq = s
        BY <1>0, <1>6, <3>1 DEF ReadRow
      <4>2. line' = line + 1 /\ files'[f].rows = R
        BY <1>0, <3>2 DEF R
      <4> QED BY <4>1, <4>2
    <3>4. j = line + 1
      <4>1. j \notin 1 .. line
        BY <1>2, <2>5, <3>2, <3>3 DEF ReadRow, R
      <4> QED BY <1>1, <3>3, <4>1
    <3>5. Usable(row) /\ row.seq = s
      BY <3>3, <3>4 DEF row
    <3>6. Null \notin ToSet(row.cells) /\ Len(row.cells) >= Len(get_csv_header(type))
      BY <1>5, <2>2, <3>5, HeaderNames
    <3>7. records'[k].ts[c] \in ToSet(row.cells)
      BY <1>5, <1>6, <3>2, <3>5, <3>6
    <3> QED BY <3>6, <3>7
  <2> QED BY <2>4, <2>5
<1>16. OutputRight'
  BY <1>10 DEF OutputRight
<1> QED BY <1>8, <1>9, <1>11, <1>12, <1>13, <1>14, <1>15, <1>16 DEF FullJoinInv

\* The end of a file: each number of the table was in one of its rows.
LEMMA PopulateNextStep ==
  ASSUME FullJoinInv, PopulateNext
  PROVE  FullJoinInv'
<1> DEFINE g == filled + 1
           R == files[g].rows
<1>0. /\ pc = "populate" /\ line = Len(R) /\ filled' = g /\ line' = 0
      /\ pc' = IF g = Len(files) THEN "write" ELSE "populate"
      /\ UNCHANGED <<args, opt, files, types, loaded, records, output, appends>>
  BY DEF PopulateNext
<1>1. /\ Ready /\ filled < Len(files) /\ records # <<>> /\ ~Written
      /\ Len(loaded) = Len(files) /\ filled \in Nat /\ line \in Nat /\ Len(files) \in Nat
      /\ files \in Seq(InputFiles) /\ DOMAIN files = 1 .. Len(files)
  BY <1>0, JoinFacts DEF FullJoinInv, Phases
<1>2. g \in 1 .. Len(files) /\ g \in DOMAIN files /\ g \in 0 .. Len(files)
  BY <1>1
<1>3. Len(R) \in Nat /\ DOMAIN R = 1 .. Len(R)
  BY <1>1, <1>2, FileFacts
<1>4. JoinTypes'
  BY <1>0, <1>2 DEF FullJoinInv, JoinTypes
<1>5. DetectedRight'
  BY <1>0 DEF FullJoinInv, DetectedRight
<1>6. ~Written'
  BY <1>0, <1>1 DEF Written
<1>7. Phases'
  <2>1. Ready'
    BY <1>0, <1>1 DEF Ready, Chosen
  <2>2. pc' = "populate" => g < Len(files) /\ 0 <= Len(files[g + 1].rows)
    <3> SUFFICES ASSUME pc' = "populate" PROVE g < Len(files) /\ 0 <= Len(files[g + 1].rows)
      OBVIOUS
    <3>1. g < Len(files)
      BY <1>0, <1>1
    <3>2. g + 1 \in 1 .. Len(files)
      BY <1>1, <3>1
    <3> QED BY <1>1, <3>1, <3>2, FileFacts
  <2>3. pc' \in {"populate", "write"} /\ (pc' = "write" => g = Len(files))
    BY <1>0
  <2> HIDE DEF g
  <2> QED BY <1>0, <1>1, <1>6, <2>1, <2>2, <2>3 DEF Phases
<1>8. LoadedFromRows'
  BY <1>0 DEF FullJoinInv, LoadedFromRows
<1>9. TableIsJoin'
  <2>1. find_common_sequences' = find_common_sequences
    BY <1>0 DEF find_common_sequences
  <2> QED BY <1>0, <1>1, <2>1 DEF FullJoinInv, TableIsJoin
<1>10. CellsFromRows'
  <2>1. \A s, c, cell : InSomeRow(s, c, cell)' <=> InSomeRow(s, c, cell)
    BY <1>0 DEF InSomeRow
  <2> QED BY <1>0, <2>1 DEF FullJoinInv, CellsFromRows
<1>11. ASSUME NEW k \in DOMAIN records, NEW f \in DOMAIN files, ReadRow(f, records[k].seq)'
       PROVE  ReadRow(f, records[k].seq)
  <2>1. f <= g
    BY <1>0, <1>11 DEF ReadRow
  <2>2. CASE f <= filled
    BY <2>2 DEF ReadRow
  <2>3. CASE ~(f <= filled)
    <3>1. f = g
      BY <1>1, <2>1, <2>3
    <3>2. records[k].seq \in find_common_sequences
      BY <1>1 DEF FullJoinInv, TableIsJoin
    <3>3. records[k].seq \in loaded[g] /\ g \in 1 .. Len(loaded)
      <4>1. g = 1 \/ g \in 2 .. Len(loaded)
        BY <1>1, <1>2
      <4> QED BY <1>1, <1>2, <3>2, <4>1 DEF find_common_sequences
    <3>4. PICK j \in DOMAIN R : Usable(R[j]) /\ R[j].seq = records[k].seq
      BY <3>3 DEF FullJoinInv, LoadedFromRows
    <3>5. j \in 1 .. line
      BY <1>0, <1>3, <3>4
    <3> QED BY <3>1, <3>4, <3>5 DEF ReadRow
  <2> QED BY <2>2, <2>3
<1>12. Covered'
  <2>1. \A s : Whole(s)' <=> Whole(s)
    BY <1>0, Zenon DEF Whole
  <2>2. Covered
    BY DEF FullJoinInv
  <2> QED BY <1>0, <1>11, <2>1, <2>2 DEF Covered
<1>13. OutputRight'
  BY <1>6 DEF OutputRight
<1> QED BY <1>4, <1>5, <1>7, <1>8, <1>9, <1>10, <1>12, <1>13 DEF FullJoinInv

\* write_output_csv.
LEMMA WriteStep ==
  ASSUME FullJoinInv, Write
  PROVE  FullJoinInv'
<1>0. /\ pc = "write" /\ pc' = "success"
      /\ output' = [fresh |-> TRUE,
                    rows |-> [k \in DOMAIN records |-> format_output_record(records[k])]]
      /\ UNCHANGED <<args, opt, files, types, loaded, records, filled, line, appends>>
  BY DEF Write
<1>1. /\ Ready /\ records # <<>> /\ Len(loaded) = Len(files) /\ filled = Len(files)
      /\ loaded # <<>> /\ line = 0
  BY <1>0 DEF FullJoinInv, Phases, Ready
<1>2. JoinTypes'
  BY <1>0 DEF FullJoinInv, JoinTypes
<1>3. DetectedRight'
  BY <1>0 DEF FullJoinInv, DetectedRight
<1>4. Written' /\ output'.rows = [k \in DOMAIN records |-> format_output_record(records[k])]
  BY <1>0 DEF Written
<1>5. Phases'
  <2>1. Ready'
    BY <1>0, <1>1 DEF Ready, Chosen
  <2> QED BY <1>0, <1>1, <1>4, <2>1 DEF Phases
<1>6. /\ LoadedFromRows' /\ CellsFromRows' /\ Covered' /\ Sorted(records)'
      /\ find_common_sequences' = find_common_sequences
  BY <1>0, KeepTable
<1>7. TableIsJoin'
  BY <1>0, <1>1, <1>6 DEF FullJoinInv, TableIsJoin
<1>8. OutputRight'
  BY <1>0, <1>4 DEF OutputRight, format_output_record, Deltas
<1> QED BY <1>2, <1>3, <1>5, <1>6, <1>7, <1>8 DEF FullJoinInv

\* The beginning.
LEMMA JoinStart ==
  ASSUME JoinInit
  PROVE  FullJoinInv
<1>0. /\ opt = NoOptions /\ pc = "options" /\ types = <<>> /\ loaded = <<>>
      /\ records = <<>> /\ filled = 0 /\ line = 0
      /\ output = [fresh |-> FALSE, rows |-> <<>>] /\ appends = 0
  BY DEF JoinInit
<1>1. files \in Seq(InputFiles)
  BY JoinAssumption DEF JoinInit
<1>2. opt \in Options
  BY <1>0 DEF Options, NoOptions, None
<1>3. ~Written
  BY <1>0 DEF Written
<1>4. JoinTypes
  <2>1. Len(files) \in Nat
    BY <1>1, LenProperties
  <2>2. /\ types \in Seq(CsvTypes \cup {"UNKNOWN"}) /\ loaded \in Seq(SUBSET Nat)
        /\ records \in Seq(Records) /\ Len(loaded) = 0
    BY <1>0
  <2> QED BY <1>0, <1>1, <1>2, <2>1, <2>2, JoinAssumption DEF JoinTypes
<1>5. DetectedRight /\ LoadedFromRows /\ CellsFromRows /\ Covered
  BY <1>0 DEF DetectedRight, LoadedFromRows, CellsFromRows, Covered
<1>6. Phases
  BY <1>0, <1>3 DEF Phases
<1>7. TableIsJoin
  BY <1>0 DEF TableIsJoin, Sorted
<1>8. OutputRight
  BY <1>3 DEF OutputRight
<1> QED BY <1>4, <1>5, <1>6, <1>7, <1>8 DEF FullJoinInv

\* The inductive invariant of the join: what is loaded is still in the files,
\* the table has the common numbers in order, and each of its cells is from a
\* row of that number and column.
THEOREM JoinInvariant == JoinSpec => []FullJoinInv
<1>1. JoinInit => FullJoinInv
  BY JoinStart
<1>2. FullJoinInv /\ [JoinNext]_joinVars => FullJoinInv'
  <2> SUFFICES ASSUME FullJoinInv, [JoinNext]_joinVars PROVE FullJoinInv'
    OBVIOUS
  <2>1. CASE UNCHANGED joinVars
    BY <2>1, JoinStutter
  <2>2. CASE ParseOption
    BY <2>2, ParseOptionStep
  <2>3. CASE ParseDone
    BY <2>3, ParseDoneStep
  <2>4. CASE validate_file_combination
    BY <2>4, ValidateStep
  <2>5. CASE OpenFails
    BY <2>5, OpenFailsStep
  <2>6. ASSUME NEW f \in 1 .. 4, AppendRow(f) PROVE FullJoinInv'
    BY <2>6, AppendRowStep
  <2>7. CASE Load
    BY <2>7, LoadStep
  <2>8. CASE CreateTable
    BY <2>8, CreateTableStep
  <2>9. CASE PopulateRow
    BY <2>9, PopulateRowStep
  <2>10. CASE PopulateNext
    BY <2>10, PopulateNextStep
  <2>11. CASE Write
    BY <2>11, WriteStep
  <2>12. CASE JoinDone
    BY <2>12, JoinStutter DEF JoinDone
  <2> QED
    BY <2>1, <2>2, <2>3, <2>4, <2>5, <2>6, <2>7, <2>8, <2>9, <2>10, <2>11, <2>12 DEF JoinNext
<1> QED BY <1>1, <1>2, PTL DEF JoinSpec

-----------------------------------------------------------------------------
(* What the invariant says of the output *)

\* One row for each number that was in all files, in rising order.
LEMMA OutputOnce ==
  ASSUME FullJoinInv
  PROVE  OutputIsJoin
<1> SUFFICES ASSUME pc = "success", opt.files, Len(loaded) > 0 PROVE OutputIsJoin
  BY DEF OutputIsJoin
<1> DEFINE common == {s \in UNION ToSet(loaded) : \A f \in DOMAIN loaded : s \in loaded[f]}
           seqs == {records[k].seq : k \in DOMAIN records}
<1>0. /\ Len(loaded) \in Nat /\ DOMAIN loaded = 1 .. Len(loaded)
      /\ DOMAIN records = 1 .. Len(records) /\ Len(records) \in Nat /\ records \in Seq(Records)
  BY JoinFacts
<1>1. 1 \in DOMAIN loaded /\ loaded # <<>>
  BY <1>0
<1>2. common = find_common_sequences
  <2>1. ASSUME NEW s \in common PROVE s \in find_common_sequences
    <3>1. \A f \in 1 .. Len(loaded) : s \in loaded[f]
      BY <1>0, <2>1
    <3>2. s \in loaded[1] /\ \A f \in 2 .. Len(loaded) : s \in loaded[f]
      BY <1>0, <1>1, <3>1
    <3> QED BY <3>2 DEF find_common_sequences
  <2>2. ASSUME NEW s \in find_common_sequences PROVE s \in common
    <3>1. s \in loaded[1] /\ \A f \in 2 .. Len(loaded) : s \in loaded[f]
      BY DEF find_common_sequences
    <3>2. \A f \in DOMAIN loaded : s \in loaded[f]
      <4> SUFFICES ASSUME NEW f \in 1 .. Len(loaded) PROVE s \in loaded[f]
        BY <1>0
      <4>1. f = 1 \/ f \in 2 .. Len(loaded)
        BY <1>0
      <4> QED BY <3>1, <4>1
    <3>3. s \in UNION ToSet(loaded)
      BY <1>1, <3>1 DEF ToSet
    <3> QED BY <3>2, <3>3
  <2> QED BY <2>1, <2>2
<1>3. seqs = common
  BY <1>1, <1>2 DEF FullJoinInv, TableIsJoin
<1> HIDE DEF common
<1>4. Written <=> records # <<>>
  BY <1>1 DEF FullJoinInv, Phases
<1>5. records # <<>> <=> common # {}
  <2>1. records # <<>> <=> Len(records) # 0
    BY <1>0, EmptySeq
  <2>2. Len(records) # 0 <=> seqs # {}
    <3>1. Len(records) # 0 => 1 \in DOMAIN records
      BY <1>0
    <3>2. seqs # {} => Len(records) # 0
      BY <1>0
    <3> QED BY <3>1, <3>2
  <2> QED BY <1>3, <2>1, <2>2
<1>6. ASSUME Written
      PROVE  /\ {output.rows[k].seq : k \in DOMAIN output.rows} = common
             /\ \A j, k \in DOMAIN output.rows :
                  j < k => output.rows[j].seq < output.rows[k].seq
  <2>1. output.rows = [k \in DOMAIN records |-> format_output_record(records[k])]
    BY <1>6 DEF FullJoinInv, OutputRight
  <2>2. /\ DOMAIN output.rows = DOMAIN records
        /\ \A k \in DOMAIN records : output.rows[k].seq = records[k].seq
    BY <2>1 DEF format_output_record
  <2>3. {output.rows[k].seq : k \in DOMAIN output.rows} = seqs
    BY <2>2
  <2>4. \A j, k \in 1 .. Len(records) : j < k => records[j].seq < records[k].seq
    BY DEF FullJoinInv, TableIsJoin, Sorted
  <2> QED BY <1>0, <1>3, <2>2, <2>3, <2>4
<1> QED BY <1>4, <1>5, <1>6 DEF OutputIsJoin, common

\* The phases of the program fit together, the files are taken for what they
\* are, and the output has one row for each number all the files had.
THEOREM JoinPhases == JoinSpec => []JoinInv
<1>1. ASSUME FullJoinInv PROVE JoinInv
  <2>1. JoinTypeOK
    <3>1. opt.mode \in {None, "oneway", "roundtrip"} /\ opt.target \in {None, "client", "server", "both"}
      BY <1>1 DEF FullJoinInv, JoinTypes, Options
    <3> QED BY <1>1, <3>1 DEF FullJoinInv, JoinTypes, Phases, JoinTypeOK
  <2>2. DetectedRight
    BY <1>1 DEF FullJoinInv
  <2> QED BY <1>1, <2>1, <2>2, OutputOnce DEF JoinInv
<1> QED BY <1>1, JoinInvariant, PTL

\* The tables of all modes and targets.
LEMMA AllTables ==
  ASSUME Chosen
  PROVE  TablesFit(get_output_header(opt.mode, opt.target), PrintedFields(opt.mode, opt.target),
                   get_mode_delta_config(opt.mode, opt.target))
<1>1. CASE opt.mode = "oneway" /\ opt.target = "client"
  BY <1>1, OneWayClientTables
<1>2. CASE opt.mode = "oneway" /\ opt.target = "server"
  BY <1>2, OneWayServerTables
<1>3. CASE opt.mode = "oneway" /\ opt.target = "both"
  BY <1>3, OneWayBothTables
<1>4. CASE opt.mode = "roundtrip" /\ opt.target = "client"
  BY <1>4, RoundTripClientTables
<1>5. CASE opt.mode = "roundtrip" /\ opt.target = "server"
  BY <1>5, RoundTripServerTables
<1>6. CASE opt.mode = "roundtrip" /\ opt.target = "both"
  BY <1>6, RoundTripBothTables
<1> QED BY <1>1, <1>2, <1>3, <1>4, <1>5, <1>6 DEF Chosen

\* A row of the output, cell by cell.
LEMMA OutputRow ==
  ASSUME FullJoinInv, Written, NEW k \in DOMAIN output.rows
  PROVE  LET header  == get_output_header(opt.mode, opt.target)
             printed == PrintedFields(opt.mode, opt.target)
             ids     == get_mode_delta_config(opt.mode, opt.target)
             cells   == output.rows[k].cells
         IN  /\ Chosen /\ k \in DOMAIN records /\ output.rows[k].seq = records[k].seq
             /\ records[k].ts \in [Fields -> Cells]
             /\ Len(cells) = Len(header)
             /\ \A c \in 1 .. Len(printed) : cells[c] = records[k].ts[printed[c]]
             /\ \A j \in 1 .. Len(ids) :
                  cells[Len(printed) + j] =
                    calculate_delta_fast(
                      parse_timestamp_ns(records[k].ts[Delta[ids[j] + 1][1]]),
                      parse_timestamp_ns(records[k].ts[Delta[ids[j] + 1][2]]))
<1> DEFINE header  == get_output_header(opt.mode, opt.target)
           printed == PrintedFields(opt.mode, opt.target)
           ids     == get_mode_delta_config(opt.mode, opt.target)
           rec     == records[k]
           delta(j) == calculate_delta_fast(parse_timestamp_ns(rec.ts[Delta[ids[j] + 1][1]]),
                                            parse_timestamp_ns(rec.ts[Delta[ids[j] + 1][2]]))
           first   == [c \in DOMAIN printed |-> rec.ts[printed[c]]]
           second  == [j \in DOMAIN ids |-> delta(j)]
<1>1. Ready /\ Chosen
  BY DEF FullJoinInv, Phases, Ready
<1>2. output.rows = [i \in DOMAIN records |-> format_output_record(records[i])]
  BY DEF FullJoinInv, OutputRight
<1>3. k \in DOMAIN records /\ output.rows[k] = format_output_record(rec)
  BY <1>2
<1>4. second = Deltas(rec)
  BY DEF Deltas
<1>5. output.rows[k].seq = rec.seq /\ output.rows[k].cells = first \o second
  <2>1. format_output_record(rec) = [seq |-> rec.seq, cells |-> first \o Deltas(rec)]
    BY DEF format_output_record
  <2> HIDE DEF first, second, rec
  <2> QED BY <1>3, <1>4, <2>1
<1>6. rec.ts \in [Fields -> Cells]
  <2>1. rec \in Records
    BY <1>3, JoinFacts, ElementOfSeq
  <2> QED BY <2>1 DEF Records
<1>7. /\ Len(printed) \in Nat /\ Len(ids) \in Nat /\ Len(header) = Len(printed) + Len(ids)
      /\ DOMAIN printed = 1 .. Len(printed) /\ DOMAIN ids = 1 .. Len(ids)
  BY <1>1, AllTables, Zenon DEF TablesFit
<1> HIDE DEF printed, ids, header, rec, delta
<1>8. /\ first \in [1 .. Len(printed) -> {rec.ts[printed[c]] : c \in 1 .. Len(printed)}]
      /\ second \in [1 .. Len(ids) -> {delta(j) : j \in 1 .. Len(ids)}]
  BY <1>7
<1>9. /\ \A c \in 1 .. Len(printed) : first[c] = rec.ts[printed[c]]
      /\ \A j \in 1 .. Len(ids) : second[j] = delta(j)
  BY <1>7
<1> DEFINE V == {rec.ts[printed[c]] : c \in 1 .. Len(printed)} \cup {delta(j) : j \in 1 .. Len(ids)}
<1>10. first \in [1 .. Len(printed) -> V] /\ second \in [1 .. Len(ids) -> V]
  BY <1>8
<1> HIDE DEF first, second, V
<1>11. /\ first \in Seq(V) /\ Len(first) = Len(printed)
       /\ second \in Seq(V) /\ Len(second) = Len(ids)
  BY <1>7, <1>10, FunctionIsSeq
<1>12. /\ Len(first \o second) = Len(printed) + Len(ids)
       /\ \A i \in 1 .. Len(printed) + Len(ids) :
            (first \o second)[i] = IF i <= Len(printed) THEN first[i] ELSE second[i - Len(printed)]
  <2>1. /\ Len(first \o second) = Len(first) + Len(second)
        /\ \A i \in 1 .. Len(first) + Len(second) :
             (first \o second)[i] = IF i <= Len(first) THEN first[i] ELSE second[i - Len(first)]
    BY <1>11, ConcatProperties
  <2> QED BY <1>11, <2>1
<1>13. \A c \in 1 .. Len(printed) : (first \o second)[c] = rec.ts[printed[c]]
  BY <1>7, <1>9, <1>12
<1>14. ASSUME NEW j \in 1 .. Len(ids) PROVE (first \o second)[Len(printed) + j] = delta(j)
  <2>1. /\ Len(printed) + j \in 1 .. Len(printed) + Len(ids) /\ ~(Len(printed) + j <= Len(printed))
        /\ (Len(printed) + j) - Len(printed) = j
    BY <1>7
  <2> QED BY <1>9, <1>12, <2>1
<1> QED BY <1>1, <1>3, <1>5, <1>6, <1>7, <1>12, <1>13, <1>14 DEF printed, ids, header, rec, delta

\* Multiplying, dividing and taking the rest are about natural numbers.
LEMMA TimesNat ==
  ASSUME NEW a \in Nat, NEW b \in Nat
  PROVE  a * b \in Nat
OBVIOUS

\* A cell is worth a number of nanoseconds.
LEMMA CellNs ==
  ASSUME NEW cell \in Cells
  PROVE  parse_timestamp_ns(cell) \in Nat
<1>1. CASE cell = Null
  BY <1>1 DEF parse_timestamp_ns
<1>2. CASE cell # Null
  <2>1. cell[1] \in Nat /\ cell[2] \in Nat /\ NS_PER_SEC \in Nat
    BY <1>2, JoinAssumption DEF Cells
  <2>2. cell[1] * NS_PER_SEC \in Nat
    BY <2>1, TimesNat
  <2> QED BY <1>2, <2>1, <2>2 DEF parse_timestamp_ns
<1> QED BY <1>1, <1>2

\* Quotient and remainder are natural numbers.
LEMMA DivSplits ==
  ASSUME NEW x \in Nat, NEW n \in Nat \ {0}
  PROVE  x \div n \in Nat /\ x % n \in 0 .. n - 1 /\ x = n * (x \div n) + (x % n)
<1> DEFINE q == x \div n
           m == x % n
<1>1. q \in Int /\ m \in 0 .. n - 1 /\ x = n * q + m
  OBVIOUS
<1> QED BY <1>1

\* A number below n has one place only before and after a multiple of n.
LEMMA QuotientNotBelow ==
  ASSUME NEW n \in Nat \ {0}, NEW d \in Nat, NEW q \in Nat,
         NEW e \in 0 .. n - 1, NEW m \in 0 .. n - 1, n * d + e = n * q + m
  PROVE  ~(q < d)
<1> SUFFICES ASSUME q < d PROVE FALSE
  OBVIOUS
<1>1. PICK k \in Nat : d = q + 1 + k
  <2>1. d - q - 1 \in Nat /\ d = q + 1 + (d - q - 1)
    OBVIOUS
  <2> QED BY <2>1
<1>2. n * d = n * q + n + n * k
  BY <1>1
<1>3. n * d \in Nat /\ n * q \in Nat /\ n * k \in Nat
  BY <1>1, TimesNat
<1> DEFINE nd == n * d
           nq == n * q
           nk == n * k
<1>4. nd = nq + n + nk /\ nd \in Nat /\ nq \in Nat /\ nk \in Nat /\ nd + e = nq + m
  BY <1>2, <1>3
<1> HIDE DEF nd, nq, nk
<1> QED BY <1>4

\* The remainder is what is left beside any multiple, once it is small enough.
LEMMA ModUnique ==
  ASSUME NEW n \in Nat \ {0}, NEW d \in Nat, NEW e \in 0 .. n - 1
  PROVE  (n * d + e) % n = e
<1> DEFINE x == n * d + e
           q == x \div n
           m == x % n
<1>1. x \in Nat
  BY TimesNat
<1>2. q \in Nat /\ m \in 0 .. n - 1 /\ n * d + e = n * q + m
  <2> HIDE DEF x
  <2>1. q \in Nat /\ m \in 0 .. n - 1 /\ x = n * q + m
    BY <1>1, DivSplits
  <2> QED BY <2>1 DEF x
<1> HIDE DEF x, q, m
<1>3. ~(q < d) /\ ~(d < q)
  BY <1>2, QuotientNotBelow
<1>4. q = d
  BY <1>2, <1>3
<1>5. n * q = n * d /\ n * d \in Nat
  BY <1>4, TimesNat
<1> DEFINE nd == n * d
<1>6. nd + e = nd + m /\ nd \in Nat
  BY <1>2, <1>5
<1> HIDE DEF nd
<1>7. e = m
  BY <1>2, <1>6
<1> QED BY <1>7 DEF m, x

\* Cutting the quotient cuts the number: what is left is its remainder by the
\* range of both parts.
LEMMA CutQuotient ==
  ASSUME NEW x \in Nat, NEW n \in Nat \ {0}, NEW r \in Nat \ {0}
  PROVE  ((x \div n) % r) * n + (x % n) = x % (n * r)
<1> DEFINE q == x \div n
           m == x % n
           d == q \div r
           c == q % r
           e == c * n + m
<1>1. q \in Nat /\ m \in 0 .. n - 1 /\ x = n * q + m
  BY DivSplits
<1> HIDE DEF q, m
<1>2. d \in Nat /\ c \in 0 .. r - 1 /\ q = r * d + c
  BY <1>1, DivSplits
<1> HIDE DEF d, c
<1>3. n * r \in Nat /\ n * r # 0
  <2>1. n * r \in Nat
    BY TimesNat
  <2>2. PICK k \in Nat : r = 1 + k
    <3>1. r - 1 \in Nat /\ r = 1 + (r - 1)
      OBVIOUS
    <3> QED BY <3>1
  <2>3. n * r = n + n * k /\ n * k \in Nat
    BY <2>2, TimesNat
  <2> DEFINE nk == n * k
             nr == n * r
  <2>4. nr = n + nk /\ nk \in Nat
    BY <2>3
  <2> HIDE DEF nk, nr
  <2>5. nr # 0
    BY <2>4
  <2> QED BY <2>1, <2>5 DEF nr
<1>4. x = (n * r) * d + e
  <2>1. n * q = (n * r) * d + c * n
    BY <1>2
  <2> QED BY <1>1, <1>2, <1>3, <2>1, TimesNat
<1>5. e \in 0 .. (n * r) - 1
  <2>1. PICK k \in Nat : r = c + 1 + k
    <3>1. r - c - 1 \in Nat /\ r = c + 1 + (r - c - 1)
      BY <1>2
    <3> QED BY <3>1
  <2>2. n * r = c * n + n + n * k /\ c * n \in Nat /\ n * k \in Nat
    BY <1>2, <2>1, TimesNat
  <2> DEFINE nr == n * r
             cn == c * n
             nk == n * k
  <2>3. nr = cn + n + nk /\ cn \in Nat /\ nk \in Nat
    BY <2>2
  <2>4. e = cn + m
    OBVIOUS
  <2> HIDE DEF nr, cn, nk, e
  <2>5. e \in 0 .. nr - 1
    BY <1>1, <2>3, <2>4
  <2> QED BY <2>5 DEF nr
<1> HIDE DEF e
<1>6. x % (n * r) = e
  <2> DEFINE p == n * r
  <2>1. p \in Nat \ {0} /\ e \in 0 .. p - 1 /\ x = p * d + e
    BY <1>3, <1>4, <1>5
  <2> HIDE DEF p
  <2>2. x % p = e
    BY <1>2, <2>1, ModUnique
  <2> QED BY <2>2 DEF p
<1> QED BY <1>6 DEF e, c, q, m

\* calculate_delta_fast: the difference, where there is one, modulo what 32
\* bits of microseconds hold.
LEMMA DeltaRight ==
  ASSUME NEW a \in Nat, NEW b \in Nat
  PROVE  LET cell == calculate_delta_fast(a, b) IN
         /\ cell = Null <=> (a = 0 \/ b = 0 \/ b - a <= 0)
         /\ cell # Null =>
              cell[1] * NS_PER_US + cell[2] = (b - a) % (NS_PER_US * US_RANGE)
<1> DEFINE cell == calculate_delta_fast(a, b)
           x == b - a
<1>0. NS_PER_US \in Nat \ {0} /\ US_RANGE \in Nat \ {0}
  BY JoinAssumption
<1>1. CASE a = 0 \/ b = 0 \/ b <= a
  <2>1. cell = Null
    BY <1>1 DEF calculate_delta_fast
  <2>2. a = 0 \/ b = 0 \/ b - a <= 0
    BY <1>1
  <2> QED BY <2>1, <2>2
<1>2. CASE ~(a = 0 \/ b = 0 \/ b <= a)
  <2>1. x \in Nat /\ ~(a = 0 \/ b = 0 \/ b - a <= 0)
    BY <1>2
  <2> DEFINE q == x \div NS_PER_US
             m == x % NS_PER_US
  <2>2. cell = <<q % US_RANGE, m>>
    BY <1>2 DEF calculate_delta_fast
  <2> HIDE DEF cell
  <2>3. cell # Null
    BY <2>2 DEF Null
  <2>4. cell[1] * NS_PER_US + cell[2] = x % (NS_PER_US * US_RANGE)
    <3>1. cell[1] = q % US_RANGE /\ cell[2] = m
      BY <2>2
    <3> HIDE DEF x
    <3>2. (q % US_RANGE) * NS_PER_US + m = x % (NS_PER_US * US_RANGE)
      BY <1>0, <2>1, CutQuotient
    <3> HIDE DEF q, m
    <3> QED BY <3>1, <3>2
  <2> QED BY <2>1, <2>3, <2>4 DEF cell
<1> QED BY <1>1, <1>2

\* The column of a printed field is that of its timestamp.
FieldsInPlace(header, printed) ==
  \A c \in DOMAIN header :
    header[c] \in FieldNames => c \in 1 .. Len(printed) /\ printed[c] = header[c]

\* The column of a delta is that of its own difference.
DeltasInPlace(header, printed, ids) ==
  \A c \in DOMAIN header : \A i \in 1 .. 14 :
    header[c] = Delta[i][3] => \E k \in 1 .. Len(ids) : c = Len(printed) + k /\ ids[k] + 1 = i

\* The fields are where the header line has them.
LEMMA FieldColumn ==
  ASSUME NEW header, NEW printed, NEW ids, TablesFit(header, printed, ids)
  PROVE  FieldsInPlace(header, printed)
<1> SUFFICES ASSUME NEW c \in DOMAIN header, header[c] \in FieldNames
             PROVE  c \in 1 .. Len(printed) /\ printed[c] = header[c]
  BY DEF FieldsInPlace
<1>1. /\ Len(printed) \in Nat /\ Len(ids) \in Nat /\ Len(header) = Len(printed) + Len(ids)
      /\ DOMAIN header = 1 .. Len(header)
      /\ \A e \in 1 .. Len(printed) : header[e] = printed[e]
      /\ \A k \in 1 .. Len(ids) :
           ids[k] \in 0 .. 13 /\ header[Len(printed) + k] = Delta[ids[k] + 1][3]
  BY Zenon DEF TablesFit
<1>2. c \in 1 .. Len(printed)
  <2> SUFFICES ASSUME c \notin 1 .. Len(printed) PROVE FALSE
    OBVIOUS
  <2> DEFINE k == c - Len(printed)
  <2>1. k \in 1 .. Len(ids) /\ c = Len(printed) + k
    BY <1>1
  <2> HIDE DEF k
  <2>2. header[c] = Delta[ids[k] + 1][3] /\ ids[k] + 1 \in 1 .. 14
    <3>1. ids[k] \in 0 .. 13 /\ header[Len(printed) + k] = Delta[ids[k] + 1][3]
      BY <1>1, <2>1, Zenon
    <3>2. header[c] = Delta[ids[k] + 1][3]
      BY <2>1, <3>1, Zenon
    <3> QED BY <3>1, <3>2
  <2> QED BY <2>2, DeltaNames
<1> QED BY <1>1, <1>2

\* The deltas are where the header line has them.
LEMMA DeltaColumn ==
  ASSUME NEW header, NEW printed, NEW ids, TablesFit(header, printed, ids)
  PROVE  DeltasInPlace(header, printed, ids)
<1> SUFFICES ASSUME NEW c \in DOMAIN header, NEW i \in 1 .. 14, header[c] = Delta[i][3]
             PROVE  \E k \in 1 .. Len(ids) : c = Len(printed) + k /\ ids[k] + 1 = i
  BY Zenon DEF DeltasInPlace
<1>1. /\ Len(printed) \in Nat /\ Len(ids) \in Nat /\ Len(header) = Len(printed) + Len(ids)
      /\ DOMAIN header = 1 .. Len(header)
      /\ \A e \in 1 .. Len(printed) : header[e] = printed[e] /\ printed[e] \in FieldNames
      /\ \A k \in 1 .. Len(ids) :
           ids[k] \in 0 .. 13 /\ header[Len(printed) + k] = Delta[ids[k] + 1][3]
  BY Zenon DEF TablesFit
<1>2. c \notin 1 .. Len(printed)
  <2>1. Delta[i][3] \notin FieldNames
    BY DeltaNames
  <2>2. \A e \in 1 .. Len(printed) : header[e] \in FieldNames
    BY <1>1, Zenon
  <2> QED BY <2>1, <2>2, Zenon
<1> DEFINE k == c - Len(printed)
<1>3. k \in 1 .. Len(ids) /\ c = Len(printed) + k
  BY <1>1, <1>2
<1> HIDE DEF k
<1>4. header[c] = Delta[ids[k] + 1][3] /\ ids[k] + 1 \in 1 .. 14
  <2>1. ids[k] \in 0 .. 13 /\ header[Len(printed) + k] = Delta[ids[k] + 1][3]
    BY <1>1, <1>3, Zenon
  <2>2. header[c] = Delta[ids[k] + 1][3]
    BY <1>3, <2>1, Zenon
  <2> QED BY <2>1, <2>2
<1>5. ids[k] + 1 = i
  BY <1>4, DeltaNames
<1> QED BY <1>3, <1>5

\* Each delta of a row of the output is that of the columns it is named after.
THEOREM DeltasRight == JoinSpec => []DeltasMatchColumns
<1>1. ASSUME FullJoinInv PROVE DeltasMatchColumns
  <2> DEFINE header  == get_output_header(opt.mode, opt.target)
             printed == PrintedFields(opt.mode, opt.target)
             ids     == get_mode_delta_config(opt.mode, opt.target)
             ColumnOf(name) == CHOOSE c \in DOMAIN header : header[c] = name
             cells(k) == output.rows[k].cells
             ns(k, name) == parse_timestamp_ns(cells(k)[ColumnOf(name)])
             Right(k, d) ==
               LET cell == cells(k)[ColumnOf(d[3])]
                   a == ns(k, d[1])
                   b == ns(k, d[2])
               IN  /\ cell = Null <=> (a = 0 \/ b = 0 \/ b - a <= 0)
                   /\ cell # Null =>
                        cell[1] * NS_PER_US + cell[2] = (b - a) % (NS_PER_US * US_RANGE)
  <2> SUFFICES ASSUME Written, NEW k \in DOMAIN output.rows
               PROVE  /\ Len(cells(k)) = Len(header)
                      /\ \A d \in {e \in ToSet(Delta) : e[3] \in ToSet(header)} : Right(k, d)
    BY DEF DeltasMatchColumns
  <2>1. /\ Chosen /\ records[k].ts \in [Fields -> Cells]
        /\ Len(cells(k)) = Len(header)
        /\ \A c \in 1 .. Len(printed) : cells(k)[c] = records[k].ts[printed[c]]
        /\ \A j \in 1 .. Len(ids) :
             cells(k)[Len(printed) + j] =
               calculate_delta_fast(
                 parse_timestamp_ns(records[k].ts[Delta[ids[j] + 1][1]]),
                 parse_timestamp_ns(records[k].ts[Delta[ids[j] + 1][2]]))
    BY <1>1, OutputRow
  <2>2. TablesFit(header, printed, ids)
    BY <2>1, AllTables
  <2>4. DeltasInPlace(header, printed, ids)
    BY <2>2, DeltaColumn, Zenon
  <2>5. FieldsInPlace(header, printed)
    BY <2>2, FieldColumn, Zenon
  <2>3. ASSUME NEW d \in {e \in ToSet(Delta) : e[3] \in ToSet(header)} PROVE Right(k, d)
    <3>1. PICK i \in 1 .. 14 : d = Delta[i]
      BY DeltaNames DEF ToSet
    <3>2. \E c \in DOMAIN header : header[c] = d[3]
      BY <2>3 DEF ToSet
    <3> HIDE DEF header, printed, ids, cells
    <3>3. ColumnOf(d[3]) \in DOMAIN header /\ header[ColumnOf(d[3])] = Delta[i][3]
      BY <3>1, <3>2
    <3> HIDE DEF ColumnOf
    <3>4. PICK j \in 1 .. Len(ids) : ColumnOf(d[3]) = Len(printed) + j /\ ids[j] + 1 = i
      BY <2>4, <3>1, <3>3, Zenon DEF DeltasInPlace
    <3>5. ASSUME NEW name \in FieldNames, \E c \in 1 .. Len(printed) : printed[c] = name
          PROVE  cells(k)[ColumnOf(name)] = records[k].ts[name]
      <4>1. \E c \in DOMAIN header : header[c] = name
        <5>1. /\ Len(printed) \in Nat /\ Len(ids) \in Nat /\ Len(header) = Len(printed) + Len(ids)
              /\ DOMAIN header = 1 .. Len(header)
              /\ \A e \in 1 .. Len(printed) : header[e] = printed[e]
          BY <2>2, Zenon DEF TablesFit
        <5>2. PICK c \in 1 .. Len(printed) : printed[c] = name
          BY <3>5
        <5>3. c \in DOMAIN header
          BY <5>1
        <5> QED BY <5>1, <5>2, <5>3
      <4>2. ColumnOf(name) \in DOMAIN header /\ header[ColumnOf(name)] = name
        BY <4>1 DEF ColumnOf
      <4>3. ColumnOf(name) \in 1 .. Len(printed) /\ printed[ColumnOf(name)] = name
        BY <2>5, <4>2, Zenon DEF FieldsInPlace
      <4> QED BY <2>1, <4>3
    <3>6. /\ d[1] \in FieldNames /\ d[2] \in FieldNames
          /\ \E c \in 1 .. Len(printed) : printed[c] = d[1]
          /\ \E c \in 1 .. Len(printed) : printed[c] = d[2]
      <4>1. \A m \in 1 .. Len(ids) :
              /\ \E c \in 1 .. Len(printed) : printed[c] = Delta[ids[m] + 1][1]
              /\ \E c \in 1 .. Len(printed) : printed[c] = Delta[ids[m] + 1][2]
        BY <2>2, Zenon DEF TablesFit
      <4> QED BY <3>1, <3>4, <4>1, DeltaNames
    <3> DEFINE a == parse_timestamp_ns(records[k].ts[d[1]])
               b == parse_timestamp_ns(records[k].ts[d[2]])
    <3>7. ns(k, d[1]) = a /\ ns(k, d[2]) = b
      BY <3>5, <3>6
    <3>8. a \in Nat /\ b \in Nat
      <4>1. records[k].ts[d[1]] \in Cells /\ records[k].ts[d[2]] \in Cells
        BY <2>1, <3>6, FieldsAre
      <4> QED BY <4>1, CellNs
    <3>9. cells(k)[ColumnOf(d[3])] = calculate_delta_fast(a, b)
      BY <2>1, <3>1, <3>4
    <3> HIDE DEF a, b, ns
    <3>10. LET cell == calculate_delta_fast(a, b) IN
           /\ cell = Null <=> (a = 0 \/ b = 0 \/ b - a <= 0)
           /\ cell # Null =>
                cell[1] * NS_PER_US + cell[2] = (b - a) % (NS_PER_US * US_RANGE)
      BY <3>8, DeltaRight
    <3> QED BY <3>7, <3>9, <3>10
  <2> QED BY <2>1, <2>3
<1> QED BY <1>1, JoinInvariant, PTL

\* Each timestamp that is printed is in a file the usage text asks for.
LEMMA PrintedFromRequired ==
  ASSUME Chosen, NEW c \in 1 .. Len(PrintedFields(opt.mode, opt.target))
  PROVE  \E t \in RequiredTypes :
           t \in CsvTypes /\ PrintedFields(opt.mode, opt.target)[c] \in ToSet(get_csv_header(t))
<1> DEFINE S(type) == ToSet(get_csv_header(type))
           p == PrintedFields(opt.mode, opt.target)
<1>0. /\ S("CLIENT_MAIN_ONEWAY") = {"clt_app_tx_ts"} /\ S("CLIENT_TX") = {"clt_ker_tx_ts"}
      /\ S("SERVER_TX") = {"svr_ker_tx_ts"}
      /\ S("CLIENT_MAIN_ROUNDTRIP") =
           {"clt_app_tx_tsc_ts", "clt_app_tx_ts", "clt_hw_rx_ts", "clt_ker_rx_ts",
            "clt_app_rx_tsc_ts", "clt_app_rx_ts"}
      /\ S("SERVER_MAIN_ONEWAY") = {"svr_hw_rx_ts", "svr_ker_rx_ts", "svr_app_rx_ts"}
      /\ S("SERVER_MAIN_ROUNDTRIP") =
           {"svr_hw_rx_ts", "svr_ker_rx_ts", "svr_app_rx_ts", "svr_app_tx_ts"}
  BY HeaderSets
<1> DEFINE Q == \E t \in RequiredTypes : t \in CsvTypes /\ p[c] \in S(t)
<1> SUFFICES Q
  OBVIOUS
<1> HIDE DEF S, Q
<1>1. CASE opt.mode = "oneway" /\ opt.target = "client"
  <2>1. p = <<"clt_app_tx_ts", "clt_ker_tx_ts">>
    BY <1>1 DEF PrintedFields
  <2> HIDE DEF p
  <2>2. p[c] \in {"clt_app_tx_ts", "clt_ker_tx_ts"}
    <3>1. c \in 1 .. Len(p)
      BY DEF p
    <3> QED BY <2>1, <3>1
  <2>3. RequiredTypes = {"CLIENT_MAIN_ONEWAY", "CLIENT_TX"}
    BY <1>1 DEF RequiredTypes
  <2> QED BY <1>0, <2>2, <2>3 DEF CsvTypes, Q
<1>2. CASE opt.mode = "oneway" /\ opt.target = "server"
  <2>1. p = <<"svr_hw_rx_ts", "svr_ker_rx_ts", "svr_app_rx_ts">>
    BY <1>2 DEF PrintedFields
  <2> HIDE DEF p
  <2>2. p[c] \in {"svr_hw_rx_ts", "svr_ker_rx_ts", "svr_app_rx_ts"}
    <3>1. c \in 1 .. Len(p)
      BY DEF p
    <3> QED BY <2>1, <3>1
  <2>3. RequiredTypes = {"SERVER_MAIN_ONEWAY"}
    BY <1>2 DEF RequiredTypes
  <2> QED BY <1>0, <2>2, <2>3 DEF CsvTypes, Q
<1>3. CASE opt.mode = "oneway" /\ opt.target = "both"
  <2>1. p = <<"clt_app_tx_ts", "clt_ker_tx_ts", "svr_hw_rx_ts", "svr_ker_rx_ts", "svr_app_rx_ts">>
    BY <1>3 DEF PrintedFields
  <2> HIDE DEF p
  <2>2. p[c] \in {"clt_app_tx_ts", "clt_ker_tx_ts", "svr_hw_rx_ts", "svr_ker_rx_ts",
                  "svr_app_rx_ts"}
    <3>1. c \in 1 .. Len(p)
      BY DEF p
    <3> QED BY <2>1, <3>1
  <2>3. RequiredTypes = {"CLIENT_MAIN_ONEWAY", "CLIENT_TX", "SERVER_MAIN_ONEWAY"}
    BY <1>3 DEF RequiredTypes
  <2> QED BY <1>0, <2>2, <2>3 DEF CsvTypes, Q
<1>4. CASE opt.mode = "roundtrip" /\ opt.target = "client"
  <2>1. p = <<"clt_app_tx_tsc_ts", "clt_app_tx_ts", "clt_ker_tx_ts", "clt_hw_rx_ts",
              "clt_ker_rx_ts", "clt_app_rx_tsc_ts", "clt_app_rx_ts">>
    BY <1>4 DEF PrintedFields
  <2> HIDE DEF p
  <2>2. p[c] \in {"clt_app_tx_tsc_ts", "clt_app_tx_ts", "clt_ker_tx_ts", "clt_hw_rx_ts",
                  "clt_ker_rx_ts", "clt_app_rx_tsc_ts", "clt_app_rx_ts"}
    <3>1. c \in 1 .. Len(p)
      BY DEF p
    <3> QED BY <2>1, <3>1
  <2>3. RequiredTypes = {"CLIENT_MAIN_ROUNDTRIP", "CLIENT_TX"}
    BY <1>4 DEF RequiredTypes
  <2> QED BY <1>0, <2>2, <2>3 DEF CsvTypes, Q
<1>5. CASE opt.mode = "roundtrip" /\ opt.target = "server"
  <2>1. p = <<"svr_hw_rx_ts", "svr_ker_rx_ts", "svr_app_rx_ts", "svr_app_tx_ts", "svr_ker_tx_ts">>
    BY <1>5 DEF PrintedFields
  <2> HIDE DEF p
  <2>2. p[c] \in {"svr_hw_rx_ts", "svr_ker_rx_ts", "svr_app_rx_ts", "svr_app_tx_ts",
                  "svr_ker_tx_ts"}
    <3>1. c \in 1 .. Len(p)
      BY DEF p
    <3> QED BY <2>1, <3>1
  <2>3. RequiredTypes = {"SERVER_MAIN_ROUNDTRIP", "SERVER_TX"}
    BY <1>5 DEF RequiredTypes
  <2> QED BY <1>0, <2>2, <2>3 DEF CsvTypes, Q
<1>6. CASE opt.mode = "roundtrip" /\ opt.target = "both"
  <2>1. p = <<"clt_app_tx_tsc_ts", "clt_app_tx_ts", "clt_ker_tx_ts", "svr_hw_rx_ts",
              "svr_ker_rx_ts", "svr_app_rx_ts", "svr_app_tx_ts", "svr_ker_tx_ts", "clt_hw_rx_ts",
              "clt_ker_rx_ts", "clt_app_rx_tsc_ts", "clt_app_rx_ts">>
    BY <1>6 DEF PrintedFields
  <2> HIDE DEF p
  <2>2. p[c] \in {"clt_app_tx_tsc_ts", "clt_app_tx_ts", "clt_ker_tx_ts", "svr_hw_rx_ts",
                  "svr_ker_rx_ts", "svr_app_rx_ts", "svr_app_tx_ts", "svr_ker_tx_ts",
                  "clt_hw_rx_ts", "clt_ker_rx_ts", "clt_app_rx_tsc_ts", "clt_app_rx_ts"}
    <3>1. c \in 1 .. Len(p)
      BY DEF p
    <3> QED BY <2>1, <3>1
  <2>3. RequiredTypes =
          {"CLIENT_MAIN_ROUNDTRIP", "CLIENT_TX", "SERVER_MAIN_ROUNDTRIP", "SERVER_TX"}
    BY <1>6 DEF RequiredTypes
  <2> QED BY <1>0, <2>2, <2>3 DEF CsvTypes, Q
<1> QED BY <1>1, <1>2, <1>3, <1>4, <1>5, <1>6 DEF Chosen

\* The timestamps of the output are their packet's own, and with the files the
\* usage text lists none is missing that its rows have.
THEOREM CellsAreRight == JoinSpec => []CellsRight
<1>1. ASSUME FullJoinInv PROVE CellsComeFromRows
  <2> DEFINE header  == get_output_header(opt.mode, opt.target)
             printed == PrintedFields(opt.mode, opt.target)
             ids     == get_mode_delta_config(opt.mode, opt.target)
             cells(k) == output.rows[k].cells
  <2> SUFFICES ASSUME Written, NEW k \in DOMAIN output.rows, NEW c \in DOMAIN header,
                      header[c] \in Fields, cells(k)[c] # Null
               PROVE  InSomeRow(output.rows[k].seq, header[c], cells(k)[c])
    BY DEF CellsComeFromRows, InSomeRow
  <2>1. /\ Chosen /\ k \in DOMAIN records /\ output.rows[k].seq = records[k].seq
        /\ \A e \in 1 .. Len(printed) : cells(k)[e] = records[k].ts[printed[e]]
    BY <1>1, OutputRow
  <2>2. TablesFit(header, printed, ids)
    BY <2>1, AllTables
  <2> HIDE DEF header, printed, ids, cells
  <2>3. c \in 1 .. Len(printed) /\ printed[c] = header[c]
    <3>1. FieldsInPlace(header, printed)
      BY <2>2, FieldColumn, Zenon
    <3> QED BY <3>1, FieldsAre DEF FieldsInPlace
  <2>4. cells(k)[c] = records[k].ts[header[c]]
    BY <2>1, <2>3
  <2>5. InSomeRow(records[k].seq, header[c], records[k].ts[header[c]])
    BY <1>1, <2>1, <2>4 DEF FullJoinInv, CellsFromRows
  <2> QED BY <2>1, <2>4, <2>5
<1>2. ASSUME FullJoinInv PROVE CompleteIfRightFiles
  <2> DEFINE printed == PrintedFields(opt.mode, opt.target)
             cells(k) == output.rows[k].cells
  <2> SUFFICES ASSUME Written, {files[f].type : f \in DOMAIN files} = RequiredTypes,
                      NEW k \in DOMAIN output.rows, Whole(output.rows[k].seq),
                      NEW c \in 1 .. Len(printed)
               PROVE  cells(k)[c] # Null
    BY DEF CompleteIfRightFiles, Whole
  <2>1. /\ Chosen /\ k \in DOMAIN records /\ output.rows[k].seq = records[k].seq
        /\ \A e \in 1 .. Len(printed) : cells(k)[e] = records[k].ts[printed[e]]
    BY <1>2, OutputRow
  <2>2. PICK t \in RequiredTypes : printed[c] \in ToSet(get_csv_header(t))
    BY <2>1, PrintedFromRequired
  <2> HIDE DEF printed, cells
  <2>3. PICK f \in DOMAIN files : files[f].type = t
    BY <2>2
  <2>4. ReadRow(f, records[k].seq)
    <3>1. filled = Len(files)
      BY <1>2 DEF FullJoinInv, Phases
    <3>2. f \in 1 .. Len(files)
      BY <1>2, JoinFacts
    <3> QED BY <3>1, <3>2 DEF ReadRow
  <2>5. records[k].ts[printed[c]] # Null
    BY <1>2, <2>1, <2>2, <2>3, <2>4 DEF FullJoinInv, Covered
  <2> QED BY <2>1, <2>5
<1>3. FullJoinInv => CellsRight
  BY <1>1, <1>2 DEF CellsRight
<1> QED BY <1>3, JoinInvariant, PTL
=============================================================================
