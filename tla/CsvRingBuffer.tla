--------------------------- MODULE CsvRingBuffer ----------------------------
(***************************************************************************)
(* The CSV logger of timestamp_client and timestamp_server: a lock-free    *)
(* ring (csv_ring_buffer_t) filled by one measurement thread               *)
(* (csv_enqueue_fast) and emptied into a file by a dedicated writer thread *)
(* (csv_writer_thread, csv_dequeue_batch), with its creation and its       *)
(* destruction.  A step is one access to memory the two threads share.     *)
(*                                                                         *)
(* The programs are x86 binaries (they use rdtsc), where a store is never  *)
(* seen before the loads and stores that precede it; the interleavings     *)
(* below are therefore all the orders the threads can observe.             *)
(*                                                                         *)
(* An entry is the number of the csv_enqueue_fast call that offered it.    *)
(***************************************************************************)
EXTENDS Ring, FiniteSets

CONSTANTS Size,        \* slots of the ring (1048576 in every program)
          BatchSize,   \* batch_size (10000 in every program)
          RowBytes,    \* longest formatted row
          SlotBytes,   \* bytes of write_buffer per entry of a batch (256)
          MaxOffered,  \* bound: calls of csv_enqueue_fast
          MaxFaults    \* bound: write() calls that fail or write too little

ASSUME SizeAssumption   == Size \in Nat /\ Size > 1 /\ IsPowerOf2(Size)
ASSUME BatchAssumption  == BatchSize \in Nat /\ BatchSize > 1
\* The longest row has an address, two integers and six timestamps: 165 bytes.
ASSUME RowAssumption    == /\ RowBytes \in Nat \ {0} /\ SlotBytes \in Nat
                           /\ RowBytes < SlotBytes
ASSUME BoundsAssumption == MaxOffered \in Nat /\ MaxFaults \in Nat

VARIABLES life,      \* the buffer object: unborn, failed, open, joining, freed
          running,   \* buffer->running
          head,      \* buffer->head, written by the producer only
          tail,      \* buffer->tail, written by the writer thread only
          entries,   \* buffer->entries
          ppc,       \* where the producer is in csv_enqueue_fast
          offered,   \* calls of csv_enqueue_fast so far
          refused,   \* calls that returned -1
          wpc,       \* where the writer thread is
          final,     \* the writer thread is in its final flush
          batch,     \* batch[0 .. count-1] of the writer thread
          taken,     \* history: entries whose slot was given back
          accepted,  \* history: entries published
          file,      \* the rows in the CSV file
          faults     \* failed or short writes so far

ringVars == <<head, tail, entries>>
prodVars == <<ppc, offered, refused, accepted>>
wrtVars  == <<wpc, final, batch, taken, file, faults>>
vars     == <<life, running, ringVars, prodVars, wrtVars>>

Slots   == 0 .. Size - 1
Garbage == 0                      \* what aligned_alloc left in a slot
Entries == 1 .. MaxOffered

Contents == RingContents(entries, head, tail, Size)
Count    == RingCount(head, tail, Size)

Init ==
  /\ life = "unborn" /\ running = 0
  /\ head = 0 /\ tail = 0 /\ entries = [i \in Slots |-> Garbage]
  /\ ppc = "idle" /\ offered = 0 /\ refused = 0 /\ accepted = <<>>
  /\ wpc = "none" /\ final = FALSE /\ batch = <<>>
  /\ taken = <<>> /\ file = <<>> /\ faults = 0

-----------------------------------------------------------------------------
(* csv_buffer_create *)

csv_buffer_create ==
  /\ life = "unborn"
  /\ IsPowerOf2(Size)
  /\ life' = "open" /\ running' = 1 /\ wpc' = "start"
  /\ UNCHANGED <<ringVars, prodVars, final, batch, taken, file, faults>>

\* An allocation, the open() or the pthread_create() fails: the program exits.
csv_buffer_create_fails ==
  /\ life = "unborn"
  /\ life' = "failed"
  /\ UNCHANGED <<running, ringVars, prodVars, wrtVars>>

-----------------------------------------------------------------------------
(* csv_enqueue_fast, run by one measurement thread *)

\* Load head and tail; a full ring turns the entry away.
EnqueueCheck ==
  /\ life = "open" /\ ppc = "idle" /\ offered < MaxOffered
  /\ offered' = offered + 1
  /\ \/ /\ RingFull(head, tail, Size)
        /\ refused' = refused + 1
        /\ UNCHANGED ppc
     \/ /\ ~RingFull(head, tail, Size)
        /\ ppc' = "copy"
        /\ UNCHANGED refused
  /\ UNCHANGED <<life, running, ringVars, accepted, wrtVars>>

EnqueueCopy ==
  /\ ppc = "copy"
  /\ entries' = [entries EXCEPT ![head] = offered]
  /\ ppc' = "publish"
  /\ UNCHANGED <<life, running, head, tail, offered, refused, accepted, wrtVars>>

EnqueuePublish ==
  /\ ppc = "publish"
  /\ head' = RingNext(head, Size)
  /\ accepted' = Append(accepted, offered)
  /\ ppc' = "idle"
  /\ UNCHANGED <<life, running, tail, entries, offered, refused, wrtVars>>

-----------------------------------------------------------------------------
(* csv_writer_thread *)

\* malloc of the batch array; without it the thread ends at once.
WriterStart ==
  /\ wpc = "start"
  /\ wpc' \in {"loop", "done"}
  /\ UNCHANGED <<life, running, ringVars, prodVars, final, batch, taken, file, faults>>

\* Mutant: no final flush.
WriterLoop_NoFinalFlush ==
  /\ wpc = "loop"
  /\ wpc' = (IF running = 0 THEN "done" ELSE "dequeue") /\ batch' = <<>>
  /\ final' = (running = 0)
  /\ UNCHANGED <<life, running, ringVars, prodVars, taken, file, faults>>

\* while (buffer->running): another batch, or the final flush
WriterLoop ==
  /\ wpc = "loop"
  /\ wpc' = "dequeue" /\ batch' = <<>>
  /\ final' = (running = 0)
  /\ UNCHANGED <<life, running, ringVars, prodVars, taken, file, faults>>

\* Mutant: the ring looks empty one entry too early.
DequeueCheck_LeavesOne ==
  /\ wpc = "dequeue"
  /\ wpc' = IF Len(batch) < BatchSize /\ tail # head /\ RingNext(tail, Size) # head
            THEN "copy"
            ELSE IF batch # <<>> THEN "write"
            ELSE IF final THEN "done" ELSE "loop"
  /\ UNCHANGED <<life, running, ringVars, prodVars, final, batch, taken, file, faults>>

\* Top of csv_dequeue_batch's loop.  It ends on a full batch or an empty ring;
\* the caller then writes what it got, or sleeps, or (final flush) ends.
DequeueCheck ==
  /\ wpc = "dequeue"
  /\ wpc' = IF Len(batch) < BatchSize /\ tail # head THEN "copy"
            ELSE IF batch # <<>> THEN "write"
            ELSE IF final THEN "done" ELSE "loop"
  /\ UNCHANGED <<life, running, ringVars, prodVars, final, batch, taken, file, faults>>

DequeueCopy ==
  /\ wpc = "copy"
  /\ batch' = Append(batch, entries[tail])
  /\ wpc' = "advance"
  /\ UNCHANGED <<life, running, ringVars, prodVars, final, taken, file, faults>>

DequeueAdvance ==
  /\ wpc = "advance"
  /\ tail' = RingNext(tail, Size)
  /\ taken' = Append(taken, batch[Len(batch)])
  /\ wpc' = "dequeue"
  /\ UNCHANGED <<life, running, head, entries, prodVars, final, batch, file, faults>>

\* Mutant: the test counts the row about to be written.
csv_format_batch_OffByOne(b) ==
  SubSeq(b, 1, Cardinality({i \in 1 .. Len(b) :
                 i * RowBytes < BatchSize * SlotBytes - SlotBytes}))

\* csv_format_batch stops once fewer than SlotBytes bytes may be left.
csv_format_batch(b) ==
  SubSeq(b, 1, Cardinality({i \in 1 .. Len(b) :
                 (i - 1) * RowBytes < BatchSize * SlotBytes - SlotBytes}))

\* One write() for the batch.  A failure is logged and forgotten, a short
\* write is not even noticed: the rows that did not reach the file are lost.
WriteBatch ==
  /\ wpc = "write"
  /\ LET rows == csv_format_batch(batch) IN
     \E n \in 0 .. Len(rows) :
       /\ n < Len(rows) => faults < MaxFaults
       /\ file' = file \o SubSeq(rows, 1, n)
       /\ faults' = IF n < Len(rows) THEN faults + 1 ELSE faults
  /\ wpc' = IF final THEN "done" ELSE "loop"
  /\ UNCHANGED <<life, running, ringVars, prodVars, final, batch, taken>>

-----------------------------------------------------------------------------
(* csv_buffer_destroy: every program has joined the measurement thread, or
   is that thread, when it calls it. *)

\* Mutant: running is not cleared.
DestroyStop_StillRunning ==
  /\ life = "open" /\ ppc = "idle"
  /\ life' = "joining"
  /\ UNCHANGED <<running, ringVars, prodVars, wrtVars>>

DestroyStop ==
  /\ life = "open" /\ ppc = "idle"
  /\ running' = 0 /\ life' = "joining"
  /\ UNCHANGED <<ringVars, prodVars, wrtVars>>

DestroyJoin ==
  /\ life = "joining" /\ wpc = "done"
  /\ life' = "freed"
  /\ UNCHANGED <<running, ringVars, prodVars, wrtVars>>

Finished == life \in {"failed", "freed"} /\ UNCHANGED vars

-----------------------------------------------------------------------------
Producer == EnqueueCheck \/ EnqueueCopy \/ EnqueuePublish
Writer   == \/ WriterStart \/ WriterLoop
            \/ DequeueCheck \/ DequeueCopy \/ DequeueAdvance \/ WriteBatch

Next == \/ csv_buffer_create \/ csv_buffer_create_fails
        \/ Producer \/ Writer
        \/ DestroyStop \/ DestroyJoin
        \/ Finished

Spec == Init /\ [][Next]_vars

(* The writer thread and the joining thread are scheduled by the kernel and
   never block on each other's lock; nothing obliges the producer to offer
   entries or the program to stop. *)
Fairness == /\ WF_vars(Writer)
            /\ WF_vars(EnqueueCopy \/ EnqueuePublish)
            /\ WF_vars(DestroyJoin)

FairSpec == Spec /\ Fairness
-----------------------------------------------------------------------------
(* Properties *)

\* Every variable has its type; the indices stay inside the ring.
TypeOK ==
  /\ life \in {"unborn", "failed", "open", "joining", "freed"}
  /\ running \in {0, 1}
  /\ head \in Slots /\ tail \in Slots
  /\ entries \in [Slots -> Entries \cup {Garbage}]
  /\ ppc \in {"idle", "copy", "publish"}
  /\ offered \in 0 .. MaxOffered /\ refused \in Nat
  /\ wpc \in {"none", "start", "loop", "dequeue", "copy", "advance", "write", "done"}
  /\ final \in BOOLEAN
  /\ batch \in Seq(Entries) /\ taken \in Seq(Entries) /\ accepted \in Seq(Entries)
  /\ file \in Seq(Entries) /\ faults \in 0 .. MaxFaults

\* No entry is overwritten before the writer has copied it, read twice or
\* skipped, whatever the interleaving of csv_enqueue_fast with
\* csv_dequeue_batch: published = given back followed by what is in the ring.
FifoOrder == accepted = taken \o Contents

\* Between its test and its store of head the producer owns a free slot, and
\* between its test and its store of tail the writer owns the oldest entry:
\* neither test can be invalidated by the other thread.
SlotHandshake ==
  /\ ppc # "idle" => offered > 0 /\ ~RingFull(head, tail, Size)
  /\ ppc = "publish" => entries[head] = offered
  /\ wpc \in {"copy", "advance"} => head # tail
  /\ wpc = "advance" => batch # <<>> /\ batch[Len(batch)] = entries[tail]

\* The order of the entries with what it rests on: an inductive invariant.
RingInv == TypeOK /\ FifoOrder /\ SlotHandshake

\* Every row of the file is an accepted entry, once, in the order of the
\* enqueues, whatever write() calls fail or fall short.
RowsOnceInOrder ==
  /\ \A i \in 1 .. Len(file) : \E j \in 1 .. Len(accepted) : file[i] = accepted[j]
  /\ \A i, j \in 1 .. Len(file) : i < j => file[i] < file[j]

\* While no write() misbehaves, nothing that left the ring is missing from
\* the file once its batch is written: csv_format_batch never truncates.
NothingLostInWriter ==
  (faults = 0 /\ wpc \in {"loop", "done"}) => file = taken

\* What csv_writer_thread makes of the ring: a row at most once and in order in
\* the file, and every row that left the ring while write() does its work.
FileFollowsRing == RowsOnceInOrder /\ NothingLostInWriter

\* What csv_buffer_destroy can lose: only what a completely filled ring holds
\* beyond one batch, because the final flush takes a single batch.
FinalFlushLossBound ==
  (life = "freed" /\ faults = 0 /\ wpc = "done" /\ final) =>
     /\ file = SubSeq(accepted, 1, Len(file))
     /\ Len(accepted) - Len(file) <= (IF Size - 1 > BatchSize
                                      THEN Size - 1 - BatchSize ELSE 0)

\* csv_buffer_destroy returns: the dequeue loop is bounded by the batch, so a
\* busy producer cannot keep the writer thread from seeing running = 0.
DestroyReturns == (life = "joining") ~> (life = "freed")

\* While the buffer stays open, a published entry leaves the ring.
AcceptedIsTaken ==
  \A e \in Entries :
    (\E i \in 1 .. Len(accepted) : accepted[i] = e) ~>
      \/ \E i \in 1 .. Len(taken) : taken[i] = e
      \/ life # "open"
      \/ wpc = "done"

\* The ring implements the bounded queue of capacity Size - 1: in particular
\* csv_enqueue_fast returns -1 only when the queue is full.
Fifo == INSTANCE BoundedFifo WITH
          Items <- Entries, Capacity <- Size - 1,
          queue <- Contents, removed <- taken, refused <- refused
ImplementsFifo == Fifo!Spec
=============================================================================
