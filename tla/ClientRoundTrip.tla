--------------------------- MODULE ClientRoundTrip --------------------------
(***************************************************************************)
(* timestamp_client in round-trip mode (run_client_roundtrip): the main    *)
(* thread sends batches of numbered packets and files their TX timestamps  *)
(* after sendmmsg returns; the RX thread (rx_thread_func) logs each answer *)
(* with the TX timestamp it finds under the answer's sequence number; the  *)
(* network and the server answer, repeat, reorder or lose packets.  At the *)
(* end the main thread collects the RX thread's count by a timed join and, *)
(* when that times out, by cancelling it.                                  *)
(*                                                                         *)
(* Kernel TX timestamps are left to ServerRoundTrip, whose TS thread is    *)
(* the same code, and the inside of the statistics ring to StatsCollector. *)
(* A timestamp is the sequence number it was taken for; None is zeroed     *)
(* memory.                                                                 *)
(***************************************************************************)
EXTENDS Integers, Sequences, FiniteSets

CONSTANTS BatchSize,     \* batch_count: BATCH_SIZE, or 1 below 128 pps
          MaxSeqNumbers, \* MAX_SEQUENCE_NUMBERS: slots of the arrays (50000)
          StatsEnabled,  \* --stats
          CsvEnabled,    \* --output-csv
          MaxPackets,    \* bound: packets sent
          MaxAnswers     \* bound: datagrams that reach the RX socket

ASSUME ClientAssumption ==
  /\ BatchSize \in Nat \ {0} /\ MaxSeqNumbers \in Nat \ {0}
  /\ StatsEnabled \in BOOLEAN /\ CsvEnabled \in BOOLEAN
  /\ MaxPackets \in Nat /\ MaxAnswers \in Nat

None  == -1
Seqs  == 0 .. MaxPackets - 1
Slots == 0 .. MaxSeqNumbers - 1

VARIABLES mpc,       \* where the main thread is
          seqNum,    \* seq_num: the first packet of the next batch
          sentN,     \* sent: what sendmmsg returned
          i,         \* loop index over the sent packets
          corr,      \* app_tx_timestamps, app_tx_tsc_values
          stats,     \* entries of the statistics ring, oldest first
          wire,      \* history: packets handed to the network, in order
          sockq,     \* the receive queue of the RX socket
          answered,  \* datagrams that have reached the RX socket
          rpc,       \* where the RX thread is
          running,   \* rx_thread_running
          cur,       \* the answer being processed
          rowTx,     \* the TX timestamp read for it
          rows,      \* rows offered to the CSV file
          got,       \* local_packets_received
          finalRx,   \* final_rx_count, written by the cleanup handler
          cancel,    \* a cancellation of the RX thread is pending
          result,    \* what the RX thread returned, or "cancelled"
          report     \* the counts that are displayed

mainVars == <<mpc, seqNum, sentN, i, corr, wire, running, cancel, report>>
rxVars   == <<rpc, cur, rowTx, rows, got, finalRx, result>>
vars     == <<mainVars, stats, sockq, answered, rxVars>>

\* get_circular_index
Index(s) == s % MaxSeqNumbers

\* The newest entry with this sequence number, or 0
Found(es, s) ==
  LET hits == {k \in 1 .. Len(es) : es[k].seq = s}
  IN  IF hits = {} THEN 0 ELSE CHOOSE k \in hits : \A j \in hits : j <= k

Init ==
  /\ mpc = "send" /\ seqNum = 0 /\ sentN = 0 /\ i = 0
  /\ corr = [x \in Slots |-> None] /\ stats = <<>> /\ wire = <<>>
  /\ sockq = <<>> /\ answered = 0
  /\ rpc = "loop" /\ running = 1 /\ cur = None /\ rowTx = None
  /\ rows = <<>> /\ got = 0 /\ finalRx = 0 /\ cancel = FALSE
  /\ result = None /\ report = <<>>

-----------------------------------------------------------------------------
(* The main thread *)

\* Mutant: the sequence number advances by the batch, not by what was sent.
SendMore_WholeBatch(n) ==
  /\ seqNum' = seqNum + BatchSize /\ mpc' = "send" /\ sentN' = 0 /\ i' = 0

\* What the loop does once the sent packets are recorded: seq_num += sent
SendMore(n) ==
  /\ seqNum' = seqNum + n /\ mpc' = "send" /\ sentN' = 0 /\ i' = 0

\* sendmmsg takes the first n packets of the batch; the others are built
\* again, with the same sequence numbers, in the next turn.
Send(n) ==
  /\ mpc = "send" /\ seqNum + BatchSize <= MaxPackets
  /\ sentN' = n /\ i' = 0
  /\ wire' = wire \o [k \in 1 .. n |-> seqNum + k - 1]
  /\ mpc' = "store"
  /\ UNCHANGED <<seqNum, corr, running, cancel, report, stats, sockq, answered, rxVars>>

\* Mutant: the timestamp is stored under its place in the batch.
StoreTx_BatchIndex ==
  /\ mpc = "store" /\ i < sentN
  /\ corr' = [corr EXCEPT ![Index(i)] = seqNum + i]
  /\ i' = i + 1
  /\ UNCHANGED <<mpc, seqNum, sentN, wire, running, cancel, report, stats, sockq, answered, rxVars>>

\* store_tx_timestamps for one sent packet
StoreTx ==
  /\ mpc = "store" /\ i < sentN
  /\ corr' = [corr EXCEPT ![Index(seqNum + i)] = seqNum + i]
  /\ i' = i + 1
  /\ UNCHANGED <<mpc, seqNum, sentN, wire, running, cancel, report, stats, sockq, answered, rxVars>>

\* All are stored: on to the statistics, or straight to the next batch.
StoreTxDone ==
  /\ mpc = "store" /\ i = sentN
  /\ IF StatsEnabled
       THEN mpc' = "entry" /\ i' = 0 /\ UNCHANGED <<seqNum, sentN>>
       ELSE SendMore(sentN)
  /\ UNCHANGED <<corr, wire, running, cancel, report, stats, sockq, answered, rxVars>>

\* create_minimal_stats_entry and the packet's own TX timestamp
CreateEntry ==
  /\ mpc = "entry" /\ i < sentN
  /\ stats' = Append(stats, [seq |-> seqNum + i, tx |-> seqNum + i, rx |-> FALSE])
  /\ i' = i + 1
  /\ UNCHANGED <<mpc, seqNum, sentN, corr, wire, running, cancel, report, sockq, answered, rxVars>>

EntriesDone ==
  /\ mpc = "entry" /\ i = sentN
  /\ SendMore(sentN)
  /\ UNCHANGED <<corr, wire, running, cancel, report, stats, sockq, answered, rxVars>>

\* A signal, the end of the run time or a failing sendmmsg ends the loop.
\* The TX timestamp thread is stopped, then rx_thread_running is cleared and
\* the RX socket closed; if the RX thread is running it is joined.
LeaveLoop ==
  /\ mpc = "send"
  /\ running' = 0 /\ mpc' = "close"
  /\ UNCHANGED <<seqNum, sentN, i, corr, wire, cancel, report, stats, sockq, answered, rxVars>>

CloseSocket ==
  /\ mpc = "close"
  /\ mpc' = "join" /\ sockq' = <<>>
  /\ UNCHANGED <<seqNum, sentN, i, corr, wire, running, cancel, report, stats, answered, rxVars>>

\* display_analysis_results and the execution details
Report(n) == report' = <<[sent |-> seqNum, received |-> n]>> /\ mpc' = "done"

\* pthread_timedjoin_np returns the thread's result ...
JoinInTime ==
  /\ mpc = "join" /\ rpc = "done"
  /\ Report(result)
  /\ UNCHANGED <<seqNum, sentN, i, corr, wire, running, cancel, stats, sockq, answered, rxVars>>

\* ... or times out after a second: the thread, in whatever state, is
\* cancelled.
JoinTimesOut ==
  /\ mpc = "join" /\ rpc # "done"
  /\ cancel' = TRUE /\ mpc' = "cancel"
  /\ UNCHANGED <<seqNum, sentN, i, corr, wire, running, report, stats, sockq, answered, rxVars>>

\* pthread_join, then final_rx_count
JoinCancelled ==
  /\ mpc = "cancel" /\ rpc = "done"
  /\ Report(finalRx)
  /\ UNCHANGED <<seqNum, sentN, i, corr, wire, running, cancel, stats, sockq, answered, rxVars>>

-----------------------------------------------------------------------------
(* The network and the server (external): a packet that was sent is answered
   any number of times, in any order. *)

Answer(s) ==
  /\ answered < MaxAnswers /\ \E k \in 1 .. Len(wire) : wire[k] = s
  /\ mpc \notin {"join", "cancel", "done"}
  /\ sockq' = Append(sockq, s) /\ answered' = answered + 1
  /\ UNCHANGED <<mainVars, stats, rxVars>>

-----------------------------------------------------------------------------
(* rx_thread_func *)

Closed == mpc \in {"join", "cancel", "done"}      \* the RX socket

\* Mutant: the thread goes on instead of returning.
RxReturn_Again == rpc' = "loop" /\ result' = got

\* The loop ends: the count is returned, and the cleanup handler is popped
\* without being run.
RxReturn == rpc' = "done" /\ result' = got

\* while (*running)
RxTest ==
  /\ rpc = "loop"
  /\ \/ running = 1 /\ rpc' = "recv" /\ UNCHANGED result
     \/ running = 0 /\ RxReturn
  /\ UNCHANGED <<mainVars, stats, sockq, answered, cur, rowTx, rows, got, finalRx>>

\* recvmsg delivers an answer ...
RxReceive ==
  /\ rpc = "recv" /\ ~cancel /\ ~Closed /\ sockq # <<>>
  /\ cur' = Head(sockq) /\ sockq' = Tail(sockq) /\ rpc' = "lookup"
  /\ UNCHANGED <<mainVars, stats, answered, rowTx, rows, got, finalRx, result>>

\* ... finds nothing (EAGAIN) or is interrupted: poll again ...
RxPoll ==
  /\ rpc = "recv" /\ ~cancel /\ ~Closed
  /\ rpc' = "loop"
  /\ UNCHANGED <<mainVars, stats, sockq, answered, cur, rowTx, rows, got, finalRx, result>>

\* ... or fails, on a closed socket for instance: the loop is left.
RxFails ==
  /\ rpc = "recv" /\ ~cancel
  /\ RxReturn
  /\ UNCHANGED <<mainVars, stats, sockq, answered, cur, rowTx, rows, got, finalRx>>

\* Mutant: the cleanup handler does not save the count.
RxCancelled_NoCount ==
  /\ rpc = "recv" /\ cancel
  /\ rpc' = "done" /\ result' = None
  /\ UNCHANGED <<mainVars, stats, sockq, answered, cur, rowTx, rows, got, finalRx>>

\* The pending cancellation is acted upon in recvmsg: rx_cleanup_handler
RxCancelled ==
  /\ rpc = "recv" /\ cancel
  /\ finalRx' = got /\ rpc' = "done" /\ result' = None
  /\ UNCHANGED <<mainVars, stats, sockq, answered, cur, rowTx, rows, got>>

\* Read the TX timestamp filed under the answer's sequence number.
RxLookup ==
  /\ rpc = "lookup"
  /\ rowTx' = corr[Index(cur)]
  /\ rpc' = IF StatsEnabled THEN "stats" ELSE "row"
  /\ UNCHANGED <<mainVars, stats, sockq, answered, cur, rows, got, finalRx, result>>

\* update_stats_buffer_with_rx_timestamps
RxStats ==
  /\ rpc = "stats"
  /\ stats' = LET k == Found(stats, cur) IN
              IF k = 0 THEN stats ELSE [stats EXCEPT ![k].rx = TRUE]
  /\ rpc' = "row"
  /\ UNCHANGED <<mainVars, sockq, answered, cur, rowTx, rows, got, finalRx, result>>

\* The row goes to the CSV ring and the answer is counted.
RxRow ==
  /\ rpc = "row"
  /\ rows' = IF CsvEnabled THEN Append(rows, [seq |-> cur, tx |-> rowTx]) ELSE rows
  /\ got' = got + 1
  /\ rpc' = "loop" /\ cur' = None /\ rowTx' = None
  /\ UNCHANGED <<mainVars, stats, sockq, answered, finalRx, result>>

-----------------------------------------------------------------------------
Main == \/ \E n \in 1 .. BatchSize : Send(n)
        \/ StoreTx \/ StoreTxDone \/ CreateEntry \/ EntriesDone
        \/ LeaveLoop \/ CloseSocket \/ JoinInTime \/ JoinTimesOut \/ JoinCancelled

Rx == \/ RxTest \/ RxReceive \/ RxPoll \/ RxFails \/ RxCancelled
      \/ RxLookup \/ RxStats \/ RxRow

Finished == mpc = "done" /\ UNCHANGED vars

Next == Main \/ Rx \/ (\E s \in Seqs : Answer(s)) \/ Finished

Spec == Init /\ [][Next]_vars

(* Both threads run on cores of their own; a socket is always ready to say
   that it is empty or closed.  The network owes nobody an answer. *)
Fairness ==
  /\ WF_vars(StoreTx \/ StoreTxDone \/ CreateEntry \/ EntriesDone)
  /\ WF_vars(CloseSocket \/ JoinInTime \/ JoinCancelled)
  /\ WF_vars(Rx)

FairSpec == Spec /\ Fairness
-----------------------------------------------------------------------------
(* Properties *)

\* Every variable has its type.
TypeOK ==
  /\ mpc \in {"send", "store", "entry", "close", "join", "cancel", "done"}
  /\ seqNum \in 0 .. MaxPackets /\ sentN \in 0 .. BatchSize /\ i \in 0 .. BatchSize
  /\ corr \in [Slots -> Seqs \cup {None}]
  /\ wire \in Seq(Seqs) /\ sockq \in Seq(Seqs)
  /\ stats \in Seq([seq : Seqs, tx : Seqs, rx : BOOLEAN])
  /\ rows \in Seq([seq : Seqs, tx : Seqs \cup {None}])
  /\ answered \in 0 .. MaxAnswers /\ running \in {0, 1} /\ cancel \in BOOLEAN
  /\ rpc \in {"loop", "recv", "lookup", "stats", "row", "done"}
  /\ cur \in Seqs \cup {None} /\ rowTx \in Seqs \cup {None}
  /\ got \in 0 .. MaxAnswers /\ finalRx \in 0 .. MaxAnswers
  /\ result \in 0 .. MaxAnswers \cup {None}
  /\ report \in Seq([sent : 0 .. MaxPackets, received : 0 .. MaxAnswers])

\* However sendmmsg splits the batches, the packets on the wire are numbered
\* 0, 1, 2, ... without gap or repetition, and total_packets_sent is their
\* number when the loop is left.
SequenceUnbroken ==
  /\ \A k \in 1 .. Len(wire) : wire[k] = k - 1
  /\ mpc = "send" => Len(wire) = seqNum

\* The numbering with the types of the sending loop's state
SendInv == TypeOK /\ SequenceUnbroken

\* The TX timestamp the RX thread reads for an answer is the packet's own,
\* except in two cases: the main thread is still filing the batch the packet
\* was sent with, or a later packet has taken the same slot.
OwnTxOnceFiled ==
  [][ (rpc = "lookup" /\ rpc' # "lookup") =>
        \/ rowTx' = cur
        \/ mpc = "store" /\ cur >= seqNum + i
        \/ rowTx' > cur /\ Index(rowTx') = Index(cur) ]_vars

\* An answer's RX timestamps are missing from the statistics only if the main
\* thread had not yet created the packet's entry.
UpdateLostOnlyIfOvertaken ==
  [][ (rpc = "stats" /\ rpc' = "row" /\ Found(stats, cur) = 0) =>
        \/ mpc = "store" /\ cur >= seqNum
        \/ mpc = "entry" /\ cur >= seqNum + i ]_vars

\* What the RX thread logs and records of an answer is the packet's own, and
\* recorded, unless it overtook the main thread or the slot was taken again.
WrongOnlyIfOvertaken == OwnTxOnceFiled /\ UpdateLostOnlyIfOvertaken

\* The number of answers displayed is the number of answers logged, unless
\* the join timed out and the RX thread ended by itself before it noticed
\* the cancellation.
CountReported ==
  (report # <<>> /\ (cancel => result = None)) => report[1].received = got

\* Once the loop is left the program finishes: in time or by cancellation.
ShutdownCompletes == (mpc = "close") ~> (mpc = "done")
=============================================================================
