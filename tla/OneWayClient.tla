----------------------------- MODULE OneWayClient ---------------------------
(***************************************************************************)
(* timestamp_client in one-way mode (run_client_oneway).                   *)
(*                                                                         *)
(*   main  the main thread sets up, sends batches of numbered packets,     *)
(*         records what was sent, stops the TS thread, drains the error    *)
(*         queue, analyses and cleans up;                                  *)
(*   TS    tx_timestamp_processing_thread reads the kernel's TX timestamps *)
(*         (completions) from the error queue of the same socket.          *)
(*                                                                         *)
(* The kernel posts a completion for a packet some time after the send, or *)
(* never, and may post a socket error (the ICMP answer of a host that does *)
(* not listen).  A packet is named by its sequence number.  The statistics *)
(* ring is the set of its entries and a CSV ring the sequence of rows      *)
(* offered to it: their insides are StatsCollector's and CsvRingBuffer's.  *)
(* app_tx_timestamps is only written in this mode, so of it just the       *)
(* allocation is kept.  PPS reporting is PpsReporter's.                    *)
(***************************************************************************)
EXTENDS Integers, Sequences, FiniteSets, SequencesExt

CONSTANTS BatchSize,     \* batch_count: BATCH_SIZE (128), or 1 below 128 pps
          TsBatch,       \* TX_TIMESTAMP_BATCH_SIZE (256)
          MaxPackets,    \* bound: packets sent
          MaxErrors      \* bound: socket errors, and failing error queue reads

ASSUME OneWayAssumption ==
  /\ BatchSize \in Nat \ {0} /\ TsBatch \in Nat \ {0}
  /\ MaxPackets \in Nat /\ MaxErrors \in Nat

Seqs  == 0 .. MaxPackets - 1

VARIABLES csv, statsOn,  \* csv_config.csv_enabled, stats_config.enabled
          shutdown,      \* graceful_shutdown
          mpc,           \* where the client's main thread is
          res,           \* what the client holds
          seqNum,        \* seq_num
          sentN, i,      \* sent, and the index of the loop over the sent packets
          wire,          \* history: packets handed to the network, in order
          rows,          \* rows offered to the main CSV file
          entries,       \* packets with an entry in the statistics ring
          stamped,       \* entries that have their kernel TX timestamp
          spc,           \* where process_tx_timestamps_in_main_thread is
          phase,         \* who runs it: the TS loop, its final drain, or main
          running,       \* thread_data->running
          turn,          \* i, the turn of its loop
          done,          \* processed_timestamps
          txRows,        \* rows offered to the TX CSV file
          owed,          \* packets whose completion the kernel still owes
          errq,          \* the error queue
          sockErr,       \* SO_ERROR is set
          errors,        \* errors so far
          early,         \* history: completions read before the entry existed
          peeked,        \* history: completions taken by the health check
          sawEmpty       \* history: main's last drain call met an empty queue

config   == <<csv, statsOn, shutdown>>
loopVars == <<seqNum, sentN, i, wire, rows>>
tsVars   == <<spc, phase, turn, done, txRows, stamped, early, peeked, sawEmpty>>
kernel   == <<owed, errq, sockErr, errors>>
vars     == <<config, mpc, res, running, entries, loopVars, tsVars, kernel>>

Init ==
  /\ csv \in BOOLEAN /\ statsOn \in BOOLEAN /\ shutdown = FALSE
  /\ mpc = "socket" /\ res = (IF statsOn THEN {"stats"} ELSE {}) /\ running = 0
  /\ seqNum = 0 /\ sentN = 0 /\ i = 0 /\ wire = <<>> /\ rows = <<>>
  /\ entries = {} /\ stamped = {}
  /\ spc = "none" /\ phase = "run" /\ turn = 0 /\ done = 0 /\ txRows = <<>>
  /\ owed = {} /\ errq = <<>> /\ sockErr = FALSE /\ errors = 0
  /\ early = {} /\ peeked = {} /\ sawEmpty = FALSE

-----------------------------------------------------------------------------
(* setup *)

\* The steps of run_client_oneway up to its loop, in order.  The last stands
\* for three allocations, "options" for the socket options and the interface.
SetupSteps == <<"socket", "options", "txcsv", "corr", "thread", "pps", "csv",
                "connect", "buffers", "loop">>
StepNo(s)  == CHOOSE k \in 1 .. Len(SetupSteps) : SetupSteps[k] = s

\* What a step acquires; the CSV buffers only exist with --output-csv.
Acquires(s) ==
  IF s \in {"options", "connect"} \/ (s \in {"txcsv", "csv"} /\ ~csv) THEN {} ELSE {s}

\* Mutant: a failing connect also gives back the TX CSV buffer.
Releases_TxCsvToo(s) ==
  CASE s \in {"options", "txcsv", "csv", "buffers"} -> {"socket"}
    [] s = "corr"    -> {"txcsv", "socket"}
    [] s = "thread"  -> {"txcsv", "corr", "socket"}
    [] s = "connect" -> {"csv", "txcsv", "socket"}
    [] OTHER         -> {}

\* What the error path of a step gives back
Releases(s) ==
  CASE s \in {"options", "txcsv", "csv", "buffers"} -> {"socket"}
    [] s = "corr"    -> {"txcsv", "socket"}
    [] s = "thread"  -> {"txcsv", "corr", "socket"}
    [] s = "connect" -> {"csv", "socket"}
    [] OTHER         -> {}

\* start_tx_timestamp_processing_thread
StartTs == spc' = "loop" /\ running' = 1

\* A step succeeds.
SetupStep ==
  /\ mpc \in ToSet(SetupSteps) \ {"loop"}
  /\ res' = res \cup Acquires(mpc)
  /\ IF mpc = "thread" THEN StartTs ELSE UNCHANGED <<spc, running>>
  /\ mpc' = SetupSteps[StepNo(mpc) + 1]
  /\ UNCHANGED <<config, entries, loopVars, kernel,
                 phase, turn, done, txRows, stamped, early, peeked, sawEmpty>>

\* A step fails: run_client_oneway returns EXIT_FAILURE, and so does main.
\* pps cannot fail, and without --output-csv no CSV buffer is created.
SetupFails ==
  /\ mpc \in ToSet(SetupSteps) \ {"pps", "loop"}
  /\ mpc \in {"txcsv", "csv"} => csv
  /\ res' = res \ Releases(mpc)
  /\ mpc' = "failed"
  /\ UNCHANGED <<config, running, entries, loopVars, tsVars, kernel>>

-----------------------------------------------------------------------------
(* the sending loop *)

\* The signal handler
Signal ==
  /\ ~shutdown /\ shutdown' = TRUE
  /\ UNCHANGED <<csv, statsOn, mpc, res, running, entries, loopVars, tsVars, kernel>>

\* sendmmsg takes the first n packets of the batch.  A pending socket error
\* that it meets after some of them is dropped.  (After EAGAIN the loop starts
\* over with the same sequence number: nothing changes.)
Send(n) ==
  /\ mpc = "loop" /\ ~shutdown /\ seqNum + BatchSize <= MaxPackets
  /\ sentN' = n /\ i' = 0
  /\ wire' = wire \o [k \in 1 .. n |-> seqNum + k - 1]
  /\ owed' = owed \cup (seqNum .. seqNum + n - 1)
  /\ sockErr' = FALSE /\ (sockErr => n < BatchSize)
  /\ mpc' = "record"
  /\ UNCHANGED <<config, res, running, entries, seqNum, rows, tsVars,
                 errq, errors>>

\* One sent packet is recorded: its statistics entry with the application's
\* timestamp, and its row.
Record ==
  /\ mpc = "record" /\ i < sentN
  /\ entries' = IF statsOn THEN entries \cup {seqNum + i} ELSE entries
  /\ rows' = IF csv THEN Append(rows, seqNum + i) ELSE rows
  /\ i' = i + 1
  /\ UNCHANGED <<config, mpc, res, running, seqNum, sentN, wire, tsVars,
                 kernel>>

\* Mutant: the sequence number advances by the batch, not by what was sent.
RecordDone_WholeBatch ==
  /\ mpc = "record" /\ i = sentN
  /\ seqNum' = seqNum + BatchSize
  /\ sentN' = 0 /\ i' = 0 /\ mpc' = "loop"
  /\ UNCHANGED <<config, res, running, entries, wire, rows, tsVars,
                 kernel>>

\* All are recorded: seq_num, total_packets_sent and g_packets_sent += sent.
RecordDone ==
  /\ mpc = "record" /\ i = sentN
  /\ seqNum' = seqNum + sentN
  /\ sentN' = 0 /\ i' = 0 /\ mpc' = "loop"
  /\ UNCHANGED <<config, res, running, entries, wire, rows, tsVars,
                 kernel>>

\* The loop is left on a signal, at the end of the run time, or when sendmmsg
\* fails at once with the pending socket error, which that clears.
\* stop_tx_timestamp_processing_thread clears running.
LeaveLoop ==
  /\ mpc = "loop"
  /\ sockErr' \in {sockErr, FALSE}
  /\ running' = 0 /\ mpc' = "joinTs"
  /\ UNCHANGED <<config, res, entries, loopVars, tsVars,
                 owed, errq, errors>>

-----------------------------------------------------------------------------
(* the end *)

\* The TS thread has ended and is joined; main drains what is left.
JoinTs ==
  /\ mpc = "joinTs" /\ spc = "done"
  /\ res' = res \ {"thread"}
  /\ mpc' = "drain" /\ spc' = "recv" /\ phase' = "main"
  /\ UNCHANGED <<config, running, entries, loopVars, kernel,
                 turn, done, txRows, stamped, early, peeked, sawEmpty>>

\* The join times out: the thread is cancelled where it calls recvmsg or sleeps.
CancelTs ==
  /\ mpc = "joinTs" /\ spc \in {"loop", "recv", "health"}
  /\ spc' = "done" /\ turn' = 0 /\ done' = 0
  /\ UNCHANGED <<config, mpc, res, running, entries, loopVars, kernel,
                 phase, txRows, stamped, early, peeked, sawEmpty>>

\* What run_client_oneway frees after the drain, in order
CleanupSteps == <<"stats", "socket", "txcsv", "csv", "pps", "buffers", "corr">>

\* The statistics are analysed and destroyed and everything else is freed.
Cleanup ==
  /\ mpc = "cleanup"
  /\ res' = res \ ToSet(CleanupSteps)
  /\ mpc' = "done"
  /\ UNCHANGED <<config, running, entries, loopVars, tsVars, kernel>>

-----------------------------------------------------------------------------
(* process_tx_timestamps_in_main_thread, run by the TS thread and, after its
   end, by main *)

Recording == csv \/ statsOn
TsTurn    == Recording /\ turn < TsBatch

\* while (data->running): another call, or the final drain
TsTest == /\ phase' = (IF running = 1 THEN "run" ELSE "final") /\ spc' = "recv"

TsLoop ==
  /\ spc = "loop" /\ TsTest
  /\ UNCHANGED <<config, mpc, res, running, entries, loopVars, kernel,
                 turn, done, txRows, stamped, early, peeked, sawEmpty>>

\* Mutant: main's drain does not stop at an empty queue.
TsReturn_Forever ==
  /\ turn' = 0 /\ done' = 0
  /\ \/ phase = "run" /\ spc' = "health" /\ UNCHANGED mpc
     \/ phase = "main" /\ spc' = "recv" /\ UNCHANGED mpc
     \/ phase = "final" /\ spc' = "done" /\ UNCHANGED mpc

\* What the caller does when the call is over: the drains call again for as
\* long as the last call reported a timestamp.
TsReturn ==
  /\ turn' = 0 /\ done' = 0
  /\ \/ phase = "run" /\ spc' = "health" /\ UNCHANGED mpc
     \/ phase # "run" /\ done > 0 /\ spc' = "recv" /\ UNCHANGED mpc
     \/ phase = "final" /\ done = 0 /\ spc' = "done" /\ UNCHANGED mpc
     \/ phase = "main" /\ done = 0 /\ spc' = "done" /\ mpc' = "cleanup"

\* The call ends at once when nothing is recorded, after TsBatch turns, or when
\* recvmsg finds the queue empty.  On the closed socket that a failed setup
\* leaves behind, every turn fails.
TsEnd ==
  /\ spc = "recv"
  /\ ~TsTurn \/ errq = <<>> \/ "socket" \notin res
  /\ sawEmpty' = (phase = "main" /\ errq = <<>>)
  /\ TsReturn
  /\ UNCHANGED <<config, res, running, entries, loopVars, kernel,
                 phase, txRows, stamped, early, peeked>>

\* recvmsg with an error other than EAGAIN: the turn is used up.
TsError ==
  /\ spc = "recv" /\ TsTurn /\ "socket" \in res /\ errors < MaxErrors
  /\ errors' = errors + 1 /\ turn' = turn + 1
  /\ UNCHANGED <<config, mpc, res, running, entries, loopVars,
                 owed, errq, sockErr, spc, phase, done, txRows, stamped,
                 early, peeked, sawEmpty>>

\* The row of completion c, which alone counts as a processed timestamp
TsLog(c) == /\ txRows' = IF csv THEN Append(txRows, c) ELSE txRows
            /\ done' = IF csv THEN done + 1 ELSE done

\* Mutant: the statistics are only updated for a logged completion.
TsUpdate_IfLogged(c) ==
  /\ stamped' = IF csv THEN stamped \cup ({c} \cap entries) ELSE stamped
  /\ early' = IF statsOn THEN early \cup ({c} \ entries) ELSE early

\* update_stats_buffer_with_tx_timestamp: a packet without an entry is passed
\* over, and its timestamp with it.
TsUpdate(c) ==
  /\ stamped' = stamped \cup ({c} \cap entries)
  /\ early' = IF statsOn THEN early \cup ({c} \ entries) ELSE early

\* recvmsg takes the next completion, which is logged and put into the
\* statistics.  (No other thread can tell its removal from the queue from its
\* use, so that they are one step.)
TsReceive ==
  /\ spc = "recv" /\ TsTurn /\ "socket" \in res /\ errq # <<>>
  /\ errq' = Tail(errq)
  /\ TsLog(Head(errq)) /\ TsUpdate(Head(errq))
  /\ turn' = turn + 1
  /\ UNCHANGED <<config, mpc, res, running, entries, loopVars,
                 owed, sockErr, errors, spc, phase, peeked, sawEmpty>>

\* monitor_error_queue_health: SO_ERROR is read, which clears it; whether
\* MSG_PEEK leaves a message in an error queue is up to the kernel.  Then the
\* thread sleeps and tests running again.
TsHealth ==
  /\ spc = "health" /\ TsTest
  /\ sockErr' = FALSE
  /\ \/ UNCHANGED <<errq, peeked>>
     \/ /\ ~sockErr /\ "socket" \in res /\ errq # <<>>
        /\ errq' = Tail(errq) /\ peeked' = peeked \cup {Head(errq)}
  /\ UNCHANGED <<config, mpc, res, running, entries, loopVars,
                 owed, errors, turn, done, txRows, stamped, early, sawEmpty>>

-----------------------------------------------------------------------------
(* The kernel under the client (external) *)

\* The driver timestamps the packets in the order it sends them, and may leave
\* one out.
KernelStamp(s) ==
  /\ s \in owed /\ "socket" \in res
  /\ \A t \in ToSet(wire) \ owed : t < s
  /\ owed' = owed \ {s} /\ errq' = Append(errq, s)
  /\ UNCHANGED <<config, mpc, res, running, entries, loopVars, tsVars,
                 sockErr, errors>>

KernelSockErr ==
  /\ wire # <<>> /\ "socket" \in res /\ ~sockErr /\ errors < MaxErrors
  /\ sockErr' = TRUE /\ errors' = errors + 1
  /\ UNCHANGED <<config, mpc, res, running, entries, loopVars, tsVars,
                 owed, errq>>

-----------------------------------------------------------------------------
Main ==
  \/ SetupStep \/ SetupFails
  \/ \E n \in 1 .. BatchSize : Send(n)
  \/ Record \/ RecordDone \/ LeaveLoop \/ JoinTs \/ CancelTs \/ Cleanup

Processing ==
  \/ TsLoop \/ TsEnd \/ TsError \/ TsReceive \/ TsHealth

Next ==
  \/ Main \/ Processing \/ Signal
  \/ \E s \in owed : KernelStamp(s)
  \/ KernelSockErr
  \/ mpc \in {"done", "failed"} /\ UNCHANGED vars

Spec == Init /\ [][Next]_vars

\* Both threads of the client keep running: main never blocks but in the join,
\* the TS thread never blocks at all.
FairSpec == Spec /\ WF_vars(Main) /\ WF_vars(Processing)

-----------------------------------------------------------------------------
(* Properties *)

MainPcs == ToSet(SetupSteps) \cup {"record", "joinTs", "drain", "cleanup", "done", "failed"}
Drained == mpc \in {"cleanup", "done"}
Unread  == owed \cup ToSet(errq)

\* Type correctness
TypeOK ==
  /\ csv \in BOOLEAN /\ statsOn \in BOOLEAN /\ shutdown \in BOOLEAN
  /\ mpc \in MainPcs /\ res \subseteq ToSet(SetupSteps) \cup {"stats"}
  /\ seqNum \in 0 .. MaxPackets /\ sentN \in 0 .. BatchSize /\ i \in 0 .. sentN
  /\ wire \in Seq(Seqs) /\ rows \in Seq(Seqs) /\ txRows \in Seq(Seqs)
  /\ entries \subseteq Seqs /\ stamped \subseteq entries
  /\ early \subseteq Seqs /\ peeked \subseteq Seqs
  /\ spc \in {"none", "loop", "recv", "health", "done"}
  /\ phase \in {"run", "final", "main"} /\ running \in {0, 1}
  /\ turn \in 0 .. TsBatch /\ done \in 0 .. TsBatch
  /\ owed \subseteq Seqs /\ errq \in Seq(Seqs)
  /\ sockErr \in BOOLEAN /\ errors \in 0 .. MaxErrors /\ sawEmpty \in BOOLEAN

\* The packets on the wire carry 0, 1, 2, ... once each and in order, whatever
\* part of a batch sendmmsg takes and however often it is retried.
SequenceUnbroken == \A k \in 1 .. Len(wire) : wire[k] = k - 1

\* Every packet on the wire has its row, exactly one, in the main CSV file once
\* the client is done, so that whatever the server received can be joined; and
\* until then only packets of the batch in flight lack theirs.  That takes
\* recording partial sends and the batch that a shutdown meets.
RowsFollowWire ==
  csv => rows = SubSeq(wire, 1, Len(wire) - (IF mpc = "record" THEN sentN - i ELSE 0))

\* What was sent, its numbers and its rows agree.
SendInv == TypeOK /\ SequenceUnbroken /\ RowsFollowWire

\* A completion is in one place only: still owed, in the error queue, taken by
\* the health check, or (with a TX CSV) logged, and logged once.
CompletionsOnce ==
  csv => /\ IsInjective(txRows) /\ IsInjective(errq)
         /\ ToSet(wire) = Unread \cup peeked \cup ToSet(txRows)
         /\ ToSet(txRows) \cap (Unread \cup peeked) = {}

\* With a TX CSV, main's drain ends only on an empty error queue: no completion
\* that had arrived by then is left behind, unless reads failed.
DrainReachesEmpty == (Drained /\ csv /\ errors = 0) => sawEmpty

\* The statistics that are analysed lack exactly the kernel timestamps that
\* were read before the packet's entry existed, that the health check took, or
\* that nobody read.  (Without a TX CSV a drain stops after one batch, so that
\* timestamps in the queue stay unread.)
MissingStampsExplained ==
  (Drained /\ statsOn) => ToSet(wire) \ stamped = early \cup peeked \cup Unread

\* No completion is used twice, and every one that is missing in the end has one
\* of the named reasons.
CompletionsAccounted == CompletionsOnce /\ DrainReachesEmpty /\ MissingStampsExplained

\* For as long as completions are processed, by the TS thread, by main, or by the
\* thread a failed setup leaves behind, what that uses exists: the TX CSV buffer
\* and the statistics.  A client that ends well holds nothing, and so does one
\* whose setup fails, but for main's statistics, unless the thread was running.
BuffersOutliveThread ==
  /\ spc \notin {"none", "done"} => (csv => "txcsv" \in res) /\ (statsOn => "stats" \in res)
  /\ mpc = "done" => res = {}
  /\ (mpc = "failed" /\ "thread" \notin res) => res \subseteq {"stats"}

\* After a signal the client comes to its end: the loop notices, the TS thread
\* is joined or cancelled, and main's drain of the queue is finite.
ShutdownCompletes == shutdown ~> mpc \in {"done", "failed"}
=============================================================================
