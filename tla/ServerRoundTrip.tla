--------------------------- MODULE ServerRoundTrip --------------------------
(***************************************************************************)
(* timestamp_server in round-trip mode (run_server_roundtrip).  Three      *)
(* threads share the return packet queue, the correlation arrays and the   *)
(* statistics ring:                                                        *)
(*                                                                         *)
(*   RX  (the main thread) receives a packet, queues the request for its   *)
(*       answer, and only then files the packet's RX timestamps and client *)
(*       under its sequence number; at the end it shuts the others down;   *)
(*   TX  (tx_thread_func) takes requests in batches, answers them with     *)
(*       sendmmsg and logs a row per answer from the correlation arrays;   *)
(*   TS  (tx_timestamp_processing_thread) reads kernel TX timestamps from  *)
(*       the socket's error queue and logs them.                           *)
(*                                                                         *)
(* The queue is the bounded FIFO that ReturnPacketQueue implements.  The   *)
(* statistics ring is the sequence of its entries: what happens inside a   *)
(* search, and when the ring is full, is the subject of StatsCollector.    *)
(* A datagram is named by its arrival number, a timestamp or client by the *)
(* arrival it was taken from; 0 is the zeroed memory, or, for the kernel's  *)
(* timestamps in pkt_data, memory that was never set.                      *)
(***************************************************************************)
EXTENDS Integers, Sequences, FiniteSets

CONSTANTS SeqSpace,      \* sequence numbers a uint32_t holds (2^32)
          Seqs,          \* those the clients use
          Unstamped,     \* the arrivals that come without RX timestamps
          Sizes,         \* payload bytes they send (4, 8 or more; 0 to 3: truncated)
          MaxSeqNumbers, \* MAX_SEQUENCE_NUMBERS: slots of the arrays (50000)
          QueueCap,      \* requests the queue holds (4095)
          MaxBatch,      \* BATCH_SIZE (128)
          TsBatch,       \* TX_TIMESTAMP_BATCH_SIZE (256)
          CsvEnabled,    \* --output-csv
          StatsEnabled,  \* --stats
          MaxArrivals,   \* bound: datagrams received
          MaxErrors      \* bound: error queue reads that fail

ASSUME ServerAssumption ==
  /\ SeqSpace \in Nat \ {0} /\ Seqs \subseteq 0 .. SeqSpace - 1
  /\ MaxSeqNumbers \in Nat \ {0}
  /\ QueueCap \in Nat \ {0} /\ MaxBatch \in Nat \ {0} /\ TsBatch \in Nat \ {0}
  /\ CsvEnabled \in BOOLEAN /\ StatsEnabled \in BOOLEAN /\ MaxArrivals \in Nat
  /\ MaxErrors \in Nat /\ Sizes \subseteq Nat /\ Unstamped \subseteq Nat

VARIABLES rpc,       \* where the RX thread is
          arrivals,  \* the datagrams received: sequence number and bytes
          graceful,  \* graceful_shutdown: the loop was left on a signal
          queue,     \* tx_queue, oldest request first
          refused,   \* requests turned away by a full queue
          ctlRoom,   \* msg.msg_controllen still has room for control messages
          pktKer,    \* svr_hw_rx_ts, svr_ker_rx_ts of pkt_data
          corrTs,    \* server_app_rx_timestamps
          corrKer,   \* server_hw_rx_timestamps, server_ker_rx_timestamps
          corrIp,    \* server_client_ips, server_client_ports
          stats,     \* entries of the statistics ring, oldest first
          tpc,       \* where the TX thread is
          txRunning, \* tx_thread_running
          target,    \* target_batch_size
          batch,     \* batch_requests[0 .. batch_count-1]
          torec,     \* the sent requests still to be recorded
          rowTs,     \* application RX timestamp read for the row under construction
          rowKer,    \* hardware and kernel RX timestamps read for it
          rows,      \* rows offered to the main CSV file
          answers,   \* history: answers sent, in order
          viaMmsg,   \* history: those sent by sendmmsg
          wire,      \* answers whose TX timestamp the kernel still owes
          errq,      \* the error queue of the TX socket
          spc,       \* where process_tx_timestamps_in_main_thread is
          phase,     \* who runs it: the TS loop, its final drain, or RX
          tsRunning, \* thread_data->running of the TS thread
          turn,      \* i, the turn of its loop
          done,      \* processed_timestamps
          msg,       \* the message just read
          sawEmpty,  \* it was empty when the last call of the RX thread ended
          errors,    \* failed reads of the error queue so far
          txRows     \* rows offered to the TX CSV file

rxVars  == <<rpc, arrivals, graceful, refused, ctlRoom, pktKer, corrTs, corrKer, corrIp>>
txVars  == <<tpc, target, batch, torec, rowTs, rowKer, rows, answers, viaMmsg>>
tsVars  == <<spc, phase, turn, done, msg, sawEmpty, errors, txRows>>
flags   == <<txRunning, tsRunning>>
vars    == <<rxVars, queue, stats, txVars, wire, errq, tsVars, flags>>

Arrivals == 1 .. MaxArrivals
Slots    == 0 .. MaxSeqNumbers - 1
NoSeq    == SeqSpace - 1             \* seq_num = -1 in a uint32_t

\* get_circular_index
Index(seq) == seq % MaxSeqNumbers
SeqOf(a)   == arrivals[a].seq
Cur        == Len(arrivals)          \* the datagram the RX thread works on

\* The arrivals in a sequence
Ids(sq)    == {sq[k] : k \in 1 .. Len(sq)}

\* create_minimal_stats_entry
NewEntry(a) == [seq |-> SeqOf(a), rx |-> 0, ker |-> 0, appTx |-> 0, tx |-> 0]

\* The newest entry with this sequence number, or 0
Found(es, seq) ==
  LET hits == {k \in 1 .. Len(es) : es[k].seq = seq}
  IN  IF hits = {} THEN 0 ELSE CHOOSE k \in hits : \A j \in hits : j <= k

\* update_stats_buffer_with_{rx,app_tx,tx}_timestamp; a packet without an
\* entry is passed over
UpdateRx(es, a)    == LET k == Found(es, SeqOf(a)) IN
                      IF k = 0 THEN es ELSE [es EXCEPT ![k].rx = a, ![k].ker = pktKer]
UpdateAppTx(es, a) == LET k == Found(es, SeqOf(a)) IN
                      IF k = 0 THEN es ELSE [es EXCEPT ![k].appTx = a]
UpdateTx(es, a)    == LET k == Found(es, SeqOf(a)) IN
                      IF k = 0 THEN es ELSE [es EXCEPT ![k].tx = a]

Init ==
  /\ rpc = "recv" /\ arrivals = <<>> /\ graceful = FALSE /\ refused = {}
  /\ ctlRoom = TRUE /\ pktKer = 0
  /\ corrTs = [i \in Slots |-> 0] /\ corrKer = [i \in Slots |-> 0]
  /\ corrIp = [i \in Slots |-> 0]
  /\ queue = <<>> /\ stats = <<>>
  /\ tpc = "loop" /\ txRunning = 1 /\ target = 1 /\ batch = <<>> /\ torec = <<>>
  /\ rowTs = 0 /\ rowKer = 0 /\ rows = <<>> /\ answers = <<>> /\ viaMmsg = <<>>
  /\ wire = {} /\ errq = <<>>
  /\ spc = "loop" /\ phase = "run" /\ tsRunning = 1
  /\ turn = 0 /\ done = 0 /\ msg = 0 /\ sawEmpty = FALSE /\ errors = 0 /\ txRows = <<>>

-----------------------------------------------------------------------------
(* RX thread: the receive loop *)

\* Mutant: the control messages are looked at before the datagram is received.
Receive_ExtractsFirst(s, n) ==
  /\ rpc = "recv" /\ Cur < MaxArrivals
  /\ arrivals' = Append(arrivals,
       [seq |-> IF n >= 4 THEN s ELSE NoSeq, bytes |-> n])
  /\ ctlRoom' = (ctlRoom /\ Cur + 1 \notin Unstamped)
  /\ pktKer' = IF ctlRoom THEN Cur ELSE pktKer
  /\ rpc' = IF n >= 8 THEN "enqueue" ELSE "storeTs"
  /\ UNCHANGED <<graceful, refused, corrTs, corrKer, corrIp,
                 queue, stats, txVars, wire, errq, tsVars, flags>>

\* recvmsg returns a datagram.  One of at least 8 bytes asks for an answer;
\* below 4 bytes there is not even a sequence number.  recvmsg leaves in
\* msg_controllen what it used, which nobody sets again: after a datagram
\* without control messages there is no room for any.  pkt_data is not cleared,
\* and extract_rx_timestamps leaves it alone when it finds no RX timestamps.
Receive(s, n) ==
  /\ rpc = "recv" /\ Cur < MaxArrivals
  /\ arrivals' = Append(arrivals,
       [seq |-> IF n >= 4 THEN s ELSE NoSeq, bytes |-> n])
  /\ ctlRoom' = (ctlRoom /\ Cur + 1 \notin Unstamped)
  /\ pktKer' = IF ctlRoom' THEN Cur + 1 ELSE pktKer
  /\ rpc' = IF n >= 8 THEN "enqueue" ELSE "storeTs"
  /\ UNCHANGED <<graceful, refused, corrTs, corrKer, corrIp,
                 queue, stats, txVars, wire, errq, tsVars, flags>>

\* enqueue_return_packet_request; a refusal is ignored.
Enqueue ==
  /\ rpc = "enqueue"
  /\ \/ /\ Len(queue) < QueueCap
        /\ queue' = Append(queue, Cur) /\ UNCHANGED refused
     \/ /\ Len(queue) = QueueCap
        /\ refused' = refused \cup {Cur} /\ UNCHANGED queue
  /\ rpc' = "storeTs"
  /\ UNCHANGED <<arrivals, graceful, ctlRoom, pktKer, corrTs, corrKer, corrIp,
                 stats, txVars, wire, errq, tsVars, flags>>

\* Mutant: a slot that was used before is not overwritten.
StoreTs_KeepsFirst ==
  /\ rpc = "storeTs"
  /\ IF corrTs[Index(SeqOf(Cur))] # 0 THEN UNCHANGED <<corrTs, corrKer>>
     ELSE /\ corrTs' = [corrTs EXCEPT ![Index(SeqOf(Cur))] = Cur]
          /\ corrKer' = [corrKer EXCEPT ![Index(SeqOf(Cur))] = pktKer]
  /\ rpc' = "storeIp"
  /\ UNCHANGED <<arrivals, graceful, refused, ctlRoom, pktKer, corrIp,
                 queue, stats, txVars, wire, errq, tsVars, flags>>

\* store_server_rx_timestamps: first the three timestamps, as pkt_data has them ...
StoreTs ==
  /\ rpc = "storeTs"
  /\ corrTs' = [corrTs EXCEPT ![Index(SeqOf(Cur))] = Cur]
  /\ corrKer' = [corrKer EXCEPT ![Index(SeqOf(Cur))] = pktKer]
  /\ rpc' = "storeIp"
  /\ UNCHANGED <<arrivals, graceful, refused, ctlRoom, pktKer, corrIp,
                 queue, stats, txVars, wire, errq, tsVars, flags>>

\* ... then the client's address and port.
StoreIp ==
  /\ rpc = "storeIp"
  /\ corrIp' = [corrIp EXCEPT ![Index(SeqOf(Cur))] = Cur]
  /\ rpc' = IF StatsEnabled THEN "entry" ELSE "recv"
  /\ UNCHANGED <<arrivals, graceful, refused, ctlRoom, pktKer, corrTs, corrKer,
                 queue, stats, txVars, wire, errq, tsVars, flags>>

\* Mutant: a ring that has an entry takes no other.
CreateEntry_First ==
  /\ rpc = "entry"
  /\ stats' = IF stats = <<>> THEN <<NewEntry(Cur)>> ELSE stats
  /\ rpc' = "rxStats"
  /\ UNCHANGED <<arrivals, graceful, refused, ctlRoom, pktKer, corrTs, corrKer, corrIp,
                 queue, txVars, wire, errq, tsVars, flags>>

\* create_minimal_stats_entry
CreateEntry ==
  /\ rpc = "entry"
  /\ stats' = Append(stats, NewEntry(Cur))
  /\ rpc' = "rxStats"
  /\ UNCHANGED <<arrivals, graceful, refused, ctlRoom, pktKer, corrTs, corrKer, corrIp,
                 queue, txVars, wire, errq, tsVars, flags>>

\* update_stats_buffer_with_rx_timestamps
RxStats ==
  /\ rpc = "rxStats"
  /\ stats' = UpdateRx(stats, Cur)
  /\ rpc' = "recv"
  /\ UNCHANGED <<arrivals, graceful, refused, ctlRoom, pktKer, corrTs, corrKer, corrIp,
                 queue, txVars, wire, errq, tsVars, flags>>

-----------------------------------------------------------------------------
(* RX thread: shutdown *)

\* The loop ends: a signal (graceful_shutdown), the run time is over, or
\* recvmsg failed.  stop_tx_timestamp_processing_thread clears running.
LeaveLoop(signal) ==
  /\ rpc = "recv"
  /\ graceful' = signal /\ tsRunning' = 0 /\ rpc' = "joinTs"
  /\ UNCHANGED <<arrivals, refused, ctlRoom, pktKer, corrTs, corrKer, corrIp, txRunning,
                 queue, stats, txVars, wire, errq, tsVars>>

\* The TS thread is joined.  After a signal the RX thread drains the error
\* queue itself.
JoinTs ==
  /\ rpc = "joinTs" /\ spc = "done"
  /\ IF graceful
       THEN /\ rpc' = "drain" /\ spc' = "recv" /\ phase' = "main"
       ELSE /\ rpc' = "stopTx" /\ UNCHANGED <<spc, phase>>
  /\ UNCHANGED <<arrivals, graceful, refused, ctlRoom, pktKer, corrTs, corrKer, corrIp, flags,
                 queue, stats, txVars, wire, errq, turn, done, msg, sawEmpty,
                 errors, txRows>>

\* The join timed out after two seconds: the thread is cancelled where it
\* calls recvmsg or sleeps.
CancelTs ==
  /\ rpc = "joinTs" /\ spc \in {"loop", "recv", "health"}
  /\ spc' = "done" /\ phase' = "final" /\ turn' = 0 /\ done' = 0
  /\ UNCHANGED <<rxVars, flags, queue, stats, txVars, wire, errq,
                 msg, sawEmpty, errors, txRows>>

\* Mutant: the TX thread is not told to stop.
StopTx_StillRunning ==
  /\ rpc = "stopTx"
  /\ rpc' = "joinTx"
  /\ UNCHANGED <<arrivals, graceful, refused, ctlRoom, pktKer, corrTs, corrKer, corrIp, flags,
                 queue, stats, txVars, wire, errq, tsVars>>

\* Stop the TX thread.
StopTx ==
  /\ rpc = "stopTx"
  /\ txRunning' = 0 /\ rpc' = "joinTx"
  /\ UNCHANGED <<arrivals, graceful, refused, ctlRoom, pktKer, corrTs, corrKer, corrIp, tsRunning,
                 queue, stats, txVars, wire, errq, tsVars>>

\* pthread_join returns local_packets_sent; the results are displayed and
\* everything is freed.
JoinTx ==
  /\ rpc = "joinTx" /\ tpc = "done"
  /\ rpc' = "done"
  /\ UNCHANGED <<arrivals, graceful, refused, ctlRoom, pktKer, corrTs, corrKer, corrIp, flags,
                 queue, stats, txVars, wire, errq, tsVars>>

-----------------------------------------------------------------------------
(* TX thread: tx_thread_func *)

\* while (*running): the batch size follows the depth of the queue
TxLoop ==
  /\ tpc = "loop"
  /\ \/ /\ txRunning = 0
        /\ tpc' = "done" /\ UNCHANGED target
     \/ /\ txRunning = 1
        /\ target' = IF queue = <<>> THEN 1
                     ELSE IF Len(queue) < MaxBatch THEN Len(queue) ELSE MaxBatch
        /\ tpc' = "dequeue"
  /\ UNCHANGED <<rxVars, queue, stats, batch, torec, rowTs, rowKer, rows, answers,
                 viaMmsg, wire, errq, tsVars, flags>>

\* dequeue_return_packet_batch, one request at a time
TxDequeue ==
  /\ tpc = "dequeue"
  /\ \/ /\ Len(batch) < target /\ queue # <<>>
        /\ batch' = Append(batch, Head(queue)) /\ queue' = Tail(queue)
        /\ UNCHANGED <<tpc, target>>
     \/ /\ Len(batch) >= target \/ queue = <<>>
        /\ tpc' = (IF batch = <<>> THEN "loop" ELSE "send") /\ target' = 1
        /\ UNCHANGED <<batch, queue>>
  /\ UNCHANGED <<rxVars, stats, torec, rowTs, rowKer, rows, answers, viaMmsg, wire,
                 errq, tsVars, flags>>

\* The packets that leave get a TX timestamp from the kernel, later.
Send(out) == /\ answers' = answers \o out
             /\ wire' = wire \cup Ids(out)

\* What is done first for the next of the sent requests, if there is one:
\* the statistics, or the row when there are no statistics.
NextRecord(rest) == IF rest = <<>> THEN "loop"
                    ELSE IF StatsEnabled \/ ~CsvEnabled THEN "record" ELSE "readTs"

\* sendmmsg sends the first n requests; the others are given up.
TxSend(n) ==
  /\ tpc = "send" /\ n \in 1 .. Len(batch)
  /\ Send(SubSeq(batch, 1, n))
  /\ torec' = SubSeq(batch, 1, n) /\ viaMmsg' = viaMmsg \o SubSeq(batch, 1, n)
  /\ tpc' = NextRecord(torec') /\ batch' = <<>>
  /\ UNCHANGED <<rxVars, queue, stats, target, rowTs, rowKer, rows,
                 errq, tsVars, flags>>

\* sendmmsg sends nothing, or fails with EAGAIN: the whole batch is given up.
TxSendNone ==
  /\ tpc = "send" /\ tpc' = "loop" /\ batch' = <<>>
  /\ UNCHANGED <<rxVars, queue, stats, target, torec, rowTs, rowKer, rows, answers,
                 viaMmsg, wire, errq, tsVars, flags>>

\* Any other error: the batch is sent again request by request.
TxFallback ==
  /\ tpc = "send" /\ tpc' = "fallback"
  /\ UNCHANGED <<rxVars, queue, stats, target, batch, torec, rowTs, rowKer, rows, answers,
                 viaMmsg, wire, errq, tsVars, flags>>

\* Mutant: a request that was sent stays in the batch.
TxSendto_Repeats(ok) ==
  /\ tpc = "fallback"
  /\ \/ ok /\ Send(<<Head(batch)>>) /\ UNCHANGED batch
     \/ ~ok /\ batch' = Tail(batch) /\ UNCHANGED <<answers, wire>>
  /\ tpc' = IF batch' = <<>> THEN "loop" ELSE "fallback"
  /\ UNCHANGED <<rxVars, queue, stats, target, torec, rowTs, rowKer, rows,
                 viaMmsg, errq, tsVars, flags>>

\* sendto for the next request, which may fail.  These answers are counted but
\* neither logged nor put into the statistics.
TxSendto(ok) ==
  /\ tpc = "fallback"
  /\ \/ ok /\ Send(<<Head(batch)>>)
     \/ ~ok /\ UNCHANGED <<answers, wire>>
  /\ batch' = Tail(batch)
  /\ tpc' = IF batch' = <<>> THEN "loop" ELSE "fallback"
  /\ UNCHANGED <<rxVars, queue, stats, target, torec, rowTs, rowKer, rows,
                 viaMmsg, errq, tsVars, flags>>

\* For each sent request, first the statistics ...
TxRecord ==
  /\ tpc = "record"
  /\ stats' = IF StatsEnabled THEN UpdateAppTx(stats, Head(torec)) ELSE stats
  /\ tpc' = IF CsvEnabled THEN "readTs" ELSE NextRecord(Tail(torec))
  /\ torec' = IF CsvEnabled THEN torec ELSE Tail(torec)
  /\ UNCHANGED <<rxVars, queue, target, batch, rowTs, rowKer, rows, answers, viaMmsg,
                 wire, errq, tsVars, flags>>

\* ... then a row: the RX timestamps are read from the correlation arrays ...
TxReadTs ==
  /\ tpc = "readTs"
  /\ rowTs' = corrTs[Index(SeqOf(Head(torec)))]
  /\ rowKer' = corrKer[Index(SeqOf(Head(torec)))]
  /\ tpc' = "readIp"
  /\ UNCHANGED <<rxVars, queue, stats, target, batch, torec, rows, answers, viaMmsg,
                 wire, errq, tsVars, flags>>

\* ... then the client's address, and the row goes to the CSV ring.
TxReadIp ==
  /\ tpc = "readIp"
  /\ LET a == Head(torec) IN
     rows' = Append(rows, [pkt |-> a, ts |-> rowTs, ker |-> rowKer,
                           ip |-> corrIp[Index(SeqOf(a))]])
  /\ torec' = Tail(torec) /\ rowTs' = 0 /\ rowKer' = 0 /\ tpc' = NextRecord(Tail(torec))
  /\ UNCHANGED <<rxVars, queue, stats, target, batch, answers, viaMmsg, wire, errq,
                 tsVars, flags>>

-----------------------------------------------------------------------------
(* The kernel (external): the TX timestamp of an answer reaches the error
   queue some time after the send, in any order, or never. *)

KernelStamp(a) ==
  /\ a \in wire
  /\ wire' = wire \ {a} /\ errq' = Append(errq, a)
  /\ UNCHANGED <<rxVars, queue, stats, txVars, tsVars, flags>>

-----------------------------------------------------------------------------
(* process_tx_timestamps_in_main_thread, run by the TS thread and, after its
   end, by the RX thread *)

\* while (data->running) of tx_timestamp_processing_thread: another call, or
\* the final drain
TsTest == /\ phase' = IF tsRunning = 1 THEN "run" ELSE "final"
          /\ spc' = "recv"

\* The first test of the loop
TsLoop ==
  /\ spc = "loop" /\ TsTest
  /\ UNCHANGED <<rxVars, queue, stats, txVars, wire, errq, flags, turn, done, msg,
                 sawEmpty, errors, txRows>>

\* Mutant: a drain is a single call.
TsReturn_Once ==
  /\ turn' = 0 /\ done' = 0
  /\ IF phase = "run" THEN spc' = "health" /\ UNCHANGED rpc
     ELSE /\ spc' = "done"
          /\ rpc' = IF phase = "main" THEN "stopTx" ELSE rpc

\* What its caller does when the call is over: the loop goes on, the drains
\* call again for as long as the last call reported a timestamp.
TsReturn ==
  /\ turn' = 0 /\ done' = 0
  /\ IF phase = "run" THEN spc' = "health" /\ UNCHANGED rpc
     ELSE IF done > 0 THEN spc' = "recv" /\ UNCHANGED rpc
     ELSE /\ spc' = "done"
          /\ rpc' = IF phase = "main" THEN "stopTx" ELSE rpc

\* monitor_error_queue_health, after every call of the loop: it reads SO_ERROR
\* and peeks at the error queue.  Whether MSG_PEEK leaves a message in an error
\* queue is up to the kernel: the message stays, or it is gone.  The loop is
\* tested again after the sleep that follows, during which the thread does
\* nothing.
TsHealth ==
  /\ spc = "health" /\ TsTest
  /\ \/ UNCHANGED errq
     \/ errq # <<>> /\ errq' = Tail(errq)
  /\ UNCHANGED <<rxVars, queue, stats, txVars, wire, flags, turn, done, msg,
                 sawEmpty, errors, txRows>>

\* The call ends at once when nothing is recorded, after TsBatch turns, or
\* when recvmsg finds the error queue empty.
TsEnd ==
  /\ spc = "recv"
  /\ ~(CsvEnabled \/ StatsEnabled) \/ turn = TsBatch \/ errq = <<>>
  /\ sawEmpty' = (phase = "main" /\ errq = <<>>)
  /\ TsReturn
  /\ UNCHANGED <<arrivals, graceful, refused, ctlRoom, pktKer, corrTs, corrKer, corrIp, phase,
                 queue, stats, txVars, wire, errq, flags, msg, errors, txRows>>

\* recvmsg with another error: the turn is used up.
TsError ==
  /\ spc = "recv" /\ (CsvEnabled \/ StatsEnabled) /\ turn < TsBatch
  /\ errors < MaxErrors
  /\ errors' = errors + 1 /\ turn' = turn + 1
  /\ UNCHANGED <<rxVars, queue, stats, txVars, wire, errq, flags,
                 spc, phase, done, msg, sawEmpty, txRows>>

\* recvmsg delivers a TX timestamp with the sequence number of its answer.
TsReceive ==
  /\ spc = "recv" /\ (CsvEnabled \/ StatsEnabled) /\ turn < TsBatch
  /\ errq # <<>>
  /\ msg' = Head(errq) /\ errq' = Tail(errq)
  /\ turn' = turn + 1 /\ spc' = "log"
  /\ UNCHANGED <<rxVars, queue, stats, txVars, wire, flags,
                 phase, done, sawEmpty, errors, txRows>>

\* The row for the TX CSV file, with the client found in the correlation
\* arrays; only then is the timestamp counted.  The statistics follow.
TsLog ==
  /\ spc = "log"
  /\ IF CsvEnabled
       THEN /\ txRows' = Append(txRows, [pkt |-> msg, ip |-> corrIp[Index(SeqOf(msg))]])
            /\ done' = done + 1
       ELSE UNCHANGED <<txRows, done>>
  /\ stats' = IF StatsEnabled THEN UpdateTx(stats, msg) ELSE stats
  /\ spc' = "recv" /\ msg' = 0
  /\ UNCHANGED <<rxVars, queue, txVars, wire, errq, flags, phase, turn, sawEmpty, errors>>

-----------------------------------------------------------------------------
Rx == \/ \E s \in Seqs, n \in Sizes : Receive(s, n)
      \/ Enqueue \/ StoreTs \/ StoreIp \/ CreateEntry \/ RxStats
      \/ \E g \in BOOLEAN : LeaveLoop(g)
      \/ JoinTs \/ CancelTs \/ StopTx \/ JoinTx

Tx == \/ TxLoop \/ TxDequeue
      \/ \E n \in 1 .. MaxBatch : TxSend(n)
      \/ TxSendNone \/ TxFallback
      \/ \E ok \in BOOLEAN : TxSendto(ok)
      \/ TxRecord \/ TxReadTs \/ TxReadIp

Ts == TsLoop \/ TsHealth \/ TsEnd \/ TsError \/ TsReceive \/ TsLog

Finished == rpc = "done" /\ UNCHANGED vars

Next == Rx \/ Tx \/ Ts \/ (\E a \in Arrivals : KernelStamp(a)) \/ Finished

Spec == Init /\ [][Next]_vars

(* The threads run on cores of their own and wait for each other only in
   pthread_join.  Nothing obliges a client to send, the operator to stop the
   server, the kernel to deliver a TX timestamp, or the join to time out. *)
Fairness ==
  /\ WF_vars(Enqueue \/ StoreTs \/ StoreIp \/ CreateEntry \/ RxStats)
  /\ WF_vars(JoinTs \/ StopTx \/ JoinTx)
  /\ WF_vars(Tx)
  /\ WF_vars(Ts)

FairSpec == Spec /\ Fairness
-----------------------------------------------------------------------------
(* Properties *)

SameSlot(a, b) == Index(SeqOf(a)) = Index(SeqOf(b))

Datagram == [seq : 0 .. SeqSpace - 1, bytes : Nat]
Stamp    == 0 .. MaxArrivals
Entry    == [seq : 0 .. SeqSpace - 1, rx : Stamp, ker : Stamp, appTx : Stamp, tx : Stamp]

RxType ==
  /\ rpc \in {"recv", "enqueue", "storeTs", "storeIp", "entry", "rxStats",
              "joinTs", "drain", "stopTx", "joinTx", "done"}
  /\ arrivals \in Seq(Datagram) /\ Cur <= MaxArrivals /\ graceful \in BOOLEAN
  /\ refused \subseteq Arrivals
  /\ ctlRoom \in BOOLEAN /\ pktKer \in Stamp
  /\ corrTs \in [Slots -> Stamp] /\ corrKer \in [Slots -> Stamp] /\ corrIp \in [Slots -> Stamp]

TxType ==
  /\ tpc \in {"loop", "dequeue", "send", "fallback", "record", "readTs", "readIp", "done"}
  /\ target \in 1 .. MaxBatch /\ batch \in Seq(Arrivals) /\ Len(batch) <= MaxBatch
  /\ torec \in Seq(Arrivals) /\ rowTs \in Stamp /\ rowKer \in Stamp
  /\ rows \in Seq([pkt : Arrivals, ts : Stamp, ker : Stamp, ip : Stamp])
  /\ answers \in Seq(Arrivals) /\ viaMmsg \in Seq(Arrivals)

TsType ==
  /\ spc \in {"loop", "recv", "log", "health", "done"} /\ phase \in {"run", "final", "main"}
  /\ turn \in 0 .. TsBatch /\ done \in 0 .. TsBatch /\ errors \in 0 .. MaxErrors
  /\ msg \in Stamp /\ sawEmpty \in BOOLEAN
  /\ txRows \in Seq([pkt : Arrivals, ip : Stamp])

\* What the threads share.
SharedType ==
  /\ queue \in Seq(Arrivals) /\ Len(queue) <= QueueCap /\ stats \in Seq(Entry)
  /\ wire \subseteq Arrivals /\ errq \in Seq(Arrivals)
  /\ txRunning \in {0, 1} /\ tsRunning \in {0, 1}

\* Every variable has its type; the queue and the batch keep within their sizes.
TypeOK == RxType /\ TxType /\ TsType /\ SharedType

\* Every answer belongs to a received datagram that asked for one, no datagram
\* is answered twice, answers leave in the order of arrival, and a request
\* that was turned away or is still queued has not been answered: whatever
\* sendmmsg and sendto do with the batches.
AnswersOnceInOrder ==
  /\ \A k \in 1 .. Len(answers) : arrivals[answers[k]].bytes >= 8
  /\ \A j, k \in 1 .. Len(answers) : j < k => answers[j] < answers[k]
  /\ Ids(answers) \cap (refused \cup Ids(queue)) = {}

\* After a partial sendmmsg exactly the answers that left get a row, in order.
RowsFollowSends ==
  CsvEnabled => viaMmsg = [k \in 1 .. Len(rows) |-> rows[k].pkt] \o torec

\* What a row takes from the correlation arrays for packet a is a's own, except
\* in two cases: the RX thread is still between queueing a and filing this
\* part of it (unfiled), or a later packet has taken the same slot.
OwnOrExcused(x, a, unfiled) ==
  \/ x = a
  \/ a = Cur /\ rpc \in unfiled
  \/ x > a /\ SameSlot(a, x)

\* The application RX timestamp and the client in a row of the main file, and
\* the client in a row of the TX file, belong to the row's packet outside the
\* two windows that OwnOrExcused names.
OwnStampOnceFiled ==
  [][ /\ (tpc = "readTs" /\ tpc' = "readIp") =>
           OwnOrExcused(rowTs', Head(torec), {"storeTs"})
      /\ Len(rows') > Len(rows) =>
           OwnOrExcused(rows'[Len(rows')].ip, Head(torec), {"storeTs", "storeIp"})
      /\ Len(txRows') > Len(txRows) =>
           OwnOrExcused(txRows'[Len(txRows')].ip, msg, {"storeTs", "storeIp"}) ]_vars

\* g is the last datagram up to x whose RX timestamps reached pkt_data: x itself
\* as long as every datagram came with them, and for all datagrams from the
\* first one without on, the one before that; 0 if it was the very first.
LastStamped(x, g) ==
  g \in 0 .. x /\ (\A b \in 1 .. g : b \notin Unstamped) /\ (g < x => g + 1 \in Unstamped)

\* The hardware and kernel RX timestamps in a row are those filed with the
\* row's packet outside OwnOrExcused's windows, but they are the packet's own
\* only up to the first datagram without RX timestamps: no later row has
\* timestamps of a later datagram again, nor an empty cell that would show it.
KernelStampOwnOrStale ==
  [][ (tpc = "readTs" /\ tpc' = "readIp") =>
        \E x \in 0 .. Cur : /\ OwnOrExcused(x, Head(torec), {"storeTs"})
                            /\ LastStamped(x, rowKer') ]_vars

\* A TX timestamp is logged at most once, for an answer that was sent, and is
\* not still waiting to be read.
TxStampOnce ==
  LET ids == [k \in 1 .. Len(txRows) |-> txRows[k].pkt] IN
  /\ \A j, k \in 1 .. Len(ids) : j # k => ids[j] # ids[k]
  /\ Ids(ids) \subseteq Ids(answers)
  /\ Ids(ids) \cap (wire \cup Ids(errq)) = {}

\* Answers, the rows of those that left and the rows of their TX timestamps:
\* each once, for what was really received and sent.
OnceInv == TypeOK /\ AnswersOnceInOrder /\ RowsFollowSends /\ TxStampOnce

\* "Process any remaining TX timestamps in the error queue": the drain after a
\* signal ends only when the error queue is empty.
DrainEmptiesQueue ==
  (graceful /\ rpc \in {"stopTx", "joinTx", "done"}) => sawEmpty

\* Once the receive loop is left, every thread ends and the program finishes.
ShutdownCompletes == (rpc = "joinTs") ~> (rpc = "done")

\* An update of the statistics by the TX or the TS thread is lost only while
\* the RX thread is between queueing that very packet and creating its entry.
UpdateLostOnlyIfOvertaken ==
  [][ /\ (/\ tpc = "record" /\ <<tpc, torec>>' # <<tpc, torec>>
          /\ Found(stats, SeqOf(Head(torec))) = 0)
           => Head(torec) = Cur /\ rpc \in {"storeTs", "storeIp", "entry"}
      /\ (spc = "log" /\ spc' = "recv" /\ Found(stats, SeqOf(msg)) = 0)
           => msg = Cur /\ rpc \in {"storeTs", "storeIp", "entry"} ]_vars
=============================================================================
