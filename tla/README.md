# TLA+ models of trading-latency-benchmark

Formal models of the concurrent core of this repository: the EC2 packet
timestamping programs (`src/ec2_timestamping_programs`), in which real-time
threads exchange packets, timestamps and log rows through lock-free rings and
shared arrays, with the tool that joins their CSV files; and the AF_XDP packet
replicator (`src/af_xdp_zero_copy_perf_benchmark`), in which a queue thread and
the kernel pass frames to each other through four rings. TLC checks the models
on small instances; TLAPS proves every safety property that the passing runs
check, for every size. Liveness stays with TLC.

Contents: [inventory](#inventory) · [modules](#modules-and-the-code-they-model)
· [runs](#runs) · [findings](#findings) · [bounds](#bounds) ·
[fairness and memory model](#fairness-and-memory-model) · [proofs](#proofs) ·
[mutants](#mutants) · [left out](#what-is-left-out) · [plan](#plan)

## Inventory

### The timestamping programs (C)

| Component | State | Operations | Interacts with |
|---|---|---|---|
| CSV logger (`timestamp_common.c/.h`) | ring of preformatted rows, `head`, `tail`, `running`, the file | `csv_buffer_create`, `csv_enqueue_fast`, `csv_writer_thread` (`csv_dequeue_batch`, `csv_format_batch`, `write`), `csv_buffer_destroy` | one producer thread per buffer, its own writer thread |
| Statistics ring (`stats_collector_t`) | ring of packet entries, `head`, `tail`, counters | `stats_enqueue`, `create_minimal_stats_entry`, `update_stats_buffer_with_{tx,app_tx,rx}_timestamp(s)` | one recorder, up to two updating threads, no lock |
| Statistics analysis | value array, histogram, outlier count per delta | `configure_analysis_for_mode`, `process_buffer_for_analysis`, `process_entry_for_delta`, `exact_percentiles_*`, display, clean-up | reads the ring after the threads have ended |
| Return packet queue (`timestamp_server.c`) | ring of requests, `head`, `tail` | `enqueue_return_packet_request`, `dequeue_return_packet_batch`, queue depth | RX thread → TX thread |
| Server, round-trip mode | correlation arrays by sequence number, queue, statistics, run flags | receive loop, `tx_thread_func`, TX timestamp thread, shutdown | clients, kernel error queue |
| Client, round-trip mode (`timestamp_client.c`) | correlation array, sequence counter, statistics, RX counter | batch send, `store_tx_timestamps`, `rx_thread_func`, timed join, cancellation | server |
| TX timestamp thread | run flag, error queue | `tx_timestamp_processing_thread`, `monitor_error_queue_health`, stop/join/cancel | server, client |
| Server, one-way mode | socket, CSV, statistics, PPS state | setup, receive loop, clean-up | client, alarm handler, CSV writer thread |
| Client, one-way mode | sequence counter, CSV buffers, statistics, socket | setup with error paths, batch send, recording, drain, clean-up | TX timestamp thread, kernel error queue |
| PPS reporting | last counters and time, rates, ready flag, `SIGALRM` | alarm handler, display, setup, clean-up | handler on any thread, display on the main thread |
| `timestamp_csvjoin` | sequence numbers per file, record table | options, detection, validation, join on the sequence number, output with deltas | the CSV files, which a logger may still write |
| Clock/TSC helpers, argument parsing, logging | none shared | pure or I/O | – |

### The AF_XDP replicator (C++)

| Component | State | Operations | Interacts with |
|---|---|---|---|
| `AFXDPSocket` | UMEM frames; RX, fill, TX and completion ring; next TX frame, cached completions, outstanding count, frames to recycle | load/configure/unload of the XDP program, `bind`, `registerXskMap`, `receive`, `recycleFrames`, `pollTxCompletions`, `getNextTxFrame`, reserve and submit, `requestDriverPoll`, `close` | kernel and driver |
| `PacketReplicator` | destination table with its mutex, `running_`, counters | `initialize`, `start`, queue threads with a fallback to a plain socket, control thread, `stop`, destructor | sockets, control clients |
| `unicast_filter` | two maps | classification of a packet | kernel → socket |
| Control, test and market data clients | none | send control messages, generate load | replicator |
| Network interface configurator | none | runs `ethtool` and `ip` | – |

### The rest of the repository

* HFT clients (Rust, Java, C++) and the mock trading server: the order, BOOKED,
  cancel, DONE exchange with a latency tracker.
* Microbenchmarks, deployment and tuning scripts, tests and CI: no state machine
  of their own.

### Hard behaviours

1. Threads that share rings and arrays without locks, on acquire/release atomics
   in the two FIFO rings and with nothing but luck in the statistics ring and in
   the correlation arrays.
2. State used after it may have changed: a queue depth, a pair of indices loaded
   one after the other, a matched entry, a slot shared by sequence numbers that
   are equal modulo 50000, a structure that keeps the last packet's timestamps.
3. System calls that do part of the job: `sendmmsg`, `write`, `recvmsg` on the
   error queue.
4. Shutdown: timed joins, cancellation, draining a queue that others still fill.
5. Answers that are lost, repeated, reordered, or faster than the sender's own
   bookkeeping.
6. A signal handler that interrupts the main thread, or runs beside it, and arms
   its own next signal.
7. Frames that belong to the program or to the kernel by convention only, with
   completions peeked, cached and released at three different times.
8. Setup that fails half-way, with threads or kernel state already in place.
9. Files that are read three times while they may still grow.

What makes each component correct:

* a FIFO ring loses, repeats and reorders nothing, refuses only when full, and
  its consumer cannot be starved;
* the statistics ring holds the most recent packets, and each timestamp is in
  the entry of a packet with its number;
* the analysis counts every delta and computes percentiles of the right values;
* the server answers each accepted request at most once and in order, logs what
  it sent, with the packet's own timestamps, and terminates;
* the client numbers its packets without gaps, logs each answer with its own TX
  timestamp, reports its true counts, and terminates;
* the PPS report counts every packet in one interval, and its alarm never kills
  the process;
* a frame is in one place at a time, what is counted as sent was sent, and a
  removed destination is sent nothing more than what was already under way;
* the join has exactly the packets common to all files, each cell from that
  packet's row and column, each delta the difference of its columns.

`PROJECT.json` lists the hazards line by line with the properties that cover
them.

## Modules and the code they model

| Module | Models | Remarks |
|---|---|---|
| `Ring` | index arithmetic of all three rings, `next_power_of_2` | operators only |
| `BoundedFifo` | what a FIFO ring promises: accept, refuse only when full, remove the oldest | abstract specification |
| `CsvRingBuffer` | the CSV logger from creation to destruction | implements `BoundedFifo` |
| `ReturnPacketQueue` | the server's request queue and adaptive batch size | implements `BoundedFifo` |
| `StatsCollector` | the statistics ring under one recorder and several updaters | |
| `StatsAnalysis` | the evaluation of one delta | deltas are independent |
| `ServerRoundTrip` | `run_server_roundtrip`, `tx_thread_func`, the TX timestamp thread | composition, uses the FIFO as a sequence |
| `ClientRoundTrip` | `run_client_roundtrip`, `rx_thread_func` | composition |
| `OneWayClient` | `run_client_oneway` and its TX timestamp thread | composition |
| `PpsReporter` | alarm handler and display | actions only |
| `ServerReceiveLoop` | `run_server_oneway`: setup, loop, clean-up | composes `PpsReporter` |
| `AfXdpSocket` | `AFXDPSocket`, the XDP filter, kernel and driver | actions on parts of the state |
| `PacketReplicator` | `PacketReplicator`, its threads and `main` | composes `AfXdpSocket` |
| `CsvJoin` | `timestamp_csvjoin` | |
| `MC*` | model-checking instances | constants only |
| `RingLemmas` | lemmas on ring indices, on sequences used as queues, and on least numbers | |
| `*Proofs` | theorems about the module of that name | `CsvRingBufferProofs` also about `CsvJoin`, `StatsCollectorProofs` about `StatsAnalysis`, `ServerRoundTripProofs` about `ReturnPacketQueue` |

### CsvRingBuffer

`head`, `tail`, `entries`, `running` are the fields of `csv_log_buffer_t`;
`ppc` and `wpc` say where the producer and the writer thread are. A row is the
number of the enqueue that offered it. Each access of one thread to a word that
the other thread uses is a step: `EnqueueCheck` (load of `tail`, full test),
`EnqueueCopy`, `EnqueuePublish` (store of `head`); `DequeueCheck`,
`DequeueCopy`, `DequeueAdvance` (store of `tail`). `WriteBatch` formats the
batch (`csv_format_batch` stops when the next row might not fit) and calls
`write`, which may fail or write a prefix; neither is retried. `WriterLoop` is
the loop with its single final flush. Creation may fail, and the writer thread
may fail to allocate its batch and end. The code's batch is 10000 rows with 256
bytes of room for each, and the longest row has 165, so the room test never
ends a batch early; with a batch of one it would format nothing, which
`BatchAssumption` excludes. `accepted`, `taken` and `file` are what
was published, what left the ring, what reached the file.

### ReturnPacketQueue

The same protocol with the roles of `head` and `tail` exchanged (the RX thread
writes `tail`, the TX thread `head`). `LoadDepth` is the TX thread's sizing of a
batch: its own `head`, then `tail` as it is at that moment; the dequeues come
later. The specification is `QueueSpec`, its names being kept apart from those of
`ServerRoundTrip`, which the same proof module is about.

### StatsCollector

The recorder (`EnqueueCheck`, `EnqueueCopy`, `EnqueuePublish`, `OwnUpdate`)
moves `tail` past the oldest entry when the ring is full, copies the new entry
field by field, publishes it, and stores its own timestamp. An updater loads
`tail` (`LoadTail`), then `head` (`LoadHead`), probes backwards from the newest
entry (`Probe`, one entry per step) and stores into the entry that matched
(`Store`). A packet may be looked up as soon as it was announced (sent), before
its entry exists. A timestamp is named by the packet it was taken from, so one
that is in another packet's entry is visible as such. A search compares sequence
numbers and nothing else, and on the server they need not be unique: there may be
several clients, a client may start again from 0, and a datagram of less than
four bytes has 0xFFFFFFFF. `seqNum` is therefore any member of `Numberings`, and
`NumberOf` is the field that is compared. `missed` records the searches that did
not find an entry which was in the ring throughout.

### StatsAnalysis

`Configure`, `Allocate`, `Reallocate` are the three allocations of a delta's
arrays, each of which may fail; `ProcessEntry` handles one ring entry, oldest
first; `Display` sorts in place and interpolates; `Cleanup` frees. `qsort` is
what the library promises: the ascending sequence with the same occurrences of
each value. Values are integers in nanoseconds, percentiles are kept times 100,
so interpolation is exact. The code computes in doubles of microseconds.

### ServerRoundTrip

Three threads:

* RX (the main thread): `Receive`, `Enqueue` (a refusal is ignored), `StoreTs`,
  `StoreIp`, `CreateEntry`, `RxStats`; then `LeaveLoop`, `JoinTs` or `CancelTs`,
  the drain, `StopTx`, `JoinTx`;
* TX: `TxLoop`, `TxDequeue`, then `TxSend(n)` for a partial or whole `sendmmsg`,
  `TxSendNone`, or `TxFallback` followed by one `TxSendto(ok)` for each packet
  of the batch, each of which may fail; `TxRecord`, `TxReadTs`, `TxReadIp` log
  the part that was sent;
* TS: `TsLoop`, `TsTest`, `TsReceive`, `TsLog`, `TsError`, `TsEnd`, `TsReturn`,
  `TsHealth`. The same call is made by the RX thread when it drains, which
  `phase` distinguishes.

`KernelStamp` is the kernel (external): a TX timestamp reaches the error queue
in any order, or never. A datagram is its arrival number, and whatever is filed
for it (timestamps, client address) is that number too: a row with another
number carries another packet's data, and possibly another client's. The
hardware and kernel RX timestamps come in control messages and are tracked apart
from the application's: a datagram in `Unstamped` has none. Two omissions then
matter. `recvmsg` leaves in `msg_controllen` what it used and nobody restores it,
so that there is no room for control messages again (`ctlRoom`); and `pkt_data`
is not cleared, so that its fields keep the timestamps of the last datagram that
had some (`pktKer`), which `StoreTs` files (`corrKer`) and `TxReadTs` logs
(`rowKer`). The return packet queue is the sequence that `ReturnPacketQueue` is proved to implement;
the statistics ring is the sequence of its entries, what happens inside a search
being the subject of `StatsCollector`.

### ClientRoundTrip

The main thread sends a batch (`Send(n)`, `n` of the remaining packets), files a
TX timestamp per packet (`StoreTx`), creates the entries (`CreateEntry`) and
sends what is left under the following numbers; at the end `LeaveLoop`,
`CloseSocket`, then `JoinInTime`, or `JoinTimesOut` and `JoinCancelled`. The RX
thread is `RxTest`, `RxReceive`, `RxPoll`, `RxFails`, `RxLookup`, `RxStats`,
`RxRow`, `RxReturn`, `RxCancelled` (its cleanup handler). `Answer` is the
network and the server (external): any packet on the wire may be answered,
repeatedly and in any order.

### OneWayClient

`SetupStep` and `SetupFails` walk through the setup of `run_client_oneway`;
`res` is what the client holds, `Acquires` and `Releases` say what a step takes
and what its error path gives back. `Send(n)` is a `sendmmsg` that takes `n`
packets of the batch, `Record` and `RecordDone` the bookkeeping, `LeaveLoop`,
`JoinTs`, `CancelTs`, `Cleanup` the end. `TsLoop`, `TsReceive`, `TsError`,
`TsEnd` and `TsHealth` are `process_tx_timestamps_in_main_thread` and its
callers; the same call is made by the thread's loop, its final drain and main's
drain (`phase`). `KernelStamp` and `KernelSockErr` are the kernel (external): a
completion comes late, out of a gap, or never; a socket error may be pending.
CSV and statistics are switched on or off by `csv` and `statsOn`, all four
combinations are initial states. `early`, `peeked`, `sawEmpty` are histories
that the properties speak of.

### PpsReporter and ServerReceiveLoop

One step per load or store of `stats_signal_handler_hotpath`
(`HLoadSent` ... `HUpdate`) and of `display_stats_if_ready` (`DTest` ...
`DReset`). `Deliver` starts the handler on the main thread, which then stands
still (`MainRuns`), or on the CSV writer thread, beside it. Rates and flag are
tagged with the number of the report they belong to. `ServerReceiveLoop` adds
the life of the server: `ServerSetup`, `Receive`, `CheckTime`, `LeaveLoop`, and `Cleanup(k)` in the order of
`CleanupOrder`; `CountSent` is the TX thread of the round-trip mode counting its
answers.

### AfXdpSocket and PacketReplicator

The rings are sequences of what was submitted and not consumed. `tx` and
`driver` carry, next to the frame, the packet the descriptor was submitted for,
so that a frame overwritten too early is visible (`umem` differs). The kernel
(external) is `KernelTxTake`, `KernelTxComplete`, `KernelSleep`, `KernelRx`.
libxdp is as its headers have it: a reservation is all or nothing, a peek looks
at the producer index again only when it has given out what it had seen
(`cqSeen`).

The queue thread is `QReceive`, then for each packet `QPacket`, `QSnapshot` (the
copy of the table under the mutex), and for each destination `QPoll`, `QBuild`,
`QReserve`, `QWake`; `QRecycle` ends a batch, `QThrow` is an exception that ends
it early. An exception in `createUdpPacket` does not: `QBuildThrows` has taken and
zeroed a frame by then, and `QFallback` sends the packet through the plain socket,
which may fail; a success counts in `packets_sent_` like a submitted descriptor.
`failed` counts the TX frames that were taken and not submitted, after a full ring
or an exception, `bySocket` what the plain socket sent. The control thread is
`CtlReceive` or `CtlTimeout`, `CtlLock`, `CtlArp` (the mutex is held until the ARP
resolution is over), `CtlReply`; `running_` is tested before `recvfrom`
(`LoopTest`), so that one more message may be handled after `stop()`.
`initialize` has seven steps, each of which may throw (`initializeThrows`);
`start`, `stop`, `Joined`, `Destroy` follow `main`. The filter and the parser are `unicast_filter` and `extractUdpPayload`
on the shape of a packet.

### CsvJoin

`ParseOption` and `ParseDone` are the option loop; `validate_file_combination`,
`Load`, `CreateTable`, `PopulateRow` and `PopulateNext`, `Write` the phases of
the program; `OpenFails` an `fopen` that fails; `AppendRow` a logger that is still
writing, also between two rows that the program reads from its file. A row is its
address match, its sequence number or `Invalid`, and its cells. The header,
field and delta tables are those of the source, so that the properties can
compare what is printed with what the header line calls it. `qsort` is the rising
sequence of a set, `find_record_by_seq` the binary search, `calculate_delta_fast`
keeps the 32 bits of the microseconds.

## Runs

| Run | Checks | Shows |
|---|---|---|
| `csv_ring` | `RingInv`, `FileFollowsRing`, `FinalFlushLossBound`, `DestroyReturns`, `AcceptedIsTaken`, `ImplementsFifo` | the CSV ring is a bounded FIFO; the file has each row at most once and in order although `write` fails or falls short once; destruction terminates, and without write faults it loses at most `Size - 1 - BatchSize` rows |
| `stats_collector` | `RecorderInv`, `MisplacedOnlyByLapOrNumber`, `MissOnlyIfTorn` | the ring always holds the latest packets without gap, with the recorder's own timestamp; a timestamp in a wrong entry is a whole number of laps old or of a packet with the same number; a search misses an active entry only if its two index loads were torn |
| `stats_analysis` | `AnalysisInv`, `PercentilesBetweenRanks` | for every content of the ring: exact bins, every delta stored or counted, percentiles between the neighbouring order statistics and ascending |
| `return_queue` | `FullInv`, `ImplementsFifo` | bounded FIFO; a batch sized by an outdated depth is still always filled |
| `server_round_trip` | `OnceInv`, `OwnStampOnceFiled`, `KernelStampOwnOrStale` | with CSV output and three datagrams, the second without RX timestamps: answers once and in order, rows for exactly what left, TX timestamps logged once, wrong application timestamp or client only in two named windows; outside them the kernel's RX timestamps are those of the last datagram that brought any |
| `server_shutdown` | `DrainEmptiesQueue`, `UpdateLostOnlyIfOvertaken`, `ShutdownCompletes` | with CSV and `--stats`, truncated datagrams, a full queue, a failing error queue read and cancellation: the drain ends on an empty queue, a statistics update is lost only while the RX thread is overtaken, the server terminates |
| `client_round_trip` | `SendInv`, `CountReported`, `WrongOnlyIfOvertaken`, `ShutdownCompletes` | unbroken numbering under partial sends; TX timestamps wrong and updates lost only in the named windows; right count except after a late exit; termination |
| `one_way_client` | `SendInv`, `CompletionsAccounted`, `BuffersOutliveThread`, `ShutdownCompletes` | numbering and rows follow what `sendmmsg` took; a completion is used once, and a missing kernel timestamp was read too early, taken by the health check, or never read; no buffer is freed under the thread, also after a failed setup; after a signal the client ends |
| `server_receive_loop` | `NeverKilledByAlarm`, `CountingInv`, `ReportInv`, `ReadyIsTaken` | the clean-up order keeps the alarm from killing the process; every packet is in one interval though clock and counters move; a report is lost only if it was finished during a display, and a finished one is taken |
| `packet_replicator` | `TxInv`, `OverwrittenOnlyIfBacklogged`, `RxFramesConserved`, `StrandedOnlyIfRefused`, `DestinationsHonoured`, `StopReturns` | the counts of frames, completions and packets agree; packets are overwritten, stranded, lost or sent to a removed destination only in the situations the properties name; the kernel never writes to a frame that is being read; `stop()` returns and leaves no XDP program |
| `tx_frame_reuse` | `FrameNotReused` | **violated**: a TX frame is handed out while the driver still has it |
| `csv_join` | `JoinInv`, `CellsRight`, `DeltasMatchColumns` | for every mode and target, right and wrong file combinations, and rows that are out of order, repeated, short, foreign or appended meanwhile: the output is the join, cell by cell |

An invariant named `...Inv`, and `FileFollowsRing`, `WrongOnlyIfOvertaken`,
`CompletionsAccounted`, `DestinationsHonoured`, `CellsRight`, is a conjunction of
named parts, each stated with its comment in the module:

| Checked | Parts |
|---|---|
| `CsvRingBuffer!RingInv` | `TypeOK`, `FifoOrder`, `SlotHandshake` |
| `CsvRingBuffer!FileFollowsRing` | `RowsOnceInOrder`, `NothingLostInWriter` |
| `StatsCollector!RecorderInv` | `TypeOK`, `WindowIsMostRecent`, `OwnStampAlwaysSet` |
| `StatsAnalysis!AnalysisInv` | `AnalysisTypeOK`, `HistogramExact`, `EveryDeltaAccounted` |
| `ReturnPacketQueue!FullInv` | `QueueTypeOK`, `FifoOrder`, `SlotHandshake`, `BatchCovered`, `BatchIsFilled` |
| `ServerRoundTrip!OnceInv` | `TypeOK`, `AnswersOnceInOrder`, `RowsFollowSends`, `TxStampOnce` |
| `ClientRoundTrip!SendInv` | `TypeOK`, `SequenceUnbroken` |
| `ClientRoundTrip!WrongOnlyIfOvertaken` | `OwnTxOnceFiled`, `UpdateLostOnlyIfOvertaken` |
| `OneWayClient!SendInv` | `TypeOK`, `SequenceUnbroken`, `RowsFollowWire` |
| `OneWayClient!CompletionsAccounted` | `CompletionsOnce`, `DrainReachesEmpty`, `MissingStampsExplained` |
| `ServerReceiveLoop!CountingInv` | `TypeOK`, `PacketsCountedOnce` |
| `ServerReceiveLoop!ReportInv` | `RatesAsFreshAsFlag`, `LostReportOnlyIfRaced` |
| `PacketReplicator!TxInv` | `TypeOK`, `OutstandingExact`, `CompletionRingNeverBlocks`, `SentAccounted` |
| `PacketReplicator!DestinationsHonoured` | `RepliesDescribeTable`, `StaleSendBound` |
| `CsvJoin!JoinInv` | `JoinTypeOK`, `DetectedRight`, `OutputIsJoin` |
| `CsvJoin!CellsRight` | `CellsComeFromRows`, `CompleteIfRightFiles` |

Sizes, in distinct states: `server_round_trip` 5,781,968 (two minutes),
`stats_collector` 4,273,518, `stats_analysis` 1,656,108, `packet_replicator`
1,197,512 (three minutes, with its liveness property), `server_shutdown` about
684,000, `one_way_client` 354,928, `server_receive_loop` 338,174, `csv_join`
151,813.

Several passing properties say exactly when something goes wrong
(`MisplacedOnlyByLapOrNumber`, `MissOnlyIfTorn`, `OwnStampOnceFiled`,
`KernelStampOwnOrStale`, `UpdateLostOnlyIfOvertaken`, `OwnTxOnceFiled`,
`CountReported`, `LostReportOnlyIfRaced`, `MissingStampsExplained`,
`OverwrittenOnlyIfBacklogged`, `StaleSendBound`, `StrandedOnlyIfRefused`). They bound the
damage: whatever else the threads do, the data are right outside the named
window.

## Findings

`tx_frame_reuse` is refuted by TLC. `AFXDPSocket.hpp` promises that
`getNextTxFrame` returns an available frame, or -1; the code returns the next
number modulo the number of frames. With as many packets on their way as there
are frames (fewer after failed reservations and exceptions, which use up a frame
too) a packet
the driver has not sent is overwritten: one destination gets two copies of a
packet, another none. `OverwrittenOnlyIfBacklogged` says how far it must have
come.

Further observations made while modelling. Each of the first five is bounded by
a passing property:

* `csv_writer_thread` promises to "process any remaining entries" and dequeues
  one batch; the rest of a fuller ring is lost (`FinalFlushLossBound`).
* An update of the statistics loads `tail`, then `head`. If the recorder of a
  full ring moves both in between, the computed occupancy wraps to nearly
  nothing and the update is lost (`MissOnlyIfTorn`).
* The ring is rounded up to a power of two, the value array is not, and the pass
  starts at the oldest entry: the percentiles may omit the newest packets
  (`EveryDeltaAccounted`).
* The RX thread of the server queues a request before it files the packet's RX
  timestamps, so that the TX thread may log what the slot held before
  (`OwnStampOnceFiled`).
* An RX thread of the client that ends between the expiry of the timed join and
  its cancellation leaves `final_rx_count` at 0, which is displayed
  (`CountReported`).
* One-way client: steps of the setup that fail after the TX timestamp thread was
  started leave it running on a closed descriptor, and the TX CSV buffer
  undestroyed (`BuffersOutliveThread` says that it never uses freed memory).
* Server, round-trip mode: the comment "Fast structure reset (initialize all
  timestamp fields)" stands before an assignment to `seq_num` alone
  (`timestamp_server.c:1667`). A datagram without RX timestamps is logged with
  those of an earlier packet, and since `msg_controllen` is not restored before
  `recvmsg` either, so is every datagram after it (`KernelStampOwnOrStale`). The
  one-way mode clears the structure, there the cells are zero from then on.
* Replicator: an exception while a packet is built sends it through the plain
  socket. It counts as sent (`SentAccounted`), and its TX frame is used up
  (`OverwrittenOnlyIfBacklogged`).
* Replicator: a failed `initialize()` leaves the XDP program attached, since
  `stop()` unloads it only if `running_` was set (`StopReturns` says that it is
  gone after a run). `close()` is to "Complete any pending TX", but looks at
  `wrapper_->outstanding_tx`, which nothing increments (`SentAccounted` counts
  what is lost). An exception in a batch loses its frames (`RxFramesConserved`).
* Replicator: the README has lock-free operations in the hot path; every packet
  takes the mutex that the control thread holds through a 100 ms ARP resolution.
  It also has a fallback from zero-copy to copy mode; `bind` throws.
* The count of a list reply is one byte and wraps, and the client reads at most
  170 entries: with 256 destinations it shows none (`RepliesDescribeTable`).
* The microseconds of a delta in the joined file are cut to 32 bits: a delta of
  more than 71 minutes is short by a multiple of that (`DeltasMatchColumns`).
* `timestamp_csvjoin` accepts combinations of files that the usage text does not
  list, whose missing columns stay empty (`CompleteIfRightFiles`), and reports
  success without touching an earlier output when nothing is common
  (`OutputIsJoin`).
* `DrainEmptiesQueue` holds with CSV output only: `processed_timestamps` is
  counted in the CSV branch, so with `--stats` alone the drain stops after one
  call. `ServerShutdown.cfg` with `CsvEnabled = FALSE`, `TsBatch = 1` and `MaxErrors = 0` shows
  it. A drain call whose turns all end in read errors also ends the drain.
* The drain ends before the TX thread is told to stop; answers sent after it
  never get a TX row.
* An updater that is lapped between match and store writes into a later
  packet's entry, and one whose packet's number is that of a newer packet finds
  the newer one's (`MisplacedOnlyByLapOrNumber` is the exact statement).
* A delta without room in the value array counts as an outlier although it is
  in a bin (`EveryDeltaAccounted`).
* `delta_values` is allocated three times per delta and freed once.
* The correlation arrays have no client in their index: with several clients a
  row may name another client (the second window of `OwnStampOnceFiled`).
* The server passes received and sent counts to `display_analysis_results` in
  the opposite order of its declaration.

## Bounds

| Instance | Bounds | Why they are enough |
|---|---|---|
| `CsvRingBuffer.cfg` | ring of 4, batch 2, 6 rows, 1 write fault | the ring is full, wraps, and holds more than a batch at the end; a fault in any batch |
| `ReturnPacketQueue.cfg` | ring of 4, batch 2, 9 requests | the indices go around more than twice; depth below, at and above the batch |
| `StatsCollector.cfg` | 3 requested → 4 slots, 6 packets, 2 updaters with 1 search each, batches of 2 | the ring is full after 3 packets and every slot is reused; both updaters can be lapped inside a search; updaters are symmetric. Numbers that are unique, start again after four packets, come in pairs, or are all the same |
| `StatsAnalysis.cfg` | all rings of 1–6 entries over 6 kinds of entry, array of 5, ring of 8 | missing, zero, first bin, last bin, at the limit and beyond the bins, past the limit; more valid entries than room |
| `ServerRoundTrip.cfg` | 3 datagrams of one sequence number, the second without RX timestamps, queue 2, batch 2, error batch 1, CSV | a batch of two while a third packet is filed in the same slot; rows before, at and after the gap; partial sends; repeated drain calls |
| `ServerShutdown.cfg` | 2 datagrams of 0 or 8 bytes, queue 1, error batch 2, 1 read error, CSV and statistics | refusals, truncated datagrams and every way of shutting down |
| `ClientRoundTrip.cfg` | 4 packets, batches of 2, 2 slots, 2 answers | a resent rest of a batch, every slot reused, repeated and late answers |
| `OneWayClient.cfg` | batches of 2, 4 packets, drain calls of 2, 2 errors | partial sends, a second batch, more completions than a drain call reads, a failing read and a socket error in any place |
| `ServerReceiveLoop.cfg` | 3 alarms, 2 datagrams, clock steps of -1, 1, 2 seconds | a report made, raced and overwritten; a clock set back; packets before, between and after the alarms |
| `PacketReplicator.cfg` | 2 TX and 2 RX frames, batches of 2, completion ring 5, driver depth 1, 2 destinations, 3 packets of 3 shapes, 2 control messages, 1 exception of either kind, counts modulo 2 | the frame counter goes around, the TX ring fills up and a reservation fails, completions are cached below a batch, an RX batch is full, the count of a list wraps |
| `TxFrameReuse.cfg` | the same with one property | |
| `CsvJoin.cfg` | 6 modes and targets, right files or one replaced by any type, 4 lists of rows in the first two files, 1 appended row; 8 ns to a second, 2 to a microsecond, 4 microseconds in a delta | rows out of order, repeated, short, empty, foreign, invalid; deltas that are zero, negative, missing or wrap |

Sequence numbers are taken modulo `SeqSpace` (2^32 in the code, 16 here), since
a datagram that is too short has `seq_num = -1`.

## Fairness and memory model

The liveness runs assume weak fairness of what a running thread does next, and
of nothing else: the threads are pinned to cores of their own, busy-poll, take
no lock, and wait for each other only in `pthread_join`. There is no fairness of
clients, of the network, of the kernel's timestamps, of the operator's signal,
of the expiry of a timed join or of cancellation; the producer need not offer
anything. In `CsvRingBuffer` fairness is on the writer thread, on the completion
of an enqueue that has begun, and on the join. In the servers the receive loop
may run for ever; what is asserted is that once it is left the program ends.
In `OneWayClient` both threads are weakly fair. In `ServerReceiveLoop` the
handler runs to its end, a pending signal is delivered, and the loop comes back
to its time check (every 50 turns or tenth of a second in the code). In
`PacketReplicator` the queue thread, the main thread, and the control thread in
all but the arrival of a message (`recvfrom` times out after a second) are weakly
fair, the mutex being free again and again since
its holder never waits for another thread; nothing is assumed of the driver, of
clients or of arriving packets. `stop()` runs in the signal handler on the main
thread, to which Linux delivers a process signal that it does not block.

Steps are sequentially consistent accesses. In the two FIFO rings each index has
one writer, and the producer publishes an entry by a release store that the
consumer reads with an acquire load, which justifies this direction on any
machine. In the other direction it is not: the consumers store their index with
`__ATOMIC_RELAXED` (`timestamp_common.c:745`, `timestamp_server.c:621`), so that
on a weaker machine the producer could see a slot as free before the consumer's
copy out of it is done. On x86, where a store is not moved before an earlier
load, it cannot, as long as the compiler keeps the copy before the store. The
correlation arrays and the statistics entries are plain memory; there
the models assume x86-TSO, the platform the programs are written for (they use
`rdtsc` and x86 flags), under which loads and stores by one thread stay in
program order as far as these properties see. A compiler could reorder the plain
stores of one function; the models keep the source order.

## Proofs

TLAPS proves the results below for every value of the constants that satisfies
the named assumptions: every ring, batch and frame count, every number of
packets, threads, destinations, rows and faults. Every property of a passing run
that is not a liveness property is in this table.

| Module | Theorem | States |
|---|---|---|
| `CsvRingBufferProofs` | `RingInvariant` | `Spec => []RingInv` |
| | `TypeCorrect`, `FifoOrderHolds`, `HandshakeHolds` | its parts |
| | `RingImplementsFifo` | `Spec => ImplementsFifo` |
| | `WriterInvariant` | `Spec => []WriterInv` |
| | `FileIsRight` | `Spec => []FileFollowsRing` |
| | `FlushLossBounded` | `Spec => []FinalFlushLossBound` |
| | `JoinInvariant` | `JoinSpec => []FullJoinInv` |
| | `JoinPhases` | `JoinSpec => []JoinInv` |
| | `CellsAreRight` | `JoinSpec => []CellsRight` |
| | `DeltasRight` | `JoinSpec => []DeltasMatchColumns` |
| `ServerRoundTripProofs` | `QueueInvariant` | `QueueSpec => []FullInv` |
| | `QueueFifoOrder`, `BatchAlwaysFilled` | its parts |
| | `QueueImplementsFifo` | `QueueSpec => ImplementsFifo` |
| | `ServerInvariant` | `Spec => []ServerInv` |
| | `AnswersOnce` | `Spec => []OnceInv` |
| | `DrainComplete` | with CSV output, `Spec => [](errors < TsBatch => DrainEmptiesQueue)` |
| | `OwnStamps` | `Spec => OwnStampOnceFiled` (an action property) |
| | `KernelStamps` | `Spec => KernelStampOwnOrStale` (an action property) |
| | `UpdatesLost` | with statistics, `Spec => UpdateLostOnlyIfOvertaken` (an action property) |
| `StatsCollectorProofs` | `StatsInvariant` | `Spec => []StatsInv` |
| | `RecorderRight` | `Spec => []RecorderInv` |
| | `MisplacedByLapOrNumber` | `Spec => []MisplacedOnlyByLapOrNumber` |
| | `MissesAreTorn` | `Spec => []MissOnlyIfTorn` |
| | `AnalysisInvariant` | `AnalysisSpec => []FullAnalysisInv` |
| | `DeltasAccounted` | `AnalysisSpec => []AnalysisInv` |
| | `PercentilesRight` | `AnalysisSpec => []PercentilesBetweenRanks` |
| `ClientRoundTripProofs` | `ClientInvariant` | `Spec => []ClientInv` |
| | `SendingRight` | `Spec => []SendInv` |
| | `CountIsReported` | `Spec => []CountReported` |
| | `WrongIsOvertaken` | `Spec => WrongOnlyIfOvertaken` (an action property) |
| `OneWayClientProofs` | `ClientInvariant` | `Spec => []ClientInv` |
| | `SendingRight` | `Spec => []SendInv` |
| | `CompletionsRight` | `Spec => []CompletionsAccounted` |
| | `BuffersOutlive` | `Spec => []BuffersOutliveThread` |
| `ServerReceiveLoopProofs` | `LoopInvariant` | `Spec => []LoopInv` |
| | `NeverKilled` | `Spec => []NeverKilledByAlarm` |
| | `PacketsCounted` | `Spec => []CountingInv` |
| | `ReportsDisplayed` | `Spec => []ReportInv` |
| `PacketReplicatorProofs` | `ReplicatorInvariant` | `Spec => []ReplicatorInv` |
| | `TxAccountsAgree` | `Spec => []TxInv` |
| | `OverwritesBacklogged` | `Spec => []OverwrittenOnlyIfBacklogged` |
| | `FramesConserved` | `Spec => []RxFramesConserved` |
| | `StrandedRight` | `Spec => []StrandedOnlyIfRefused` |
| | `TableHonoured` | `Spec => []DestinationsHonoured` |

Assumptions are the named `ASSUME`s of the modules, which TLC evaluates in the
runs. They give the constants their types, and beyond that: a ring size is a
power of two above 1 (1048576 and 4096 in the code); a batch has more than one
row and a row is shorter than its room (`BatchAssumption`, `RowAssumption`);
`next_power_of_2` lies between its argument and twice it (`SizeAssumption` of
`StatsCollector`, true of every number, but the proof is an induction); the
recorder's timestamp has a field of its own (`OwnAssumption`); the packets have
any sequence numbers, repeated or not (`NumberAssumption`), and any set of
datagrams comes without RX timestamps (`ServerAssumption`); the completion
ring has room for the TX ring, a batch and what the driver holds
(`SocketAssumption`; 2048 frames, batches of 64 and a completion ring of 4096 in
the code, so for a driver that holds at most 1984 descriptors); the files that
`timestamp_csvjoin` is given, and what is appended to them, are any rows
(`JoinAssumption`).

Two theorems have hypotheses of their own, and each is needed.
`DrainComplete` is about a server that writes CSV files, because the code counts
the timestamps of a drain call only in its CSV branch: without it the drain ends
after one call, full error queue or not. It also asks for fewer failed reads than
a call has turns, since a call whose turns all fail ends the drain as well. Both
are observations listed under [findings](#findings). `UpdatesLost` is about a
server with `--stats`; without it there is nothing to update.

### Arguments

Each proof has an inductive invariant, a conjunction of named parts with a
comment on each, at the head of its module. TLC checked every one of them on the
instance of the module's run before it was proved. The steps are taken part by
part: a lemma for each part, a case for each action that can disturb it, and a
lemma (`Frames`, `UpdaterFrame`, `OthersKeep`) for what the others leave alone.

* `RingLemmas` turns the modular arithmetic into linear facts (the values of
  `RingNext`, `RingCount`, the slot of the k-th entry) and proves three facts
  about the contents of a ring: a store into the free slot at `head` is invisible
  (`RingStoreInvisible`), advancing `head` appends that slot (`RingPublish`),
  advancing `tail` removes the first element (`RingAdvance`).
* CSV ring. `FifoOrder` is not inductive by itself: when the producer publishes,
  one must know that the ring was not full and that the slot holds the new entry,
  and when the writer advances, that what it copied is still the oldest entry.
  Those are facts from an earlier step which the other thread must not have
  destroyed, and `SlotHandshake` records them. The refinement follows,
  `EnqueuePublish`, a refusing `EnqueueCheck` and `DequeueAdvance` being the only
  steps that are not stutters. For the file, `WriterInv` says what holds in the
  middle of a batch: the batch is what was taken since the last one (`Batched`),
  the file has rows of settled batches only (`Filed`), and once the final flush
  has begun nothing is published, so that the ring and the batch together never
  exceed `Size - 1` (`Flushed`).
* Return packet queue. `FullInv` adds `BatchCovered`: from the moment the depth
  is loaded, the rest of the target is covered by what is in the queue. The RX
  thread can only add, the TX thread moves one request from the queue to the
  batch, so the sum never falls below the target and the batch is full when sent.
* Round-trip server. Requests keep the order of arrival from the queue through
  the batch to the wire (`InOrder`, `Requested`); `TxPlace` says at which steps of
  the TX thread there is a batch and what is left to be recorded of it. A TX
  timestamp is on the wire, in the error queue, in a thread's
  hand or in the file, in one of them only (`StampPlace`). A correlation slot
  holds the latest datagram filed under it, with the RX thread's current one
  excepted between its steps (`Correlated`), the kernel's timestamps beside it are
  the last that came up to that datagram (`KernelFiled`), and every datagram but the current
  one has its entry in the statistics (`Counted`): this is what makes a wrong row
  and a lost update possible in the named windows only. With CSV output the turns
  of a drain call that counted nothing were failed reads (`Turns`), and `Draining`
  says whose turn it is to read the error queue.
* Statistics ring. Entries are overwritten while other threads search the ring
  and store into it, so no handshake holds. What does hold is that the n-th packet
  has one slot, n minus one modulo the size, that an entry in a slot, active or
  not, is of a packet of that slot, and that a timestamp in it shares its sequence
  number with a packet of that slot, this one or an earlier one (`Places`); an
  updater that matched keeps such a slot however often it is lapped (`Matched`).
  `MisplacedOnlyByLapOrNumber` follows since that packet and the one in the entry
  are congruent. For `MissOnlyIfTorn`, a search whose
  two indices were loaded without a move of `tail` between them has the slot of
  its packet before it for as long as the packet is not dropped (`Searching`), and
  by uniqueness of that slot it cannot pass it by.
* Statistics analysis. `AtMostPerEntry`, `BinsInUse` and `BinsExact` follow the
  pass over the ring entry by entry: each delta of the entries so far is in its
  bin, and in the value array or among the outliers. For the percentiles,
  `QsortSorts` shows that the sequence `qsort` chooses exists (the largest value
  last, the others before it, by induction on the length); a percentile is then
  an interpolation between two neighbouring elements, and the neighbours of a
  higher percentile are not lower ones.
* CSV join. `CutQuotient` says what the cut to 32 bits leaves of a delta. The six combinations of mode and target are taken one by one to show
  that header line, printed fields and delta indices fit together (`TablesFit`),
  and the six input headers to show that `detect_file_type` tells them apart
  (`DetectedType`). `QsortRises` and `SearchFinds` are the sort and the binary
  search for every table, by induction on the number of elements and on the length
  of the interval. The invariant then says that what was loaded from a file is
  still in it, as loggers only append (`LoadedFromRows`); that the table has the
  common numbers in rising order, which the search needs (`TableIsJoin`); that a
  cell is from a row of its number and column (`CellsFromRows`); and that a file
  that has been read has set its columns in each record whose rows are complete
  (`Covered`): each number of the table was loaded from that file, so a row with it
  has been met when the file ends.
* Round-trip client. `Filed` and `Recorded` say which prefix of the packets sent
  the main thread has entered into the correlation slots and the statistics at
  each of its steps; an answer that arrives later than its packet's entry finds
  it, unless the slot has been taken by a later packet. `Answers` and `Ending`
  relate the RX thread's count to the rows and carry it over its two exits.
* One-way client. `Completions` puts each completion into exactly one of: owed
  by the kernel, queued, taken by the health check, read. `WhoProcesses` says that
  thread and main never process them at the same time, and `Held` what each step
  of the set-up and of its error paths holds.
* Receive loop. `AlarmSafe` relates the timer, the handler and the main thread's
  place in the clean-up: the default action is only set when no alarm can come.
  `CountedSoFar` and `RatesStored` say, for each step of the handler, up to where
  packets are counted and which of the two rates are new.
* Replicator. `TxRings` bounds the descriptors no peek has given out by what the
  TX ring and the driver can hold, step by step between polls; this bounds the
  completion ring. `FrameAges` gives every packet on its way an age, the number of
  frames handed out since, congruent to the distance of its frame from the
  counter: it can only have been overwritten at an age above `TX_FRAMES`, and
  ages are bounded by the packets on their way and the frames that were used up
  without a submission. `RxRings` keeps the
  fill ring, the RX ring and the frames to be recycled apart (`Apart`) and counts
  them (`RxAccount`). `LateBound` says that a destination that was removed during
  a copy of the table has been sent nothing since, as long as it is still ahead.

### Model-checked only

* All liveness: `DestroyReturns`, `AcceptedIsTaken`, `ShutdownCompletes` (three
  runs), `StopReturns`, `ReadyIsTaken`. Fairness and `ENABLED` are outside the
  prover's reach.
* What `next_power_of_2` computes in its bit operations: the proofs take its
  bounds from `SizeAssumption`, which TLC evaluates.

Inductions over data (sorting, searching, counting) are carried out with a least
counterexample, `RingLemmas!LeastOf`, since the library's induction theorems take
an operator that the installed provers cannot instantiate.

## Mutants

Each property that a passing run checks comes with a mutant: a definition named
`<Definition>_<Change>`, placed before the definition it alters, that has a
plausible bug (a dropped guard, an off-by-one, a missing reset, a wrong slot).
With the mutant in place of the original TLC must refute the property.
`PROJECT.json` pairs them.

## What is left out

* Rows, packets and timestamps are abstract; formatting, logging and printing
  are omitted, except `csv_format_batch`'s room test.
* Whether `MSG_PEEK` consumes a message of an error queue is left open in
  `TsHealth`, of the server and of the one-way client.
* A receive that returns 0 bytes leaves `errno` stale; in the client the outcomes
  (poll again, give up) are among those of `RxPoll` and `RxFails`.
* Socket, interface and clock set-up of the round-trip modes, and thread creation
  failures, which end the program before there is anything concurrent. The
  set-up of the one-way modes and of the replicator is modelled.
* The round-trip client's kernel TX timestamps: the same functions run in
  `OneWayClient`, and share nothing with its RX thread.
* Three of the four queue threads of the replicator: each has a socket of its
  own, and meets the others only at the mutex and at the counters.
* Code of the replicator that nothing calls: `sendToDestination`,
  `sendToDestinationZeroCopy`, the buffer pool, `getCachedDestinations`, `extractUdpPayloadFast`,
  `updatePacketForDestination`; `send`, `sendBatch`, `copyUmemData` of the socket.
* Failing allocations in `timestamp_csvjoin`, which end it, and the splitting of
  lines into fields.
* The components marked `not_modelled` in `PROJECT.json`, with their reasons.

## Plan

Modelled so far, most important first: CSV logger, statistics ring, statistics
analysis, return packet queue, round-trip server and client, AF_XDP socket and
packet replicator, one-way client, PPS report and receive loop, CSV join; the
safety properties of all of them are proved. Next are the HFT clients with the
mock trading server: order life cycle and the tracker's counting.
