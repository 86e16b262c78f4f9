-------------------------- MODULE ServerReceiveLoop -------------------------
(***************************************************************************)
(* The life of timestamp_server around its receive loop, in one-way mode   *)
(* (run_server_oneway): setup, the loop, which receives datagrams and from *)
(* time to time displays the packet rates of PpsReporter, and the clean-up.*)
(* The loop of the round-trip mode is the same and its TX thread counts the*)
(* answers it sends beside it.  What a datagram leaves behind is not here: *)
(* its row is CsvRingBuffer's, its statistics are StatsCollector's, its    *)
(* timestamps in round-trip mode are ServerRoundTrip's.                    *)
(*                                                                         *)
(* A second thread, the CSV writer, exists from the creation of the CSV    *)
(* buffer to csv_buffer_destroy, which joins it.                           *)
(***************************************************************************)
EXTENDS PpsReporter, Sequences

CONSTANTS MaxPackets  \* bound: datagrams received, and answers sent

ASSUME LoopAssumption == MaxPackets \in Nat

VARIABLES roundTrip,  \* the mode
          vpc,        \* where the main thread is
          writer      \* the CSV writer thread exists

serverVars == <<roundTrip, vpc, writer>>
vars       == <<ppsVars, serverVars>>

Init ==
  /\ PpsInit
  /\ roundTrip \in BOOLEAN /\ vpc = "setup" /\ writer = FALSE

Alive == vpc \notin {"done", "failed"} /\ ~killed

\* The main thread runs: it is not inside the handler, and no signal waits that
\* only it could take.
MainRuns ==
  /\ ~killed
  /\ hpc = "idle" \/ hthread # "main"
  /\ timer = "pending" => writer

\* The socket is created, configured and bound, the CSV buffer created if there
\* is to be one, and the PPS report set up.
ServerSetup ==
  /\ vpc = "setup" /\ vpc' = "loop"
  /\ writer' \in BOOLEAN
  /\ setup_stats_reporting_hotpath
  /\ UNCHANGED <<counters, pps, ready, now, alarms, killed, handlerVars, displayVars,
                 roundTrip>>

\* A step of that fails: the socket is closed, and the server ends before the
\* PPS report is set up.  A failing request for hardware timestamps is no error.
SetupFails ==
  /\ vpc = "setup" /\ vpc' = "failed"
  /\ UNCHANGED <<ppsVars, roundTrip, writer>>

\* The hybrid time check of the loop displays the rates if they are ready.
CheckTime ==
  /\ vpc = "loop" /\ MainRuns /\ DTest /\ UNCHANGED serverVars

\* The display goes on.
Displaying == MainRuns /\ Display /\ UNCHANGED serverVars

\* A datagram is received and counted.
Receive ==
  /\ vpc = "loop" /\ MainRuns /\ dpc = "idle" /\ received < MaxPackets
  /\ received' = received + 1
  /\ UNCHANGED <<sent, last, pps, ready, alarmVars, handlerVars, displayVars, serverVars>>

\* The TX thread of the round-trip mode counts the answers of a batch.
CountSent(n) ==
  /\ roundTrip /\ vpc = "loop" /\ ~killed /\ sent + n <= received
  /\ sent' = sent + n
  /\ UNCHANGED <<received, last, pps, ready, alarmVars, handlerVars, displayVars, serverVars>>

\* Mutant: the report is shut down before the CSV buffer.
CleanupOrder_PpsFirst == <<"alarm", "signal", "csv">>

\* What the clean-up does after the statistics are analysed and the socket is
\* closed: csv_buffer_destroy, then the two calls of
\* cleanup_stats_reporting_hotpath
CleanupOrder == <<"csv", "alarm", "signal">>

\* The loop is left on a signal, at the end of the run time or on an error.
LeaveLoop ==
  /\ vpc = "loop" /\ MainRuns /\ dpc = "idle" /\ vpc' = CleanupOrder[1]
  /\ UNCHANGED <<ppsVars, roundTrip, writer>>

\* One step of the clean-up.  Joining the writer waits for a handler on it.
Cleanup(k) ==
  /\ vpc = CleanupOrder[k] /\ MainRuns
  /\ (vpc = "csv" /\ hthread = "writer") => hpc = "idle"
  /\ writer' = (writer /\ vpc # "csv")
  /\ timer' = IF vpc = "alarm" /\ timer = "armed" THEN "off" ELSE timer
  /\ onAlarm' = IF vpc = "signal" THEN "default" ELSE onAlarm
  /\ vpc' = IF k = Len(CleanupOrder) THEN "done" ELSE CleanupOrder[k + 1]
  /\ UNCHANGED <<counters, last, pps, ready, now, alarms, killed, handlerVars,
                 displayVars, roundTrip>>

-----------------------------------------------------------------------------
Main == \/ ServerSetup \/ SetupFails \/ CheckTime \/ Displaying
        \/ Receive \/ LeaveLoop \/ \E k \in DOMAIN CleanupOrder : Cleanup(k)

Delivery ==
  /\ Alive /\ UNCHANGED serverVars
  /\ \/ Deliver("main")
     \/ writer /\ Deliver("writer")

Handling == Alive /\ Handler /\ UNCHANGED serverVars

Second == Alive /\ AlarmFires /\ UNCHANGED serverVars

Next ==
  \/ Main \/ Second \/ Delivery \/ Handling
  \/ \E n \in 1 .. MaxPackets : CountSent(n)
  \/ ~Alive /\ UNCHANGED vars

Spec == Init /\ [][Next]_vars

\* The handler runs to its end, a pending signal is delivered, the display is
\* finished, and the loop checks the time again and again, as it does every
\* 50 turns or tenth of a second, whether or not datagrams arrive.
FairSpec ==
  /\ Spec
  /\ WF_vars(Handling) /\ WF_vars(Delivery) /\ WF_vars(Displaying) /\ WF_vars(CheckTime)

-----------------------------------------------------------------------------
(* Properties *)

\* The counters and the time as the handler loads them, and a rate with the
\* report it belongs to
Loads == [sent : 0 .. MaxPackets, received : 0 .. MaxPackets, time : Int]
Rates == [rate : 0 .. MaxPackets, run : 0 .. MaxAlarms]

\* Type correctness
TypeOK ==
  /\ sent \in 0 .. MaxPackets /\ received \in 0 .. MaxPackets
  /\ now \in Int /\ last \in Loads /\ h \in Loads
  /\ pps \in [sent : Rates, received : Rates] /\ ready \in 0 .. run
  /\ timer \in {"off", "armed", "pending"} /\ alarms \in 0 .. MaxAlarms
  /\ onAlarm \in {"default", "handler"} /\ killed \in BOOLEAN
  /\ hpc \in {"idle", "loadSent", "loadReceived", "test", "storeSent", "storeReceived",
              "ready", "update"}
  /\ hthread \in {"main", "writer"}
  /\ dpc \in {"idle", "readSent", "readReceived", "reset"}
  /\ d \in [sent : Rates, received : Rates, seen : 0 .. MaxAlarms]
  /\ run \in 0 .. MaxAlarms /\ counted \in Nat /\ skipped \in Nat /\ raced \in BOOLEAN
  /\ vpc \in {"setup", "loop", "csv", "alarm", "signal", "done", "failed"}
  /\ roundTrip \in BOOLEAN /\ writer \in BOOLEAN

\* SIGALRM never meets its default action, which would end the process before
\* its files are complete: a handler that is still running when the report is
\* shut down would arm the alarm again.
NeverKilledByAlarm == ~killed

\* Every packet is in exactly one interval, though the counters move while the
\* handler works; the only packets in no report are those of intervals in which
\* the clock did not advance.
PacketsCountedOnce ==
  /\ hpc \in {"idle", "loadSent", "loadReceived", "test"} =>
       counted + skipped = last.sent + last.received
  /\ last.sent <= sent /\ last.received <= received

\* The counting of packets, with the types of what it is computed from
CountingInv == TypeOK /\ PacketsCountedOnce

\* A display that found the flag up prints no rate older than the report the
\* flag stands for.  (It may mix two reports.)
RatesAsFreshAsFlag ==
  dpc = "reset" => d.sent.run >= d.seen /\ d.received.run >= d.seen

\* When nothing is ready or at work, the newest report was displayed, with both
\* its rates, or it was finished while a display was between its test of the
\* flag and its reset.
LostReportOnlyIfRaced ==
  (run > 0 /\ ready = 0 /\ dpc = "idle" /\ hpc = "idle") =>
    taken = <<run, run>> \/ raced

\* What the display may do to a report: mix it with a newer one, or lose it in
\* the race between the flag's test and its reset.
ReportInv == RatesAsFreshAsFlag /\ LostReportOnlyIfRaced

\* A report that is ready is taken by the loop, or the loop ends.
ReadyIsTaken == ready > 0 ~> (ready = 0 \/ vpc # "loop")
=============================================================================
