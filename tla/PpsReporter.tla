----------------------------- MODULE PpsReporter ----------------------------
(***************************************************************************)
(* The packets-per-second report of timestamp_client and timestamp_server: *)
(* a SIGALRM handler that turns the packet counters into rates once a      *)
(* second (stats_signal_handler_hotpath), and the function with which the  *)
(* main loop prints them (display_stats_if_ready).                         *)
(*                                                                         *)
(* The kernel delivers the signal to any thread of the process.  On the    *)
(* main thread the handler suspends what it interrupts; on another thread  *)
(* it runs beside it.  It arms the next alarm itself, at its end.          *)
(*                                                                         *)
(* run numbers the handler's reports: the rates and the flag are tagged    *)
(* with the report they belong to, which is not part of the program.       *)
(***************************************************************************)
EXTENDS Integers, FiniteSets

CONSTANTS TimeSteps,  \* how far time(NULL) moves from one alarm to the next
          MaxAlarms   \* bound: alarms

ASSUME PpsAssumption == TimeSteps \subseteq Int /\ MaxAlarms \in Nat

VARIABLES sent, received,  \* g_packets_sent, g_packets_received
          now,             \* time(NULL)
          last,            \* g_stats_state.last_{sent,received,time}
          pps,             \* .current_{sent,received}_pps, each with its run
          ready,           \* .stats_ready: 0, or up, with the run that raised it
          timer,           \* the alarm: off, armed, or a pending SIGALRM
          alarms,          \* alarms so far
          onAlarm,         \* what SIGALRM does
          killed,          \* the default action of SIGALRM ended the process
          hpc,             \* where the handler is
          hthread,         \* the thread it runs on
          h,               \* its locals
          dpc,             \* where display_stats_if_ready is
          d,               \* its locals, and the flag it saw
          run,             \* history: reports made
          counted,         \* history: packets in those reports
          skipped,         \* history: packets of intervals without one
          raced,           \* history: the last report met a display at work
          taken            \* history: the runs of the two rates last displayed

counters   == <<sent, received>>
alarmVars  == <<now, timer, alarms, onAlarm, killed>>
handlerVars == <<hpc, hthread, h, run, counted, skipped, raced>>
displayVars == <<dpc, d, taken>>
ppsVars    == <<counters, last, pps, ready, alarmVars, handlerVars, displayVars>>

NoRate  == [rate |-> 0, run |-> 0]
NoRead  == [sent |-> NoRate, received |-> NoRate, seen |-> 0]
NoLoad  == [sent |-> 0, received |-> 0, time |-> 0]

\* Before setup_stats_reporting_hotpath
PpsInit ==
  /\ sent = 0 /\ received = 0 /\ now = 1 /\ last = NoLoad
  /\ pps = [sent |-> NoRate, received |-> NoRate] /\ ready = 0
  /\ timer = "off" /\ alarms = 0 /\ onAlarm = "default" /\ killed = FALSE
  /\ hpc = "idle" /\ hthread = "main" /\ h = NoLoad
  /\ dpc = "idle" /\ d = NoRead
  /\ run = 0 /\ counted = 0 /\ skipped = 0 /\ raced = FALSE /\ taken = <<0, 0>>

\* setup_stats_reporting_hotpath, before there is a packet
setup_stats_reporting_hotpath ==
  /\ last' = [NoLoad EXCEPT !.time = now]
  /\ onAlarm' = "handler" /\ timer' = "armed"

-----------------------------------------------------------------------------
(* The alarm and the handler *)

\* A second is over.  time(NULL) counts whole seconds of a clock that may be
\* set: it can move by more or less than one.
AlarmFires ==
  /\ timer = "armed" /\ alarms < MaxAlarms
  /\ \E step \in TimeSteps : now' = now + step
  /\ timer' = "pending" /\ alarms' = alarms + 1
  /\ UNCHANGED <<counters, last, pps, ready, onAlarm, killed, handlerVars, displayVars>>

\* SIGALRM reaches a thread that exists.
Deliver(thread) ==
  /\ timer = "pending" /\ timer' = "off"
  /\ \/ onAlarm = "handler" /\ hpc' = "loadSent" /\ hthread' = thread /\ UNCHANGED killed
     \/ onAlarm = "default" /\ killed' = TRUE /\ UNCHANGED <<hpc, hthread>>
  /\ UNCHANGED <<counters, last, pps, ready, now, alarms, onAlarm, h, run, counted,
                 skipped, raced, displayVars>>

HLoadSent ==
  /\ hpc = "loadSent" /\ hpc' = "loadReceived"
  /\ h' = [h EXCEPT !.sent = sent]
  /\ UNCHANGED <<counters, last, pps, ready, alarmVars, hthread, run, counted, skipped,
                 raced, displayVars>>

SentDiff == h.sent - last.sent
ReceivedDiff == h.received - last.received
TimeDiff == h.time - last.time

\* The second counter and the time are loaded.
HLoadReceived ==
  /\ hpc = "loadReceived" /\ hpc' = "test"
  /\ h' = [h EXCEPT !.received = received, !.time = now]
  /\ UNCHANGED <<counters, last, pps, ready, alarmVars, hthread, run, counted, skipped,
                 raced, displayVars>>

\* Mutant: both counters must have moved.
Activity_Both == SentDiff > 0 /\ ReceivedDiff > 0

\* Only calculate if there is activity
Activity == SentDiff > 0 \/ ReceivedDiff > 0

\* Whether this interval gives a report: only if time has passed, and with
\* activity
HTest ==
  /\ hpc = "test"
  /\ \/ /\ TimeDiff > 0 /\ last.time > 0
        /\ counted' = counted + SentDiff + ReceivedDiff /\ UNCHANGED skipped
        /\ run' = IF SentDiff + ReceivedDiff > 0 THEN run + 1 ELSE run
        /\ raced' = IF SentDiff + ReceivedDiff > 0 THEN FALSE ELSE raced
        /\ hpc' = IF Activity THEN "storeSent" ELSE "update"
     \/ /\ ~(TimeDiff > 0 /\ last.time > 0)
        /\ skipped' = skipped + SentDiff + ReceivedDiff
        /\ hpc' = "update" /\ UNCHANGED <<counted, run, raced>>
  /\ UNCHANGED <<counters, last, pps, ready, alarmVars, hthread, h, displayVars>>

HStoreSent ==
  /\ hpc = "storeSent" /\ hpc' = "storeReceived"
  /\ pps' = [pps EXCEPT !.sent = [rate |-> SentDiff \div TimeDiff, run |-> run]]
  /\ UNCHANGED <<counters, last, ready, alarmVars, hthread, h, run, counted, skipped,
                 raced, displayVars>>

HStoreReceived ==
  /\ hpc = "storeReceived" /\ hpc' = "ready"
  /\ pps' = [pps EXCEPT !.received = [rate |-> ReceivedDiff \div TimeDiff, run |-> run]]
  /\ UNCHANGED <<counters, last, ready, alarmVars, hthread, h, run, counted, skipped,
                 raced, displayVars>>

\* The flag, a release store
HReady ==
  /\ hpc = "ready" /\ hpc' = "update"
  /\ ready' = run /\ raced' = (dpc # "idle")
  /\ UNCHANGED <<counters, last, pps, alarmVars, hthread, h, run, counted, skipped,
                 displayVars>>

\* Mutant: the counters are read again for the next interval.
HUpdate_Rereads ==
  /\ hpc = "update" /\ hpc' = "idle"
  /\ last' = [sent |-> sent, received |-> received, time |-> h.time]
  /\ h' = NoLoad /\ timer' = "armed"
  /\ UNCHANGED <<counters, pps, ready, now, alarms, onAlarm, killed, hthread, run,
                 counted, skipped, raced, displayVars>>

\* State for the next interval, and alarm(1)
HUpdate ==
  /\ hpc = "update" /\ hpc' = "idle"
  /\ last' = h /\ h' = NoLoad /\ timer' = "armed"
  /\ UNCHANGED <<counters, pps, ready, now, alarms, onAlarm, killed, hthread, run,
                 counted, skipped, raced, displayVars>>

Handler == \/ HLoadSent \/ HLoadReceived \/ HTest \/ HStoreSent \/ HStoreReceived
           \/ HReady \/ HUpdate

-----------------------------------------------------------------------------
(* display_stats_if_ready, called by the main thread *)

\* The flag is up (otherwise the call changes nothing).
DTest ==
  /\ dpc = "idle" /\ ready > 0
  /\ dpc' = "readSent" /\ d' = [NoRead EXCEPT !.seen = ready]
  /\ UNCHANGED <<counters, last, pps, ready, alarmVars, handlerVars, taken>>

DReadSent ==
  /\ dpc = "readSent" /\ dpc' = "readReceived"
  /\ d' = [d EXCEPT !.sent = pps.sent]
  /\ UNCHANGED <<counters, last, pps, ready, alarmVars, handlerVars, taken>>

DReadReceived ==
  /\ dpc = "readReceived" /\ dpc' = "reset"
  /\ d' = [d EXCEPT !.received = pps.received]
  /\ UNCHANGED <<counters, last, pps, ready, alarmVars, handlerVars, taken>>

\* Mutant: the flag is never taken down.
DReset_Stays ==
  /\ dpc = "reset" /\ dpc' = "idle"
  /\ taken' = <<d.sent.run, d.received.run>> /\ d' = NoRead
  /\ UNCHANGED <<counters, last, pps, ready, alarmVars, handlerVars>>

\* The rates are printed, unless both are zero, and the flag is taken down.
DReset ==
  /\ dpc = "reset" /\ dpc' = "idle"
  /\ ready' = 0
  /\ taken' = <<d.sent.run, d.received.run>> /\ d' = NoRead
  /\ UNCHANGED <<counters, last, pps, alarmVars, handlerVars>>

Display == DReadSent \/ DReadReceived \/ DReset
=============================================================================
