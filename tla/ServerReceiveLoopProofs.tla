---------------------- MODULE ServerReceiveLoopProofs -----------------------
(***************************************************************************)
(* Proofs about ServerReceiveLoop and the PPS report in it, for every      *)
(* number of packets and alarms and every way the clock may move.          *)
(*                                                                         *)
(* None of the properties is inductive.  LoopInv adds, for each of them,   *)
(* what the threads and the signal handler rely on between their steps.    *)
(***************************************************************************)
EXTENDS ServerReceiveLoop, SequenceTheorems, TLAPS

Loading == {"loadSent", "loadReceived", "test"}         \* before the handler's test
Storing == {"storeSent", "storeReceived", "ready"}      \* a report is being made

\* The alarm: it is off for as long as the handler runs; the handler only runs
\* on a thread that exists; the default action is only set while no alarm can
\* come any more.
AlarmSafe ==
  /\ ~killed
  /\ hpc # "idle" => timer = "off"
  /\ (hpc # "idle" /\ hthread = "writer") => writer
  /\ vpc \in {"alarm", "signal", "done"} => ~writer
  /\ vpc \in {"setup", "failed", "signal", "done"} => timer = "off" /\ hpc = "idle"
  /\ onAlarm = "default" => vpc \in {"setup", "failed", "done"}

\* Before the report is set up nothing was counted.
Untouched ==
  vpc = "setup" => /\ counted = 0 /\ skipped = 0 /\ run = 0
                   /\ ready = 0 /\ dpc = "idle"

\* What was counted: the packets up to the last interval, and from the handler's
\* test on up to this one; what the handler loaded lies between the counters then
\* and now.
CountedSoFar ==
  /\ hpc \in {"idle"} \cup Loading => counted + skipped = last.sent + last.received
  /\ hpc \in Storing \cup {"update"} => counted + skipped = h.sent + h.received
  /\ last.sent <= sent /\ last.received <= received /\ sent <= received
  /\ hpc \notin {"idle", "loadSent"} => last.sent <= h.sent /\ h.sent <= sent
  /\ hpc \notin {"idle", "loadSent", "loadReceived"} =>
       last.received <= h.received /\ h.received <= received
  /\ hpc \in Storing => TimeDiff > 0

\* Every report has an alarm of its own.
ReportsBelowAlarms ==
  /\ run <= alarms
  /\ timer = "pending" \/ hpc \in Loading => run < alarms
  /\ hpc \in Storing => run > 0

\* The rates belong to the newest report, but for those the handler is storing;
\* the flag stands for a report whose rates are both stored; and so does what the
\* display saw.
RatesStored ==
  /\ pps.sent.run <= run /\ pps.received.run <= run
  /\ hpc # "storeSent" => pps.sent.run = run
  /\ hpc \notin {"storeSent", "storeReceived"} => pps.received.run = run
  /\ ready <= pps.sent.run /\ ready <= pps.received.run
  /\ dpc # "idle" => d.seen <= pps.sent.run /\ d.seen <= pps.received.run
  /\ dpc \in {"readReceived", "reset"} => d.sent.run >= d.seen
  /\ dpc = "reset" => d.received.run >= d.seen

\* The newest report, unless a display was at work when it was finished: it is
\* flagged, and the display has nothing older; or it was displayed.
NewestReport ==
  (hpc \notin Storing /\ run > 0 /\ ~raced) =>
    \/ /\ ready = run
       /\ dpc \in {"readReceived", "reset"} => d.sent.run = run
       /\ dpc = "reset" => d.received.run = run
    \/ ready = 0 /\ dpc = "idle" /\ taken = <<run, run>>

\* The inductive invariant
LoopInv ==
  /\ TypeOK /\ AlarmSafe /\ Untouched /\ CountedSoFar /\ ReportsBelowAlarms
  /\ RatesStored /\ NewestReport

-----------------------------------------------------------------------------
\* The initial state satisfies the invariant.
LEMMA InitLoopInv == Init => LoopInv
<1> SUFFICES ASSUME Init PROVE LoopInv
  OBVIOUS
<1> USE PpsAssumption, LoopAssumption DEF Init, PpsInit
<1>1. TypeOK
  <2>1. last \in Loads /\ h \in Loads
    BY DEF Loads, NoLoad
  <2>2. NoRate \in Rates
    BY DEF Rates, NoRate
  <2>3. /\ pps \in [sent : Rates, received : Rates]
        /\ d \in [sent : Rates, received : Rates, seen : 0 .. MaxAlarms]
    BY <2>2 DEF NoRead
  <2>5. /\ killed \in BOOLEAN /\ raced \in BOOLEAN /\ roundTrip \in BOOLEAN
        /\ writer \in BOOLEAN
    BY Zenon
  <2> QED BY <2>1, <2>3, <2>5 DEF TypeOK
<1>2. AlarmSafe /\ Untouched /\ ReportsBelowAlarms
  BY DEF AlarmSafe, Untouched, ReportsBelowAlarms, Loading, Storing
<1>3. CountedSoFar
  BY DEF CountedSoFar, Loading, Storing, NoLoad
<1>4. RatesStored /\ NewestReport
  BY DEF RatesStored, NewestReport, NoRate, NoRead
<1> QED BY <1>1, <1>2, <1>3, <1>4 DEF LoopInv

\* The clean-up goes through its three steps in order, each doing one thing.
LEMMA CleanupInOrder ==
  ASSUME NEW k \in DOMAIN CleanupOrder, Cleanup(k)
  PROVE  /\ \/ vpc = "csv" /\ vpc' = "alarm"
            \/ vpc = "alarm" /\ vpc' = "signal"
            \/ vpc = "signal" /\ vpc' = "done"
         /\ MainRuns
         /\ (vpc = "csv" /\ hthread = "writer") => hpc = "idle"
         /\ writer' = (writer /\ vpc # "csv")
         /\ timer' = IF vpc = "alarm" /\ timer = "armed" THEN "off" ELSE timer
         /\ onAlarm' = IF vpc = "signal" THEN "default" ELSE onAlarm
         /\ UNCHANGED <<counters, last, pps, ready, now, alarms, killed, handlerVars,
                        displayVars, roundTrip>>
<1>1. k \in 1 .. 3 /\ Len(CleanupOrder) = 3
  BY DEF CleanupOrder
<1>2. /\ CleanupOrder[1] = "csv" /\ CleanupOrder[2] = "alarm" /\ CleanupOrder[3] = "signal"
  BY DEF CleanupOrder
<1> QED BY <1>1, <1>2 DEF Cleanup

\* The quotient of a difference of counters and a positive time is no larger
\* than the difference.
LEMMA RateBound ==
  ASSUME NEW a \in Nat, NEW b \in Nat, b > 0
  PROVE  a \div b \in 0 .. a
<1> DEFINE q == a \div b
<1>1. /\ q \in Int /\ a = b * q + (a % b) /\ a % b \in 0 .. b - 1
  OBVIOUS
<1>2. q >= 0
  BY <1>1
<1>3. b * q >= q
  BY <1>1, <1>2
<1> QED BY <1>1, <1>2, <1>3

\* The step is one of the actions.
LEMMA ActionCases ==
  ASSUME [Next]_vars
  PROVE  \/ ServerSetup \/ SetupFails \/ CheckTime \/ Displaying
         \/ Receive
         \/ LeaveLoop
         \/ \E k \in DOMAIN CleanupOrder : Cleanup(k)
         \/ Delivery \/ Handling \/ Second
         \/ \E n \in 1 .. MaxPackets : CountSent(n)
         \/ UNCHANGED vars
BY DEF Next, Main

-----------------------------------------------------------------------------
\* Every step keeps the alarm safe: the report is shut down after the thread on
\* which a handler could still run, and with no signal waiting.
LEMMA NextAlarmSafe ==
  ASSUME LoopInv, [Next]_vars
  PROVE  AlarmSafe'
<1> USE DEF LoopInv, AlarmSafe, TypeOK
<1>1. CASE ServerSetup \/ SetupFails
  BY <1>1 DEF ServerSetup, SetupFails, setup_stats_reporting_hotpath, ppsVars, alarmVars,
              handlerVars
<1>2. CASE CheckTime \/ Displaying
  BY <1>2 DEF CheckTime, Displaying, DTest, Display, DReadSent, DReadReceived, DReset,
              alarmVars, handlerVars, serverVars
<1>3. CASE Receive
  BY <1>3 DEF Receive, alarmVars, handlerVars, serverVars
<1>4. CASE LeaveLoop
  BY <1>4 DEF LeaveLoop, CleanupOrder, ppsVars, alarmVars, handlerVars
<1>5. CASE \E k \in DOMAIN CleanupOrder : Cleanup(k)
  BY <1>5, CleanupInOrder DEF MainRuns, handlerVars
<1>6. CASE Delivery
  BY <1>6 DEF Delivery, Deliver, Alive, serverVars
<1>7. CASE Handling
  <2>1. CASE HUpdate
    BY <1>7, <2>1 DEF Handling, HUpdate, serverVars
  <2>2. ASSUME hpc # "idle", UNCHANGED <<alarmVars, hthread, serverVars>>
        PROVE  AlarmSafe'
    BY <2>2 DEF alarmVars, serverVars
  <2> QED
    BY <1>7, <2>1, <2>2
    DEF Handling, Handler, HLoadSent, HLoadReceived, HTest, HStoreSent, HStoreReceived, HReady
<1>8. CASE Second
  BY <1>8 DEF Second, Alive, AlarmFires, handlerVars, serverVars
<1>9. CASE \E n \in 1 .. MaxPackets : CountSent(n)
  BY <1>9 DEF CountSent, alarmVars, handlerVars, serverVars
<1>10. CASE UNCHANGED vars
  BY <1>10 DEF vars, ppsVars, alarmVars, handlerVars, serverVars
<1> QED BY <1>1, <1>2, <1>3, <1>4, <1>5, <1>6, <1>7, <1>8, <1>9, <1>10, ActionCases

\* Nothing happens before the set-up.
LEMMA NextUntouched ==
  ASSUME LoopInv, [Next]_vars
  PROVE  Untouched'
<1> USE DEF LoopInv, Untouched
<1>1. CASE ServerSetup \/ SetupFails
  BY <1>1 DEF ServerSetup, SetupFails
<1>2. CASE CheckTime \/ Displaying
  BY <1>2 DEF CheckTime, Displaying, DTest, Display, DReadSent, DReadReceived, DReset,
              serverVars
<1>3. CASE Receive
  BY <1>3 DEF Receive, serverVars
<1>4. CASE LeaveLoop
  BY <1>4 DEF LeaveLoop, CleanupOrder
<1>5. CASE \E k \in DOMAIN CleanupOrder : Cleanup(k)
  BY <1>5, CleanupInOrder
<1>6. CASE Delivery \/ Second
  BY <1>6 DEF Delivery, Deliver, Second, AlarmFires, serverVars, handlerVars, displayVars
<1>7. CASE Handling
  BY <1>7 DEF Handling, Handler, HLoadSent, HLoadReceived, HTest, HStoreSent,
              HStoreReceived, HReady, HUpdate, serverVars, AlarmSafe
<1>9. CASE \E n \in 1 .. MaxPackets : CountSent(n)
  BY <1>9 DEF CountSent, serverVars
<1>10. CASE UNCHANGED vars
  BY <1>10 DEF vars, ppsVars, handlerVars, displayVars, serverVars
<1> QED BY <1>1, <1>2, <1>3, <1>4, <1>5, <1>6, <1>7, <1>9, <1>10, ActionCases

\* What the handler's test decides: a report is made, or the interval is over.
\* Either way its packets are counted once.
LEMMA TestOutcome ==
  ASSUME LoopInv, HTest
  PROVE  /\ hpc = "test" /\ UNCHANGED <<counters, last, pps, ready, alarmVars, hthread, h, displayVars>>
         /\ counted' \in Nat /\ skipped' \in Nat
         /\ counted' + skipped' = h.sent + h.received
         /\ \/ hpc' = "storeSent" /\ run' = run + 1 /\ raced' = FALSE /\ TimeDiff > 0
            \/ hpc' = "update" /\ run' = run /\ raced' = raced
<1>1. /\ hpc = "test"
      /\ UNCHANGED <<counters, last, pps, ready, alarmVars, hthread, h, displayVars>>
  BY DEF HTest
<1>2. /\ counted \in Nat /\ skipped \in Nat
      /\ last.sent \in Nat /\ last.received \in Nat /\ h.sent \in Nat /\ h.received \in Nat
  BY LoopAssumption DEF LoopInv, TypeOK, Loads
<1>3. /\ last.sent <= h.sent /\ last.received <= h.received
      /\ counted + skipped = last.sent + last.received
  BY <1>1, Zenon DEF LoopInv, CountedSoFar, Loading
<1>4. /\ SentDiff \in Nat /\ ReceivedDiff \in Nat
      /\ counted + skipped + SentDiff + ReceivedDiff = h.sent + h.received
  BY <1>2, <1>3 DEF SentDiff, ReceivedDiff
<1>5. Activity <=> SentDiff + ReceivedDiff > 0
  BY <1>4 DEF Activity
<1>6. \/ /\ counted' = counted + SentDiff + ReceivedDiff /\ skipped' = skipped
      \/ /\ skipped' = skipped + SentDiff + ReceivedDiff /\ counted' = counted
  BY Zenon DEF HTest
<1>7. /\ counted' \in Nat /\ skipped' \in Nat
      /\ counted' + skipped' = h.sent + h.received
  BY <1>2, <1>4, <1>6
<1>8. \/ hpc' = "storeSent" /\ run' = run + 1 /\ raced' = FALSE /\ TimeDiff > 0
      \/ hpc' = "update" /\ run' = run /\ raced' = raced
  BY <1>5, Zenon DEF HTest
<1> QED BY <1>1, <1>7, <1>8

\* What a step of the handler does to the counting.
LEMMA HandlerCounted ==
  ASSUME LoopInv, Handler
  PROVE  CountedSoFar'
<1> USE DEF LoopInv, CountedSoFar, TypeOK, Loads, Loading, Storing, SentDiff, ReceivedDiff,
            TimeDiff, counters
<1>1. CASE HLoadSent
  BY <1>1 DEF HLoadSent
<1>2. CASE HLoadReceived
  BY <1>2 DEF HLoadReceived
<1>3. CASE HTest
  BY <1>3, TestOutcome
<1>4. CASE HStoreSent \/ HStoreReceived \/ HReady
  BY <1>4 DEF HStoreSent, HStoreReceived, HReady
<1>5. CASE HUpdate
  BY <1>5 DEF HUpdate
<1> QED BY <1>1, <1>2, <1>3, <1>4, <1>5 DEF Handler

\* Every packet stays in exactly one interval.
LEMMA NextCountedSoFar ==
  ASSUME LoopInv, [Next]_vars
  PROVE  CountedSoFar'
<1> USE DEF LoopInv, counters, handlerVars
<1>0. TypeOK
  OBVIOUS
<1>a. CASE UNCHANGED <<sent, received, last, h, hpc, counted, skipped>>
  BY <1>a DEF CountedSoFar, TimeDiff
<1>1. CASE ServerSetup
  BY <1>1 DEF ServerSetup, setup_stats_reporting_hotpath, CountedSoFar, AlarmSafe, Untouched,
              TypeOK, Loads, NoLoad, Loading, Storing
<1>2. CASE SetupFails \/ LeaveLoop
  BY <1>2, <1>a DEF SetupFails, LeaveLoop, ppsVars
<1>3. CASE CheckTime \/ Displaying
  BY <1>3, <1>a DEF CheckTime, Displaying, DTest, Display, DReadSent, DReadReceived, DReset
<1>4. CASE Receive
  BY <1>4 DEF Receive, CountedSoFar, TimeDiff, TypeOK, Loads
<1>5. CASE \E k \in DOMAIN CleanupOrder : Cleanup(k)
  BY <1>5, <1>a, CleanupInOrder
<1>6. CASE Delivery
  BY <1>6 DEF Delivery, Deliver, CountedSoFar, Loading, Storing, AlarmSafe, TypeOK
<1>7. CASE Handling
  BY <1>7, HandlerCounted DEF Handling
<1>8. CASE Second
  BY <1>8, <1>a DEF Second, AlarmFires
<1>9. CASE \E n \in 1 .. MaxPackets : CountSent(n)
  BY <1>9 DEF CountSent, CountedSoFar, TimeDiff, TypeOK, Loads
<1>10. CASE UNCHANGED vars
  BY <1>10, <1>a DEF vars, ppsVars
<1> QED BY <1>1, <1>2, <1>3, <1>4, <1>5, <1>6, <1>7, <1>8, <1>9, <1>10, ActionCases

\* Every alarm gives at most one report.
LEMMA NextReportsBelowAlarms ==
  ASSUME LoopInv, [Next]_vars
  PROVE  ReportsBelowAlarms'
<1> USE DEF LoopInv, ReportsBelowAlarms, Loading, Storing
<1>a. CASE UNCHANGED <<run, alarms, timer, hpc>>
  BY <1>a
<1>1. CASE ServerSetup
  BY <1>1 DEF ServerSetup, setup_stats_reporting_hotpath, AlarmSafe, handlerVars
<1>2. CASE SetupFails \/ LeaveLoop
  BY <1>2, <1>a DEF SetupFails, LeaveLoop, ppsVars, alarmVars, handlerVars
<1>3. CASE CheckTime \/ Displaying
  BY <1>3, <1>a DEF CheckTime, Displaying, DTest, Display, DReadSent, DReadReceived, DReset,
                    alarmVars, handlerVars
<1>4. CASE Receive
  BY <1>4, <1>a DEF Receive, alarmVars, handlerVars
<1>5. CASE \E k \in DOMAIN CleanupOrder : Cleanup(k)
  BY <1>5, CleanupInOrder DEF handlerVars
<1>6. CASE Delivery
  BY <1>6 DEF Delivery, Deliver, AlarmSafe, TypeOK
<1>7. CASE Handling
  <2>1. CASE HTest
    <3>1. /\ hpc = "test" /\ UNCHANGED <<alarms, timer>> /\ timer = "off"
          /\ \/ hpc' = "storeSent" /\ run' = run + 1
             \/ hpc' = "update" /\ run' = run
      BY <2>1, TestOutcome DEF AlarmSafe, alarmVars
    <3>2. run \in Nat /\ alarms \in Nat /\ run < alarms
      BY <3>1, PpsAssumption DEF TypeOK
    <3> QED BY <3>1, <3>2
  <2>2. CASE HUpdate
    BY <2>2 DEF HUpdate
  <2> QED
    BY <1>7, <2>1, <2>2
    DEF Handling, Handler, HLoadSent, HLoadReceived, HStoreSent, HStoreReceived, HReady,
        AlarmSafe, alarmVars
<1>8. CASE Second
  BY <1>8 DEF Second, AlarmFires, AlarmSafe, TypeOK, handlerVars
<1>9. CASE \E n \in 1 .. MaxPackets : CountSent(n)
  BY <1>9, <1>a DEF CountSent, alarmVars, handlerVars
<1>10. CASE UNCHANGED vars
  BY <1>10, <1>a DEF vars, ppsVars, alarmVars, handlerVars
<1> QED BY <1>1, <1>2, <1>3, <1>4, <1>5, <1>6, <1>7, <1>8, <1>9, <1>10, ActionCases

\* The flag is raised after both rates are stored and read before them, so that no
\* display sees rates older than its flag.
LEMMA NextRatesStored ==
  ASSUME LoopInv, [Next]_vars
  PROVE  RatesStored'
<1> USE DEF LoopInv, RatesStored, TypeOK, Rates
<1>a. CASE UNCHANGED <<run, pps, ready, hpc, dpc, d>>
  BY <1>a
<1>1. CASE ServerSetup \/ SetupFails \/ LeaveLoop
  BY <1>1, <1>a DEF ServerSetup, SetupFails, LeaveLoop, ppsVars, handlerVars, displayVars
<1>2. CASE CheckTime
  BY <1>2 DEF CheckTime, DTest, NoRead, NoRate, handlerVars
<1>3. CASE Displaying
  <2>1. CASE DReadSent
    BY <2>1 DEF DReadSent, handlerVars
  <2>2. CASE DReadReceived
    BY <2>2 DEF DReadReceived, handlerVars
  <2>3. CASE DReset
    BY <2>3, SMTT(30) DEF DReset, handlerVars
  <2> QED BY <1>3, <2>1, <2>2, <2>3 DEF Displaying, Display
<1>4. CASE Receive
  BY <1>4, <1>a DEF Receive, handlerVars, displayVars
<1>5. CASE \E k \in DOMAIN CleanupOrder : Cleanup(k)
  BY <1>5, <1>a, CleanupInOrder DEF handlerVars, displayVars
<1>6. CASE Delivery
  BY <1>6 DEF Delivery, Deliver, AlarmSafe, displayVars
<1>7. CASE Handling
  <2> USE DEF displayVars
  <2>1. CASE HLoadSent \/ HLoadReceived
    BY <2>1 DEF HLoadSent, HLoadReceived
  <2>2. CASE HTest
    <3>1. /\ hpc = "test" /\ UNCHANGED <<pps, ready, dpc, d>>
          /\ \/ hpc' = "storeSent" /\ run' = run + 1
             \/ hpc' = "update" /\ run' = run
      BY <2>2, TestOutcome
    <3>2. run \in Nat /\ pps.sent.run = run /\ pps.received.run = run
      BY <3>1, PpsAssumption
    <3> QED BY <3>1, <3>2
  <2>3. CASE HStoreSent
    BY <2>3, SMTT(30) DEF HStoreSent
  <2>4. CASE HStoreReceived
    BY <2>4 DEF HStoreReceived
  <2>5. CASE HReady \/ HUpdate
    BY <2>5 DEF HReady, HUpdate
  <2> QED BY <1>7, <2>1, <2>2, <2>3, <2>4, <2>5 DEF Handling, Handler
<1>8. CASE Second
  BY <1>8, <1>a DEF Second, AlarmFires, handlerVars, displayVars
<1>9. CASE \E n \in 1 .. MaxPackets : CountSent(n)
  BY <1>9, <1>a DEF CountSent, handlerVars, displayVars
<1>10. CASE UNCHANGED vars
  BY <1>10, <1>a DEF vars, ppsVars, handlerVars, displayVars
<1> QED BY <1>1, <1>2, <1>3, <1>4, <1>5, <1>6, <1>7, <1>8, <1>9, <1>10, ActionCases

\* The newest report is flagged, displayed, or met a display at work.
LEMMA NextNewestReport ==
  ASSUME LoopInv, [Next]_vars
  PROVE  NewestReport'
<1> USE DEF LoopInv, NewestReport, TypeOK, Rates, Storing
<1>a. CASE UNCHANGED <<run, ready, raced, taken, hpc, dpc, d>>
  BY <1>a
<1>1. CASE ServerSetup \/ SetupFails \/ LeaveLoop
  BY <1>1, <1>a DEF ServerSetup, SetupFails, LeaveLoop, ppsVars, handlerVars, displayVars
<1>2. CASE CheckTime
  BY <1>2 DEF CheckTime, DTest, handlerVars
<1>3. CASE Displaying
  <2>1. CASE DReadSent
    BY <2>1 DEF DReadSent, handlerVars, RatesStored
  <2>2. CASE DReadReceived
    BY <2>2 DEF DReadReceived, handlerVars, RatesStored
  <2>3. CASE DReset
    BY <2>3 DEF DReset, handlerVars
  <2> QED BY <1>3, <2>1, <2>2, <2>3 DEF Displaying, Display
<1>4. CASE Receive
  BY <1>4, <1>a DEF Receive, handlerVars, displayVars
<1>5. CASE \E k \in DOMAIN CleanupOrder : Cleanup(k)
  BY <1>5, <1>a, CleanupInOrder DEF handlerVars, displayVars
<1>6. CASE Delivery
  BY <1>6, SMTT(30) DEF Delivery, Deliver, AlarmSafe, displayVars
<1>7. CASE Handling
  <2> USE DEF displayVars
  <2>1. CASE HLoadSent \/ HLoadReceived
    BY <2>1 DEF HLoadSent, HLoadReceived
  <2>2. CASE HTest
    BY <2>2, TestOutcome
  <2>3. CASE HStoreSent \/ HStoreReceived
    BY <2>3 DEF HStoreSent, HStoreReceived
  <2>4. CASE HReady
    BY <2>4 DEF HReady
  <2>5. CASE HUpdate
    BY <2>5 DEF HUpdate
  <2> QED BY <1>7, <2>1, <2>2, <2>3, <2>4, <2>5 DEF Handling, Handler
<1>8. CASE Second
  BY <1>8, <1>a DEF Second, AlarmFires, handlerVars, displayVars
<1>9. CASE \E n \in 1 .. MaxPackets : CountSent(n)
  BY <1>9, <1>a DEF CountSent, handlerVars, displayVars
<1>10. CASE UNCHANGED vars
  BY <1>10, <1>a DEF vars, ppsVars, handlerVars, displayVars
<1> QED BY <1>1, <1>2, <1>3, <1>4, <1>5, <1>6, <1>7, <1>8, <1>9, <1>10, ActionCases

\* The rate the handler stores is no larger than the number of packets.
LEMMA RateStoredType ==
  ASSUME LoopInv, HStoreSent \/ HStoreReceived
  PROVE  pps' \in [sent : Rates, received : Rates]
<1>1. /\ last.sent \in Nat /\ last.received \in Nat /\ h.sent \in 0 .. MaxPackets
      /\ h.received \in 0 .. MaxPackets /\ h.time \in Int /\ last.time \in Int
      /\ run \in 0 .. MaxAlarms /\ pps \in [sent : Rates, received : Rates]
  BY LoopAssumption DEF LoopInv, TypeOK, Loads
<1>2. last.sent <= h.sent /\ last.received <= h.received /\ TimeDiff > 0
  BY Zenon DEF LoopInv, CountedSoFar, Storing, HStoreSent, HStoreReceived
<1>3. /\ TimeDiff \in Nat /\ SentDiff \in Nat /\ ReceivedDiff \in Nat
      /\ SentDiff <= MaxPackets /\ ReceivedDiff <= MaxPackets
  BY <1>1, <1>2, LoopAssumption DEF SentDiff, ReceivedDiff, TimeDiff
<1>4. /\ SentDiff \div TimeDiff \in 0 .. MaxPackets
      /\ ReceivedDiff \div TimeDiff \in 0 .. MaxPackets
  <2>1. SentDiff \div TimeDiff \in 0 .. SentDiff
    BY <1>2, <1>3, RateBound
  <2>2. ReceivedDiff \div TimeDiff \in 0 .. ReceivedDiff
    BY <1>2, <1>3, RateBound
  <2> QED BY <1>3, <2>1, <2>2, LoopAssumption
<1>5. /\ [rate |-> SentDiff \div TimeDiff, run |-> run] \in Rates
      /\ [rate |-> ReceivedDiff \div TimeDiff, run |-> run] \in Rates
  BY <1>1, <1>4 DEF Rates
<1>6. CASE HStoreSent
  BY <1>1, <1>5, <1>6 DEF HStoreSent
<1>7. CASE HStoreReceived
  BY <1>1, <1>5, <1>7 DEF HStoreReceived
<1> QED BY <1>6, <1>7

\* A step of the handler preserves the types.
LEMMA HandlerTypeOK ==
  ASSUME LoopInv, Handler, UNCHANGED serverVars
  PROVE  TypeOK'
<1> USE PpsAssumption, LoopAssumption DEF LoopInv, TypeOK, counters, alarmVars, displayVars, serverVars
<1>1. CASE HLoadSent
  <2>1. h' \in Loads
    BY <1>1 DEF HLoadSent, Loads
  <2> QED BY <1>1, <2>1 DEF HLoadSent
<1>2. CASE HLoadReceived
  <2>1. h' \in Loads
    BY <1>2 DEF HLoadReceived, Loads
  <2> QED BY <1>2, <2>1 DEF HLoadReceived
<1>3. CASE HTest
  <2>1. /\ hpc = "test" /\ UNCHANGED <<counters, last, pps, ready, alarmVars, hthread, h, displayVars>>
        /\ counted' \in Nat /\ skipped' \in Nat
        /\ \/ hpc' = "storeSent" /\ run' = run + 1 /\ raced' = FALSE
           \/ hpc' = "update" /\ run' = run /\ raced' = raced
    BY <1>3, TestOutcome
  <2>2. run < alarms
    BY <2>1 DEF ReportsBelowAlarms, Loading
  <2>3. run' \in 0 .. MaxAlarms /\ ready' \in 0 .. run'
    BY <2>1, <2>2
  <2>4. raced' \in BOOLEAN /\ hpc' \in {"storeSent", "update"}
    BY <2>1
  <2> QED BY <2>1, <2>3, <2>4
<1>4. CASE HStoreSent \/ HStoreReceived
  <2>1. pps' \in [sent : Rates, received : Rates]
    BY <1>4, RateStoredType
  <2> QED BY <1>4, <2>1 DEF HStoreSent, HStoreReceived
<1>5. CASE HReady
  <2>1. raced' \in BOOLEAN
    BY <1>5 DEF HReady
  <2> QED BY <1>5, <2>1 DEF HReady
<1>6. CASE HUpdate
  <2>1. last' \in Loads /\ h' \in Loads
    BY <1>6 DEF HUpdate, Loads, NoLoad
  <2> QED BY <1>6, <2>1 DEF HUpdate
<1> QED BY <1>1, <1>2, <1>3, <1>4, <1>5, <1>6 DEF Handler

\* Every step preserves the types.
LEMMA NextTypeOK ==
  ASSUME LoopInv, [Next]_vars
  PROVE  TypeOK'
<1> USE PpsAssumption, LoopAssumption DEF LoopInv, counters
<1>1. CASE ServerSetup
  <2>1. last' \in Loads
    <3>1. now \in Int /\ last' = [NoLoad EXCEPT !.time = now]
      BY <1>1 DEF ServerSetup, setup_stats_reporting_hotpath, TypeOK
    <3>2. [NoLoad EXCEPT !.time = now] = [sent |-> 0, received |-> 0, time |-> now]
      BY DEF NoLoad
    <3> QED BY <3>1, <3>2 DEF Loads
  <2> QED BY <1>1, <2>1 DEF ServerSetup, setup_stats_reporting_hotpath, TypeOK,
                            handlerVars, displayVars
<1>2. CASE SetupFails \/ LeaveLoop
  BY <1>2, SMTT(30) DEF SetupFails, LeaveLoop, CleanupOrder, TypeOK, ppsVars, alarmVars, handlerVars,
              displayVars
<1>3. CASE CheckTime
  <2>1. d' \in [sent : Rates, received : Rates, seen : 0 .. MaxAlarms]
    <3>1. NoRate \in Rates
      BY DEF NoRate, Rates
    <3> QED BY <1>3, <3>1 DEF CheckTime, DTest, NoRead, TypeOK
  <2> QED BY <1>3, <2>1 DEF CheckTime, DTest, TypeOK, alarmVars, handlerVars, serverVars
<1>4. CASE Displaying
  <2>1. d' \in [sent : Rates, received : Rates, seen : 0 .. MaxAlarms]
    <3>1. NoRate \in Rates
      BY DEF NoRate, Rates
    <3>2. NoRead \in [sent : Rates, received : Rates, seen : 0 .. MaxAlarms]
      BY <3>1 DEF NoRead
    <3> QED BY <1>4, <3>2 DEF Displaying, Display, DReadSent, DReadReceived, DReset, TypeOK
  <2>2. dpc' \in {"readReceived", "reset", "idle"} /\ ready' \in {ready, 0}
    BY <1>4 DEF Displaying, Display, DReadSent, DReadReceived, DReset
  <2>3. UNCHANGED <<counters, last, pps, alarmVars, handlerVars, serverVars>>
    BY <1>4 DEF Displaying, Display, DReadSent, DReadReceived, DReset
  <2> QED BY <2>1, <2>2, <2>3 DEF TypeOK, alarmVars, handlerVars, serverVars
<1>5. CASE Receive
  BY <1>5 DEF Receive, TypeOK, alarmVars, handlerVars, displayVars, serverVars
<1>6. CASE \E k \in DOMAIN CleanupOrder : Cleanup(k)
  <2>1. /\ vpc' \in {"alarm", "signal", "done"} /\ writer' \in BOOLEAN
        /\ timer' \in {"off", timer} /\ onAlarm' \in {"default", onAlarm}
        /\ UNCHANGED <<counters, last, pps, ready, now, alarms, killed, handlerVars,
                       displayVars, roundTrip>>
    BY <1>6, CleanupInOrder
  <2> QED BY <2>1 DEF TypeOK, handlerVars, displayVars
<1>7. CASE Delivery
  <2>1. killed' = killed /\ hpc' = "loadSent" /\ hthread' \in {"main", "writer"}
    BY <1>7 DEF Delivery, Deliver, AlarmSafe
  <2> QED BY <1>7, <2>1, SMTT(30) DEF Delivery, Deliver, TypeOK, displayVars, serverVars
<1>8. CASE Handling
  BY <1>8, HandlerTypeOK DEF Handling
<1>9. CASE Second
  BY <1>9 DEF Second, AlarmFires, TypeOK, handlerVars, displayVars, serverVars
<1>10. CASE \E n \in 1 .. MaxPackets : CountSent(n)
  BY <1>10 DEF CountSent, TypeOK, alarmVars, handlerVars, displayVars, serverVars
<1>11. CASE UNCHANGED vars
  BY <1>11 DEF vars, TypeOK, ppsVars, alarmVars, handlerVars, displayVars, serverVars
<1> QED BY <1>1, <1>2, <1>3, <1>4, <1>5, <1>6, <1>7, <1>8, <1>9, <1>10, <1>11, ActionCases

-----------------------------------------------------------------------------
\* LoopInv is an inductive invariant of the specification.
THEOREM LoopInvariant == Spec => []LoopInv
<1>1. LoopInv /\ [Next]_vars => LoopInv'
  BY NextTypeOK, NextAlarmSafe, NextUntouched, NextCountedSoFar, NextReportsBelowAlarms,
     NextRatesStored, NextNewestReport DEF LoopInv
<1> QED BY <1>1, InitLoopInv, PTL DEF Spec

\* SIGALRM never meets its default action, whichever thread the kernel chooses
\* for it and whenever the loop is left.
THEOREM NeverKilled == Spec => []NeverKilledByAlarm
<1>1. LoopInv => NeverKilledByAlarm
  BY DEF LoopInv, AlarmSafe, NeverKilledByAlarm
<1> QED BY <1>1, LoopInvariant, PTL

\* The types, and every packet in exactly one interval of the report.
THEOREM PacketsCounted == Spec => []CountingInv
<1>1. LoopInv => CountingInv
  BY DEF LoopInv, CountedSoFar, CountingInv, PacketsCountedOnce, Loading
<1> QED BY <1>1, LoopInvariant, PTL

\* A display never prints rates older than the flag it saw, and the newest report
\* is only lost when it was finished during a display.
THEOREM ReportsDisplayed == Spec => []ReportInv
<1>1. LoopInv => RatesAsFreshAsFlag
  BY DEF LoopInv, RatesStored, RatesAsFreshAsFlag
<1>2. LoopInv => LostReportOnlyIfRaced
  BY DEF LoopInv, NewestReport, LostReportOnlyIfRaced, Storing
<1> QED BY <1>1, <1>2, LoopInvariant, PTL DEF ReportInv
=============================================================================
