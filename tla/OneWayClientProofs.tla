------------------------ MODULE OneWayClientProofs --------------------------
(***************************************************************************)
(* Proofs about OneWayClient for every batch size and number of packets    *)
(* and errors: the numbering of the packets and their rows, what happens   *)
(* to each completion, and what is held while completions are processed.   *)
(***************************************************************************)
EXTENDS OneWayClient, RingLemmas

\* The sending loop: the packets on the wire are those before seq_num and those of
\* the batch in flight, and their rows follow one by one.
Sending ==
  /\ Len(wire) = seqNum + sentN /\ seqNum + sentN <= MaxPackets
  /\ mpc # "record" => sentN = 0
  /\ SequenceUnbroken
  /\ csv => Len(rows) = seqNum + i /\ \A k \in 1 .. Len(rows) : rows[k] = k - 1

\* Who processes completions when: nobody before the thread is started, then the
\* thread, and main from the join to the end of its drain.
WhoProcesses ==
  /\ spc = "none" <=> (mpc \in {"socket", "options", "txcsv", "corr", "thread"}
                       \/ (mpc = "failed" /\ "thread" \notin res))
  /\ phase = "main" <=> mpc \in {"drain", "cleanup", "done"}
  /\ mpc = "drain" => spc = "recv"
  /\ mpc \in {"cleanup", "done"} => spc = "done"
  /\ (csv /\ errors = 0) => done = turn
  /\ done <= turn

\* What is held where: until the thread runs, exactly what the error paths give
\* back; then the thread, the socket and the TX CSV buffer up to the clean-up.
Held ==
  /\ res \subseteq {"stats", "socket", "txcsv", "corr", "thread", "pps", "csv", "buffers"}
  /\ (statsOn /\ mpc # "done") => "stats" \in res
  /\ mpc = "socket" => res \subseteq {"stats"}
  /\ mpc \in {"options", "txcsv"} => res \subseteq {"stats", "socket"}
  /\ mpc = "corr" => res \subseteq {"stats", "socket", "txcsv"}
  /\ mpc = "thread" => res \subseteq {"stats", "socket", "txcsv", "corr"}
  /\ (csv /\ mpc \in {"corr", "thread"}) => "txcsv" \in res
  /\ (csv /\ spc # "none" /\ mpc # "done") => "txcsv" \in res
  /\ mpc \in {"pps", "csv", "connect", "buffers", "loop", "record", "joinTs"} => "thread" \in res
  /\ mpc \in {"drain", "cleanup"} => "thread" \notin res
  /\ mpc \notin {"socket", "cleanup", "done", "failed"} => "socket" \in res
  /\ mpc = "done" => res = {}
  /\ (mpc = "failed" /\ spc = "none") => res \subseteq {"stats"}

\* Every completion is in one place: owed, queued, taken by the health check, or
\* read.  With a TX CSV the read ones are its rows; with statistics they are the
\* stamped entries and the ones that came too early.
Places(read) ==
  /\ Range(wire) = Unread \cup peeked \cup read
  /\ read \cap (Unread \cup peeked) = {}

Completions ==
  /\ IsInjective(errq) /\ IsInjective(txRows)
  /\ owed \cap Range(errq) = {} /\ peeked \cap Unread = {}
  /\ Unread \cup peeked \subseteq Range(wire)
  /\ csv => Places(Range(txRows))
  /\ statsOn => Places(stamped \cup early) /\ stamped \cap early = {}

\* The inductive invariant
ClientInv ==
  TypeOK /\ Sending /\ WhoProcesses /\ Held /\ Completions /\ DrainReachesEmpty

-----------------------------------------------------------------------------
\* The steps of the set-up by their numbers
LEMMA SetupElements ==
  /\ Len(SetupSteps) = 10 /\ DOMAIN SetupSteps = 1 .. 10
  /\ SetupSteps[1] = "socket" /\ SetupSteps[2] = "options" /\ SetupSteps[3] = "txcsv" /\ SetupSteps[4] = "corr" /\ SetupSteps[5] = "thread"
  /\ SetupSteps[6] = "pps" /\ SetupSteps[7] = "csv" /\ SetupSteps[8] = "connect" /\ SetupSteps[9] = "buffers" /\ SetupSteps[10] = "loop"
BY DEF SetupSteps

\* ... and as a set
LEMMA SetupSet ==
  ToSet(SetupSteps) = {"socket", "options", "txcsv", "corr", "thread", "pps", "csv",
                       "connect", "buffers", "loop"}
<1>1. \A k \in 1 .. 10 : k \in {1, 2, 3, 4, 5, 6, 7, 8, 9, 10}
  OBVIOUS
<1>2. {1, 2, 3, 4, 5, 6, 7, 8, 9, 10} \subseteq 1 .. 10
  OBVIOUS
<1> QED BY <1>1, <1>2, SetupElements DEF ToSet

\* A step of the set-up leads to the next one.
LEMMA SetupOrder ==
  ASSUME SetupStep
  PROVE  \* the pairs of neighbours
         \/ mpc = "socket" /\ mpc' = "options"
         \/ mpc = "options" /\ mpc' = "txcsv"
         \/ mpc = "txcsv" /\ mpc' = "corr"
         \/ mpc = "corr" /\ mpc' = "thread"
         \/ mpc = "thread" /\ mpc' = "pps"
         \/ mpc = "pps" /\ mpc' = "csv"
         \/ mpc = "csv" /\ mpc' = "connect"
         \/ mpc = "connect" /\ mpc' = "buffers"
         \/ mpc = "buffers" /\ mpc' = "loop"
<1>1. /\ StepNo("socket") = 1
      /\ StepNo("options") = 2
      /\ StepNo("txcsv") = 3
      /\ StepNo("corr") = 4
      /\ StepNo("thread") = 5
      /\ StepNo("pps") = 6
      /\ StepNo("csv") = 7
      /\ StepNo("connect") = 8
      /\ StepNo("buffers") = 9
  <2>1. \A k \in 1 .. 10 : k \in {1, 2, 3, 4, 5, 6, 7, 8, 9, 10}
    OBVIOUS
  <2> QED BY <2>1, SetupElements DEF StepNo
<1>2. mpc' = SetupSteps[StepNo(mpc) + 1] /\ mpc \in ToSet(SetupSteps) \ {"loop"}
  BY DEF SetupStep
<1> QED BY <1>1, <1>2, SetupElements, SetupSet

\* The step is one of the actions.
LEMMA ActionCases ==
  ASSUME [Next]_vars
  PROVE  \/ SetupStep \/ SetupFails
         \/ \E n \in 1 .. BatchSize : Send(n)
         \/ Record \/ RecordDone \/ LeaveLoop \/ JoinTs \/ CancelTs \/ Cleanup
         \/ TsLoop \/ TsEnd \/ TsError \/ TsReceive \/ TsHealth \/ Signal
         \/ \E s \in owed : KernelStamp(s)
         \/ KernelSockErr \/ UNCHANGED vars
BY DEF Next, Main, Processing

\* The initial states satisfy the invariant.
LEMMA InitClientInv == Init => ClientInv
<1> SUFFICES ASSUME Init PROVE ClientInv
  OBVIOUS
<1> USE OneWayAssumption DEF Init
<1>0. /\ wire = <<>> /\ rows = <<>> /\ txRows = <<>> /\ errq = <<>>
      /\ Len(<<>>) = 0 /\ DOMAIN <<>> = {} /\ <<>> \in Seq(Seqs)
  OBVIOUS
<1>1. TypeOK
  <2>1. sockErr \in BOOLEAN /\ sawEmpty \in BOOLEAN /\ shutdown \in BOOLEAN
    BY Zenon
  <2>2. mpc \in MainPcs /\ res \subseteq ToSet(SetupSteps) \cup {"stats"}
    BY SetupSet DEF MainPcs
  <2> QED BY <1>0, <2>1, <2>2 DEF TypeOK
<1>2. Sending
  BY <1>0 DEF Sending, SequenceUnbroken
<1>3. WhoProcesses /\ Held
  BY DEF WhoProcesses, Held
<1>4. Completions
  <2>1. Range(<<>>) = {} /\ ToSet(<<>>) = {} /\ IsInjective(<<>>)
    BY <1>0 DEF Range, ToSet, IsInjective
  <2> QED BY <1>0, <2>1 DEF Completions, Places, Unread
<1>5. DrainReachesEmpty
  BY DEF DrainReachesEmpty, Drained
<1> QED BY <1>1, <1>2, <1>3, <1>4, <1>5 DEF ClientInv

\* The packets sendmmsg took continue the numbering.
LEMMA SendAppends ==
  ASSUME ClientInv, NEW n \in 1 .. BatchSize, Send(n)
  PROVE  /\ wire' \in Seq(Seqs) /\ Len(wire') = seqNum + n /\ seqNum + n <= MaxPackets
         /\ Len(wire) = seqNum /\ SequenceUnbroken'
         /\ Range(wire') = Range(wire) \cup (seqNum .. seqNum + n - 1)
         /\ (seqNum .. seqNum + n - 1) \cap Range(wire) = {}
         /\ (seqNum .. seqNum + n - 1) \subseteq Seqs
<1> USE OneWayAssumption
<1> DEFINE new == [k \in 1 .. n |-> seqNum + k - 1]
<1>1. /\ seqNum \in Nat /\ n \in Nat /\ seqNum + n <= MaxPackets /\ MaxPackets \in Nat
      /\ wire \in Seq(Seqs) /\ Len(wire) = seqNum
  BY DEF ClientInv, TypeOK, Sending, Send
<1>2. new \in Seq(Seqs) /\ Len(new) = n /\ \A k \in 1 .. n : new[k] = seqNum + k - 1
  <2>1. \A k \in 1 .. n : seqNum + k - 1 \in Seqs
    BY <1>1 DEF Seqs
  <2> QED BY <1>1, <2>1, IsASeq
<1>3. wire' = wire \o new
  BY DEF Send
<1> HIDE DEF new
<1>4. /\ wire' \in Seq(Seqs) /\ Len(wire') = seqNum + n
      /\ \A k \in 1 .. seqNum + n :
           wire'[k] = IF k <= seqNum THEN wire[k] ELSE new[k - seqNum]
  BY <1>1, <1>2, <1>3, ConcatProperties
<1>5. \A k \in 1 .. Len(wire') : wire'[k] = k - 1
  <2>1. \A k \in 1 .. seqNum : wire[k] = k - 1
    BY <1>1 DEF ClientInv, Sending, SequenceUnbroken
  <2>2. \A k \in 1 .. seqNum + n : k > seqNum => k - seqNum \in 1 .. n
    BY <1>1
  <2> QED BY <1>1, <1>2, <1>4, <2>1, <2>2
<1>6. Range(wire') = 0 .. seqNum + n - 1 /\ Range(wire) = 0 .. seqNum - 1
  BY <1>1, <1>4, <1>5, RangeNumbered, SMTT(30) DEF ClientInv, Sending, SequenceUnbroken
<1> QED BY <1>1, <1>4, <1>5, <1>6 DEF SequenceUnbroken, Seqs

\* The row of the next packet continues the rows.
LEMMA RecordAppends ==
  ASSUME ClientInv, Record
  PROVE  /\ seqNum + i \in Seqs /\ rows' \in Seq(Seqs)
         /\ csv => Len(rows') = seqNum + i + 1 /\ \A k \in 1 .. Len(rows') : rows'[k] = k - 1
<1> USE OneWayAssumption
<1>1. /\ seqNum \in Nat /\ i \in Nat /\ i < sentN /\ sentN \in Nat
      /\ seqNum + sentN <= MaxPackets /\ rows \in Seq(Seqs)
  BY DEF ClientInv, TypeOK, Sending, Record
<1>2. seqNum + i \in Seqs
  BY <1>1 DEF Seqs
<1>3. CASE csv
  <2>1. rows' = Append(rows, seqNum + i) /\ Len(rows) = seqNum + i
        /\ \A k \in 1 .. Len(rows) : rows[k] = k - 1
    BY <1>3 DEF Record, ClientInv, Sending
  <2>2. /\ rows' \in Seq(Seqs) /\ Len(rows') = Len(rows) + 1
        /\ \A k \in 1 .. Len(rows) : rows'[k] = rows[k]
        /\ rows'[Len(rows) + 1] = seqNum + i
    BY <1>1, <1>2, <2>1, AppendProperties
  <2> QED BY <1>1, <1>2, <2>1, <2>2
<1>4. CASE ~csv
  BY <1>1, <1>2, <1>4 DEF Record
<1> QED BY <1>3, <1>4

\* Every step preserves the numbering and the rows.
LEMMA NextSending ==
  ASSUME ClientInv, [Next]_vars
  PROVE  Sending'
<1> USE OneWayAssumption DEF config
<1>1. ASSUME NEW n \in 1 .. BatchSize, Send(n) PROVE Sending'
  <2>1. UNCHANGED <<csv, seqNum, rows>> /\ sentN' = n /\ i' = 0 /\ mpc' = "record"
    BY <1>1 DEF Send
  <2>2. csv => Len(rows) = seqNum /\ \A k \in 1 .. Len(rows) : rows[k] = k - 1
    BY <1>1 DEF ClientInv, Sending, Send, TypeOK
  <2> QED BY <1>1, <2>1, <2>2, SendAppends DEF Sending, ClientInv, TypeOK
<1>2. CASE Record
  <2>1. UNCHANGED <<csv, mpc, seqNum, sentN, wire>> /\ i' = i + 1
    BY <1>2 DEF Record
  <2> QED BY <1>2, <2>1, RecordAppends DEF Sending, ClientInv, TypeOK, SequenceUnbroken
<1>3. CASE RecordDone
  <2>1. UNCHANGED <<csv, wire, rows>> /\ seqNum' = seqNum + sentN /\ sentN' = 0 /\ i' = 0
        /\ i = sentN
    BY <1>3 DEF RecordDone
  <2> QED BY <2>1 DEF Sending, ClientInv, TypeOK, SequenceUnbroken
<1>4. CASE UNCHANGED <<csv, loopVars>> /\ (mpc = "record" => mpc' = "record")
  BY <1>4 DEF loopVars, Sending, ClientInv, SequenceUnbroken
<1>5. \/ \E n \in 1 .. BatchSize : Send(n)
      \/ Record \/ RecordDone
      \/ UNCHANGED <<csv, loopVars>> /\ (mpc = "record" => mpc' = "record")
  <2>1. CASE SetupStep \/ SetupFails
    BY <2>1, SetupSet DEF SetupStep, SetupFails
  <2>2. CASE TsEnd
    BY <2>2 DEF TsEnd, TsReturn, ClientInv, WhoProcesses
  <2> QED BY <2>1, <2>2, ActionCases
          DEF LeaveLoop, JoinTs, CancelTs, Cleanup, TsLoop, TsError, TsReceive,
              TsHealth, Signal, KernelStamp, KernelSockErr, vars
<1> QED BY <1>1, <1>2, <1>3, <1>4, <1>5

\* Every step keeps the roles of the two threads apart.
LEMMA NextWhoProcesses ==
  ASSUME ClientInv, [Next]_vars
  PROVE  WhoProcesses'
<1> USE OneWayAssumption DEF ClientInv, WhoProcesses, TypeOK, config, kernel, tsVars
<1>a. CASE UNCHANGED <<csv, mpc, res, spc, phase, turn, done, errors>>
  BY <1>a
<1>1. CASE SetupStep
  <2>1. UNCHANGED <<csv, phase, turn, done, errors>>
    BY <1>1 DEF SetupStep
  <2>2. CASE mpc = "thread"
    BY <1>1, <2>1, <2>2, SetupOrder DEF SetupStep, StartTs
  <2>3. CASE mpc # "thread"
    BY <1>1, <2>1, <2>3, SetupOrder DEF SetupStep
  <2> QED BY <2>2, <2>3
<1>2. CASE SetupFails
  <2>1. UNCHANGED <<csv, spc, phase, turn, done, errors>> /\ mpc' = "failed"
    BY <1>2 DEF SetupFails
  <2>2. spc = "none" => "thread" \notin res'
    BY <1>2 DEF SetupFails, Held
  <2>3. spc # "none" => "thread" \in res'
    BY <1>2, SetupSet DEF SetupFails, Held, Releases
  <2>4. phase # "main"
    BY <1>2, SetupSet DEF SetupFails
  <2> QED BY <2>1, <2>2, <2>3, <2>4
<1>3. CASE \E n \in 1 .. BatchSize : Send(n)
  BY <1>3 DEF Send
<1>4. CASE Record \/ Signal
  BY <1>4, <1>a DEF Record, Signal
<1>5. CASE RecordDone \/ LeaveLoop
  <2>1. /\ mpc \in {"record", "loop"} /\ mpc' \in {"loop", "joinTs"}
        /\ UNCHANGED <<csv, res, spc, phase, turn, done, errors>>
    BY <1>5, Zenon DEF RecordDone, LeaveLoop
  <2> QED BY <2>1
<1>6. CASE JoinTs
  BY <1>6 DEF JoinTs
<1>7. CASE CancelTs
  BY <1>7 DEF CancelTs
<1>8. CASE Cleanup
  BY <1>8 DEF Cleanup
<1>9. CASE TsLoop \/ TsHealth
  BY <1>9 DEF TsLoop, TsHealth, TsTest
<1>10. CASE TsEnd
  BY <1>10 DEF TsEnd, TsReturn
<1>11. CASE TsError
  BY <1>11 DEF TsError
<1>12. CASE TsReceive
  BY <1>12 DEF TsReceive, TsLog
<1>13. CASE (\E s \in owed : KernelStamp(s)) \/ UNCHANGED vars
  BY <1>13, <1>a DEF KernelStamp, vars
<1>14. CASE KernelSockErr
  BY <1>14 DEF KernelSockErr
<1> QED BY <1>1, <1>2, <1>3, <1>4, <1>5, <1>6, <1>7, <1>8, <1>9, <1>10, <1>11, <1>12, <1>13,
           <1>14, ActionCases

\* Every step keeps what is in use.
LEMMA NextHeld ==
  ASSUME ClientInv, [Next]_vars
  PROVE  Held'
<1> USE DEF ClientInv, Held, WhoProcesses, config, tsVars
<1>a. CASE UNCHANGED <<csv, statsOn, mpc, res, spc>>
  BY <1>a
<1>1. CASE SetupStep
  <2>1. UNCHANGED <<csv, statsOn>> /\ res' = res \cup Acquires(mpc)
    BY <1>1 DEF SetupStep
  <2>2. mpc # "thread" => spc' = spc
    BY <1>1 DEF SetupStep
  <2>3. mpc = "thread" \/ spc # "none" => mpc \notin {"socket", "options", "txcsv", "corr"}
    BY <1>1, SetupSet DEF SetupStep
  <2>4. /\ mpc = "options" => Acquires(mpc) = {}
        /\ mpc = "txcsv" => Acquires(mpc) = IF csv THEN {"txcsv"} ELSE {}
        /\ mpc \in {"socket", "corr", "thread", "pps", "buffers"} => Acquires(mpc) = {mpc}
        /\ mpc \in {"csv", "connect"} => Acquires(mpc) \subseteq {"csv"}
    BY DEF Acquires
  <2>5. CASE mpc \in {"socket", "options", "txcsv"}
    BY <1>1, <2>1, <2>2, <2>3, <2>4, <2>5, SetupOrder
  <2>6. CASE mpc = "corr"
    BY <1>1, <2>1, <2>2, <2>3, <2>4, <2>6, SetupOrder
  <2>7. CASE mpc = "thread"
    BY <1>1, <2>1, <2>4, <2>7, SetupOrder
  <2>8. CASE mpc \in {"pps", "csv", "connect"}
    BY <1>1, <2>1, <2>2, <2>4, <2>8, SetupOrder
  <2>9. CASE mpc = "buffers"
    BY <1>1, <2>1, <2>2, <2>4, <2>9, SetupOrder
  <2> QED BY <1>1, <2>5, <2>6, <2>7, <2>8, <2>9, SetupOrder
<1>2. CASE SetupFails
  <2>1. UNCHANGED <<csv, statsOn, spc>> /\ mpc' = "failed" /\ res' = res \ Releases(mpc)
        /\ mpc \in ToSet(SetupSteps)
    BY <1>2 DEF SetupFails
  <2> QED BY <2>1, SetupSet DEF Releases
<1>3. CASE \E n \in 1 .. BatchSize : Send(n)
  BY <1>3 DEF Send
<1>4. CASE Record \/ Signal \/ TsError \/ TsReceive
  BY <1>4, <1>a DEF Record, Signal, TsError, TsReceive
<1>5. CASE RecordDone \/ LeaveLoop
  <2>1. /\ mpc \in {"record", "loop"} /\ mpc' \in {"loop", "joinTs"}
        /\ UNCHANGED <<csv, statsOn, res, spc>>
    BY <1>5, Zenon DEF RecordDone, LeaveLoop
  <2> QED BY <2>1
<1>6. CASE JoinTs
  BY <1>6 DEF JoinTs
<1>7. CASE CancelTs
  BY <1>7 DEF CancelTs
<1>8. CASE Cleanup
  <2>1. res' = {}
    <3>1. /\ DOMAIN CleanupSteps = 1 .. 7
          /\ CleanupSteps[1] = "stats" /\ CleanupSteps[2] = "socket" /\ CleanupSteps[3] = "txcsv"
          /\ CleanupSteps[4] = "csv" /\ CleanupSteps[5] = "pps" /\ CleanupSteps[6] = "buffers"
          /\ CleanupSteps[7] = "corr"
      BY DEF CleanupSteps
    <3>2. {1, 2, 3, 4, 5, 6, 7} \subseteq 1 .. 7
      OBVIOUS
    <3>3. {"stats", "socket", "txcsv", "csv", "pps", "buffers", "corr"} \subseteq ToSet(CleanupSteps)
      BY <3>1, <3>2 DEF ToSet
    <3>4. res' = res \ ToSet(CleanupSteps) /\ "thread" \notin res
      BY <1>8 DEF Cleanup
    <3> QED BY <3>3, <3>4
  <2> QED BY <1>8, <2>1 DEF Cleanup
<1>9. CASE TsLoop \/ TsHealth
  <2>1. spc \in {"loop", "health"} /\ spc' = "recv" /\ UNCHANGED <<csv, statsOn, mpc, res>>
    BY <1>9, Zenon DEF TsLoop, TsHealth, TsTest
  <2> QED BY <2>1
<1>10. CASE TsEnd
  BY <1>10 DEF TsEnd, TsReturn
<1>13. CASE (\E s \in owed : KernelStamp(s)) \/ KernelSockErr \/ UNCHANGED vars
  BY <1>13, <1>a DEF KernelStamp, KernelSockErr, vars
<1> QED BY <1>1, <1>2, <1>3, <1>4, <1>5, <1>6, <1>7, <1>8, <1>9, <1>10, <1>13, ActionCases

-----------------------------------------------------------------------------
\* A step that moves no completion.
LEMMA CompletionsUnmoved ==
  ASSUME ClientInv,
         UNCHANGED <<csv, statsOn, wire, owed, errq, peeked, txRows, stamped, early>>
  PROVE  Completions'
BY DEF ClientInv, Completions, Places, Unread

\* The new packets' completions are owed.
LEMMA SendCompletions ==
  ASSUME ClientInv, NEW n \in 1 .. BatchSize, Send(n)
  PROVE  Completions'
<1> DEFINE new == seqNum .. seqNum + n - 1
<1>1. /\ Range(wire') = Range(wire) \cup new /\ new \cap Range(wire) = {}
  BY SendAppends
<1>2. owed' = owed \cup new /\ UNCHANGED <<csv, statsOn, errq, peeked, txRows, stamped, early>>
  BY DEF Send, config, tsVars
<1> HIDE DEF new
<1>3. ToSet(errq) = Range(errq)
  BY DEF ToSet, Range
<1>4. Unread' = Unread \cup new
  BY <1>2 DEF Unread
<1>5. owed \subseteq Range(wire) /\ Range(errq) \subseteq Range(wire)
  BY <1>3 DEF ClientInv, Completions, Unread
<1>6. ASSUME NEW S, Places(S)
      PROVE  /\ Range(wire') = Unread' \cup peeked' \cup S
             /\ S \cap (Unread' \cup peeked') = {}
  BY <1>1, <1>2, <1>4, <1>6 DEF Places
<1>7. /\ IsInjective(errq') /\ IsInjective(txRows')
      /\ owed' \cap Range(errq') = {} /\ peeked' \cap Unread' = {}
      /\ Unread' \cup peeked' \subseteq Range(wire')
  BY <1>1, <1>2, <1>4, <1>5 DEF ClientInv, Completions
<1> QED BY <1>2, <1>6, <1>7 DEF ClientInv, Completions, Places

\* A completion moves from the owed ones to the queue.
LEMMA StampCompletions ==
  ASSUME ClientInv, NEW s \in owed, KernelStamp(s)
  PROVE  Completions'
<1>1. /\ owed' = owed \ {s} /\ errq' = Append(errq, s)
      /\ UNCHANGED <<csv, statsOn, wire, peeked, txRows, stamped, early>>
  BY DEF KernelStamp, config, tsVars, loopVars
<1>2. errq \in Seq(Seqs) /\ s \in Seqs /\ s \notin Range(errq) /\ IsInjective(errq)
  BY DEF ClientInv, TypeOK, Completions
<1>3. Range(errq') = Range(errq) \cup {s} /\ IsInjective(errq')
  BY <1>1, <1>2, RangeAppend
<1>4. Unread' = Unread
  BY <1>1, <1>3 DEF Unread, ToSet, Range
<1> QED BY <1>1, <1>2, <1>3, <1>4 DEF ClientInv, Completions, Places

\* The health check takes the head of the queue, or leaves it.
LEMMA HealthCompletions ==
  ASSUME ClientInv, TsHealth
  PROVE  Completions'
<1>1. UNCHANGED <<csv, statsOn, wire, owed, txRows, stamped, early>>
  BY DEF TsHealth, config, loopVars
<1>2. CASE UNCHANGED <<errq, peeked>>
  BY <1>1, <1>2, CompletionsUnmoved
<1>3. CASE errq # <<>> /\ errq' = Tail(errq) /\ peeked' = peeked \cup {Head(errq)}
  <2> DEFINE c == Head(errq)
  <2>1. Range(errq) = Range(errq') \cup {c} /\ IsInjective(errq') /\ c \notin Range(errq')
    BY <1>3, RangeTail DEF ClientInv, TypeOK, Completions
  <2> HIDE DEF c
  <2>2. Unread = Unread' \cup {c} /\ c \notin Unread'
    BY <1>1, <2>1 DEF Unread, ToSet, Range, ClientInv, Completions
  <2>3. peeked' = peeked \cup {c}
    BY <1>3 DEF c
  <2>4. owed' \cap Range(errq') = {} /\ peeked' \cap Unread' = {}
    BY <1>1, <2>1, <2>2, <2>3 DEF ClientInv, Completions
  <2>5. Unread' \cup peeked' = Unread \cup peeked
    BY <2>2, <2>3
  <2> QED BY <1>1, <2>1, <2>4, <2>5 DEF ClientInv, Completions, Places
<1> QED BY <1>2, <1>3 DEF TsHealth

\* The head of the queue is logged and put into the statistics.
LEMMA ReceiveCompletions ==
  ASSUME ClientInv, TsReceive
  PROVE  Completions'
<1> DEFINE c == Head(errq)
<1>1. /\ errq # <<>> /\ errq' = Tail(errq) /\ UNCHANGED <<csv, statsOn, wire, owed, peeked>>
      /\ txRows' = IF csv THEN Append(txRows, c) ELSE txRows
      /\ stamped' = stamped \cup ({c} \cap entries)
      /\ early' = IF statsOn THEN early \cup ({c} \ entries) ELSE early
  BY DEF TsReceive, TsLog, TsUpdate, config, loopVars
<1>2. /\ Range(errq) = Range(errq') \cup {c} /\ IsInjective(errq') /\ c \notin Range(errq')
      /\ c \in Seqs
  BY <1>1, RangeTail, HeadTailProperties DEF ClientInv, TypeOK, Completions
<1> HIDE DEF c
<1>3. Unread = Unread' \cup {c} /\ c \notin Unread' /\ c \notin peeked
  BY <1>1, <1>2 DEF Unread, ToSet, Range, ClientInv, Completions
<1>4. /\ owed' \cap Range(errq') = {} /\ peeked' \cap Unread' = {}
      /\ Unread' \cup peeked' \subseteq Range(wire')
  BY <1>1, <1>2, <1>3 DEF ClientInv, Completions
<1>5. ASSUME NEW S, Places(S)
      PROVE  /\ Range(wire') = Unread' \cup peeked' \cup (S \cup {c})
             /\ (S \cup {c}) \cap (Unread' \cup peeked') = {}
             /\ c \notin S
  BY <1>1, <1>3, <1>5 DEF Places
<1>6. ASSUME csv
      PROVE  IsInjective(txRows') /\ Range(txRows') = Range(txRows) \cup {c}
  <2>1. txRows' = Append(txRows, c) /\ c \notin Range(txRows)
    BY <1>1, <1>5, <1>6 DEF ClientInv, Completions
  <2> QED BY <1>2, <2>1, RangeAppend DEF ClientInv, TypeOK, Completions
<1>7. /\ IsInjective(txRows')
      /\ csv' => /\ Range(wire') = Unread' \cup peeked' \cup Range(txRows')
                 /\ Range(txRows') \cap (Unread' \cup peeked') = {}
  BY <1>1, <1>5, <1>6 DEF ClientInv, Completions
<1>8. ASSUME statsOn
      PROVE  /\ stamped' \cup early' = (stamped \cup early) \cup {c}
             /\ c \notin stamped \cup early => stamped' \cap early' = {}
  <2>1. stamped \cap early = {} /\ early' = early \cup ({c} \ entries)
    BY <1>1, <1>8 DEF ClientInv, Completions
  <2> QED BY <1>1, <2>1
<1>9. statsOn' =>
        /\ Range(wire') = Unread' \cup peeked' \cup (stamped' \cup early')
        /\ (stamped' \cup early') \cap (Unread' \cup peeked') = {}
        /\ stamped' \cap early' = {}
  BY <1>1, <1>5, <1>8 DEF ClientInv, Completions
<1> QED BY <1>2, <1>4, <1>7, <1>9 DEF Completions, Places

\* Every step keeps every completion in one place.
LEMMA NextCompletions ==
  ASSUME ClientInv, [Next]_vars
  PROVE  Completions'
<1>1. \/ \E n \in 1 .. BatchSize : Send(n)
      \/ \E s \in owed : KernelStamp(s)
      \/ TsHealth \/ TsReceive
      \/ UNCHANGED <<csv, statsOn, wire, owed, errq, peeked, txRows, stamped, early>>
  BY ActionCases
  DEF SetupStep, SetupFails, Record, RecordDone, LeaveLoop, JoinTs, CancelTs, Cleanup, TsLoop,
      TsEnd, TsError, Signal, KernelSockErr, vars, config, loopVars, tsVars, kernel
<1> QED BY <1>1, SendCompletions, StampCompletions, HealthCompletions, ReceiveCompletions,
           CompletionsUnmoved

\* Main's drain, with a TX CSV and no failing read, ends on an empty queue.
LEMMA NextDrainReachesEmpty ==
  ASSUME ClientInv, [Next]_vars
  PROVE  DrainReachesEmpty'
<1> USE OneWayAssumption DEF ClientInv, DrainReachesEmpty, Drained, config
<1>1. CASE TsEnd
  <2>1. UNCHANGED <<csv, errors>> /\ sawEmpty' = (phase = "main" /\ errq = <<>>)
    BY <1>1 DEF TsEnd, kernel
  <2>2. SUFFICES ASSUME mpc' \in {"cleanup", "done"}, csv, errors = 0
                 PROVE  phase = "main" /\ errq = <<>>
    BY <2>1
  <2>3. spc = "recv" /\ mpc \notin {"cleanup", "done"}
    BY <1>1 DEF TsEnd, WhoProcesses
  <2>4. phase = "main" /\ done = 0
    BY <1>1, <2>2, <2>3 DEF TsEnd, TsReturn
  <2>5. "socket" \in res /\ turn = 0
    BY <2>2, <2>3, <2>4 DEF WhoProcesses, Held
  <2>6. TsTurn
    BY <2>2, <2>5 DEF TsTurn, Recording
  <2> QED BY <1>1, <2>4, <2>5, <2>6 DEF TsEnd
<1>2. CASE Cleanup
  BY <1>2 DEF Cleanup, kernel, tsVars
<1>3. CASE UNCHANGED <<csv, sawEmpty>> /\ (Drained' => Drained) /\ (errors' = 0 => errors = 0)
  BY <1>3
<1>4. \/ TsEnd \/ Cleanup
      \/ UNCHANGED <<csv, sawEmpty>> /\ (Drained' => Drained) /\ (errors' = 0 => errors = 0)
  <2>1. CASE SetupStep
    BY <2>1, SetupOrder DEF SetupStep, kernel
  <2>2. CASE TsError
    BY <2>2 DEF TsError, TypeOK
  <2>3. CASE KernelSockErr
    BY <2>3 DEF KernelSockErr, TypeOK, tsVars
  <2>4. CASE \E n \in 1 .. BatchSize : Send(n)
    BY <2>4 DEF Send, tsVars
  <2>5. CASE SetupFails \/ RecordDone \/ LeaveLoop \/ JoinTs
    BY <2>5 DEF SetupFails, RecordDone, LeaveLoop, JoinTs, kernel, tsVars
  <2>6. CASE \/ Record \/ CancelTs \/ TsLoop \/ TsReceive \/ TsHealth \/ Signal
             \/ (\E s \in owed : KernelStamp(s)) \/ UNCHANGED vars
    <3>1. UNCHANGED <<csv, mpc, errors, sawEmpty>>
      BY <2>6 DEF Record, CancelTs, TsLoop, TsReceive, TsHealth, Signal, KernelStamp, vars,
                  kernel, tsVars
    <3> QED BY <3>1
  <2> QED BY <2>1, <2>2, <2>3, <2>4, <2>5, <2>6, ActionCases
<1> QED BY <1>1, <1>2, <1>3, <1>4

-----------------------------------------------------------------------------
\* Every step preserves the types.
LEMMA NextTypeOK ==
  ASSUME ClientInv, [Next]_vars
  PROVE  TypeOK'
<1> USE OneWayAssumption DEF ClientInv, config, loopVars, tsVars, kernel
<1>m. MainPcs = {"socket", "options", "txcsv", "corr", "thread", "pps", "csv", "connect",
                 "buffers", "loop", "record", "joinTs", "drain", "cleanup", "done", "failed"}
  BY SetupSet DEF MainPcs
<1>r. res' \subseteq ToSet(SetupSteps) \cup {"stats"}
  <2>1. Held'
    BY NextHeld
  <2> QED BY <2>1, SetupSet DEF Held
<1>1. CASE SetupStep
  <2>1. mpc' \in MainPcs /\ spc' \in {"loop", spc} /\ running' \in {1, running}
    BY <1>1, <1>m, SetupOrder DEF SetupStep, StartTs
  <2> QED BY <1>1, <1>r, <2>1 DEF SetupStep, TypeOK
<1>2. CASE SetupFails \/ RecordDone \/ Cleanup
  <2>1. seqNum' \in 0 .. MaxPackets /\ sentN' \in 0 .. BatchSize /\ i' \in 0 .. sentN'
    BY <1>2, SMTT(30) DEF SetupFails, RecordDone, Cleanup, Sending, TypeOK
  <2>2. mpc' \in MainPcs
    BY <1>2, <1>m DEF SetupFails, RecordDone, Cleanup
  <2> QED BY <1>2, <1>r, <2>1, <2>2, SMTT(30) DEF SetupFails, RecordDone, Cleanup, TypeOK
<1>3. ASSUME NEW n \in 1 .. BatchSize, Send(n) PROVE TypeOK'
  <2>1. wire' \in Seq(Seqs) /\ owed' \subseteq Seqs
    BY <1>3, SendAppends DEF Send, TypeOK
  <2>2. mpc' \in MainPcs /\ sockErr' \in BOOLEAN
    BY <1>3, <1>m DEF Send
  <2>3. sentN' \in 0 .. BatchSize /\ i' \in 0 .. sentN'
    BY <1>3 DEF Send
  <2> QED BY <1>3, <1>r, <2>1, <2>2, <2>3 DEF Send, TypeOK
<1>4. CASE Record
  <2>1. rows' \in Seq(Seqs) /\ seqNum + i \in Seqs
    BY <1>4, RecordAppends
  <2>2. entries' \subseteq Seqs /\ stamped' \subseteq entries'
    BY <1>4, <2>1 DEF Record, TypeOK
  <2>3. i' \in 0 .. sentN'
    BY <1>4 DEF Record, TypeOK
  <2> QED BY <1>4, <2>1, <2>2, <2>3 DEF Record, TypeOK
<1>5. CASE LeaveLoop
  <2>1. mpc' \in MainPcs /\ sockErr' \in BOOLEAN
    BY <1>5, <1>m DEF LeaveLoop, TypeOK
  <2> QED BY <1>5, <2>1 DEF LeaveLoop, TypeOK
<1>6. CASE JoinTs \/ CancelTs
  <2>1. mpc' \in MainPcs
    BY <1>6, <1>m DEF JoinTs, CancelTs, TypeOK
  <2> QED BY <1>6, <1>r, <2>1, SMTT(30) DEF JoinTs, CancelTs, TypeOK
<1>7. CASE TsLoop
  BY <1>7 DEF TsLoop, TsTest, TypeOK
<1>8. CASE TsEnd
  <2>1. sawEmpty' \in BOOLEAN
    BY <1>8 DEF TsEnd
  <2>2. mpc' \in {mpc, "cleanup"} /\ mpc' \in MainPcs /\ spc' \in {"recv", "health", "done"}
    BY <1>8, <1>m DEF TsEnd, TsReturn, TypeOK
  <2> QED BY <1>8, <2>1, <2>2 DEF TsEnd, TsReturn, TypeOK
<1>9. CASE TsError
  BY <1>9 DEF TsError, TsTurn, TypeOK
<1>10. CASE TsReceive
  <2> DEFINE c == Head(errq)
  <2>1. c \in Seqs /\ errq' \in Seq(Seqs)
    BY <1>10, HeadTailProperties DEF TsReceive, TypeOK
  <2> HIDE DEF c
  <2>2. /\ txRows' = IF csv THEN Append(txRows, c) ELSE txRows
        /\ stamped' = stamped \cup ({c} \cap entries)
        /\ early' = IF statsOn THEN early \cup ({c} \ entries) ELSE early
    BY <1>10 DEF TsReceive, TsLog, TsUpdate, c
  <2>3. txRows' \in Seq(Seqs)
    BY <2>1, <2>2, AppendProperties DEF TypeOK
  <2>4. stamped' \subseteq entries /\ early' \subseteq Seqs
    BY <2>1, <2>2 DEF TypeOK
  <2>5. turn' \in 0 .. TsBatch /\ done' \in 0 .. TsBatch
    BY <1>10 DEF TsReceive, TsLog, TsTurn, WhoProcesses, TypeOK
  <2> QED BY <1>10, <2>1, <2>3, <2>4, <2>5 DEF TsReceive, TypeOK
<1>11. CASE TsHealth
  <2>1. errq' \in Seq(Seqs) /\ peeked' \subseteq Seqs
    <3>1. CASE UNCHANGED <<errq, peeked>>
      BY <3>1 DEF TypeOK
    <3>2. CASE errq # <<>> /\ errq' = Tail(errq) /\ peeked' = peeked \cup {Head(errq)}
      BY <3>2, HeadTailProperties DEF TypeOK
    <3> QED BY <1>11, <3>1, <3>2 DEF TsHealth
  <2>2. sockErr' \in BOOLEAN
    BY <1>11 DEF TsHealth
  <2>3. phase' \in {"run", "final"} /\ spc' = "recv"
    BY <1>11 DEF TsHealth, TsTest
  <2> QED BY <1>11, <2>1, <2>2, <2>3 DEF TsHealth, TypeOK
<1>12. CASE Signal
  BY <1>12 DEF Signal, TypeOK
<1>13. ASSUME NEW s \in owed, KernelStamp(s) PROVE TypeOK'
  <2>1. errq' \in Seq(Seqs) /\ owed' \subseteq Seqs
    BY <1>13, AppendProperties DEF KernelStamp, TypeOK
  <2> QED BY <1>13, <2>1 DEF KernelStamp, TypeOK
<1>14. CASE KernelSockErr
  BY <1>14 DEF KernelSockErr, TypeOK
<1>15. CASE UNCHANGED vars
  BY <1>15 DEF vars, TypeOK
<1> QED BY <1>1, <1>2, <1>3, <1>4, <1>5, <1>6, <1>7, <1>8, <1>9, <1>10, <1>11, <1>12, <1>13,
           <1>14, <1>15, ActionCases

-----------------------------------------------------------------------------
\* ClientInv is an inductive invariant of the specification.
THEOREM ClientInvariant == Spec => []ClientInv
<1>1. ClientInv /\ [Next]_vars => ClientInv'
  BY NextTypeOK, NextSending, NextWhoProcesses, NextHeld, NextCompletions,
     NextDrainReachesEmpty DEF ClientInv
<1> QED BY <1>1, InitClientInv, PTL DEF Spec

\* The rows of the main CSV file are a prefix of the packets on the wire.
LEMMA RowsArePrefix == ClientInv => RowsFollowWire
<1> SUFFICES ASSUME ClientInv, csv
             PROVE  rows = SubSeq(wire, 1, Len(wire) - (IF mpc = "record" THEN sentN - i ELSE 0))
  BY DEF RowsFollowWire
<1> DEFINE n == Len(wire) - (IF mpc = "record" THEN sentN - i ELSE 0)
<1>0. /\ seqNum \in Nat /\ sentN \in Nat /\ i \in 0 .. sentN
      /\ wire \in Seq(Seqs) /\ rows \in Seq(Seqs)
  BY OneWayAssumption DEF ClientInv, TypeOK
<1>1. /\ n \in Nat /\ n = Len(rows) /\ n <= Len(wire) /\ Len(wire) \in Nat
  BY <1>0 DEF ClientInv, Sending
<1>2. \A k \in 1 .. n : wire[k] = rows[k] /\ wire[k] \in Seqs
  <2>1. /\ \A k \in 1 .. Len(wire) : wire[k] = k - 1
        /\ \A k \in 1 .. Len(rows) : rows[k] = k - 1
    BY DEF ClientInv, Sending, SequenceUnbroken
  <2>2. \A k \in 1 .. Len(wire) : wire[k] \in Seqs
    BY <1>0, ElementOfSeq
  <2> HIDE DEF n
  <2> QED BY <1>1, <2>1, <2>2
<1> HIDE DEF n
<1>3. /\ SubSeq(wire, 1, n) \in Seq(Seqs) /\ Len(SubSeq(wire, 1, n)) = n
      /\ \A k \in 1 .. n : SubSeq(wire, 1, n)[k] = wire[k]
  <2>1. /\ SubSeq(wire, 1, n) \in Seq(Seqs)
        /\ Len(SubSeq(wire, 1, n)) = IF 1 <= n THEN n - 1 + 1 ELSE 0
        /\ \A k \in 1 .. n - 1 + 1 : SubSeq(wire, 1, n)[k] = wire[1 + k - 1]
    BY <1>0, <1>1, <1>2, SubSeqProperties
  <2> QED BY <1>1, <2>1
<1>4. rows = SubSeq(wire, 1, n)
  BY <1>0, <1>1, <1>2, <1>3, SeqEqual
<1> QED BY <1>4 DEF n

\* The packets carry 0, 1, 2, ... without gap or repetition whatever part of a
\* batch sendmmsg takes, and each has exactly one row, in the same order.
THEOREM SendingRight == Spec => []SendInv
<1>1. ClientInv => SendInv
  BY RowsArePrefix DEF ClientInv, Sending, SendInv
<1> QED BY <1>1, ClientInvariant, PTL

\* No completion is used twice, main's drain ends on an empty queue, and the
\* timestamps that are missing from the statistics are exactly those that were
\* read too early, taken by the health check, or never read.
THEOREM CompletionsRight == Spec => []CompletionsAccounted
<1>1. ClientInv => CompletionsAccounted
  <2> SUFFICES ASSUME ClientInv PROVE CompletionsAccounted
    OBVIOUS
  <2>1. ToSet(wire) = Range(wire) /\ ToSet(txRows) = Range(txRows)
    BY DEF ToSet, Range
  <2>2. CompletionsOnce
    BY <2>1 DEF ClientInv, Completions, Places, CompletionsOnce
  <2>3. MissingStampsExplained
    BY <2>1 DEF ClientInv, Completions, Places, MissingStampsExplained
  <2> QED BY <2>2, <2>3 DEF ClientInv, CompletionsAccounted
<1> QED BY <1>1, ClientInvariant, PTL

\* What the processing of completions uses exists for as long as it goes on, and
\* nothing is held in the end.
THEOREM BuffersOutlive == Spec => []BuffersOutliveThread
<1>1. ClientInv => BuffersOutliveThread
  BY DEF ClientInv, WhoProcesses, Held, BuffersOutliveThread
<1> QED BY <1>1, ClientInvariant, PTL
=============================================================================
