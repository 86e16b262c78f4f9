----------------------- MODULE ClientRoundTripProofs ------------------------
(***************************************************************************)
(* Proofs about ClientRoundTrip for every batch size, number of slots,     *)
(* packets and answers: the numbering of the packets, what the RX thread   *)
(* finds under an answer's sequence number while the main thread is still  *)
(* filing the batch, and the count that survives the cancellation.         *)
(***************************************************************************)
EXTENDS ClientRoundTrip, RingLemmas

Handling     == {"lookup", "stats", "row"}     \* the RX thread has an answer
StatsEntries == [seq : Seqs, tx : Seqs, rx : BOOLEAN]
RowEntries   == [seq : Seqs, tx : Seqs \cup {None}]
Reports      == [sent : 0 .. MaxPackets, received : 0 .. MaxAnswers]

\* The sending loop: the packets on the wire are those before seq_num and those of
\* the batch that is being recorded.
Sending ==
  /\ Len(wire) = seqNum + sentN /\ seqNum + sentN <= MaxPackets
  /\ i <= sentN
  /\ mpc = "entry" => StatsEnabled
  /\ mpc \notin {"store", "entry"} => sentN = 0 /\ i = 0
  /\ \A k \in 1 .. Len(wire) : wire[k] = k - 1

\* The packets before FiledUpTo have their TX timestamp in the arrays, those before
\* EntriesUpTo their entry in the statistics ring.
FiledUpTo   == IF mpc = "store" THEN seqNum + i ELSE seqNum + sentN
EntriesUpTo == IF mpc = "entry" THEN seqNum + i ELSE seqNum

\* A slot holds the last filed packet among those that share it.
Filed ==
  /\ \A x \in Slots : corr[x] # None => corr[x] < FiledUpTo /\ Index(corr[x]) = x
  /\ \A s \in Seqs : s < FiledUpTo => corr[Index(s)] >= s

\* The ring holds an entry for each recorded packet, in order.
Recorded ==
  /\ StatsEnabled => Len(stats) = EntriesUpTo
  /\ \A k \in 1 .. Len(stats) : stats[k].seq = k - 1

\* Answers are answers to packets that were sent, and each is counted once.
Answers ==
  /\ \A k \in 1 .. Len(sockq) : sockq[k] < Len(wire)
  /\ rpc \in Handling => cur \in Seqs /\ cur < Len(wire)
  /\ got + Len(sockq) <= answered
  /\ rpc \in Handling => got + Len(sockq) + 1 <= answered
  /\ rpc = "stats" => StatsEnabled

\* How the RX thread ended, and what main made of it: the count is the thread's
\* result unless it was cancelled, and then what the cleanup handler saved.
Ending ==
  /\ cancel => mpc \in {"cancel", "done"}
  /\ mpc = "cancel" => cancel
  /\ rpc # "done" => result = None
  /\ rpc = "done" => result = got \/ (result = None /\ finalRx = got /\ cancel)
  /\ mpc = "done" => rpc = "done"
  /\ report # <<>> => /\ mpc = "done"
                      /\ report[1].received = IF cancel THEN finalRx ELSE result

\* The inductive invariant
ClientInv == TypeOK /\ Sending /\ Filed /\ Recorded /\ Answers /\ Ending

-----------------------------------------------------------------------------
\* The types, by what holds the state
MainTyped ==
  /\ mpc \in {"send", "store", "entry", "close", "join", "cancel", "done"}
  /\ seqNum \in 0 .. MaxPackets /\ sentN \in 0 .. BatchSize /\ i \in 0 .. BatchSize
  /\ wire \in Seq(Seqs) /\ running \in {0, 1}
RxTyped ==
  /\ sockq \in Seq(Seqs) /\ answered \in 0 .. MaxAnswers
  /\ rpc \in {"loop", "recv", "lookup", "stats", "row", "done"}
  /\ cur \in Seqs \cup {None} /\ rowTx \in Seqs \cup {None}
  /\ got \in 0 .. MaxAnswers
CorrTyped   == corr \in [Slots -> Seqs \cup {None}]
StatsTyped  == stats \in Seq(StatsEntries)
RowsTyped   == rows \in Seq(RowEntries)
CancelTyped == cancel \in BOOLEAN
CountsTyped ==
  /\ finalRx \in 0 .. MaxAnswers /\ result \in 0 .. MaxAnswers \cup {None}
  /\ report \in Seq(Reports)

LEMMA TypeParts ==
  TypeOK <=> /\ MainTyped /\ RxTyped /\ CorrTyped /\ StatsTyped /\ RowsTyped /\ CancelTyped
             /\ CountsTyped
BY DEF TypeOK, MainTyped, RxTyped, CorrTyped, StatsTyped, RowsTyped, CancelTyped, CountsTyped,
       StatsEntries, RowEntries, Reports

LEMMA TypePartsNext ==
  TypeOK' <=> /\ MainTyped' /\ RxTyped' /\ CorrTyped' /\ StatsTyped' /\ RowsTyped' /\ CancelTyped'
              /\ CountsTyped'
BY DEF TypeOK, MainTyped, RxTyped, CorrTyped, StatsTyped, RowsTyped, CancelTyped, CountsTyped,
       StatsEntries, RowEntries, Reports

\* The step is one of the actions.
LEMMA ActionCases ==
  ASSUME [Next]_vars
  PROVE  \/ \E n \in 1 .. BatchSize : Send(n)
         \/ StoreTx \/ StoreTxDone \/ CreateEntry \/ EntriesDone
         \/ LeaveLoop \/ CloseSocket \/ JoinInTime \/ JoinTimesOut \/ JoinCancelled
         \/ RxTest \/ RxReceive \/ RxPoll \/ RxFails \/ RxCancelled
         \/ RxLookup \/ RxStats \/ RxRow
         \/ \E s \in Seqs : Answer(s)
         \/ UNCHANGED vars
BY DEF Next, Main, Rx, Finished

\* Which action may change what
LEMMA Frames ==
  ASSUME [Next]_vars
  PROVE  /\ \/ \E n \in 1 .. BatchSize : Send(n)
            \/ StoreTx \/ StoreTxDone \/ CreateEntry \/ EntriesDone
            \/ /\ UNCHANGED <<seqNum, sentN, i, wire>>
               /\ \/ mpc' = mpc
                  \/ mpc \notin {"store", "entry"} /\ mpc' \in {"close", "join", "cancel", "done"}
         /\ StoreTx \/ UNCHANGED corr
         /\ CreateEntry \/ RxStats \/ UNCHANGED stats
         /\ \/ CloseSocket \/ RxReceive \/ RxRow \/ (\E s \in Seqs : Answer(s))
            \/ UNCHANGED <<sockq, answered, got>>
         /\ RxRow \/ UNCHANGED rows
         /\ LeaveLoop \/ UNCHANGED running
<1> USE DEF mainVars, rxVars
<1>1. CASE \/ \E n \in 1 .. BatchSize : Send(n)
           \/ StoreTx \/ StoreTxDone \/ CreateEntry \/ EntriesDone
  BY <1>1 DEF Send, StoreTx, StoreTxDone, CreateEntry, EntriesDone, SendMore
<1>2. CASE LeaveLoop \/ CloseSocket \/ JoinInTime \/ JoinTimesOut \/ JoinCancelled
  BY <1>2 DEF LeaveLoop, CloseSocket, JoinInTime, JoinTimesOut, JoinCancelled, Report
<1>3. CASE RxTest \/ RxReceive \/ RxPoll \/ RxFails \/ RxCancelled
  BY <1>3 DEF RxTest, RxReceive, RxPoll, RxFails, RxCancelled
<1>4. CASE RxLookup \/ RxStats \/ RxRow
  BY <1>4 DEF RxLookup, RxStats, RxRow
<1>5. CASE (\E s \in Seqs : Answer(s)) \/ UNCHANGED vars
  BY <1>5 DEF Answer, vars
<1> QED BY <1>1, <1>2, <1>3, <1>4, <1>5, ActionCases

-----------------------------------------------------------------------------
\* The initial state satisfies the invariant.
LEMMA InitClientInv == Init => ClientInv
<1> SUFFICES ASSUME Init PROVE ClientInv
  OBVIOUS
<1> USE ClientAssumption DEF Init
<1>0. Len(<<>>) = 0 /\ \A S : <<>> \in Seq(S)
  OBVIOUS
<1>1. MainTyped /\ RxTyped
  BY <1>0 DEF MainTyped, RxTyped
<1>2. StatsTyped /\ RowsTyped /\ CountsTyped
  BY <1>0 DEF StatsTyped, RowsTyped, CountsTyped
<1>3. CorrTyped
  BY DEF CorrTyped
<1>4. CancelTyped
  BY Zenon DEF CancelTyped
<1>5. TypeOK
  BY <1>1, <1>2, <1>3, <1>4, TypeParts
<1>6. Sending /\ Recorded
  BY <1>0 DEF Sending, Recorded, EntriesUpTo
<1>7. Filed
  BY DEF Filed, FiledUpTo, Seqs, Slots, None
<1>8. Answers
  BY <1>0 DEF Answers, Handling
<1>9. Ending
  BY DEF Ending
<1> QED BY <1>5, <1>6, <1>7, <1>8, <1>9 DEF ClientInv

-----------------------------------------------------------------------------
(* The sending loop *)

\* The packets sendmmsg took continue the numbering.
LEMMA SendAppends ==
  ASSUME TypeOK, Sending, NEW n \in 1 .. BatchSize, Send(n)
  PROVE  /\ wire' \in Seq(Seqs) /\ Len(wire') = seqNum + n /\ seqNum + n <= MaxPackets
         /\ \A k \in 1 .. Len(wire') : wire'[k] = k - 1
<1> USE ClientAssumption
<1> DEFINE new == [k \in 1 .. n |-> seqNum + k - 1]
<1>1. /\ seqNum \in Nat /\ n \in Nat /\ seqNum + n <= MaxPackets /\ MaxPackets \in Nat
      /\ wire \in Seq(Seqs) /\ Len(wire) = seqNum
  BY TypeParts DEF MainTyped, Sending, Send
<1>2. new \in Seq(Seqs) /\ Len(new) = n /\ \A k \in 1 .. n : new[k] = seqNum + k - 1
  <2>1. \A k \in 1 .. n : seqNum + k - 1 \in Seqs
    BY <1>1 DEF Seqs
  <2> QED BY <1>1, <2>1, IsASeq
<1>3. wire' = wire \o new
  BY DEF Send
<1> HIDE DEF new
<1>4. /\ wire' \in Seq(Seqs) /\ Len(wire') = seqNum + n
      /\ \A k \in 1 .. seqNum + n :
           wire'[k] = IF k <= seqNum THEN wire[k] ELSE new[k - seqNum]
  BY <1>1, <1>2, <1>3, ConcatProperties
<1>5. \A k \in 1 .. Len(wire') : wire'[k] = k - 1
  <2>1. \A k \in 1 .. seqNum : wire[k] = k - 1
    BY <1>1 DEF Sending
  <2>2. \A k \in 1 .. seqNum + n : k > seqNum => k - seqNum \in 1 .. n
    BY <1>1
  <2> QED BY <1>1, <1>2, <1>4, <2>1, <2>2
<1> QED BY <1>1, <1>4, <1>5

\* Every step keeps the types of the sending loop and the numbering.
LEMMA NextSending ==
  ASSUME ClientInv, [Next]_vars
  PROVE  MainTyped' /\ Sending'
<1> USE ClientAssumption
<1>0. /\ MainTyped /\ Sending /\ TypeOK
  BY TypeParts DEF ClientInv
<1>r. running' \in {0, 1}
  BY <1>0, Frames DEF MainTyped, LeaveLoop
<1>1. ASSUME NEW n \in 1 .. BatchSize, Send(n) PROVE MainTyped' /\ Sending'
  <2>1. UNCHANGED seqNum /\ sentN' = n /\ i' = 0 /\ mpc' = "store"
    BY <1>1 DEF Send
  <2> QED BY <1>0, <1>1, <1>r, <2>1, SendAppends DEF MainTyped, Sending
<1>2. CASE StoreTx \/ CreateEntry
  <2>1. UNCHANGED <<mpc, seqNum, sentN, wire>> /\ i' = i + 1 /\ i < sentN /\ mpc \in {"store", "entry"}
    BY <1>2 DEF StoreTx, CreateEntry
  <2> QED BY <1>0, <1>r, <2>1 DEF MainTyped, Sending
<1>3. CASE StoreTxDone \/ EntriesDone
  <2>1. /\ UNCHANGED wire /\ i' = 0 /\ mpc \in {"store", "entry"}
        /\ \/ mpc' = "entry" /\ StatsEnabled /\ UNCHANGED <<seqNum, sentN>>
           \/ mpc' = "send" /\ seqNum' = seqNum + sentN /\ sentN' = 0
    BY <1>3 DEF StoreTxDone, EntriesDone, SendMore
  <2> QED BY <1>0, <1>r, <2>1 DEF MainTyped, Sending
<1>4. CASE /\ UNCHANGED <<seqNum, sentN, i, wire>>
           /\ \/ mpc' = mpc
              \/ mpc \notin {"store", "entry"} /\ mpc' \in {"close", "join", "cancel", "done"}
  BY <1>0, <1>r, <1>4 DEF MainTyped, Sending
<1> QED BY <1>1, <1>2, <1>3, <1>4, Frames

-----------------------------------------------------------------------------
(* What is filed and recorded *)

\* get_circular_index stays inside the arrays.
LEMMA IndexInSlots ==
  \A s \in Nat : Index(s) \in Slots
BY ClientAssumption DEF Index, Slots

\* The next timestamp replaces that of an older packet of the same slot, and every
\* other slot keeps its own.
LEMMA StoreKeepsFiled ==
  ASSUME ClientInv, StoreTx
  PROVE  CorrTyped' /\ Filed'
<1> USE ClientAssumption
<1> DEFINE p == seqNum + i
<1>0. /\ MainTyped /\ CorrTyped /\ Sending /\ Filed
  BY TypeParts DEF ClientInv
<1>1. /\ p \in Seqs /\ p \in Nat /\ Index(p) \in Slots /\ FiledUpTo = p /\ FiledUpTo' = p + 1
      /\ corr' = [corr EXCEPT ![Index(p)] = p]
  <2>1. /\ mpc = "store" /\ mpc' = "store" /\ i < sentN /\ i' = i + 1 /\ seqNum' = seqNum
        /\ corr' = [corr EXCEPT ![Index(p)] = p]
    BY DEF StoreTx
  <2>2. p \in Seqs /\ p \in Nat /\ seqNum + (i + 1) = p + 1
    BY <1>0, <2>1 DEF MainTyped, Sending, Seqs
  <2> QED BY <2>1, <2>2, IndexInSlots DEF FiledUpTo
<1> HIDE DEF p
<1>2. /\ corr' \in [Slots -> Seqs \cup {None}] /\ corr'[Index(p)] = p
      /\ \A x \in Slots : x # Index(p) => corr'[x] = corr[x]
  BY <1>0, <1>1 DEF CorrTyped
<1>3. \A x \in Slots : corr'[x] # None => corr'[x] < p + 1 /\ Index(corr'[x]) = x
  <2> SUFFICES ASSUME NEW x \in Slots, corr'[x] # None
               PROVE  corr'[x] < p + 1 /\ Index(corr'[x]) = x
    OBVIOUS
  <2>1. CASE x = Index(p)
    BY <1>1, <1>2, <2>1
  <2>2. CASE x # Index(p)
    <3>1. corr[x] < p /\ Index(corr[x]) = x /\ corr'[x] = corr[x] /\ corr[x] \in Seqs
      BY <1>0, <1>1, <1>2, <2>2 DEF Filed, CorrTyped
    <3> QED BY <1>1, <3>1 DEF Seqs
  <2> QED BY <2>1, <2>2
<1>4. \A s \in Seqs : s < p + 1 => corr'[Index(s)] >= s
  <2> SUFFICES ASSUME NEW s \in Seqs, s < p + 1 PROVE corr'[Index(s)] >= s
    OBVIOUS
  <2>0. s \in Nat /\ Index(s) \in Slots
    BY IndexInSlots DEF Seqs
  <2>1. CASE Index(s) = Index(p)
    BY <1>1, <1>2, <2>0, <2>1
  <2>2. CASE Index(s) # Index(p)
    <3>1. s < p
      BY <1>1, <2>0, <2>2
    <3> QED BY <1>0, <1>1, <1>2, <2>0, <2>2, <3>1 DEF Filed
  <2> QED BY <2>1, <2>2
<1> QED BY <1>1, <1>2, <1>3, <1>4 DEF CorrTyped, Filed

\* Every step keeps the timestamps that are filed.
LEMMA NextFiled ==
  ASSUME ClientInv, [Next]_vars
  PROVE  CorrTyped' /\ Filed'
<1> USE ClientAssumption
<1>0. /\ MainTyped /\ CorrTyped /\ Sending /\ Filed
  BY TypeParts DEF ClientInv
<1>1. CASE ~StoreTx
  <2>1. UNCHANGED corr
    BY <1>1, Frames
  <2>2. FiledUpTo' = FiledUpTo
    <3>1. ASSUME NEW n \in 1 .. BatchSize, Send(n) PROVE FiledUpTo' = FiledUpTo
      <4>1. mpc = "send" /\ mpc' = "store" /\ i' = 0 /\ UNCHANGED seqNum /\ sentN = 0
        BY <1>0, <3>1 DEF Send, Sending
      <4> QED BY <1>0, <4>1 DEF FiledUpTo, MainTyped
    <3>2. CASE StoreTxDone
      <4>1. /\ mpc = "store" /\ mpc' # "store" /\ i = sentN
            /\ \/ seqNum' = seqNum /\ sentN' = sentN
               \/ seqNum' = seqNum + sentN /\ sentN' = 0
        BY <3>2 DEF StoreTxDone, SendMore
      <4> QED BY <1>0, <4>1 DEF FiledUpTo, MainTyped
    <3>3. CASE CreateEntry \/ EntriesDone
      <4>1. /\ mpc = "entry" /\ mpc' # "store"
            /\ \/ seqNum' = seqNum /\ sentN' = sentN
               \/ seqNum' = seqNum + sentN /\ sentN' = 0
        BY <3>3 DEF CreateEntry, EntriesDone, SendMore
      <4> QED BY <1>0, <4>1 DEF FiledUpTo, MainTyped
    <3>4. CASE /\ UNCHANGED <<seqNum, sentN, i, wire>>
               /\ \/ mpc' = mpc
                  \/ mpc \notin {"store", "entry"} /\ mpc' \in {"close", "join", "cancel", "done"}
      BY <3>4 DEF FiledUpTo
    <3> QED BY <1>1, <3>1, <3>2, <3>3, <3>4, Frames
  <2> QED BY <1>0, <2>1, <2>2 DEF CorrTyped, Filed
<1> QED BY <1>1, StoreKeepsFiled

\* The newest entry of a packet is found if there is one.
LEMMA FoundValue ==
  ASSUME StatsTyped, Recorded, NEW s \in Seqs
  PROVE  /\ Found(stats, s) \in 0 .. Len(stats)
         /\ s < Len(stats) => Found(stats, s) # 0
<1> DEFINE hits == {k \in 1 .. Len(stats) : stats[k].seq = s}
<1>0. Len(stats) \in Nat /\ s \in Nat
  BY ClientAssumption, LenProperties DEF StatsTyped, Seqs
<1>1. hits = {} \/ hits = {s + 1}
  BY <1>0 DEF Recorded
<1>2. s < Len(stats) => s + 1 \in hits
  BY <1>0 DEF Recorded
<1>3. CASE hits = {}
  BY <1>0, <1>2, <1>3 DEF Found
<1>4. CASE hits = {s + 1}
  <2>1. (CHOOSE k \in hits : \A j \in hits : j <= k) = s + 1
    BY <1>0, <1>4
  <2>2. s + 1 \in 1 .. Len(stats)
    BY <1>4
  <2>3. Found(stats, s) = s + 1
    BY <1>4, <2>1 DEF Found
  <2> QED BY <1>0, <2>2, <2>3
<1> QED BY <1>1, <1>3, <1>4

\* Every step keeps the entries in order.
LEMMA NextRecorded ==
  ASSUME ClientInv, [Next]_vars
  PROVE  StatsTyped' /\ Recorded'
<1> USE ClientAssumption
<1>0. /\ MainTyped /\ StatsTyped /\ Sending /\ Recorded /\ Answers
  BY TypeParts DEF ClientInv
<1>1. CASE CreateEntry
  <2> DEFINE e == [seq |-> seqNum + i, tx |-> seqNum + i, rx |-> FALSE]
  <2>1. /\ mpc = "entry" /\ mpc' = "entry" /\ i < sentN /\ i' = i + 1 /\ seqNum' = seqNum
        /\ stats' = Append(stats, e)
    BY <1>1 DEF CreateEntry
  <2>2. seqNum + i \in Seqs /\ seqNum + (i + 1) = seqNum + i + 1 /\ seqNum + i \in Nat
    BY <1>0, <2>1 DEF MainTyped, Sending, Seqs
  <2>3. e \in StatsEntries /\ e.seq = seqNum + i
    BY <2>2, Zenon DEF StatsEntries
  <2> HIDE DEF e
  <2>4. /\ stats' \in Seq(StatsEntries) /\ Len(stats') = Len(stats) + 1 /\ Len(stats) \in Nat
        /\ \A k \in 1 .. Len(stats) : stats'[k] = stats[k]
        /\ stats'[Len(stats) + 1] = e
    BY <1>0, <2>1, <2>3, AppendProperties, LenProperties DEF StatsTyped
  <2>5. StatsEnabled
    BY <1>0, <2>1 DEF Sending
  <2>6. Len(stats) = seqNum + i /\ EntriesUpTo' = seqNum + i + 1
    BY <1>0, <2>1, <2>2, <2>5 DEF Recorded, EntriesUpTo
  <2>7. \A k \in 1 .. Len(stats') : stats'[k].seq = k - 1
    <3> SUFFICES ASSUME NEW k \in 1 .. Len(stats') PROVE stats'[k].seq = k - 1
      OBVIOUS
    <3>1. CASE k \in 1 .. Len(stats)
      BY <1>0, <2>4, <3>1 DEF Recorded
    <3>2. CASE k = Len(stats) + 1
      BY <2>2, <2>3, <2>4, <2>6, <3>2
    <3> QED BY <2>4, <3>1, <3>2
  <2> QED BY <2>4, <2>6, <2>7 DEF StatsTyped, Recorded
<1>2. CASE RxStats
  <2>1. /\ UNCHANGED <<mpc, seqNum, i>>
        /\ stats' = LET k == Found(stats, cur) IN
                    IF k = 0 THEN stats ELSE [stats EXCEPT ![k].rx = TRUE]
        /\ cur \in Seqs
    BY <1>0, <1>2 DEF RxStats, mainVars, Answers, Handling
  <2>2. CASE Found(stats, cur) = 0
    BY <1>0, <2>1, <2>2 DEF StatsTyped, Recorded, EntriesUpTo
  <2>3. CASE Found(stats, cur) # 0
    <3> DEFINE f == Found(stats, cur)
    <3>1. f \in 1 .. Len(stats) /\ Len(stats) \in Nat
      BY <1>0, <2>1, <2>3, FoundValue, LenProperties DEF StatsTyped
    <3>2. stats' = [stats EXCEPT ![f] = [stats[f] EXCEPT !.rx = TRUE]]
      BY <2>1, <2>3
    <3> HIDE DEF f
    <3> DEFINE e == [stats[f] EXCEPT !.rx = TRUE]
    <3>3. stats[f] \in StatsEntries
      BY <1>0, <3>1, ElementOfSeq DEF StatsTyped
    <3>4. e \in StatsEntries /\ e.seq = stats[f].seq
      BY <3>3, Zenon DEF StatsEntries
    <3>5. stats' = [stats EXCEPT ![f] = e]
      BY <3>2
    <3> HIDE DEF e
    <3>6. /\ stats' \in Seq(StatsEntries) /\ Len(stats') = Len(stats)
          /\ \A k \in 1 .. Len(stats) : stats'[k] = IF k = f THEN e ELSE stats[k]
      BY <1>0, <3>1, <3>4, <3>5, ExceptSeq DEF StatsTyped
    <3>7. \A k \in 1 .. Len(stats') : stats'[k].seq = k - 1
      BY <1>0, <3>1, <3>4, <3>6 DEF Recorded
    <3> QED BY <1>0, <2>1, <3>6, <3>7 DEF StatsTyped, Recorded, EntriesUpTo
  <2> QED BY <2>2, <2>3
<1>3. CASE ~CreateEntry /\ ~RxStats
  <2>1. UNCHANGED stats
    BY <1>3, Frames
  <2>2. StatsEnabled => EntriesUpTo' = EntriesUpTo
    <3>1. ASSUME NEW n \in 1 .. BatchSize, Send(n) PROVE EntriesUpTo' = EntriesUpTo
      BY <3>1 DEF Send, EntriesUpTo
    <3>2. CASE StoreTx
      BY <3>2 DEF StoreTx, EntriesUpTo
    <3>3. CASE StoreTxDone
      <4>1. StatsEnabled => mpc = "store" /\ mpc' = "entry" /\ i' = 0 /\ UNCHANGED seqNum
        BY <3>3 DEF StoreTxDone
      <4> QED BY <1>0, <4>1 DEF EntriesUpTo, MainTyped
    <3>4. CASE EntriesDone
      <4>1. mpc = "entry" /\ mpc' = "send" /\ i = sentN /\ seqNum' = seqNum + sentN
        BY <3>4 DEF EntriesDone, SendMore
      <4> QED BY <1>0, <4>1 DEF EntriesUpTo, MainTyped
    <3>5. CASE /\ UNCHANGED <<seqNum, sentN, i, wire>>
               /\ \/ mpc' = mpc
                  \/ mpc \notin {"store", "entry"} /\ mpc' \in {"close", "join", "cancel", "done"}
      BY <3>5 DEF EntriesUpTo
    <3> QED BY <1>3, <3>1, <3>2, <3>3, <3>4, <3>5, Frames
  <2> QED BY <1>0, <2>1, <2>2 DEF StatsTyped, Recorded
<1> QED BY <1>1, <1>2, <1>3

-----------------------------------------------------------------------------
(* The answers and their count *)

\* Every step keeps the answers to packets that were sent, and their number.
LEMMA NextAnswers ==
  ASSUME ClientInv, [Next]_vars
  PROVE  RxTyped' /\ Answers'
<1> USE ClientAssumption
<1>0. /\ MainTyped /\ RxTyped /\ CorrTyped /\ Sending /\ Answers /\ MainTyped' /\ Sending'
  BY TypeParts, NextSending DEF ClientInv
<1>t. /\ Len(sockq) \in Nat /\ Len(wire) \in Nat /\ Len(wire') \in Nat /\ MaxAnswers \in Nat
      /\ got \in Nat /\ answered \in Nat
  BY <1>0, LenProperties DEF MainTyped, RxTyped
<1>w. Len(wire) <= Len(wire')
  <2>1. ASSUME NEW n \in 1 .. BatchSize, Send(n) PROVE Len(wire) <= Len(wire')
    <3>1. Len(wire') = seqNum + n /\ Len(wire) = seqNum + sentN /\ sentN = 0
      BY <1>0, <2>1, SendAppends DEF ClientInv, Sending, Send
    <3> QED BY <1>0, <3>1 DEF MainTyped
  <2>2. CASE UNCHANGED wire
    BY <1>t, <2>2
  <2> QED BY <2>1, <2>2, Frames DEF StoreTx, StoreTxDone, CreateEntry, EntriesDone
<1>q. \A k \in 1 .. Len(sockq) : sockq[k] \in Seqs /\ sockq[k] \in Nat /\ sockq[k] < Len(wire')
  BY <1>0, <1>t, <1>w, ElementOfSeq DEF RxTyped, Answers, Seqs
<1>c. rpc \in Handling => cur \in Seqs /\ cur \in Nat /\ cur < Len(wire')
  BY <1>0, <1>t, <1>w DEF Answers, Seqs
<1>1. CASE RxReceive
  <2>1. /\ UNCHANGED <<answered, got, rowTx>> /\ sockq # <<>> /\ cur' = Head(sockq)
        /\ sockq' = Tail(sockq) /\ rpc' = "lookup"
    BY <1>1 DEF RxReceive
  <2>2. /\ sockq' \in Seq(Seqs) /\ Len(sockq') = Len(sockq) - 1 /\ Len(sockq) > 0
        /\ cur' = sockq[1] /\ \A k \in 1 .. Len(sockq') : sockq'[k] = sockq[k + 1]
    BY <1>0, <1>t, <2>1, HeadTailProperties DEF RxTyped
  <2>3. \A k \in 1 .. Len(sockq') : k + 1 \in 1 .. Len(sockq)
    BY <1>t, <2>2
  <2>4. cur' \in Seqs /\ cur' < Len(wire')
    BY <1>q, <1>t, <2>2
  <2>5. \A k \in 1 .. Len(sockq') : sockq'[k] < Len(wire')
    BY <1>q, <2>2, <2>3
  <2>6. got' + Len(sockq') + 1 <= answered' /\ got' + Len(sockq') <= answered'
    BY <1>0, <1>t, <2>1, <2>2 DEF Answers
  <2> QED BY <1>0, <2>1, <2>2, <2>4, <2>5, <2>6 DEF RxTyped, Answers, Handling
<1>2. CASE RxRow
  <2>1. /\ UNCHANGED <<answered, sockq>> /\ rpc = "row" /\ rpc' = "loop" /\ got' = got + 1
        /\ cur' = None /\ rowTx' = None
    BY <1>2 DEF RxRow
  <2>2. got + 1 + Len(sockq) <= answered
    BY <1>0, <1>t, <2>1 DEF Answers, Handling
  <2>3. got' \in 0 .. MaxAnswers /\ got' + Len(sockq') <= answered'
    BY <1>0, <1>t, <2>1, <2>2 DEF RxTyped
  <2> QED BY <1>0, <1>q, <2>1, <2>3 DEF RxTyped, Answers, Handling
<1>3. CASE CloseSocket
  <2>1. UNCHANGED <<answered, got, rpc, cur, rowTx>> /\ sockq' = <<>>
    BY <1>3 DEF CloseSocket, rxVars
  <2>2. Len(sockq') = 0 /\ sockq' \in Seq(Seqs)
    BY <2>1
  <2>3. /\ got' + Len(sockq') <= answered'
        /\ rpc' \in Handling => got' + Len(sockq') + 1 <= answered'
    BY <1>0, <1>t, <2>1, <2>2 DEF Answers
  <2> QED BY <1>0, <1>c, <2>1, <2>2, <2>3 DEF RxTyped, Answers
<1>4. ASSUME NEW s \in Seqs, Answer(s) PROVE RxTyped' /\ Answers'
  <2>1. /\ UNCHANGED <<got, rpc, cur, rowTx, wire>> /\ sockq' = Append(sockq, s)
        /\ answered' = answered + 1 /\ answered < MaxAnswers
        /\ \E k \in 1 .. Len(wire) : wire[k] = s
    BY <1>4 DEF Answer, rxVars, mainVars
  <2>2. s < Len(wire') /\ s \in Nat
    BY <1>0, <1>t, <2>1 DEF Sending
  <2>3. /\ sockq' \in Seq(Seqs) /\ Len(sockq') = Len(sockq) + 1
        /\ \A k \in 1 .. Len(sockq) : sockq'[k] = sockq[k]
        /\ sockq'[Len(sockq) + 1] = s
    BY <1>0, <2>1, AppendProperties DEF RxTyped
  <2>4. \A k \in 1 .. Len(sockq') : sockq'[k] < Len(wire')
    <3> SUFFICES ASSUME NEW k \in 1 .. Len(sockq') PROVE sockq'[k] < Len(wire')
      OBVIOUS
    <3>1. k \in 1 .. Len(sockq) \/ k = Len(sockq) + 1
      BY <1>t, <2>3
    <3> QED BY <1>q, <2>2, <2>3, <3>1
  <2>5. /\ got' + Len(sockq') <= answered' /\ answered' \in 0 .. MaxAnswers
        /\ rpc' \in Handling => got' + Len(sockq') + 1 <= answered'
    BY <1>0, <1>t, <2>1, <2>3 DEF Answers
  <2> QED BY <1>0, <1>c, <2>1, <2>3, <2>4, <2>5 DEF RxTyped, Answers
<1>5. CASE UNCHANGED <<sockq, answered, got>>
  <2>1. \/ UNCHANGED <<cur, rpc, rowTx>>
        \/ rpc' \in {"loop", "recv", "done"} /\ UNCHANGED <<cur, rowTx>>
        \/ /\ rpc = "lookup" /\ rpc' = (IF StatsEnabled THEN "stats" ELSE "row") /\ UNCHANGED cur
           /\ rowTx' = corr[Index(cur)]
        \/ rpc = "stats" /\ rpc' = "row" /\ UNCHANGED <<cur, rowTx>>
        \/ RxReceive \/ RxRow
    <3>1. CASE \/ \E n \in 1 .. BatchSize : Send(n)
               \/ StoreTx \/ StoreTxDone \/ CreateEntry \/ EntriesDone
      BY <3>1 DEF Send, StoreTx, StoreTxDone, CreateEntry, EntriesDone, rxVars
    <3>2. CASE \/ LeaveLoop \/ CloseSocket \/ JoinInTime \/ JoinTimesOut \/ JoinCancelled
               \/ (\E s \in Seqs : Answer(s)) \/ UNCHANGED vars
      BY <3>2 DEF LeaveLoop, CloseSocket, JoinInTime, JoinTimesOut, JoinCancelled, Answer, vars, rxVars
    <3>3. CASE RxTest \/ RxPoll \/ RxFails \/ RxCancelled \/ RxLookup \/ RxStats
      BY <3>3 DEF RxTest, RxPoll, RxFails, RxCancelled, RxLookup, RxStats, RxReturn
    <3> QED BY <3>1, <3>2, <3>3, ActionCases
  <2>2. rpc = "lookup" => corr[Index(cur)] \in Seqs \cup {None}
    <3>1. rpc = "lookup" => Index(cur) \in Slots
      BY <1>c, IndexInSlots DEF Handling
    <3> QED BY <1>0, <3>1 DEF CorrTyped
  <2>3. RxTyped'
    BY <1>0, <1>1, <1>2, <1>5, <2>1, <2>2 DEF RxTyped
  <2>4. Answers'
    <3>1. CASE RxReceive \/ RxRow
      BY <1>1, <1>2, <3>1
    <3>2. CASE ~(RxReceive \/ RxRow)
      <4>1. /\ rpc' \in Handling => rpc \in Handling /\ cur' = cur
            /\ rpc' = "stats" => StatsEnabled
        BY <1>0, <2>1, <3>2 DEF Handling, Answers
      <4>2. \A k \in 1 .. Len(sockq') : sockq'[k] < Len(wire')
        BY <1>5, <1>q
      <4>3. /\ got' + Len(sockq') <= answered'
            /\ rpc' \in Handling => got' + Len(sockq') + 1 <= answered'
        BY <1>0, <1>5, <4>1 DEF Answers
      <4> QED BY <1>c, <4>1, <4>2, <4>3 DEF Answers
    <3> QED BY <3>1, <3>2
  <2> QED BY <2>3, <2>4
<1> QED BY <1>1, <1>2, <1>3, <1>4, <1>5, Frames

\* Every step keeps the types of the rows.
LEMMA NextRows ==
  ASSUME ClientInv, [Next]_vars
  PROVE  RowsTyped'
<1>0. RowsTyped /\ RxTyped /\ Answers
  BY TypeParts DEF ClientInv
<1>1. CASE RxRow
  <2>1. [seq |-> cur, tx |-> rowTx] \in RowEntries
    BY <1>0, <1>1 DEF RxRow, Answers, Handling, RxTyped, RowEntries
  <2>2. rows' = IF CsvEnabled THEN Append(rows, [seq |-> cur, tx |-> rowTx]) ELSE rows
    BY <1>1 DEF RxRow
  <2>3. Append(rows, [seq |-> cur, tx |-> rowTx]) \in Seq(RowEntries)
    BY <1>0, <2>1, AppendProperties DEF RowsTyped
  <2> QED BY <1>0, <2>2, <2>3 DEF RowsTyped
<1> QED BY <1>0, <1>1, Frames DEF RowsTyped

-----------------------------------------------------------------------------
(* The end *)

\* Every step keeps the count that will be reported.
LEMMA NextEnding ==
  ASSUME ClientInv, [Next]_vars
  PROVE  CancelTyped' /\ CountsTyped' /\ Ending'
<1> USE ClientAssumption
<1>0. MainTyped /\ RxTyped /\ CancelTyped /\ CountsTyped /\ Ending
  BY TypeParts DEF ClientInv
<1> DEFINE endVars == <<mpc, cancel, rpc, result, got, finalRx, report>>
<1>1. CASE UNCHANGED endVars
  BY <1>0, <1>1 DEF CancelTyped, CountsTyped, Ending
<1>2. CASE /\ UNCHANGED <<cancel, rpc, result, got, finalRx, report>>
           /\ mpc \notin {"cancel", "done"} /\ mpc' \notin {"cancel", "done"}
  BY <1>0, <1>2 DEF CancelTyped, CountsTyped, Ending
<1>3. CASE JoinInTime \/ JoinCancelled
  <2>1. /\ UNCHANGED <<cancel, rpc, result, got, finalRx, seqNum>> /\ rpc = "done"
        /\ mpc \in {"join", "cancel"} /\ mpc' = "done"
        /\ \/ mpc = "join" /\ report' = <<[sent |-> seqNum, received |-> result]>>
           \/ mpc = "cancel" /\ report' = <<[sent |-> seqNum, received |-> finalRx]>>
    BY <1>3 DEF JoinInTime, JoinCancelled, Report, rxVars
  <2> DEFINE r == IF mpc = "join" THEN result ELSE finalRx
  <2>2. report' = <<[sent |-> seqNum, received |-> r]>>
    BY <2>1
  <2>3. /\ mpc = "join" => ~cancel /\ result = got
        /\ mpc = "cancel" => cancel
    BY <1>0, <2>1 DEF Ending
  <2>4. r \in 0 .. MaxAnswers
    BY <1>0, <2>1, <2>3 DEF CountsTyped, RxTyped
  <2>5. r = IF cancel THEN finalRx ELSE result
    BY <2>1, <2>3
  <2> HIDE DEF r
  <2>6. report' \in Seq(Reports) /\ report'[1].received = r
    BY <1>0, <2>2, <2>4 DEF Reports, MainTyped
  <2>7. CancelTyped' /\ CountsTyped'
    BY <1>0, <2>1, <2>6 DEF CancelTyped, CountsTyped
  <2> QED BY <1>0, <2>1, <2>5, <2>6, <2>7 DEF Ending
<1>4. CASE JoinTimesOut
  <2>1. /\ UNCHANGED <<rpc, result, got, finalRx, report>> /\ rpc # "done"
        /\ mpc = "join" /\ mpc' = "cancel" /\ cancel' = TRUE
    BY <1>4 DEF JoinTimesOut, rxVars
  <2>2. cancel' /\ CancelTyped'
    BY <2>1, Zenon DEF CancelTyped
  <2>3. report = <<>> /\ result = None
    BY <1>0, <2>1 DEF Ending
  <2>4. CountsTyped' /\ report' = <<>>
    BY <1>0, <2>1, <2>3 DEF CountsTyped
  <2> QED BY <2>1, <2>2, <2>3, <2>4 DEF Ending
<1>5. CASE /\ UNCHANGED <<mpc, cancel, finalRx, report, got>> /\ rpc # "done" /\ rpc' = "done"
           /\ result' = got
  <2>1. mpc # "done" /\ report = <<>>
    BY <1>0, <1>5 DEF Ending
  <2>2. CancelTyped' /\ CountsTyped'
    BY <1>0, <1>5 DEF CancelTyped, CountsTyped, RxTyped
  <2> QED BY <1>0, <1>5, <2>1, <2>2 DEF Ending
<1>6. CASE RxCancelled
  <2>1. /\ UNCHANGED <<mpc, cancel, report, got>> /\ rpc # "done" /\ rpc' = "done"
        /\ result' = None /\ finalRx' = got /\ cancel
    BY <1>6 DEF RxCancelled, mainVars
  <2>2. mpc # "done" /\ report = <<>>
    BY <1>0, <2>1 DEF Ending
  <2>3. CancelTyped' /\ CountsTyped'
    BY <1>0, <2>1 DEF CancelTyped, CountsTyped, RxTyped
  <2> QED BY <1>0, <2>1, <2>2, <2>3 DEF Ending
<1>7. CASE /\ UNCHANGED <<mpc, cancel, finalRx, report, result>> /\ rpc # "done" /\ rpc' # "done"
  <2>1. mpc # "done" /\ report = <<>>
    BY <1>0, <1>7 DEF Ending
  <2>2. CancelTyped' /\ CountsTyped'
    BY <1>0, <1>7 DEF CancelTyped, CountsTyped
  <2> QED BY <1>0, <1>7, <2>1, <2>2 DEF Ending
<1>8. CASE \/ \E n \in 1 .. BatchSize : Send(n)
           \/ StoreTx \/ StoreTxDone \/ CreateEntry \/ EntriesDone \/ LeaveLoop \/ CloseSocket
  BY <1>1, <1>2, <1>8
     DEF Send, StoreTx, StoreTxDone, CreateEntry, EntriesDone, SendMore, LeaveLoop, CloseSocket, rxVars
<1>9. CASE RxTest \/ RxFails
  BY <1>5, <1>7, <1>9 DEF RxTest, RxFails, RxReturn, mainVars
<1>10. CASE RxReceive \/ RxPoll \/ RxLookup \/ RxStats \/ RxRow
  BY <1>7, <1>10 DEF RxReceive, RxPoll, RxLookup, RxStats, RxRow, mainVars
<1>11. CASE (\E s \in Seqs : Answer(s)) \/ UNCHANGED vars
  BY <1>1, <1>11 DEF Answer, vars, mainVars, rxVars
<1> QED BY <1>3, <1>4, <1>6, <1>8, <1>9, <1>10, <1>11, ActionCases

-----------------------------------------------------------------------------
\* Every step keeps the inductive invariant.
LEMMA NextClientInv ==
  ASSUME ClientInv, [Next]_vars
  PROVE  ClientInv'
BY NextSending, NextFiled, NextRecorded, NextAnswers, NextRows, NextEnding, TypePartsNext
   DEF ClientInv

\* ClientInv is an invariant of the round-trip client: sequence numbers, the
\* correlation slots, the records and the answers stay in step.
THEOREM ClientInvariant == Spec => []ClientInv
<1>1. ClientInv /\ [Next]_vars => ClientInv'
  BY NextClientInv
<1> QED BY InitClientInv, <1>1, PTL DEF Spec

\* However sendmmsg splits the batches, the packets on the wire are numbered
\* without gap or repetition, and total_packets_sent is their number (SendInv).
THEOREM SendingRight == Spec => []SendInv
<1>1. ClientInv => SendInv
  <2> SUFFICES ASSUME ClientInv PROVE SendInv
    OBVIOUS
  <2>1. /\ TypeOK /\ seqNum \in Nat /\ Len(wire) = seqNum + sentN
        /\ mpc = "send" => sentN = 0
        /\ \A k \in 1 .. Len(wire) : wire[k] = k - 1
    BY ClientAssumption, TypeParts DEF ClientInv, Sending, MainTyped
  <2> QED BY <2>1 DEF SendInv, SequenceUnbroken
<1> QED BY ClientInvariant, <1>1, PTL

\* What is displayed is the number of answers logged, whether rx_thread_func
\* returned its count or rx_cleanup_handler saved it (CountReported).
THEOREM CountIsReported == Spec => []CountReported
<1>1. ClientInv => CountReported
  <2> SUFFICES ASSUME ClientInv, report # <<>>, cancel => result = None
               PROVE  report[1].received = got
    BY DEF CountReported
  <2>1. /\ report[1].received = IF cancel THEN finalRx ELSE result
        /\ result = got \/ (result = None /\ finalRx = got /\ cancel)
        /\ got \in Nat
    BY ClientAssumption, TypeParts DEF ClientInv, Ending, RxTyped
  <2>2. got # None
    BY <2>1 DEF None
  <2>3. CASE cancel
    BY <2>1, <2>2, <2>3
  <2>4. CASE ~cancel
    BY <2>1, <2>4
  <2> QED BY <2>3, <2>4
<1> QED BY ClientInvariant, <1>1, PTL

\* The TX timestamp the RX thread reads is the packet's own unless main is still
\* filing the batch or a later packet took the slot.
LEMMA LookupRight ==
  ASSUME ClientInv, [Next]_vars, rpc = "lookup", rpc' # "lookup"
  PROVE  \/ rowTx' = cur
         \/ mpc = "store" /\ cur >= seqNum + i
         \/ rowTx' > cur /\ Index(rowTx') = Index(cur)
<1> USE ClientAssumption
<1>0. MainTyped /\ CorrTyped /\ Sending /\ Filed /\ Answers
  BY TypeParts DEF ClientInv
<1>1. RxLookup
  <2>1. CASE \/ \E n \in 1 .. BatchSize : Send(n)
             \/ StoreTx \/ StoreTxDone \/ CreateEntry \/ EntriesDone
    BY <2>1 DEF Send, StoreTx, StoreTxDone, CreateEntry, EntriesDone, rxVars
  <2>2. CASE \/ LeaveLoop \/ CloseSocket \/ JoinInTime \/ JoinTimesOut \/ JoinCancelled
             \/ (\E s \in Seqs : Answer(s)) \/ UNCHANGED vars
    BY <2>2 DEF LeaveLoop, CloseSocket, JoinInTime, JoinTimesOut, JoinCancelled, Answer, vars, rxVars
  <2>3. CASE RxTest \/ RxReceive \/ RxPoll \/ RxFails \/ RxCancelled \/ RxStats \/ RxRow
    BY <2>3 DEF RxTest, RxReceive, RxPoll, RxFails, RxCancelled, RxStats, RxRow
  <2> QED BY <2>1, <2>2, <2>3, ActionCases
<1>2. rowTx' = corr[Index(cur)]
  BY <1>1 DEF RxLookup
<1>3. /\ cur \in Seqs /\ cur \in Nat /\ Index(cur) \in Slots /\ cur < seqNum + sentN
      /\ corr[Index(cur)] \in Seqs \cup {None}
  <2>1. cur \in Seqs /\ cur < seqNum + sentN
    BY <1>0 DEF Answers, Handling, Sending
  <2>2. cur \in Nat /\ Index(cur) \in Slots
    BY <2>1, IndexInSlots DEF Seqs
  <2> QED BY <1>0, <2>1, <2>2 DEF CorrTyped
<1>4. CASE cur < FiledUpTo
  <2>1. corr[Index(cur)] >= cur
    BY <1>0, <1>3, <1>4 DEF Filed
  <2>2. corr[Index(cur)] # None /\ corr[Index(cur)] \in Nat
    BY <1>3, <2>1 DEF None, Seqs
  <2>3. Index(corr[Index(cur)]) = Index(cur)
    BY <1>0, <1>3, <2>2 DEF Filed
  <2> QED BY <1>2, <1>3, <2>1, <2>2, <2>3
<1>5. CASE ~(cur < FiledUpTo)
  BY <1>0, <1>3, <1>5 DEF FiledUpTo, MainTyped
<1> QED BY <1>4, <1>5

\* An answer whose entry is not found came before main created it.
LEMMA UpdateRight ==
  ASSUME ClientInv, rpc = "stats", Found(stats, cur) = 0
  PROVE  \/ mpc = "store" /\ cur >= seqNum
         \/ mpc = "entry" /\ cur >= seqNum + i
<1> USE ClientAssumption
<1>0. MainTyped /\ StatsTyped /\ Sending /\ Recorded /\ Answers
  BY TypeParts DEF ClientInv
<1>1. /\ cur \in Seqs /\ cur \in Nat /\ cur < seqNum + sentN /\ Len(stats) = EntriesUpTo
      /\ Len(stats) \in Nat
  BY <1>0, LenProperties DEF Answers, Handling, Sending, Recorded, Seqs, StatsTyped
<1>2. cur >= Len(stats)
  BY <1>0, <1>1, FoundValue
<1> QED BY <1>0, <1>1, <1>2 DEF EntriesUpTo, MainTyped, Sending

\* What the RX thread logs and records of an answer is the packet's own, and is
\* recorded, unless it overtook the main thread or the slot was taken again
\* (WrongOnlyIfOvertaken).
THEOREM WrongIsOvertaken == Spec => WrongOnlyIfOvertaken
<1>1. ClientInv /\ [Next]_vars =>
        [ (rpc = "lookup" /\ rpc' # "lookup") =>
            \/ rowTx' = cur
            \/ mpc = "store" /\ cur >= seqNum + i
            \/ rowTx' > cur /\ Index(rowTx') = Index(cur) ]_vars
  BY LookupRight
<1>2. ClientInv /\ [Next]_vars =>
        [ (rpc = "stats" /\ rpc' = "row" /\ Found(stats, cur) = 0) =>
            \/ mpc = "store" /\ cur >= seqNum
            \/ mpc = "entry" /\ cur >= seqNum + i ]_vars
  BY UpdateRight
<1>3. Spec => OwnTxOnceFiled
  BY ClientInvariant, <1>1, PTL DEF Spec, OwnTxOnceFiled
<1>4. Spec => UpdateLostOnlyIfOvertaken
  BY ClientInvariant, <1>2, PTL DEF Spec, UpdateLostOnlyIfOvertaken
<1> QED BY <1>3, <1>4, PTL DEF WrongOnlyIfOvertaken
=============================================================================
