---------------------- MODULE PacketReplicatorProofs ------------------------
(***************************************************************************)
(* Proofs about PacketReplicator and its AF_XDP socket for every number of *)
(* frames, every ring and batch size the socket's assumption admits, and   *)
(* any number of packets, messages, destinations and faults.               *)
(***************************************************************************)
EXTENDS PacketReplicator, RingLemmas, FiniteSetTheorems, WellFoundedInduction

Handling == {"packet", "snapshot", "poll", "build", "reserve", "wake", "give up", "fallback"}
Copying  == {"poll", "build", "reserve", "wake", "give up", "fallback"}

\* Where the threads are when: none runs before start() or after the join, and the
\* socket is closed last.
Lifecycle ==
  /\ closed <=> mpc \in {"done", "aborted"}
  /\ qpc = "off" <=> mpc \notin {"running", "joining", "unloaded", "done"}
  /\ mpc \in {"unloaded", "done"} => qpc = "done"
  /\ ~closed => lostAtClose = 0
  /\ mpc \in {"limits", "load", "configure", "bind", "register"} => ~xskMap
  /\ mpc \in {"limits", "load", "configure", "bind"} => fq = <<>> /\ rx = <<>>
  /\ qpc = "off" => pendingRecycle = <<>>

\* What the queue thread has in hand: packets of a batch, and destinations left for
\* the first of them; every packet is counted once.
InHand ==
  /\ batch # <<>> <=> qpc \in Handling
  /\ todo # {} <=> qpc \in Copying
  /\ packetsReceived + Len(rx) + Len(batch) <= arrived + (IF qpc \in Handling \ {"packet"} THEN 1 ELSE 0)

\* Descriptors and completions that no peek has given out yet
Unpeeked == Len(tx) + Len(driver) + Len(cq) - cachedCompletions

\* The TX rings: every poll leaves no more than the TX ring and the driver hold.
TxRings ==
  /\ OutstandingExact /\ SentAccounted
  /\ Len(tx) <= TX_FRAMES /\ Len(driver) <= DRIVER_DEPTH
  /\ cachedCompletions + cqSeen <= Len(cq)
  /\ cachedCompletions < TX_BATCH_SIZE
  /\ Unpeeked <= TX_FRAMES + DRIVER_DEPTH + 1
  /\ qpc \in {"build", "reserve"} => Unpeeked <= TX_FRAMES + DRIVER_DEPTH

\* What a control client is told is so.
Told ==
  /\ IsFiniteSet(destinations)
  /\ cpc = "arp" => cmd.op = "add" /\ cmd.dest \in destinations
  /\ cpc = "reply" =>
       /\ cmd.op = "add" => cmd.dest \in destinations
       /\ cmd.op = "remove" => cmd.dest \notin destinations
       /\ cmd.op = "list" => /\ reply.count = Cardinality(destinations) % COUNT_RANGE
                             /\ reply.dests = destinations

\* Sends to a removed destination: one that the copy in hand still holds has had
\* none since.
Left == IF qpc \in {"poll", "build"} THEN todo
        ELSE IF qpc \in Copying THEN todo \ {NextDest(todo)} ELSE {}
LateBound ==
  \A d \in Destinations :
    /\ late[d] <= 1
    /\ d \in Left /\ d \notin destinations => late[d] = 0

\* The RX frames: no two places hold the same one, and none is missing but those of
\* batches that were abandoned.
Apart(f, r, p) ==
  /\ \A j, k \in 1 .. Len(f) : f[j] = f[k] => j = k
  /\ \A j, k \in 1 .. Len(r) : r[j].frame = r[k].frame => j = k
  /\ \A j, k \in 1 .. Len(p) : p[j] = p[k] => j = k
  /\ \A j \in 1 .. Len(f), k \in 1 .. Len(r) : f[j] # r[k].frame
  /\ \A j \in 1 .. Len(f), k \in 1 .. Len(p) : f[j] # p[k]
  /\ \A j \in 1 .. Len(r), k \in 1 .. Len(p) : r[j].frame # p[k]

Busy  == Handling \cup {"recycle"}
InUse == Len(fq) + Len(rx) + (IF qpc \in Busy THEN Len(pendingRecycle) ELSE 0)

RxAccount ==
  /\ Len(fq) + Len(rx) + Len(pendingRecycle) <= RX_FRAMES
  /\ Len(pendingRecycle) <= MAX_ENTRIES
  /\ mpc = "register" \/ xskMap => InUse + faults * MAX_ENTRIES >= RX_FRAMES

BatchWaits ==
  \A k \in 1 .. Len(batch) : \E j \in 1 .. Len(pendingRecycle) : batch[k].frame = pendingRecycle[j]

RxRings == Apart(fq, rx, pendingRecycle) /\ RxAccount /\ BatchWaits

\* The TX frames: the k-th packet on its way, the oldest first, was written age
\* frames ago, no more than were used since; it is overwritten only after a whole
\* turn through the frames.
OnItsWay == driver \o tx
Turned(f, age, next) == \E turns \in Nat : f + age = next + turns * TX_FRAMES
Since(k) == Len(OnItsWay) - k + 1 + failed + (IF qpc = "reserve" THEN 1 ELSE 0)
Intact(e) == umem[e.frame] = [dest |-> e.dest, num |-> e.num]
FrameAges ==
  \A k \in 1 .. Len(OnItsWay) : \E age \in Nat \ {0} :
    /\ Turned(OnItsWay[k].frame, age, prevUmemTxFrame) /\ age <= Since(k)
    /\ age > TX_FRAMES \/ Intact(OnItsWay[k])
JustBuilt ==
  qpc = "reserve" => /\ umem[frame] = [dest |-> NextDest(todo), num |-> Head(batch).num]
                     /\ prevUmemTxFrame = (frame + 1) % TX_FRAMES

\* The inductive invariant
ReplicatorInv ==
  /\ TypeOK /\ Lifecycle /\ InHand /\ TxRings /\ Told /\ LateBound /\ RxRings
  /\ FrameAges /\ JustBuilt
  /\ StrandedOnlyIfRefused
-----------------------------------------------------------------------------
(* Operators *)

\* The steps of initialize() by their numbers
LEMMA InitElements ==
  /\ DOMAIN InitSteps = 1 .. 8
  /\ InitSteps[1] = "limits" /\ InitSteps[2] = "load" /\ InitSteps[3] = "configure"
  /\ InitSteps[4] = "bind" /\ InitSteps[5] = "register" /\ InitSteps[6] = "control"
  /\ InitSteps[7] = "output" /\ InitSteps[8] = "start"
BY DEF InitSteps

\* ... and as a set
LEMMA InitSet ==
  ToSet(InitSteps) = {"limits", "load", "configure", "bind", "register", "control",
                      "output", "start"}
<1>1. \A k \in 1 .. 8 : k \in {1, 2, 3, 4, 5, 6, 7, 8}
  OBVIOUS
<1>2. {1, 2, 3, 4, 5, 6, 7, 8} \subseteq 1 .. 8
  OBVIOUS
<1> QED BY <1>1, <1>2, InitElements DEF ToSet

\* A step of initialize() leads to the next one; three of them leave the socket alone.
LEMMA InitOrder ==
  ASSUME initialize
  PROVE  \/ mpc = "limits" /\ mpc' = "load" /\ UNCHANGED socketVars
         \/ mpc = "load" /\ mpc' = "configure" /\ loadXdpProgram
         \/ mpc = "configure" /\ mpc' = "bind" /\ \E found \in BOOLEAN : configureXdpProgram(found)
         \/ mpc = "bind" /\ mpc' = "register" /\ bind
         \/ mpc = "register" /\ mpc' = "control" /\ registerXskMap
         \/ mpc = "control" /\ mpc' = "output" /\ UNCHANGED socketVars
         \/ mpc = "output" /\ mpc' = "start" /\ UNCHANGED socketVars
<1>1. /\ After("limits") = "load" /\ After("load") = "configure" /\ After("configure") = "bind"
      /\ After("bind") = "register" /\ After("register") = "control"
      /\ After("control") = "output" /\ After("output") = "start"
  <2>1. \A k \in 1 .. 8 : k \in {1, 2, 3, 4, 5, 6, 7, 8}
    OBVIOUS
  <2> QED BY <2>1, InitElements DEF After
<1>2. mpc' = After(mpc) /\ mpc \in ToSet(InitSteps) \ {"start"}
  BY DEF initialize
<1>3. \/ mpc \in {"limits", "control", "output"} /\ UNCHANGED socketVars
      \/ mpc = "load" /\ loadXdpProgram
      \/ mpc = "configure" /\ \E found \in BOOLEAN : configureXdpProgram(found)
      \/ mpc = "bind" /\ bind
      \/ mpc = "register" /\ registerXskMap
  BY DEF initialize
<1> QED BY <1>1, <1>2, <1>3, Zenon

\* There is a first destination to send to as long as there is one.
LEMMA NextDestIn ==
  ASSUME NEW T, T \subseteq Nat, T # {}
  PROVE  NextDest(T) \in T
<1>1. PICK x \in T : \A y \in T : <<y, x>> \notin OpToRel(<, Nat)
  BY NatLessThanWellFounded, WFMin
<1>2. ASSUME NEW y \in T PROVE x <= y
  <2>1. <<y, x>> \in Nat \X Nat /\ <<y, x>>[1] = y /\ <<y, x>>[2] = x
    OBVIOUS
  <2>2. ~(y < x)
    BY <1>1, <2>1 DEF OpToRel
  <2> QED BY <2>2
<1> QED BY <1>2 DEF NextDest

\* A queue that is not empty has a head and a shorter tail.
LEMMA QueueFacts ==
  ASSUME NEW S, NEW s \in Seq(S), s # <<>>
  PROVE  /\ Len(s) \in Nat \ {0} /\ Tail(s) \in Seq(S) /\ Len(Tail(s)) = Len(s) - 1
         /\ Head(s) \in S /\ Head(s) = s[1]
         /\ \A k \in 1 .. Len(s) - 1 : Tail(s)[k] = s[k + 1]
BY EmptySeq, HeadTailProperties

LEMMA EmptyLen ==
  ASSUME NEW S, NEW s \in Seq(S)
  PROVE  s = <<>> <=> Len(s) = 0
BY EmptySeq

\* One turn through the frames more
LEMMA TimesNext ==
  ASSUME NEW a \in Nat, NEW b \in Nat
  PROVE  (a + 1) * b = a * b + b /\ a * b \in Nat
OBVIOUS

-----------------------------------------------------------------------------
\* The step is one of the actions.
LEMMA ActionCases ==
  ASSUME [Next]_vars
  PROVE  \/ \E n \in 1 .. MAX_ENTRIES : QReceive(n)
         \/ QPacket \/ QSnapshot \/ QThrow \/ QPoll \/ QBuild \/ QBuildThrows \/ QReserve
         \/ \E refusal \in BOOLEAN : QWake(refusal)
         \/ \E ok \in BOOLEAN : QFallback(ok)
         \/ QRecycle \/ QExit
         \/ \E m \in Message : CtlReceive(m)
         \/ CtlTimeout \/ CtlLock \/ CtlArp \/ CtlReply
         \/ initialize \/ initializeThrows \/ start \/ stop \/ Joined \/ Destroy
         \/ \E p \in Shapes : Arrive(p)
         \/ DriverTakes \/ DriverSends \/ DriverSleeps \/ UNCHANGED vars
BY DEF Next, QueueThread, ControlThread, Terminated

\* Adding nothing changes no count.
LEMMA PlusZero == \A k \in Nat : k + 0 = k
OBVIOUS

\* The types of what the queue thread works with, and the constants
LEMMA Sizes ==
  ASSUME TypeOK
  PROVE  /\ TX_FRAMES \in Nat \ {0} /\ RX_FRAMES \in Nat \ {0} /\ MAX_ENTRIES \in Nat \ {0}
         /\ TX_BATCH_SIZE \in Nat \ {0} /\ DRIVER_DEPTH \in Nat \ {0} /\ COMP_SIZE \in Nat
         /\ COMP_SIZE >= TX_FRAMES + TX_BATCH_SIZE + DRIVER_DEPTH
         /\ Len(tx) \in Nat /\ Len(driver) \in Nat /\ Len(cq) \in Nat
         /\ Len(fq) \in Nat /\ Len(rx) \in Nat /\ Len(pendingRecycle) \in Nat
         /\ Len(batch) \in Nat
         /\ todo \subseteq Nat
<1>1. todo \subseteq Nat
  BY ReplicatorAssumption DEF TypeOK, QueueTyped
<1>2. /\ tx \in Seq(TxEntries) /\ driver \in Seq(TxEntries) /\ cq \in Seq(TxFrames)
      /\ fq \in Seq(RxFrames) /\ pendingRecycle \in Seq(RxFrames)
      /\ rx \in Seq(RxEntries) /\ batch \in Seq(RxEntries)
  BY DEF TypeOK, TxTyped, RxTyped, QueueTyped
<1> QED BY <1>1, <1>2, SocketAssumption, LenProperties

\* pollTxCompletions: whatever was peeked and seen before, the account is exact
\* afterwards, and with a completion to be had at least one has been peeked.
LEMMA PollFacts ==
  ASSUME TypeOK, TxRings, ~closed, pollTxCompletions, UNCHANGED <<tx, driver>>
  PROVE  /\ cq' \in Seq(TxFrames) /\ cachedCompletions' \in 0 .. COMP_SIZE
         /\ cqSeen' \in 0 .. COMP_SIZE /\ outstandingTx' \in Nat
         /\ outstandingTx' = Len(tx) + Len(driver) + Len(cq')
         /\ cachedCompletions' + cqSeen' <= Len(cq')
         /\ cachedCompletions' < TX_BATCH_SIZE
         /\ Unpeeked' <= TX_FRAMES + DRIVER_DEPTH
<1> DEFINE avail == IF cqSeen > 0 THEN cqSeen ELSE Len(cq) - cachedCompletions
           n     == IF outstandingTx = 0 THEN 0 ELSE Least(avail, TX_FRAMES)
           c     == cachedCompletions + n
           released == n > 0 /\ c >= TX_BATCH_SIZE
<1>1. /\ cqSeen' = IF outstandingTx = 0 THEN cqSeen ELSE avail - n
      /\ released => /\ cq' = SubSeq(cq, c + 1, Len(cq)) /\ cachedCompletions' = 0
                     /\ outstandingTx' = outstandingTx - c
      /\ ~released => cachedCompletions' = c /\ cq' = cq /\ outstandingTx' = outstandingTx
  BY DEF pollTxCompletions
<1>0. ~closed /\ cachedCompletions \in 0 .. COMP_SIZE /\ cqSeen \in 0 .. COMP_SIZE /\ outstandingTx \in Nat
  BY DEF TypeOK, TxTyped
<1>2. /\ cachedCompletions \in Nat /\ cqSeen \in Nat /\ outstandingTx \in Nat
      /\ outstandingTx = Len(tx) + Len(driver) + Len(cq)
      /\ cachedCompletions + cqSeen <= Len(cq) /\ cachedCompletions < TX_BATCH_SIZE
      /\ Len(tx) <= TX_FRAMES /\ Len(driver) <= DRIVER_DEPTH
      /\ Len(tx) + Len(driver) + Len(cq) - cachedCompletions <= TX_FRAMES + DRIVER_DEPTH + 1
  BY <1>0, Sizes DEF TxRings, OutstandingExact, Unpeeked
<1>3. /\ avail \in Nat /\ cachedCompletions + avail <= Len(cq)
      /\ avail = 0 => Len(cq) = cachedCompletions
  BY <1>2, Sizes
<1> HIDE DEF avail
<1>4. /\ n \in 0 .. avail
      /\ outstandingTx = 0 => n = 0 /\ avail = 0
      /\ outstandingTx # 0 /\ avail > 0 => n > 0
  <2>1. TX_FRAMES \in Nat \ {0} /\ Len(tx) \in Nat /\ Len(driver) \in Nat /\ Len(cq) \in Nat
    BY Sizes
  <2>2. n = IF outstandingTx = 0 THEN 0 ELSE IF avail < TX_FRAMES THEN avail ELSE TX_FRAMES
    BY DEF Least
  <2> HIDE DEF n
  <2> QED BY <1>2, <1>3, <2>1, <2>2
<1> HIDE DEF n
<1>5. c \in 0 .. Len(cq)
  BY <1>2, <1>3, <1>4, Sizes
<1>6. /\ cq' \in Seq(TxFrames) /\ Len(cq') = IF released THEN Len(cq) - c ELSE Len(cq)
  <2>1. cq \in Seq(TxFrames)
    BY DEF TypeOK, TxTyped
  <2>2. CASE released
    <3>0. Len(cq) \in Nat
      BY <2>1, LenProperties
    <3> HIDE DEF c
    <3>1. c \in Int /\ c + 1 \in 1 .. Len(cq) + 1 /\ c + 1 \in Nat
      BY <1>5, <3>0
    <3>2. SubSeq(cq, c + 1, Len(cq)) \in Seq(TxFrames) /\ Len(SubSeq(cq, c + 1, Len(cq))) = Len(cq) - c
      <4>1. /\ SubSeq(cq, c + 1, Len(cq)) \in Seq(TxFrames)
            /\ Len(SubSeq(cq, c + 1, Len(cq))) = IF c + 1 <= Len(cq) THEN Len(cq) - (c + 1) + 1 ELSE 0
        BY <2>1, <3>0, <3>1, SubSeqProperties
      <4> QED BY <1>5, <3>0, <3>1, <4>1
    <3> QED BY <1>1, <2>2, <3>2
  <2>3. CASE ~released
    BY <1>1, <2>1, <2>3
  <2> QED BY <2>2, <2>3
<1>9. /\ Unpeeked' = Len(tx) + Len(driver) + Len(cq') - cachedCompletions'
      /\ TX_FRAMES \in Nat \ {0} /\ TX_BATCH_SIZE \in Nat \ {0} /\ DRIVER_DEPTH \in Nat \ {0}
      /\ COMP_SIZE \in Nat /\ COMP_SIZE >= TX_FRAMES + TX_BATCH_SIZE + DRIVER_DEPTH
      /\ Len(tx) \in Nat /\ Len(driver) \in Nat /\ Len(cq) \in Nat
  BY Sizes DEF Unpeeked
<1>10. cqSeen' = avail - n /\ cq' \in Seq(TxFrames)
  BY <1>1, <1>2, <1>3, <1>4, <1>6, <1>9
<1>11. /\ c = cachedCompletions + n /\ n \in Nat /\ n <= avail
       /\ outstandingTx # 0 /\ avail > 0 => n > 0
       /\ outstandingTx = 0 => avail = 0
       /\ ~released /\ n > 0 => c < TX_BATCH_SIZE
  BY <1>2, <1>3, <1>4, <1>5, <1>9
<1>7. CASE released
  <2>1. /\ Len(cq') = Len(cq) - c /\ cachedCompletions' = 0 /\ outstandingTx' = outstandingTx - c
        /\ outstandingTx # 0
    BY <1>1, <1>4, <1>6, <1>7
  <2> HIDE DEF c, released
  <2> QED BY <1>2, <1>3, <1>5, <1>9, <1>10, <1>11, <2>1, SMTT(30)
<1>8. CASE ~released
  <2>1. cq' = cq /\ cachedCompletions' = c /\ outstandingTx' = outstandingTx /\ c < TX_BATCH_SIZE
    BY <1>1, <1>2, <1>4, <1>8, <1>9
  <2> HIDE DEF c, released
  <2> QED BY <1>2, <1>3, <1>5, <1>9, <1>10, <1>11, <2>1, SMTT(30)
<1> QED BY <1>7, <1>8
-----------------------------------------------------------------------------
(* The parts of the invariant, one lemma each *)

\* While the queue thread works the socket is open.
LEMMA OpenWhileWorking ==
  ASSUME Lifecycle, qpc \notin {"off", "done"}
  PROVE  ~closed /\ mpc \in {"running", "joining"}
BY DEF Lifecycle


\* Which actions change which variables
TxStep ==
  \/ QPoll \/ QBuild \/ QBuildThrows \/ QReserve \/ \E refusal \in BOOLEAN : QWake(refusal)
  \/ Destroy \/ DriverTakes \/ DriverSends \/ DriverSleeps
RxStep ==
  \/ \E n \in 1 .. MAX_ENTRIES : QReceive(n)
  \/ QRecycle \/ initialize \/ \E p \in Shapes : Arrive(p)
QueueStep ==
  \/ \E n \in 1 .. MAX_ENTRIES : QReceive(n)
  \/ QPacket \/ QSnapshot \/ QThrow \/ QPoll \/ QBuild \/ QBuildThrows \/ QReserve
  \/ \E refusal \in BOOLEAN : QWake(refusal)
  \/ \E ok \in BOOLEAN : QFallback(ok)
  \/ QRecycle \/ QExit \/ start
ControlStep ==
  \/ \E m \in Message : CtlReceive(m)
  \/ CtlTimeout \/ CtlLock \/ CtlArp \/ CtlReply \/ start
MainStep == initialize \/ initializeThrows \/ start \/ stop \/ Joined \/ Destroy

Framed ==
  /\ initialize \/ Joined \/ Destroy \/ UNCHANGED setupVars
  /\ TxStep \/ UNCHANGED txVars
  /\ RxStep \/ UNCHANGED rxVars
  /\ QueueStep \/ UNCHANGED queueVars
  /\ ControlStep \/ UNCHANGED <<controlVars, destinations, mutex>>
  /\ MainStep \/ UNCHANGED <<running, mpc>>
  /\ (\E p \in Shapes : Arrive(p)) \/ UNCHANGED arrived
  /\ QThrow \/ UNCHANGED faults
  /\ QBuildThrows \/ UNCHANGED thrown
  /\ QReserve \/ QBuildThrows \/ UNCHANGED failed
  /\ DriverSends \/ UNCHANGED transmitted
  /\ (\E ok \in BOOLEAN : QFallback(ok)) \/ UNCHANGED bySocket
  /\ Destroy \/ UNCHANGED lostAtClose
  /\ (\E refusal \in BOOLEAN : QWake(refusal)) \/ UNCHANGED refused
  /\ QBuild \/ QBuildThrows \/ CtlLock \/ UNCHANGED late

LEMMA Frames ==
  ASSUME [Next]_vars
  PROVE  Framed
<1> USE DEF vars, socketVars, setupVars, txVars, rxVars, queueVars, controlVars, ghostVars,
            threadVars, Framed, TxStep, RxStep, QueueStep, ControlStep, MainStep
<1>1. ASSUME NEW n \in 1 .. MAX_ENTRIES, QReceive(n) PROVE Framed
  BY <1>1 DEF QReceive
<1>2. CASE QPacket
  BY <1>2 DEF QPacket
<1>3. CASE QSnapshot
  BY <1>3 DEF QSnapshot
<1>4. CASE QThrow
  BY <1>4 DEF QThrow
<1>5. CASE QPoll
  BY <1>5 DEF QPoll
<1>6. CASE QBuild
  BY <1>6 DEF QBuild, TakeFrame
<1>7. CASE QReserve
  BY <1>7 DEF QReserve
<1>8. ASSUME NEW refusal \in BOOLEAN, QWake(refusal) PROVE Framed
  BY <1>8 DEF QWake, NextDestination
<1>9. CASE QRecycle
  BY <1>9 DEF QRecycle
<1>10. CASE QExit
  BY <1>10 DEF QExit
<1>11. ASSUME NEW m \in Message, CtlReceive(m) PROVE Framed
  BY <1>11 DEF CtlReceive
<1>12. CASE CtlLock
  BY <1>12 DEF CtlLock
<1>13. CASE CtlArp
  BY <1>13 DEF CtlArp
<1>14. CASE CtlReply
  BY <1>14 DEF CtlReply
<1>15. CASE CtlTimeout
  BY <1>15 DEF CtlTimeout
<1>16. CASE initialize
  <2>1. UNCHANGED txVars
    BY <1>16, InitOrder DEF loadXdpProgram, configureXdpProgram, bind, registerXskMap
  <2> QED BY <1>16, <2>1 DEF initialize
<1>17. CASE initializeThrows
  BY <1>17 DEF initializeThrows
<1>18. CASE start
  BY <1>18 DEF start
<1>19. CASE stop
  BY <1>19 DEF stop
<1>20. CASE Joined
  BY <1>20 DEF Joined, unloadXdpProgram
<1>21. CASE Destroy
  BY <1>21 DEF Destroy, close
<1>22. ASSUME NEW p \in Shapes, Arrive(p) PROVE Framed
  BY <1>22 DEF Arrive, KernelRx
<1>23. CASE DriverTakes
  BY <1>23 DEF DriverTakes, KernelTxTake
<1>24. CASE DriverSends
  BY <1>24 DEF DriverSends, KernelTxComplete
<1>25. CASE DriverSleeps
  BY <1>25 DEF DriverSleeps, KernelSleep
<1>26. CASE UNCHANGED vars
  BY <1>26
<1>27. CASE QBuildThrows
  BY <1>27 DEF QBuildThrows, TakeFrame
<1>28. ASSUME NEW ok \in BOOLEAN, QFallback(ok) PROVE Framed
  BY <1>28 DEF QFallback, NextDestination
<1> QED BY ActionCases, <1>1, <1>2, <1>3, <1>4, <1>5, <1>6, <1>7, <1>8, <1>9, <1>10, <1>11,
           <1>12, <1>13, <1>14, <1>15, <1>16, <1>17, <1>18, <1>19, <1>20, <1>21, <1>22, <1>23,
           <1>24, <1>25, <1>26, <1>27, <1>28
-----------------------------------------------------------------------------
(* Type correctness *)

\* A packet is in hand while the queue thread handles it, and a destination while
\* it copies the packet.
LEMMA HandFacts ==
  ASSUME TypeOK, InHand
  PROVE  /\ qpc \in Handling => /\ batch # <<>> /\ Tail(batch) \in Seq(RxEntries)
                                /\ Len(Tail(batch)) = Len(batch) - 1 /\ Len(batch) \in Nat \ {0}
                                /\ Head(batch).num \in 1 .. MaxPackets
         /\ qpc \in Copying => NextDest(todo) \in todo /\ NextDest(todo) \in Destinations
<1>1. batch \in Seq(RxEntries) /\ todo \subseteq Destinations /\ todo \subseteq Nat
  BY ReplicatorAssumption DEF TypeOK, QueueTyped
<1>2. /\ qpc \in Handling => batch # <<>>
      /\ qpc \in Copying => todo # {}
  BY DEF InHand
<1>3. ASSUME qpc \in Handling
      PROVE  /\ batch # <<>> /\ Tail(batch) \in Seq(RxEntries)
             /\ Len(Tail(batch)) = Len(batch) - 1 /\ Len(batch) \in Nat \ {0}
             /\ Head(batch).num \in 1 .. MaxPackets
  <2>1. Head(batch) \in RxEntries
    BY <1>1, <1>2, <1>3, QueueFacts
  <2>2. Head(batch).num \in 1 .. MaxPackets
    BY <2>1 DEF RxEntries
  <2> QED BY <1>1, <1>2, <1>3, <2>2, QueueFacts
<1>4. ASSUME qpc \in Copying PROVE NextDest(todo) \in todo /\ NextDest(todo) \in Destinations
  BY <1>1, <1>2, <1>4, NextDestIn
<1> QED BY <1>3, <1>4

LEMMA SetupTypedStep ==
  ASSUME SetupTyped, [Next]_vars
  PROVE  SetupTyped'
<1> USE DEF SetupTyped, setupVars
<1>1. CASE initialize
  BY <1>1, InitOrder, Zenon
  DEF loadXdpProgram, configureXdpProgram, bind, registerXskMap, socketVars
<1>2. CASE Joined
  BY <1>2 DEF Joined, unloadXdpProgram
<1>3. CASE Destroy
  BY <1>3 DEF Destroy, close
<1>4. CASE UNCHANGED setupVars
  BY <1>4
<1> QED BY <1>1, <1>2, <1>3, <1>4, Frames DEF Framed

LEMMA TxTypedStep ==
  ASSUME TypeOK, Lifecycle, InHand, TxRings, [Next]_vars
  PROVE  TxTyped'
<1> USE DEF txVars
<1>0. TxTyped /\ TX_FRAMES \in Nat \ {0}
  BY SocketAssumption DEF TypeOK
<1>1. CASE QPoll
  <2>1. qpc = "poll" /\ pollTxCompletions /\ UNCHANGED <<prevUmemTxFrame, umem, tx, driver, awake>>
    BY <1>1 DEF QPoll
  <2>2. /\ cq' \in Seq(TxFrames) /\ cachedCompletions' \in 0 .. COMP_SIZE
        /\ cqSeen' \in 0 .. COMP_SIZE /\ outstandingTx' \in Nat
    BY <2>1, OpenWhileWorking, PollFacts
  <2> QED BY <1>0, <2>1, <2>2 DEF TxTyped
<1>2. CASE QBuild
  <2>1. /\ prevUmemTxFrame' = (prevUmemTxFrame + 1) % TX_FRAMES /\ qpc = "build"
        /\ umem' = [umem EXCEPT ![prevUmemTxFrame]
                      = [dest |-> NextDest(todo), num |-> Head(batch).num]]
        /\ UNCHANGED <<cachedCompletions, outstandingTx, tx, cq, cqSeen, driver, awake>>
    BY <1>2 DEF QBuild, TakeFrame, getNextTxFrame
  <2>2. [dest |-> NextDest(todo), num |-> Head(batch).num] \in Packets
    BY <2>1, HandFacts DEF Packets, Handling, Copying
  <2>3. prevUmemTxFrame' \in TxFrames
    BY <1>0, <2>1 DEF TxTyped, TxFrames
  <2>4. umem' \in [TxFrames -> Packets \cup {Nothing}]
    BY <1>0, <2>1, <2>2 DEF TxTyped
  <2> QED BY <1>0, <2>1, <2>3, <2>4 DEF TxTyped
<1>3. CASE QReserve
  <2>1. /\ qpc = "reserve"
        /\ \/ UNCHANGED <<tx, outstandingTx>>
           \/ /\ tx' = Append(tx, [frame |-> frame, dest |-> NextDest(todo), num |-> Head(batch).num])
              /\ outstandingTx' = outstandingTx + 1
        /\ UNCHANGED <<prevUmemTxFrame, cachedCompletions, umem, cq, cqSeen, driver, awake>>
    BY <1>3 DEF QReserve, submitTxRing
  <2>2. [frame |-> frame, dest |-> NextDest(todo), num |-> Head(batch).num] \in TxEntries
    BY <2>1, HandFacts DEF TypeOK, QueueTyped, TxEntries, Handling, Copying
  <2>3. tx' \in Seq(TxEntries) /\ outstandingTx' \in Nat
    <3>1. tx \in Seq(TxEntries) /\ outstandingTx \in Nat
      BY <1>0 DEF TxTyped
    <3>2. Append(tx, [frame |-> frame, dest |-> NextDest(todo), num |-> Head(batch).num])
            \in Seq(TxEntries)
      BY <2>2, <3>1, AppendProperties
    <3> QED BY <2>1, <3>1, <3>2, SMTT(30)
  <2> QED BY <1>0, <2>1, <2>3 DEF TxTyped
<1>4. ASSUME NEW refusal \in BOOLEAN, QWake(refusal) PROVE TxTyped'
  <2>1. awake' \in BOOLEAN
    BY <1>4, Zenon DEF QWake, NextDestination, requestDriverPoll
  <2>2. UNCHANGED <<prevUmemTxFrame, cachedCompletions, outstandingTx, umem, tx, cq, cqSeen, driver>>
    BY <1>4 DEF QWake, NextDestination
  <2> QED BY <1>0, <2>1, <2>2 DEF TxTyped
<1>5. CASE Destroy
  <2>1. /\ tx' = <<>> /\ driver' = <<>>
        /\ UNCHANGED <<prevUmemTxFrame, cachedCompletions, outstandingTx, umem, cq, cqSeen, awake>>
    BY <1>5 DEF Destroy, close
  <2> QED BY <1>0, <2>1 DEF TxTyped
<1>6. CASE DriverTakes
  <2>1. /\ tx # <<>> /\ tx' = Tail(tx) /\ driver' = Append(driver, Head(tx))
        /\ UNCHANGED <<prevUmemTxFrame, cachedCompletions, outstandingTx, umem, cq, cqSeen, awake>>
    BY <1>6 DEF DriverTakes, KernelTxTake
  <2>2. tx' \in Seq(TxEntries) /\ driver' \in Seq(TxEntries)
    BY <1>0, <2>1, QueueFacts, AppendProperties DEF TxTyped
  <2> QED BY <1>0, <2>1, <2>2 DEF TxTyped
<1>7. CASE DriverSends
  <2>1. /\ driver # <<>> /\ driver' = Tail(driver) /\ cq' = Append(cq, Head(driver).frame)
        /\ UNCHANGED <<prevUmemTxFrame, cachedCompletions, outstandingTx, umem, tx, cqSeen, awake>>
    BY <1>7 DEF DriverSends, KernelTxComplete
  <2>2. driver' \in Seq(TxEntries) /\ Head(driver) \in TxEntries
    BY <1>0, <2>1, QueueFacts DEF TxTyped
  <2>3. Head(driver).frame \in TxFrames
    BY <2>2 DEF TxEntries
  <2>4. cq' \in Seq(TxFrames)
    BY <1>0, <2>1, <2>3, AppendProperties DEF TxTyped
  <2> QED BY <1>0, <2>1, <2>2, <2>4 DEF TxTyped
<1>8. CASE DriverSleeps
  <2>1. /\ awake' = FALSE
        /\ UNCHANGED <<prevUmemTxFrame, cachedCompletions, outstandingTx, umem, tx, cq, cqSeen, driver>>
    BY <1>8 DEF DriverSleeps, KernelSleep
  <2> QED BY <1>0, <2>1 DEF TxTyped
<1>9. CASE UNCHANGED txVars
  BY <1>0, <1>9 DEF TxTyped
<1>10. CASE QBuildThrows
  <2>1. /\ prevUmemTxFrame' = (prevUmemTxFrame + 1) % TX_FRAMES
        /\ umem' = [umem EXCEPT ![prevUmemTxFrame] = Nothing]
        /\ UNCHANGED <<cachedCompletions, outstandingTx, tx, cq, cqSeen, driver, awake>>
    BY <1>10 DEF QBuildThrows, TakeFrame, getNextTxFrame
  <2>2. prevUmemTxFrame' \in TxFrames
    BY <1>0, <2>1 DEF TxTyped, TxFrames
  <2>3. umem' \in [TxFrames -> Packets \cup {Nothing}]
    BY <1>0, <2>1 DEF TxTyped
  <2> QED BY <1>0, <2>1, <2>2, <2>3 DEF TxTyped
<1> QED BY <1>1, <1>2, <1>3, <1>4, <1>5, <1>6, <1>7, <1>8, <1>9, <1>10, Frames DEF Framed, TxStep

LEMMA RxTypedStep ==
  ASSUME TypeOK, [Next]_vars
  PROVE  RxTyped'
<1> USE DEF rxVars
<1>0. RxTyped /\ RX_FRAMES \in Nat \ {0} /\ TX_FRAMES \in Nat \ {0} /\ Len(rx) \in Nat
  BY Sizes DEF TypeOK
<1>1. ASSUME NEW n \in 1 .. MAX_ENTRIES, QReceive(n) PROVE RxTyped'
  <2>1. /\ n \in 1 .. Len(rx) /\ fq' = fq /\ rx' = SubSeq(rx, n + 1, Len(rx))
        /\ pendingRecycle' = [k \in 1 .. n |-> rx[k].frame]
    BY <1>0, <1>1, SocketAssumption DEF QReceive, receive, Least
  <2>2. rx \in Seq(RxEntries) /\ \A k \in 1 .. Len(rx) : rx[k] \in RxEntries
    BY <1>0, ElementOfSeq DEF RxTyped
  <2>3. rx' \in Seq(RxEntries)
    BY <1>0, <2>1, <2>2, SubSeqProperties
  <2>4. \A k \in 1 .. n : rx[k].frame \in RxFrames
    <3>1. \A k \in 1 .. n : k \in 1 .. Len(rx)
      BY <1>0, <2>1
    <3>2. \A e \in RxEntries : e.frame \in RxFrames
      BY DEF RxEntries
    <3> QED BY <2>2, <3>1, <3>2
  <2>5. pendingRecycle' \in Seq(RxFrames)
    BY <2>1, <2>4
  <2> QED BY <1>0, <2>1, <2>3, <2>5 DEF RxTyped
<1>2. CASE QRecycle
  <2>1. (fq' = fq \/ fq' = fq \o pendingRecycle) /\ pendingRecycle' = <<>> /\ rx' = rx
    BY <1>2 DEF QRecycle, recycleFrames
  <2>2. fq \o pendingRecycle \in Seq(RxFrames)
    BY <1>0, ConcatProperties DEF RxTyped
  <2>3. fq' \in Seq(RxFrames)
    BY <1>0, <2>1, <2>2 DEF RxTyped
  <2> QED BY <1>0, <2>1, <2>3 DEF RxTyped
<1>3. CASE initialize
  <2>1. [k \in 1 .. RX_FRAMES |-> TX_FRAMES + k - 1] \in Seq(RxFrames)
    BY <1>0 DEF RxFrames
  <2>2. /\ fq' = fq \/ fq' = [k \in 1 .. RX_FRAMES |-> TX_FRAMES + k - 1]
        /\ UNCHANGED <<pendingRecycle, rx>>
    BY <1>3, InitOrder DEF socketVars, loadXdpProgram, configureXdpProgram, bind, registerXskMap
  <2> QED BY <1>0, <2>1, <2>2 DEF RxTyped
<1>4. ASSUME NEW p \in Shapes, Arrive(p) PROVE RxTyped'
  <2>1. pendingRecycle' = pendingRecycle
    BY <1>4 DEF Arrive, KernelRx
  <2>2. CASE unicast_filter(p) /\ fq # <<>> /\ Len(rx) < RX_FRAMES
    <3>1. /\ rx' = Append(rx, [frame |-> Head(fq), num |-> arrived', shape |-> p])
          /\ fq' = Tail(fq) /\ arrived' \in 1 .. MaxPackets
      BY <1>4, <2>2, ReplicatorAssumption DEF Arrive, KernelRx, TypeOK, MainTyped
    <3>2. Head(fq) \in RxFrames /\ Tail(fq) \in Seq(RxFrames)
      BY <1>0, <2>2, QueueFacts DEF RxTyped
    <3>3. [frame |-> Head(fq), num |-> arrived', shape |-> p] \in RxEntries
      BY <3>1, <3>2 DEF RxEntries
    <3>4. rx' \in Seq(RxEntries)
      BY <1>0, <3>1, <3>3, AppendProperties DEF RxTyped
    <3> QED BY <1>0, <2>1, <3>1, <3>2, <3>4 DEF RxTyped
  <2>3. CASE ~(unicast_filter(p) /\ fq # <<>> /\ Len(rx) < RX_FRAMES)
    BY <1>0, <1>4, <2>1, <2>3 DEF Arrive, KernelRx, RxTyped
  <2> QED BY <2>2, <2>3
<1>5. CASE UNCHANGED rxVars
  BY <1>0, <1>5 DEF RxTyped
<1> QED BY <1>1, <1>2, <1>3, <1>4, <1>5, Frames DEF Framed, RxStep
LEMMA QueueTypedStep ==
  ASSUME TypeOK, InHand, [Next]_vars
  PROVE  QueueTyped'
<1> USE DEF queueVars
<1>0. QueueTyped /\ Len(rx) \in Nat /\ Len(batch) \in Nat
  BY Sizes DEF TypeOK
<1>1. ASSUME NEW n \in 1 .. MAX_ENTRIES, QReceive(n) PROVE QueueTyped'
  <2>1. /\ n \in 1 .. Len(rx) /\ batch' = SubSeq(rx, 1, n) /\ qpc' = "packet"
        /\ UNCHANGED <<current, todo, frame, packetsReceived, packetsSent>>
    BY <1>0, <1>1, SocketAssumption DEF QReceive, receive, Least
  <2>2. rx \in Seq(RxEntries)
    BY DEF TypeOK, RxTyped
  <2>3. batch' \in Seq(RxEntries)
    BY <1>0, <2>1, <2>2, SubSeqProperties
  <2> QED BY <1>0, <2>1, <2>3 DEF QueueTyped
<1>2. CASE QPacket
  <2>1. /\ qpc = "packet" /\ packetsReceived' = packetsReceived + 1
        /\ batch' = batch \/ batch' = Tail(batch)
        /\ qpc' \in {"snapshot", "packet", "recycle"}
        /\ UNCHANGED <<current, todo, frame, packetsSent>>
    BY <1>2 DEF QPacket, AfterPacket
  <2>2. Tail(batch) \in Seq(RxEntries) /\ Len(batch) \in Nat \ {0}
    BY <2>1, HandFacts DEF Handling
  <2>3. packetsReceived' \in 0 .. MaxPackets
    <3>2. arrived \in 0 .. MaxPackets /\ packetsReceived \in 0 .. MaxPackets
      BY <1>0 DEF TypeOK, MainTyped, QueueTyped
    <3>1. packetsReceived + Len(rx) + Len(batch) <= arrived + 0
      BY <2>1 DEF InHand
    <3> QED BY <1>0, <2>1, <2>2, <3>1, <3>2, ReplicatorAssumption
  <2> QED BY <1>0, <2>1, <2>2, <2>3 DEF QueueTyped
<1>3. CASE QSnapshot
  <2>1. /\ qpc = "snapshot" /\ current' = destinations /\ todo' = destinations
        /\ batch' = batch \/ batch' = Tail(batch)
        /\ qpc' \in {"poll", "packet", "recycle"}
        /\ UNCHANGED <<frame, packetsReceived, packetsSent>>
    BY <1>3 DEF QSnapshot, AfterPacket, Copied
  <2>2. Tail(batch) \in Seq(RxEntries)
    BY <2>1, HandFacts DEF Handling
  <2>3. destinations \subseteq Destinations
    BY DEF TypeOK, ControlTyped
  <2> QED BY <1>0, <2>1, <2>2, <2>3 DEF QueueTyped
<1>4. CASE QThrow
  <2>1. /\ batch' = <<>> /\ qpc' = "loop"
        /\ UNCHANGED <<current, todo, frame, packetsReceived, packetsSent>>
    BY <1>4 DEF QThrow
  <2>2. <<>> \in Seq(RxEntries)
    OBVIOUS
  <2>3. batch' \in Seq(RxEntries)
    BY <2>1, <2>2
  <2> QED BY <1>0, <2>1, <2>3 DEF QueueTyped
<1>5. CASE QPoll
  <2>1. qpc' = "build" /\ UNCHANGED <<batch, current, todo, frame, packetsReceived, packetsSent>>
    BY <1>5 DEF QPoll
  <2> QED BY <1>0, <2>1 DEF QueueTyped
<1>6. CASE QBuild \/ QBuildThrows
  <2>1. /\ qpc' \in {"reserve", "fallback"} /\ frame' = prevUmemTxFrame
        /\ UNCHANGED <<batch, current, todo, packetsReceived, packetsSent>>
    BY <1>6 DEF QBuild, QBuildThrows, TakeFrame
  <2>2. prevUmemTxFrame \in TxFrames
    BY DEF TypeOK, TxTyped
  <2> QED BY <1>0, <2>1, <2>2 DEF QueueTyped
<1>7. CASE QReserve
  <2>1. /\ qpc' \in {"wake", "give up"}
        /\ UNCHANGED <<batch, current, todo, frame, packetsReceived, packetsSent>>
    BY <1>7 DEF QReserve
  <2> QED BY <1>0, <2>1 DEF QueueTyped
<1>8. ASSUME NEW sent \in BOOLEAN, qpc \in {"wake", "give up", "fallback"},
             packetsSent' = packetsSent + SentBy(sent), NextDestination,
             UNCHANGED <<current, frame, packetsReceived>>
      PROVE  QueueTyped'
  <2>1. /\ qpc \in {"wake", "give up", "fallback"} /\ todo' = todo \ {NextDest(todo)}
        /\ packetsSent' = packetsSent + (IF sent THEN 1 ELSE 0)
        /\ UNCHANGED <<current, frame, packetsReceived>>
    BY <1>8 DEF NextDestination, SentBy
  <2>2. /\ batch' = batch \/ batch' = Tail(batch)
        /\ qpc' \in {"poll", "packet", "recycle"}
    BY <1>8 DEF NextDestination, AfterPacket
  <2>3. Tail(batch) \in Seq(RxEntries)
    BY <2>1, HandFacts DEF Handling
  <2>4. batch' \in Seq(RxEntries) /\ packetsSent' \in Nat /\ todo' \subseteq current
    <3>1. batch' \in Seq(RxEntries)
      BY <1>0, <2>2, <2>3 DEF QueueTyped
    <3>2. packetsSent' \in Nat
      <4>1. packetsSent' = packetsSent + 1 \/ packetsSent' = packetsSent + 0
        BY <2>1
      <4>2. packetsSent \in Nat
        BY <1>0 DEF QueueTyped
      <4> QED BY <4>1, <4>2
    <3>3. todo' \subseteq current
      BY <1>0, <2>1 DEF QueueTyped
    <3> QED BY <3>1, <3>2, <3>3
  <2> QED BY <1>0, <2>1, <2>2, <2>4 DEF QueueTyped
<1>9. CASE QRecycle \/ QExit \/ start
  <2>1. /\ qpc' \in {"loop", "done"}
        /\ UNCHANGED <<batch, current, todo, frame, packetsReceived, packetsSent>>
    BY <1>9 DEF QRecycle, QExit, start
  <2> QED BY <1>0, <2>1 DEF QueueTyped
<1>10. CASE UNCHANGED queueVars
  BY <1>0, <1>10 DEF QueueTyped
<1>11. ASSUME NEW refusal \in BOOLEAN, QWake(refusal) PROVE QueueTyped'
  <2>1. /\ qpc \in {"wake", "give up"} /\ packetsSent' = packetsSent + SentBy(qpc = "wake")
        /\ NextDestination /\ UNCHANGED <<current, frame, packetsReceived>>
        /\ (qpc = "wake") \in BOOLEAN
    BY <1>11 DEF QWake
  <2> QED BY <1>8, <2>1
<1>12. ASSUME NEW ok \in BOOLEAN, QFallback(ok) PROVE QueueTyped'
  <2>1. /\ qpc = "fallback" /\ packetsSent' = packetsSent + SentBy(ok)
        /\ NextDestination /\ UNCHANGED <<current, frame, packetsReceived>>
    BY <1>12 DEF QFallback
  <2> QED BY <1>8, <2>1
<1> QED BY <1>1, <1>2, <1>3, <1>4, <1>5, <1>6, <1>7, <1>9, <1>10, <1>11, <1>12, Frames
        DEF Framed, QueueStep

LEMMA ControlTypedStep ==
  ASSUME TypeOK, [Next]_vars
  PROVE  ControlTyped'
<1> USE DEF controlVars
<1>0. ControlTyped
  BY DEF TypeOK
<1>1. ASSUME NEW m \in Message, CtlReceive(m) PROVE ControlTyped'
  <2>1. /\ messages' = messages + 1 /\ messages < MaxMessages /\ cmd' = m
        /\ cpc' \in {"receive", "lock", "done"} /\ UNCHANGED <<destinations, mutex>>
    BY <1>1 DEF CtlReceive, LoopTest
  <2> QED BY <1>0, <2>1, ReplicatorAssumption DEF ControlTyped
<1>2. CASE CtlLock
  <2>1. cmd.op = "add" => cmd.dest \in Destinations
    BY <1>0 DEF ControlTyped, Message
  <2>2. /\ destinations' \subseteq Destinations /\ mutex' \in {"free", "control"}
        /\ cpc' \in {"arp", "reply"} /\ UNCHANGED <<cmd, messages>>
    BY <1>0, <1>2, <2>1 DEF ControlTyped, CtlLock, removeDestination
  <2> QED BY <1>0, <2>2 DEF ControlTyped
<1>3. CASE CtlArp \/ CtlReply \/ CtlTimeout \/ start
  <2>1. /\ cpc' \in {"reply", "receive", "done"} /\ UNCHANGED <<messages, destinations>>
        /\ cmd' = cmd \/ cmd' = NoMessage
        /\ mutex' = mutex \/ mutex' = "free"
    BY <1>3 DEF CtlArp, CtlReply, CtlTimeout, LoopTest, start
  <2> QED BY <1>0, <2>1 DEF ControlTyped, NoMessage, Message
<1>4. CASE UNCHANGED <<controlVars, destinations, mutex>>
  BY <1>0, <1>4 DEF ControlTyped
<1> QED BY <1>1, <1>2, <1>3, <1>4, Frames DEF Framed, ControlStep

LEMMA MainTypedStep ==
  ASSUME MainTyped, GhostTyped, [Next]_vars
  PROVE  MainTyped'
<1>1. running' \in BOOLEAN
  BY Frames, Zenon
  DEF Framed, MainStep, MainTyped, initialize, initializeThrows, start, stop, Joined, Destroy
<1>2. mpc' \in ToSet(InitSteps) \cup {"failed", "running", "joining", "unloaded", "done", "aborted"}
  <2>1. CASE initialize
    BY <2>1, InitOrder, InitSet
  <2>2. CASE initializeThrows \/ start \/ stop \/ Joined \/ Destroy
    BY <2>2 DEF initializeThrows, start, stop, Joined, Destroy
  <2>3. CASE UNCHANGED mpc
    BY <2>3 DEF MainTyped
  <2> QED BY <2>1, <2>2, <2>3, Frames DEF Framed, MainStep
<1>3. arrived' \in 0 .. MaxPackets
  BY Frames, ReplicatorAssumption DEF Framed, MainTyped, Arrive
<1>4. faults' \in 0 .. MaxFaults
  BY Frames, ReplicatorAssumption DEF Framed, MainTyped, GhostTyped, QThrow
<1> QED BY <1>1, <1>2, <1>3, <1>4 DEF MainTyped

LEMMA GhostTypedStep ==
  ASSUME TypeOK, InHand, [Next]_vars
  PROVE  GhostTyped'
<1>0. GhostTyped /\ Len(tx) \in Nat /\ Len(driver) \in Nat
  BY Sizes DEF TypeOK
<1>1. failed' \in Nat
  <2>1. QReserve \/ QBuildThrows => failed' = failed \/ failed' = failed + 1
    BY DEF QReserve, QBuildThrows
  <2> QED BY <1>0, <2>1, Frames DEF Framed, GhostTyped
<1>2. transmitted' \in Nat
  BY <1>0, Frames DEF Framed, GhostTyped, DriverSends
<1>3. lostAtClose' \in Nat
  BY <1>0, Frames DEF Framed, GhostTyped, Destroy
<1>4. refused' \in BOOLEAN
  BY <1>0, Frames, Zenon DEF Framed, GhostTyped, QWake, NextDestination
<1>5. late' \in [Destinations -> Nat]
  <2>0. late \in [Destinations -> Nat]
    BY <1>0 DEF GhostTyped
  <2>1. CASE QBuild \/ QBuildThrows
    <3>1. /\ qpc = "build"
          /\ late' = [late EXCEPT ![NextDest(todo)]
                        = @ + (IF NextDest(todo) \in destinations THEN 0 ELSE 1)]
      BY <2>1 DEF QBuild, QBuildThrows, TakeFrame
    <3>2. NextDest(todo) \in Destinations
      BY <3>1, HandFacts DEF Copying
    <3> QED BY <2>0, <3>1, <3>2
  <2>2. CASE CtlLock
    <3>1. late' = late \/ late' = [late EXCEPT ![cmd.dest] = 0]
      BY <2>2 DEF CtlLock
    <3> QED BY <2>0, <3>1
  <2> QED BY <2>0, <2>1, <2>2, Frames DEF Framed
<1>6. thrown' \in 0 .. MaxFaults
  <2>1. QBuildThrows => thrown' = thrown + 1 /\ faults + thrown < MaxFaults
    BY DEF QBuildThrows
  <2>2. faults \in Nat /\ thrown \in 0 .. MaxFaults /\ MaxFaults \in Nat
    BY <1>0, ReplicatorAssumption DEF TypeOK, MainTyped, GhostTyped
  <2> QED BY <2>1, <2>2, Frames DEF Framed
<1>7. bySocket' \in Nat
  <2>1. bySocket \in Nat
    BY <1>0 DEF GhostTyped
  <2>2. ASSUME NEW ok \in BOOLEAN, QFallback(ok) PROVE bySocket' \in Nat
    <3>1. bySocket' = bySocket + 1 \/ bySocket' = bySocket + 0
      BY <2>2 DEF QFallback
    <3> QED BY <2>1, <3>1
  <2> QED BY <2>1, <2>2, Frames DEF Framed
<1> QED BY <1>1, <1>2, <1>3, <1>4, <1>5, <1>6, <1>7 DEF GhostTyped

LEMMA TypeStep ==
  ASSUME TypeOK, Lifecycle, InHand, TxRings, [Next]_vars
  PROVE  TypeOK'
BY SetupTypedStep, TxTypedStep, RxTypedStep, QueueTypedStep, ControlTypedStep, MainTypedStep,
   GhostTypedStep DEF TypeOK
-----------------------------------------------------------------------------
(* The parts of the invariant *)

LEMMA LifecycleStep ==
  ASSUME TypeOK, Lifecycle, [Next]_vars
  PROVE  Lifecycle'
<1> USE DEF setupVars, txVars, rxVars, queueVars, controlVars, ghostVars, socketVars, threadVars
<1>0. mpc \in {"limits", "load", "configure", "bind", "register", "control", "output", "start",
               "failed", "running", "joining", "unloaded", "done", "aborted"}
  BY InitSet DEF TypeOK, MainTyped
<1>1. ASSUME qpc \notin {"off", "done"}, qpc' \notin {"off"},
             UNCHANGED <<closed, mpc, lostAtClose, xskMap>>
      PROVE  Lifecycle'
  <2>1. mpc \in {"running", "joining"}
    BY <1>1, OpenWhileWorking
  <2> QED BY <1>1, <2>1 DEF Lifecycle
<1>2. ASSUME UNCHANGED <<closed, mpc, lostAtClose, xskMap, qpc, rxVars>>
      PROVE  Lifecycle'
  BY <1>2 DEF Lifecycle
<1>3. ASSUME NEW n \in 1 .. MAX_ENTRIES, QReceive(n) PROVE Lifecycle'
  BY <1>1, <1>3 DEF QReceive
<1>4. CASE QPacket
  BY <1>1, <1>4 DEF QPacket, AfterPacket
<1>5. CASE QSnapshot
  BY <1>1, <1>5 DEF QSnapshot, AfterPacket
<1>6. CASE QThrow
  BY <1>1, <1>6 DEF QThrow
<1>7. CASE QPoll
  BY <1>1, <1>7 DEF QPoll
<1>8. CASE QBuild \/ QBuildThrows
  BY <1>1, <1>8 DEF QBuild, QBuildThrows, TakeFrame
<1>9. CASE QReserve
  BY <1>1, <1>9 DEF QReserve
<1>10. ASSUME NEW refusal \in BOOLEAN, QWake(refusal) PROVE Lifecycle'
  <2>1. qpc \in {"wake", "give up"} /\ qpc' \in {"poll", "packet", "recycle"}
    BY <1>10 DEF QWake, NextDestination, AfterPacket
  <2>2. UNCHANGED <<closed, mpc, lostAtClose, xskMap>>
    BY <1>10 DEF QWake, NextDestination
  <2> QED BY <1>1, <2>1, <2>2
<1>11. CASE QRecycle
  BY <1>1, <1>11 DEF QRecycle
<1>12. CASE QExit
  BY <1>1, <1>12 DEF QExit
<1>13. ASSUME NEW m \in Message, CtlReceive(m) PROVE Lifecycle'
  BY <1>2, <1>13 DEF CtlReceive
<1>14. CASE CtlLock
  BY <1>2, <1>14 DEF CtlLock
<1>15. CASE CtlArp \/ CtlReply \/ CtlTimeout
  BY <1>2, <1>15 DEF CtlArp, CtlReply, CtlTimeout, LoopTest
<1>16. CASE initialize
  <2>1. UNCHANGED <<qpc, lostAtClose, pendingRecycle, closed, rx>>
    BY <1>16, InitOrder
    DEF initialize, loadXdpProgram, configureXdpProgram, bind, registerXskMap
  <2>2. mpc # "bind" => fq' = fq
    BY <1>16, InitOrder DEF loadXdpProgram, configureXdpProgram, registerXskMap
  <2>3. mpc # "register" => xskMap' = xskMap
    BY <1>16, InitOrder DEF loadXdpProgram, configureXdpProgram, bind
  <2>4. <<mpc, mpc'>> \in {<<"limits", "load">>, <<"load", "configure">>, <<"configure", "bind">>,
                            <<"bind", "register">>, <<"register", "control">>,
                            <<"control", "output">>, <<"output", "start">>}
    BY <1>16, InitOrder
  <2> QED BY <2>1, <2>2, <2>3, <2>4 DEF Lifecycle
<1>17. CASE initializeThrows
  <2>1. /\ mpc \in {"limits", "load", "configure", "bind", "register", "control", "output"}
        /\ mpc' = "failed"
        /\ UNCHANGED <<closed, lostAtClose, xskMap, qpc, rxVars>>
    BY <1>17, InitSet DEF initializeThrows
  <2> QED BY <2>1 DEF Lifecycle
<1>18. CASE start
  <2>1. /\ mpc = "start" /\ mpc' = "running" /\ qpc' = "loop"
        /\ UNCHANGED <<closed, lostAtClose, xskMap, rxVars>>
    BY <1>18 DEF start
  <2> QED BY <2>1 DEF Lifecycle
<1>19. CASE stop
  <2>1. /\ mpc = "running" /\ mpc' = "joining"
        /\ UNCHANGED <<closed, lostAtClose, xskMap, qpc, rxVars>>
    BY <1>19 DEF stop
  <2> QED BY <2>1 DEF Lifecycle
<1>20. CASE Joined
  <2>1. /\ mpc = "joining" /\ mpc' = "unloaded" /\ qpc = "done"
        /\ UNCHANGED <<closed, lostAtClose, xskMap, qpc, rxVars>>
    BY <1>20 DEF Joined, unloadXdpProgram
  <2> QED BY <2>1 DEF Lifecycle
<1>21. CASE Destroy
  <2>1. /\ \/ mpc = "unloaded" /\ mpc' = "done"
           \/ mpc = "failed" /\ mpc' = "aborted"
        /\ closed' = TRUE /\ xskMap' = FALSE /\ UNCHANGED <<qpc, rxVars>>
    BY <1>21 DEF Destroy, close
  <2> QED BY <2>1 DEF Lifecycle
<1>22. ASSUME NEW p \in Shapes, Arrive(p) PROVE Lifecycle'
  <2>1. UNCHANGED <<closed, mpc, lostAtClose, xskMap, qpc, pendingRecycle>>
    BY <1>22 DEF Arrive, KernelRx
  <2>2. ~xskMap => UNCHANGED <<fq, rx>>
    BY <1>22 DEF Arrive, KernelRx, unicast_filter
  <2> QED BY <2>1, <2>2 DEF Lifecycle
<1>23. CASE DriverTakes \/ DriverSends \/ DriverSleeps
  BY <1>2, <1>23 DEF DriverTakes, DriverSends, DriverSleeps, KernelTxTake, KernelTxComplete, KernelSleep
<1>24. CASE UNCHANGED vars
  BY <1>2, <1>24 DEF vars
<1>25. ASSUME NEW ok \in BOOLEAN, QFallback(ok) PROVE Lifecycle'
  <2>1. qpc = "fallback" /\ qpc' \in {"poll", "packet", "recycle"}
    BY <1>25 DEF QFallback, NextDestination, AfterPacket
  <2>2. UNCHANGED <<closed, mpc, lostAtClose, xskMap>>
    BY <1>25 DEF QFallback
  <2> QED BY <1>1, <2>1, <2>2
<1> QED BY ActionCases, <1>3, <1>4, <1>5, <1>6, <1>7, <1>8, <1>9, <1>10, <1>11, <1>12, <1>13,
           <1>14, <1>15, <1>16, <1>17, <1>18, <1>19, <1>20, <1>21, <1>22, <1>23, <1>24, <1>25

LEMMA InHandStep ==
  ASSUME TypeOK, InHand, Lifecycle, [Next]_vars
  PROVE  InHand'
<1> USE DEF queueVars
<1>0. /\ packetsReceived \in Nat /\ arrived \in Nat /\ Len(rx) \in Nat /\ Len(batch) \in Nat
      /\ rx \in Seq(RxEntries) /\ batch \in Seq(RxEntries) /\ MAX_ENTRIES \in Nat
  <2>1. packetsReceived \in 0 .. MaxPackets /\ arrived \in 0 .. MaxPackets /\ MaxPackets \in Nat
    BY ReplicatorAssumption DEF TypeOK, QueueTyped, MainTyped
  <2>2. packetsReceived \in Nat /\ arrived \in Nat
    BY <2>1
  <2>3. rx \in Seq(RxEntries) /\ batch \in Seq(RxEntries)
    BY DEF TypeOK, RxTyped, QueueTyped
  <2> QED BY <2>2, <2>3, Sizes
<1>1. ASSUME NEW n \in 1 .. MAX_ENTRIES, QReceive(n) PROVE InHand'
  <2>1. /\ qpc = "loop" /\ n \in 1 .. Len(rx) /\ rx' = SubSeq(rx, n + 1, Len(rx))
        /\ batch' = SubSeq(rx, 1, n) /\ qpc' = "packet"
        /\ UNCHANGED <<todo, packetsReceived, arrived>>
    BY <1>0, <1>1 DEF QReceive, receive, Least
  <2>2. Len(rx') = Len(rx) - n /\ Len(batch') = n /\ batch' \in Seq(RxEntries)
    BY <1>0, <2>1, SubSeqProperties
  <2>3. batch = <<>> /\ todo = {} /\ packetsReceived + Len(rx) <= arrived
    BY <1>0, <2>1 DEF InHand, Handling, Copying
  <2>4. batch' # <<>>
    BY <2>1, <2>2
  <2>5. packetsReceived' + Len(rx') + Len(batch') <= arrived'
    BY <1>0, <2>1, <2>2, <2>3
  <2> QED BY <1>0, <2>1, <2>3, <2>4, <2>5 DEF InHand, Handling, Copying
<1>2. ASSUME UNCHANGED <<rx, arrived>>, qpc \in Handling,
             packetsReceived' = packetsReceived + (IF qpc = "packet" THEN 1 ELSE 0),
             \/ batch' = Tail(batch) /\ qpc' = AfterPacket(batch')
             \/ batch' = batch /\ qpc' \in Handling \ {"packet"},
             todo' # {} <=> qpc' \in Copying
      PROVE  InHand'
  <2>1. /\ batch # <<>> /\ Len(Tail(batch)) = Len(batch) - 1 /\ Len(batch) \in Nat \ {0}
        /\ Tail(batch) \in Seq(RxEntries)
    BY <1>2, HandFacts
  <2>2. packetsReceived' + Len(rx) + Len(batch) <= arrived + 1 /\ packetsReceived' \in Nat
    <3>1. CASE qpc = "packet"
      <4>1. packetsReceived' = packetsReceived + 1 /\ packetsReceived + Len(rx) + Len(batch) <= arrived + 0
        BY <1>2, <3>1 DEF InHand
      <4> QED BY <1>0, <4>1
    <3>2. CASE qpc # "packet"
      <4>1. packetsReceived' = packetsReceived + 0 /\ packetsReceived + Len(rx) + Len(batch) <= arrived + 1
        BY <1>2, <3>2 DEF InHand
      <4> QED BY <1>0, <4>1
    <3> QED BY <3>1, <3>2
  <2>3. CASE batch' = Tail(batch) /\ qpc' = AfterPacket(batch')
    <3>1. packetsReceived' + Len(rx') + Len(batch') <= arrived'
      BY <1>0, <1>2, <2>1, <2>2, <2>3
    <3>2. qpc' \in {"packet", "recycle"} /\ (batch' # <<>> <=> qpc' = "packet")
      BY <2>3 DEF AfterPacket
    <3>3. (batch' # <<>> <=> qpc' \in Handling) /\ qpc' \notin Handling \ {"packet"}
      BY <3>2 DEF Handling
    <3>4. packetsReceived' + Len(rx') + Len(batch') <= arrived' + 0
      <4>1. arrived' \in Nat
        BY <1>0, <1>2
      <4>2. arrived' + 0 = arrived'
        BY <4>1, PlusZero, Zenon
      <4> QED BY <3>1, <4>2
    <3> QED BY <1>2, <3>3, <3>4 DEF InHand
  <2>4. CASE batch' = batch /\ qpc' \in Handling \ {"packet"}
    BY <1>0, <1>2, <2>1, <2>2, <2>4 DEF InHand
  <2> QED BY <1>2, <2>3, <2>4
<1>3. CASE QPacket
  <2>1. /\ qpc = "packet" /\ packetsReceived' = packetsReceived + 1
        /\ \/ batch' = Tail(batch) /\ qpc' = AfterPacket(batch')
           \/ batch' = batch /\ qpc' = "snapshot"
        /\ UNCHANGED <<todo, rx, arrived>>
    BY <1>3 DEF QPacket, socketVars, rxVars
  <2>2. todo' = {}
    BY <2>1 DEF InHand, Copying
  <2>3. qpc' \notin Copying
    BY <2>1 DEF AfterPacket, Copying
  <2>4. packetsReceived' = packetsReceived + (IF qpc = "packet" THEN 1 ELSE 0)
    BY <2>1
  <2> QED BY <1>2, <2>1, <2>2, <2>3, <2>4 DEF Handling
<1>4. CASE QSnapshot
  <2>1. /\ qpc = "snapshot" /\ UNCHANGED <<rx, arrived, packetsReceived>>
        /\ \/ todo' = {} /\ batch' = Tail(batch) /\ qpc' = AfterPacket(batch')
           \/ todo' # {} /\ batch' = batch /\ qpc' = "poll"
    BY <1>4 DEF QSnapshot, socketVars, rxVars
  <2>2. todo' # {} <=> qpc' \in Copying
    BY <2>1 DEF AfterPacket, Copying
  <2>3. packetsReceived' = packetsReceived + (IF qpc = "packet" THEN 1 ELSE 0)
    <3>1. (IF qpc = "packet" THEN 1 ELSE 0) = 0 /\ packetsReceived' = packetsReceived
      BY <2>1
    <3> QED BY <1>0, <3>1
  <2> QED BY <1>2, <2>1, <2>2, <2>3 DEF Handling
<1>5. CASE QThrow
  <2>1. /\ qpc = "snapshot" /\ batch' = <<>> /\ qpc' = "loop"
        /\ UNCHANGED <<rx, arrived, packetsReceived, todo>>
    BY <1>5 DEF QThrow, socketVars, rxVars
  <2>2. todo = {} /\ Len(batch) \in Nat \ {0} /\ packetsReceived + Len(rx) + Len(batch) <= arrived + 1
    BY <1>0, <2>1, HandFacts DEF InHand, Handling, Copying
  <2>3. packetsReceived' + Len(rx') + Len(batch') <= arrived'
    BY <1>0, <2>1, <2>2
  <2> QED BY <1>0, <2>1, <2>2, <2>3 DEF InHand, Handling, Copying
<1>6. CASE QPoll \/ QBuild \/ QBuildThrows \/ QReserve
  <2>1. /\ qpc \in {"poll", "build", "reserve"} /\ qpc' \in Copying \ {"poll"}
        /\ UNCHANGED <<rx, arrived, packetsReceived, todo, batch>>
    BY <1>6 DEF QPoll, QBuild, QBuildThrows, TakeFrame, QReserve, rxVars, Copying
  <2>2. packetsReceived' = packetsReceived + (IF qpc = "packet" THEN 1 ELSE 0)
    <3>1. (IF qpc = "packet" THEN 1 ELSE 0) = 0 /\ packetsReceived' = packetsReceived
      BY <2>1
    <3> QED BY <1>0, <3>1
  <2>3. todo' # {}
    BY <2>1 DEF InHand, Copying
  <2> QED BY <1>2, <2>1, <2>2, <2>3 DEF Handling, Copying
<1>7. ASSUME qpc \in {"wake", "give up", "fallback"}, NextDestination,
             UNCHANGED <<rx, arrived, packetsReceived>>
      PROVE  InHand'
  <2>1. /\ qpc \in {"wake", "give up", "fallback"} /\ UNCHANGED <<rx, arrived, packetsReceived>>
        /\ \/ todo' = {} /\ batch' = Tail(batch) /\ qpc' = AfterPacket(batch')
           \/ todo' # {} /\ batch' = batch /\ qpc' = "poll"
    BY <1>7 DEF NextDestination
  <2>2. todo' # {} <=> qpc' \in Copying
    BY <2>1 DEF AfterPacket, Copying
  <2>3. packetsReceived' = packetsReceived + (IF qpc = "packet" THEN 1 ELSE 0)
    <3>1. (IF qpc = "packet" THEN 1 ELSE 0) = 0 /\ packetsReceived' = packetsReceived
      BY <2>1
    <3> QED BY <1>0, <3>1
  <2> QED BY <1>2, <2>1, <2>2, <2>3 DEF Handling
<1>8. CASE QRecycle \/ QExit \/ start
  <2>1. /\ qpc \in {"recycle", "loop", "off"} /\ qpc' \in {"loop", "done"}
        /\ UNCHANGED <<rx, arrived, packetsReceived, todo, batch>>
    <3>1. CASE QRecycle \/ QExit
      BY <3>1 DEF QRecycle, QExit, recycleFrames, socketVars, rxVars
    <3>2. CASE start
      BY <3>2 DEF start, Lifecycle, socketVars, rxVars
    <3> QED BY <1>8, <3>1, <3>2
  <2> QED BY <1>0, <2>1 DEF InHand, Handling, Copying
<1>9. ASSUME UNCHANGED queueVars PROVE InHand'
  <2>1. Len(rx') - arrived' <= Len(rx) - arrived /\ Len(rx') \in Nat /\ arrived' \in Nat
    <3>1. ASSUME NEW p \in Shapes, Arrive(p) PROVE arrived' = arrived + 1 /\ Len(rx') \in {Len(rx), Len(rx) + 1}
      <4>1. arrived' = arrived + 1 /\ (rx' = rx \/ \E x : rx' = Append(rx, x))
        BY <3>1 DEF Arrive, KernelRx
      <4> QED BY <1>0, <4>1, Len(Append(rx, 0)) = Len(rx) + 1
    <3>2. CASE initialize
      <4>1. rx' = rx /\ arrived' = arrived
        BY <3>2, InitOrder
        DEF initialize, loadXdpProgram, configureXdpProgram, bind, registerXskMap, socketVars, rxVars
      <4> QED BY <1>0, <4>1
    <3>3. CASE QRecycle
      BY <1>0, <3>3 DEF QRecycle, recycleFrames
    <3>4. ASSUME NEW n \in 1 .. MAX_ENTRIES, QReceive(n) PROVE FALSE
      BY <1>9, <3>4 DEF QReceive
    <3>5. CASE UNCHANGED <<rx, arrived>>
      BY <1>0, <3>5
    <3> QED BY <1>0, <3>1, <3>2, <3>3, <3>4, <3>5, Frames DEF Framed, RxStep, rxVars
  <2> QED BY <1>0, <1>9, <2>1 DEF InHand
<1>10. CASE \E refusal \in BOOLEAN : QWake(refusal)
  BY <1>7, <1>10 DEF QWake, rxVars
<1>11. CASE \E ok \in BOOLEAN : QFallback(ok)
  BY <1>7, <1>11 DEF QFallback, socketVars, rxVars
<1> QED BY <1>1, <1>3, <1>4, <1>5, <1>6, <1>8, <1>9, <1>10, <1>11, Frames DEF Framed, QueueStep
\* The variables of the TX accounts
accountVars == <<tx, driver, cq, cachedCompletions, cqSeen, outstandingTx, packetsSent,
                 transmitted, bySocket, lostAtClose, closed>>

LEMMA TxRingsStep ==
  ASSUME TypeOK, Lifecycle, TxRings, [Next]_vars
  PROVE  TxRings'
<1> USE DEF queueVars, txVars
<1>0. /\ cachedCompletions \in Nat /\ cqSeen \in Nat /\ outstandingTx \in Nat /\ packetsSent \in Nat
      /\ transmitted \in Nat /\ bySocket \in Nat /\ lostAtClose \in Nat
      /\ TX_FRAMES \in Nat \ {0} /\ TX_BATCH_SIZE \in Nat \ {0} /\ DRIVER_DEPTH \in Nat \ {0}
      /\ COMP_SIZE \in Nat /\ Len(tx) \in Nat /\ Len(driver) \in Nat /\ Len(cq) \in Nat
      /\ tx \in Seq(TxEntries) /\ driver \in Seq(TxEntries) /\ cq \in Seq(TxFrames)
  <2>1. /\ cachedCompletions \in Nat /\ cqSeen \in Nat /\ outstandingTx \in Nat
        /\ tx \in Seq(TxEntries) /\ driver \in Seq(TxEntries) /\ cq \in Seq(TxFrames)
    BY DEF TypeOK, TxTyped
  <2>2. packetsSent \in Nat /\ transmitted \in Nat /\ bySocket \in Nat /\ lostAtClose \in Nat
    BY DEF TypeOK, QueueTyped, GhostTyped
  <2> QED BY <2>1, <2>2, Sizes
<1>1. ASSUME UNCHANGED accountVars, qpc' = "wake" <=> qpc = "wake",
             qpc' \in {"build", "reserve"} => qpc \in {"build", "reserve"}
      PROVE  TxRings'
  BY <1>1 DEF TxRings, OutstandingExact, SentAccounted, Unpeeked, accountVars
<1>2. CASE QPoll
  <2>1. /\ qpc = "poll" /\ qpc' = "build" /\ pollTxCompletions
        /\ UNCHANGED <<tx, driver, packetsSent, transmitted, bySocket, lostAtClose, closed>>
    BY <1>2 DEF QPoll, ghostVars, setupVars
  <2>2. /\ outstandingTx' = Len(tx) + Len(driver) + Len(cq')
        /\ cachedCompletions' + cqSeen' <= Len(cq') /\ cachedCompletions' < TX_BATCH_SIZE
        /\ Unpeeked' <= TX_FRAMES + DRIVER_DEPTH
        /\ cq' \in Seq(TxFrames) /\ cachedCompletions' \in Nat
    BY <2>1, OpenWhileWorking, PollFacts
  <2>3. Len(cq') \in Nat
    BY <2>2, LenProperties
  <2>4. SentAccounted'
    BY <2>1 DEF TxRings, SentAccounted
  <2>5. Unpeeked' <= TX_FRAMES + DRIVER_DEPTH + 1
    BY <1>0, <2>1, <2>2, <2>3, SMTT(30) DEF Unpeeked
  <2> QED BY <2>1, <2>2, <2>4, <2>5 DEF TxRings, OutstandingExact
<1>3. CASE QBuild \/ QBuildThrows
  <2>1. UNCHANGED accountVars /\ qpc = "build" /\ qpc' \in {"reserve", "fallback"}
    BY <1>3 DEF QBuild, QBuildThrows, TakeFrame, accountVars, setupVars
  <2> QED BY <1>1, <2>1
<1>4. CASE QReserve
  <2>1. CASE TxHasRoom
    <3>1. /\ tx' = Append(tx, [frame |-> frame, dest |-> NextDest(todo), num |-> Head(batch).num])
          /\ outstandingTx' = outstandingTx + 1 /\ qpc = "reserve" /\ qpc' = "wake"
          /\ UNCHANGED <<driver, cq, cachedCompletions, cqSeen, packetsSent, transmitted,
                         bySocket, lostAtClose, closed>>
          /\ Len(tx) < TX_FRAMES
      BY <1>4, <2>1 DEF QReserve, submitTxRing, TxHasRoom, setupVars
    <3>2. Len(tx') = Len(tx) + 1
      BY <1>0, <3>1
    <3>3. /\ Unpeeked <= TX_FRAMES + DRIVER_DEPTH /\ packetsSent + 0 = transmitted + bySocket + Len(tx) + Len(driver) + lostAtClose
          /\ ~closed => outstandingTx = Len(tx) + Len(driver) + Len(cq)
      BY <3>1 DEF TxRings, SentAccounted, OutstandingExact
    <3>4. packetsSent' + 1 = transmitted' + bySocket' + Len(tx') + Len(driver') + lostAtClose'
      BY <1>0, <3>1, <3>2, <3>3
    <3>5. ~closed' => outstandingTx' = Len(tx') + Len(driver') + Len(cq')
      BY <1>0, <3>1, <3>2, <3>3
    <3>6. Unpeeked' <= TX_FRAMES + DRIVER_DEPTH + 1 /\ Len(tx') <= TX_FRAMES
      BY <1>0, <3>1, <3>2, <3>3 DEF Unpeeked
    <3> QED BY <3>1, <3>4, <3>5, <3>6 DEF TxRings, SentAccounted, OutstandingExact
  <2>2. CASE ~TxHasRoom
    <3>1. UNCHANGED accountVars /\ qpc = "reserve" /\ qpc' = "give up"
      BY <1>4, <2>2 DEF QReserve, accountVars, setupVars
    <3> QED BY <1>1, <3>1
  <2> QED BY <2>1, <2>2
<1>5. ASSUME NEW refusal \in BOOLEAN, QWake(refusal) PROVE TxRings'
  <2>1. /\ qpc' \in {"poll", "packet", "recycle"} /\ packetsSent' = packetsSent + (IF qpc = "wake" THEN 1 ELSE 0)
        /\ UNCHANGED <<tx, driver, cq, cachedCompletions, cqSeen, outstandingTx, transmitted,
                       bySocket, lostAtClose, closed>>
    BY <1>5 DEF QWake, NextDestination, SentBy, AfterPacket, setupVars
  <2>2. packetsSent' = transmitted' + bySocket' + Len(tx') + Len(driver') + lostAtClose'
    BY <2>1 DEF TxRings, SentAccounted
  <2>3. packetsSent' \in Nat
    BY <1>0, <2>1, <2>2
  <2>4. SentAccounted'
    BY <2>1, <2>2, <2>3 DEF SentAccounted
  <2> QED BY <2>1, <2>4 DEF TxRings, OutstandingExact, Unpeeked
<1>6. CASE Destroy
  <2>1. /\ tx' = <<>> /\ driver' = <<>> /\ closed' = TRUE /\ lostAtClose' = Len(tx) + Len(driver)
        /\ mpc \in {"unloaded", "failed"} /\ ~closed
        /\ UNCHANGED <<cq, cachedCompletions, cqSeen, outstandingTx, transmitted, bySocket, packetsSent,
                       qpc>>
    BY <1>6 DEF Destroy, close
  <2>2. lostAtClose = 0 /\ qpc \in {"done", "off"}
    BY <2>1 DEF Lifecycle
  <2>3. packetsSent + 0 = transmitted + bySocket + Len(tx) + Len(driver) + 0
    BY <2>2 DEF TxRings, SentAccounted
  <2>4. Len(tx') = 0 /\ Len(driver') = 0
    BY <2>1
  <2>5. packetsSent' + 0 = transmitted' + bySocket' + Len(tx') + Len(driver') + lostAtClose'
    BY <1>0, <2>1, <2>3, <2>4
  <2>6. Unpeeked' <= TX_FRAMES + DRIVER_DEPTH + 1
    BY <1>0, <2>1, <2>4 DEF TxRings, Unpeeked
  <2>7. Len(tx') <= TX_FRAMES /\ Len(driver') <= DRIVER_DEPTH
    BY <1>0, <2>4
  <2> QED BY <2>1, <2>2, <2>5, <2>6, <2>7 DEF TxRings, SentAccounted, OutstandingExact
<1>7. CASE DriverTakes
  <2>1. /\ tx # <<>> /\ tx' = Tail(tx) /\ driver' = Append(driver, Head(tx))
        /\ Len(driver) < DRIVER_DEPTH
        /\ UNCHANGED <<cq, cachedCompletions, cqSeen, outstandingTx, transmitted, bySocket, packetsSent,
                       qpc, lostAtClose, closed>>
    BY <1>7 DEF DriverTakes, KernelTxTake, threadVars, ghostVars, setupVars
  <2>2. Len(tx') = Len(tx) - 1 /\ Len(tx) > 0 /\ Len(driver') = Len(driver) + 1
    BY <1>0, <2>1, QueueFacts
  <2>3. /\ Len(tx') + Len(driver') = Len(tx) + Len(driver)
        /\ Len(tx') <= TX_FRAMES /\ Len(driver') <= DRIVER_DEPTH
    BY <1>0, <2>1, <2>2 DEF TxRings
  <2>4. outstandingTx = Len(tx) + Len(driver) + Len(cq) => outstandingTx' = Len(tx') + Len(driver') + Len(cq')
    BY <1>0, <2>1, <2>2
  <2>5. SentAccounted'
    <3>1. SentAccounted /\ transmitted' + bySocket' + Len(tx') + Len(driver') = transmitted + bySocket + Len(tx) + Len(driver)
      BY <1>0, <2>1, <2>2 DEF TxRings
    <3>2. transmitted' + bySocket' + Len(tx') + Len(driver') + lostAtClose'
            = transmitted + bySocket + Len(tx) + Len(driver) + lostAtClose
      BY <2>1, <3>1
    <3> QED BY <2>1, <3>1, <3>2 DEF SentAccounted
  <2>6. Unpeeked' = Unpeeked
    BY <1>0, <2>1, <2>2 DEF Unpeeked
  <2> QED BY <2>1, <2>3, <2>4, <2>5, <2>6 DEF TxRings, OutstandingExact
<1>8. CASE DriverSends
  <2>1. /\ driver # <<>> /\ driver' = Tail(driver) /\ cq' = Append(cq, Head(driver).frame)
        /\ transmitted' = transmitted + 1
        /\ UNCHANGED <<tx, cachedCompletions, cqSeen, outstandingTx, packetsSent, qpc, bySocket,
                       lostAtClose, closed>>
    BY <1>8 DEF DriverSends, KernelTxComplete, threadVars, setupVars
  <2>2. Len(driver') = Len(driver) - 1 /\ Len(driver) > 0 /\ Len(cq') = Len(cq) + 1
    BY <1>0, <2>1, QueueFacts
  <2>3. Len(driver') <= DRIVER_DEPTH /\ cachedCompletions' + cqSeen' <= Len(cq')
    BY <1>0, <2>1, <2>2 DEF TxRings
  <2>4. outstandingTx = Len(tx) + Len(driver) + Len(cq) => outstandingTx' = Len(tx') + Len(driver') + Len(cq')
    BY <1>0, <2>1, <2>2
  <2>5. SentAccounted'
    <3>1. SentAccounted /\ transmitted' + bySocket' + Len(tx') + Len(driver') = transmitted + bySocket + Len(tx) + Len(driver)
      BY <1>0, <2>1, <2>2 DEF TxRings
    <3>2. transmitted' + bySocket' + Len(tx') + Len(driver') + lostAtClose'
            = transmitted + bySocket + Len(tx) + Len(driver) + lostAtClose
      BY <2>1, <3>1
    <3> QED BY <2>1, <3>1, <3>2 DEF SentAccounted
  <2>6. Unpeeked' = Unpeeked
    BY <1>0, <2>1, <2>2 DEF Unpeeked
  <2> QED BY <2>1, <2>3, <2>4, <2>5, <2>6 DEF TxRings, OutstandingExact
<1>9. ASSUME NEW n \in 1 .. MAX_ENTRIES, QReceive(n) PROVE TxRings'
  <2>1. UNCHANGED accountVars /\ qpc = "loop" /\ qpc' = "packet"
    BY <1>9 DEF QReceive, accountVars, ghostVars, setupVars
  <2> QED BY <1>1, <2>1
<1>10. CASE QPacket \/ QSnapshot
  <2>1. UNCHANGED accountVars /\ qpc \in {"packet", "snapshot"} /\ qpc' \in {"snapshot", "poll", "packet", "recycle"}
    BY <1>10 DEF QPacket, QSnapshot, AfterPacket, accountVars, ghostVars, socketVars, setupVars
  <2> QED BY <1>1, <2>1
<1>11. CASE QThrow \/ QRecycle \/ QExit
  <2>1. UNCHANGED accountVars /\ qpc \in {"snapshot", "recycle", "loop"} /\ qpc' \in {"loop", "done"}
    BY <1>11 DEF QThrow, QRecycle, QExit, accountVars, ghostVars, socketVars, setupVars
  <2> QED BY <1>1, <2>1
<1>12. CASE start
  <2>1. UNCHANGED accountVars /\ mpc = "start" /\ qpc' = "loop"
    BY <1>12 DEF start, accountVars, ghostVars, socketVars, setupVars
  <2>2. qpc = "off"
    BY <2>1 DEF Lifecycle
  <2> QED BY <1>1, <2>1, <2>2
<1>13. CASE /\ UNCHANGED queueVars /\ (DriverSleeps \/ UNCHANGED txVars)
             /\ UNCHANGED <<transmitted, bySocket, lostAtClose>>
  <2>1. UNCHANGED <<tx, driver, cq, cachedCompletions, cqSeen, outstandingTx>>
    BY <1>13 DEF DriverSleeps, KernelSleep
  <2>2. Destroy \/ closed' = closed
    <3>1. initialize => closed' = closed
      BY InitOrder DEF loadXdpProgram, configureXdpProgram, bind, registerXskMap, socketVars, setupVars
    <3>2. Joined => closed' = closed
      BY DEF Joined, unloadXdpProgram
    <3> QED BY <3>1, <3>2, Frames DEF Framed, setupVars
  <2> QED BY <1>1, <1>6, <1>13, <2>1, <2>2 DEF accountVars
<1>14. ASSUME NEW ok \in BOOLEAN, QFallback(ok) PROVE TxRings'
  <2>1. /\ qpc = "fallback" /\ qpc' \in {"poll", "packet", "recycle"}
        /\ packetsSent' = packetsSent + (IF ok THEN 1 ELSE 0)
        /\ bySocket' = bySocket + (IF ok THEN 1 ELSE 0)
        /\ UNCHANGED <<tx, driver, cq, cachedCompletions, cqSeen, outstandingTx, transmitted,
                       lostAtClose, closed>>
    BY <1>14 DEF QFallback, NextDestination, SentBy, AfterPacket, socketVars, setupVars
  <2>2. packetsSent + 0 = transmitted + bySocket + Len(tx) + Len(driver) + lostAtClose
    BY <2>1 DEF TxRings, SentAccounted
  <2>3. packetsSent' + 0 = transmitted' + bySocket' + Len(tx') + Len(driver') + lostAtClose'
    <3>1. CASE ok
      <4>1. packetsSent' = packetsSent + 1 /\ bySocket' = bySocket + 1
        BY <2>1, <3>1
      <4> QED BY <1>0, <2>1, <2>2, <4>1
    <3>2. CASE ~ok
      <4>1. packetsSent' = packetsSent + 0 /\ bySocket' = bySocket + 0
        BY <2>1, <3>2
      <4> QED BY <1>0, <2>1, <2>2, <4>1
    <3> QED BY <3>1, <3>2
  <2>4. SentAccounted'
    BY <2>1, <2>3 DEF SentAccounted
  <2> QED BY <2>1, <2>4 DEF TxRings, OutstandingExact, Unpeeked
<1>15. (\E ok \in BOOLEAN : QFallback(ok)) \/ bySocket' = bySocket
  BY Frames DEF Framed
<1> QED BY <1>2, <1>3, <1>4, <1>5, <1>6, <1>7, <1>8, <1>9, <1>10, <1>11, <1>12, <1>13, <1>14,
           <1>15, Frames
        DEF Framed, TxStep, QueueStep

LEMMA StrandedStep ==
  ASSUME Lifecycle, StrandedOnlyIfRefused, [Next]_vars
  PROVE  StrandedOnlyIfRefused'
<1> USE DEF queueVars, txVars
<1>1. ASSUME NEW refusal \in BOOLEAN, QWake(refusal) PROVE StrandedOnlyIfRefused'
  BY <1>1, Zenon DEF QWake, NextDestination, requestDriverPoll, StrandedOnlyIfRefused
<1>2. CASE QReserve
  <2>1. qpc = "reserve" /\ (qpc' = "wake" \/ tx' = tx) /\ UNCHANGED <<awake, closed, refused>>
    BY <1>2 DEF QReserve, setupVars
  <2> QED BY <2>1 DEF StrandedOnlyIfRefused
<1>3. CASE Destroy
  BY <1>3 DEF Destroy, close, StrandedOnlyIfRefused
<1>4. CASE DriverTakes
  BY <1>4 DEF DriverTakes, KernelTxTake, StrandedOnlyIfRefused
<1>5. CASE DriverSleeps
  BY <1>5 DEF DriverSleeps, KernelSleep, StrandedOnlyIfRefused
<1>6. ASSUME UNCHANGED <<tx, awake, refused>>, closed' = closed, qpc = "wake" => qpc' = "wake"
      PROVE  StrandedOnlyIfRefused'
  BY <1>6 DEF StrandedOnlyIfRefused
<1>7. Destroy \/ closed' = closed
  <2>1. initialize => closed' = closed
    BY InitOrder DEF loadXdpProgram, configureXdpProgram, bind, registerXskMap, socketVars, setupVars
  <2>2. Joined => closed' = closed
    BY DEF Joined, unloadXdpProgram
  <2> QED BY <2>1, <2>2, Frames DEF Framed, setupVars
<1>8. CASE QPoll \/ QBuild \/ QBuildThrows \/ DriverSends
  <2>1. UNCHANGED <<tx, awake, refused>> /\ (qpc = "wake" => qpc' = "wake")
    BY <1>8 DEF QPoll, QBuild, QBuildThrows, TakeFrame, DriverSends, KernelTxComplete, threadVars, ghostVars
  <2> QED BY <1>3, <1>6, <1>7, <2>1
<1>9. CASE UNCHANGED txVars /\ (QueueStep \/ UNCHANGED queueVars)
  <2>1. CASE \E refusal \in BOOLEAN : QWake(refusal)
    BY <1>1, <2>1
  <2>2. CASE ~\E refusal \in BOOLEAN : QWake(refusal)
    <3>1. UNCHANGED <<tx, awake, refused>>
      BY <1>9, <2>2, Frames DEF Framed
    <3>2. QueueStep => qpc # "wake"
      BY <2>2 DEF QueueStep, QReceive, QPacket, QSnapshot, QThrow, QPoll, QBuild, QBuildThrows,
                  TakeFrame, QReserve, QFallback, QRecycle, QExit, start, Lifecycle
    <3> QED BY <1>3, <1>6, <1>7, <1>9, <3>1, <3>2
  <2> QED BY <2>1, <2>2
<1> QED BY <1>1, <1>2, <1>3, <1>4, <1>5, <1>8, <1>9, Frames DEF Framed, TxStep
\* No step but QSnapshot adds to what is left of the copy in hand.
LEMMA LeftStep ==
  ASSUME TypeOK, Lifecycle, InHand, [Next]_vars
  PROVE  QSnapshot \/ Left' \subseteq Left
<1> USE DEF queueVars
<1>1. ASSUME UNCHANGED <<qpc, todo>> PROVE Left' \subseteq Left
  BY <1>1 DEF Left
<1>2. ASSUME qpc' \notin Copying PROVE Left' \subseteq Left
  BY <1>2 DEF Left, Copying
<1>3. CASE QPoll \/ QBuild \/ QBuildThrows \/ QReserve
  <2>1. /\ \/ qpc = "poll" /\ qpc' = "build"
           \/ qpc = "build" /\ qpc' \in {"reserve", "fallback"}
           \/ qpc = "reserve" /\ qpc' \in {"wake", "give up"}
        /\ todo' = todo
    BY <1>3 DEF QPoll, QBuild, QBuildThrows, TakeFrame, QReserve
  <2> QED BY <2>1 DEF Left, Copying
<1>4. ASSUME qpc \in {"wake", "give up", "fallback"}, NextDestination PROVE Left' \subseteq Left
  <2>1. /\ qpc \in {"wake", "give up", "fallback"} /\ todo' = todo \ {NextDest(todo)}
        /\ qpc' = "poll" \/ qpc' \in {"packet", "recycle"}
    BY <1>4 DEF NextDestination, AfterPacket
  <2> QED BY <2>1 DEF Left, Copying
<1>5. ASSUME NEW n \in 1 .. MAX_ENTRIES, QReceive(n) PROVE qpc' \notin Copying
  BY <1>5 DEF QReceive, Copying
<1>6. CASE QPacket \/ QThrow \/ QRecycle \/ QExit \/ start
  <2>1. qpc' \in {"snapshot", "packet", "recycle", "loop", "done"}
    BY <1>6 DEF QPacket, QThrow, QRecycle, QExit, start, AfterPacket
  <2> QED BY <1>2, <2>1 DEF Copying
<1>7. CASE \E refusal \in BOOLEAN : QWake(refusal)
  BY <1>4, <1>7 DEF QWake
<1>8. CASE \E ok \in BOOLEAN : QFallback(ok)
  BY <1>4, <1>8 DEF QFallback
<1> QED BY <1>1, <1>2, <1>3, <1>5, <1>6, <1>7, <1>8, Frames DEF Framed, QueueStep

LEMMA ToldStep ==
  ASSUME TypeOK, Told, [Next]_vars
  PROVE  Told'
<1> USE DEF controlVars
<1>1. ASSUME NEW m \in Message, CtlReceive(m) PROVE Told'
  <2>1. cpc' \in {"receive", "lock", "done"} /\ destinations' = destinations
    BY <1>1 DEF CtlReceive, LoopTest
  <2> QED BY <2>1 DEF Told
<1>2. CASE CtlLock
  <2>1. CASE cmd.op = "add"
    <3>1. cmd' = cmd /\ cpc' = "arp" /\ destinations' = destinations \cup {cmd.dest}
      BY <1>2, <2>1 DEF CtlLock
    <3>2. IsFiniteSet(destinations')
      BY <3>1, FS_AddElement DEF Told
    <3> QED BY <2>1, <3>1, <3>2 DEF Told
  <2>2. CASE cmd.op = "remove"
    <3>1. cmd' = cmd /\ cpc' = "reply" /\ destinations' = destinations \ {cmd.dest}
      BY <1>2, <2>2 DEF CtlLock, removeDestination
    <3>2. IsFiniteSet(destinations')
      BY <3>1, FS_RemoveElement DEF Told
    <3> QED BY <2>2, <3>1, <3>2 DEF Told
  <2>3. CASE cmd.op = "list"
    <3>1. /\ cmd' = cmd /\ cpc' = "reply" /\ destinations' = destinations
          /\ reply' = [count |-> Cardinality(destinations) % COUNT_RANGE, dests |-> destinations]
      BY <1>2, <2>3 DEF CtlLock
    <3> QED BY <2>3, <3>1 DEF Told
  <2> QED BY <1>2, <2>1, <2>2, <2>3 DEF CtlLock
<1>3. CASE CtlArp
  BY <1>3 DEF CtlArp, Told
<1>4. CASE CtlReply \/ CtlTimeout \/ start
  <2>1. cpc' \in {"receive", "done"} /\ destinations' = destinations
    BY <1>4 DEF CtlReply, CtlTimeout, LoopTest, start
  <2> QED BY <2>1 DEF Told
<1>5. CASE UNCHANGED <<controlVars, destinations, mutex>>
  BY <1>5 DEF Told
<1> QED BY <1>1, <1>2, <1>3, <1>4, <1>5, Frames DEF Framed, ControlStep

LEMMA LateStep ==
  ASSUME TypeOK, Lifecycle, InHand, LateBound, [Next]_vars
  PROVE  LateBound'
<1>0. late \in [Destinations -> Nat]
  BY DEF TypeOK, GhostTyped
<1>1. CASE QBuild \/ QBuildThrows
  <2> DEFINE e == NextDest(todo)
  <2>1. /\ late' = [late EXCEPT ![e] = @ + (IF e \in destinations THEN 0 ELSE 1)]
        /\ qpc = "build" /\ qpc' \in {"reserve", "fallback"} /\ UNCHANGED <<todo, destinations>>
    BY <1>1 DEF QBuild, QBuildThrows, TakeFrame
  <2>2. e \in todo /\ e \in Destinations
    BY <2>1, HandFacts DEF Copying
  <2>3. Left = todo /\ Left' = todo \ {e}
    BY <2>1 DEF Left, Copying
  <2> HIDE DEF e
  <2>4. ASSUME NEW d \in Destinations
        PROVE  /\ late'[d] <= 1
               /\ d \in Left' /\ d \notin destinations' => late'[d] = 0
    <3>1. CASE d = e /\ e \in destinations
      <4>1. late'[d] = late[d] + 0
        BY <1>0, <2>1, <2>2, <3>1
      <4> QED BY <1>0, <2>1, <3>1, <4>1 DEF LateBound
    <3>2. CASE d = e /\ e \notin destinations
      <4>1. late'[d] = late[d] + 1 /\ late[d] = 0
        BY <1>0, <2>1, <2>2, <2>3, <3>2 DEF LateBound
      <4> QED BY <2>3, <3>2, <4>1
    <3>3. CASE d # e
      <4>1. late'[d] = late[d]
        BY <1>0, <2>1, <3>3
      <4> QED BY <2>1, <2>3, <4>1 DEF LateBound
    <3> QED BY <3>1, <3>2, <3>3
  <2> QED BY <2>4 DEF LateBound
<1>2. CASE CtlLock
  <2>1. /\ Left' \subseteq Left
        /\ \/ late' = late /\ destinations \subseteq destinations'
           \/ /\ destinations' = destinations \ {cmd.dest}
              /\ late' = IF cmd.dest \in destinations THEN [late EXCEPT ![cmd.dest] = 0] ELSE late
    BY <1>2 DEF CtlLock, removeDestination, queueVars, Left
  <2>2. ASSUME NEW d \in Destinations
        PROVE  /\ late'[d] <= 1
               /\ d \in Left' /\ d \notin destinations' => late'[d] = 0
    <3>1. CASE late' = late /\ destinations \subseteq destinations'
      BY <2>1, <3>1 DEF LateBound
    <3>2. CASE /\ destinations' = destinations \ {cmd.dest}
               /\ late' = IF cmd.dest \in destinations THEN [late EXCEPT ![cmd.dest] = 0] ELSE late
      <4>1. CASE d = cmd.dest /\ d \in destinations
        BY <1>0, <3>2, <4>1
      <4>2. CASE d # cmd.dest \/ d \notin destinations
        <5>1. late'[d] = late[d] /\ (d \notin destinations' => d \notin destinations)
          BY <1>0, <3>2, <4>2
        <5> QED BY <2>1, <5>1 DEF LateBound
      <4> QED BY <4>1, <4>2
    <3> QED BY <2>1, <3>1, <3>2
  <2> QED BY <2>2 DEF LateBound
<1>3. CASE UNCHANGED late /\ ~CtlLock
  <2>1. destinations' = destinations
    BY <1>3, Frames DEF Framed, ControlStep, CtlReceive, CtlArp, CtlReply, CtlTimeout, LoopTest, start
  <2>2. CASE QSnapshot
    <3>1. Left' \subseteq destinations
      BY <2>2 DEF QSnapshot, Copied, Left, Copying, AfterPacket
    <3> QED BY <1>3, <2>1, <3>1 DEF LateBound
  <2>3. CASE Left' \subseteq Left
    BY <1>3, <2>1, <2>3 DEF LateBound
  <2> QED BY <2>2, <2>3, LeftStep
<1> QED BY <1>1, <1>2, <1>3, Frames DEF Framed
-----------------------------------------------------------------------------
(* The RX frames *)

\* A packet arrives: the first frame of the fill ring goes to the RX ring.
LEMMA ApartArrive ==
  ASSUME NEW f \in Seq(RxFrames), NEW r \in Seq(RxEntries), NEW p \in Seq(RxFrames),
         Apart(f, r, p), f # <<>>, NEW x \in RxEntries, x.frame = Head(f)
  PROVE  Apart(Tail(f), Append(r, x), p)
<1> DEFINE g == Tail(f)
           s == Append(r, x)
<1>1. /\ Len(f) \in Nat \ {0} /\ Len(g) = Len(f) - 1 /\ Head(f) = f[1]
      /\ \A k \in 1 .. Len(f) - 1 : g[k] = f[k + 1]
  BY QueueFacts
<1>2. /\ Len(r) \in Nat /\ Len(s) = Len(r) + 1
      /\ \A k \in 1 .. Len(r) : s[k] = r[k]
      /\ s[Len(r) + 1] = x
  BY AppendProperties, LenProperties
<1>3. Len(p) \in Nat
  BY LenProperties
<1> HIDE DEF g, s
<1>4. \A j, k \in 1 .. Len(g) : g[j] = g[k] => j = k
  <2> SUFFICES ASSUME NEW j \in 1 .. Len(g), NEW k \in 1 .. Len(g), g[j] = g[k] PROVE j = k
    OBVIOUS
  <2>1. j + 1 \in 1 .. Len(f) /\ k + 1 \in 1 .. Len(f) /\ f[j + 1] = f[k + 1]
    BY <1>1
  <2>2. j + 1 = k + 1
    BY <2>1 DEF Apart
  <2> QED BY <1>1, <2>2
<1>5. \A k \in 1 .. Len(r) : r[k].frame # f[1]
  BY <1>1 DEF Apart
<1>6. \A j, k \in 1 .. Len(s) : s[j].frame = s[k].frame => j = k
  <2> SUFFICES ASSUME NEW j \in 1 .. Len(s), NEW k \in 1 .. Len(s), s[j].frame = s[k].frame
               PROVE  j = k
    OBVIOUS
  <2>1. CASE j \in 1 .. Len(r) /\ k \in 1 .. Len(r)
    BY <1>2, <2>1 DEF Apart
  <2>2. CASE j = Len(r) + 1 \/ k = Len(r) + 1
    BY <1>1, <1>2, <1>5, <2>2, SMTT(30)
  <2> QED BY <1>2, <2>1, <2>2
<1>7. \A j \in 1 .. Len(g), k \in 1 .. Len(s) : g[j] # s[k].frame
  <2> SUFFICES ASSUME NEW j \in 1 .. Len(g), NEW k \in 1 .. Len(s) PROVE g[j] # s[k].frame
    OBVIOUS
  <2>1. j + 1 \in 1 .. Len(f) /\ 1 \in 1 .. Len(f) /\ g[j] = f[j + 1] /\ j + 1 # 1
    BY <1>1
  <2>2. CASE k \in 1 .. Len(r)
    BY <1>2, <2>1, <2>2 DEF Apart
  <2>3. CASE k = Len(r) + 1
    <3>1. s[k].frame = f[1]
      BY <1>1, <1>2, <2>3
    <3> QED BY <2>1, <3>1 DEF Apart
  <2> QED BY <1>2, <2>2, <2>3
<1>8. \A j \in 1 .. Len(g), k \in 1 .. Len(p) : g[j] # p[k]
  BY <1>1 DEF Apart
<1>9. \A j \in 1 .. Len(s), k \in 1 .. Len(p) : s[j].frame # p[k]
  <2> SUFFICES ASSUME NEW j \in 1 .. Len(s), NEW k \in 1 .. Len(p) PROVE s[j].frame # p[k]
    OBVIOUS
  <2>1. CASE j \in 1 .. Len(r)
    BY <1>2, <2>1 DEF Apart
  <2>2. CASE j = Len(r) + 1
    <3>1. s[j].frame = f[1] /\ 1 \in 1 .. Len(f)
      BY <1>1, <1>2, <2>2
    <3> QED BY <3>1 DEF Apart
  <2> QED BY <1>2, <2>1, <2>2
<1>10. \A j, k \in 1 .. Len(p) : p[j] = p[k] => j = k
  BY DEF Apart
<1>11. Apart(g, s, p)
  BY <1>4, <1>6, <1>7, <1>8, <1>9, <1>10 DEF Apart
<1> QED BY <1>11 DEF g, s

\* n packets are received: their frames wait to be recycled, whatever waited before.
LEMMA ApartReceive ==
  ASSUME NEW f \in Seq(RxFrames), NEW r \in Seq(RxEntries), NEW p \in Seq(RxFrames),
         Apart(f, r, p), NEW n \in 1 .. Len(r)
  PROVE  Apart(f, SubSeq(r, n + 1, Len(r)), [k \in 1 .. n |-> r[k].frame])
<1> DEFINE s == SubSeq(r, n + 1, Len(r))
           q == [k \in 1 .. n |-> r[k].frame]
<1>1. Len(r) \in Nat /\ Len(f) \in Nat
  BY LenProperties
<1>2. /\ Len(s) = Len(r) - n
      /\ \A k \in 1 .. Len(r) - n : s[k] = r[n + k]
  <2>1. /\ Len(s) = IF n + 1 <= Len(r) THEN Len(r) - (n + 1) + 1 ELSE 0
        /\ \A k \in 1 .. Len(r) - (n + 1) + 1 : s[k] = r[(n + 1) + k - 1]
    BY <1>1, SubSeqProperties
  <2>2. \A k \in 1 .. Len(r) - n : (n + 1) + k - 1 = n + k
    BY <1>1
  <2> QED BY <1>1, <2>1, <2>2
<1>3. Len(q) = n /\ \A k \in 1 .. n : q[k] = r[k].frame
  BY <1>1
<1> HIDE DEF s, q
<1>4. \A k \in 1 .. Len(s) : n + k \in 1 .. Len(r) /\ s[k] = r[n + k]
  BY <1>1, <1>2
<1>5. \A k \in 1 .. Len(q) : k \in 1 .. Len(r) /\ k <= n /\ q[k] = r[k].frame
  BY <1>1, <1>3
<1>6. \A j, k \in 1 .. Len(s) : s[j].frame = s[k].frame => j = k
  <2> SUFFICES ASSUME NEW j \in 1 .. Len(s), NEW k \in 1 .. Len(s), s[j].frame = s[k].frame
               PROVE  j = k
    OBVIOUS
  <2>1. n + j \in 1 .. Len(r) /\ n + k \in 1 .. Len(r) /\ r[n + j].frame = r[n + k].frame
    BY <1>4
  <2>2. n + j = n + k
    BY <2>1 DEF Apart
  <2> QED BY <1>1, <1>2, <2>2
<1>7. \A j, k \in 1 .. Len(q) : q[j] = q[k] => j = k
  BY <1>5 DEF Apart
<1>8. \A j \in 1 .. Len(f), k \in 1 .. Len(s) : f[j] # s[k].frame
  BY <1>4, SMTT(30) DEF Apart
<1>9. \A j \in 1 .. Len(f), k \in 1 .. Len(q) : f[j] # q[k]
  BY <1>5 DEF Apart
<1>10. \A j \in 1 .. Len(s), k \in 1 .. Len(q) : s[j].frame # q[k]
  <2> SUFFICES ASSUME NEW j \in 1 .. Len(s), NEW k \in 1 .. Len(q) PROVE s[j].frame # q[k]
    OBVIOUS
  <2>1. n + j # k
    BY <1>1, <1>2, <1>3
  <2> QED BY <1>4, <1>5, <2>1 DEF Apart
<1>11. Apart(f, s, q)
  BY <1>6, <1>7, <1>8, <1>9, <1>10 DEF Apart
<1> QED BY <1>11 DEF s, q

\* Recycling: what waited goes to the end of the fill ring.
LEMMA ApartRecycle ==
  ASSUME NEW f \in Seq(RxFrames), NEW r \in Seq(RxEntries), NEW p \in Seq(RxFrames),
         Apart(f, r, p)
  PROVE  Apart(f \o p, r, <<>>)
<1> DEFINE g == f \o p
<1>1. Len(f) \in Nat /\ Len(p) \in Nat /\ Len(r) \in Nat
  BY LenProperties
<1>2. /\ Len(g) = Len(f) + Len(p)
      /\ \A k \in 1 .. Len(f) + Len(p) : g[k] = IF k <= Len(f) THEN f[k] ELSE p[k - Len(f)]
  BY ConcatProperties
<1> HIDE DEF g
<1>3. \A k \in 1 .. Len(g) : \/ k \in 1 .. Len(f) /\ g[k] = f[k]
                             \/ k - Len(f) \in 1 .. Len(p) /\ g[k] = p[k - Len(f)]
  BY <1>1, <1>2
<1>4. \A j, k \in 1 .. Len(g) : g[j] = g[k] => j = k
  <2> SUFFICES ASSUME NEW j \in 1 .. Len(g), NEW k \in 1 .. Len(g), g[j] = g[k] PROVE j = k
    OBVIOUS
  <2>1. CASE j \in 1 .. Len(f) /\ g[j] = f[j]
    <3>1. CASE k \in 1 .. Len(f) /\ g[k] = f[k]
      BY <2>1, <3>1 DEF Apart
    <3>2. CASE k - Len(f) \in 1 .. Len(p) /\ g[k] = p[k - Len(f)]
      BY <2>1, <3>2 DEF Apart
    <3> QED BY <1>3, <3>1, <3>2
  <2>2. CASE j - Len(f) \in 1 .. Len(p) /\ g[j] = p[j - Len(f)]
    <3>1. CASE k \in 1 .. Len(f) /\ g[k] = f[k]
      BY <2>2, <3>1 DEF Apart
    <3>2. CASE k - Len(f) \in 1 .. Len(p) /\ g[k] = p[k - Len(f)]
      <4>1. j - Len(f) = k - Len(f)
        BY <2>2, <3>2 DEF Apart
      <4> QED BY <1>1, <1>2, <4>1
    <3> QED BY <1>3, <3>1, <3>2
  <2> QED BY <1>3, <2>1, <2>2
<1>5. \A j \in 1 .. Len(g), k \in 1 .. Len(r) : g[j] # r[k].frame
  BY <1>3 DEF Apart
<1>6. \A k : k \notin 1 .. Len(<<>>)
  OBVIOUS
<1>7. Apart(g, r, <<>>)
  BY <1>4, <1>5, <1>6 DEF Apart
<1> QED BY <1>7 DEF g
\* What the steps do to the fill ring, the RX ring and the list of frames to recycle
RxReceive(n) ==
  /\ qpc = "loop" /\ qpc' = "packet" /\ n \in 1 .. Len(rx) /\ n <= MAX_ENTRIES
  /\ fq' = fq /\ rx' = SubSeq(rx, n + 1, Len(rx)) /\ batch' = SubSeq(rx, 1, n)
  /\ pendingRecycle' = [k \in 1 .. n |-> rx[k].frame]
RxRecycle ==
  /\ qpc = "recycle" /\ qpc' = "loop" /\ batch' = batch
  /\ fq' = fq \o pendingRecycle /\ pendingRecycle' = <<>> /\ rx' = rx
RxBind ==
  /\ mpc = "bind" /\ mpc' = "register" /\ UNCHANGED queueVars
  /\ fq' = [k \in 1 .. RX_FRAMES |-> TX_FRAMES + k - 1] /\ UNCHANGED <<pendingRecycle, rx>>
RxArrive(x) ==
  /\ fq # <<>> /\ x \in RxEntries /\ x.frame = Head(fq) /\ UNCHANGED queueVars
  /\ rx' = Append(rx, x) /\ fq' = Tail(fq) /\ pendingRecycle' = pendingRecycle

LEMMA RxCases ==
  ASSUME TypeOK, RxAccount, [Next]_vars
  PROVE  \/ \E n \in 1 .. MAX_ENTRIES : QReceive(n) /\ RxReceive(n)
         \/ QRecycle /\ RxRecycle
         \/ initialize /\ RxBind
         \/ \E p \in Shapes, x \in RxEntries : Arrive(p) /\ RxArrive(x)
         \/ UNCHANGED rxVars /\ ~QRecycle /\ ~RxBind /\ ~\E n \in 1 .. MAX_ENTRIES : QReceive(n)
<1>0. /\ Len(rx) \in Nat /\ Len(fq) \in Nat /\ Len(pendingRecycle) \in Nat
      /\ MAX_ENTRIES \in Nat /\ RX_FRAMES \in Nat
      /\ fq \in Seq(RxFrames)
  BY Sizes DEF TypeOK, RxTyped
<1>1. ASSUME NEW n \in 1 .. MAX_ENTRIES, QReceive(n) PROVE RxReceive(n)
  BY <1>0, <1>1 DEF QReceive, receive, Least, RxReceive
<1>2. ASSUME QRecycle PROVE RxRecycle
  <2>1. Len(fq) + Len(pendingRecycle) <= FILL_SIZE
    BY <1>0 DEF RxAccount, FILL_SIZE
  <2> QED BY <1>2, <2>1 DEF QRecycle, recycleFrames, RxRecycle
<1>3. ASSUME initialize PROVE RxBind \/ UNCHANGED rxVars
  BY <1>3, InitOrder DEF initialize, loadXdpProgram, configureXdpProgram, bind, registerXskMap,
                         socketVars, rxVars, RxBind
<1>4. ASSUME NEW p \in Shapes, Arrive(p)
      PROVE  UNCHANGED rxVars \/ \E x \in RxEntries : RxArrive(x)
  <2>1. CASE unicast_filter(p) /\ fq # <<>> /\ Len(rx) < RX_FRAMES
    <3> DEFINE x == [frame |-> Head(fq), num |-> arrived', shape |-> p]
    <3>1. /\ rx' = Append(rx, x) /\ fq' = Tail(fq) /\ pendingRecycle' = pendingRecycle
          /\ UNCHANGED queueVars
      BY <1>4, <2>1 DEF Arrive, KernelRx, threadVars
    <3>2. arrived' \in 1 .. MaxPackets
      BY <1>4, ReplicatorAssumption DEF Arrive, TypeOK, MainTyped
    <3>3. Head(fq) \in RxFrames
      BY <1>0, <2>1, QueueFacts
    <3>4. x \in RxEntries /\ x.frame = Head(fq)
      BY <3>2, <3>3 DEF RxEntries
    <3> HIDE DEF x
    <3>5. RxArrive(x)
      BY <2>1, <3>1, <3>4 DEF RxArrive
    <3> QED BY <3>4, <3>5
  <2>2. CASE ~(unicast_filter(p) /\ fq # <<>> /\ Len(rx) < RX_FRAMES)
    BY <1>4, <2>2 DEF Arrive, KernelRx, rxVars
  <2> QED BY <2>1, <2>2
<1>5. RxBind => initialize
  BY Frames DEF Framed, MainStep, RxBind, initializeThrows, start, stop, Joined, Destroy
<1> QED BY <1>1, <1>2, <1>3, <1>4, <1>5, Frames DEF Framed, RxStep

LEMMA ApartStep ==
  ASSUME TypeOK, Lifecycle, RxRings, [Next]_vars
  PROVE  Apart(fq, rx, pendingRecycle)'
<1>0. /\ fq \in Seq(RxFrames) /\ rx \in Seq(RxEntries) /\ pendingRecycle \in Seq(RxFrames)
      /\ RX_FRAMES \in Nat \ {0} /\ TX_FRAMES \in Nat \ {0}
      /\ Apart(fq, rx, pendingRecycle) /\ RxAccount
  BY Sizes DEF TypeOK, RxTyped, RxRings
<1>1. ASSUME NEW n \in 1 .. MAX_ENTRIES, RxReceive(n) PROVE Apart(fq', rx', pendingRecycle')
  BY <1>0, <1>1, ApartReceive DEF RxReceive
<1>2. ASSUME RxRecycle PROVE Apart(fq', rx', pendingRecycle')
  BY <1>0, <1>2, ApartRecycle DEF RxRecycle
<1>3. ASSUME RxBind PROVE Apart(fq', rx', pendingRecycle')
  <2>1. rx' = <<>> /\ pendingRecycle' = <<>> /\ fq' = [k \in 1 .. RX_FRAMES |-> TX_FRAMES + k - 1]
    BY <1>3 DEF RxBind, Lifecycle
  <2>2. Len(rx') = 0 /\ Len(pendingRecycle') = 0 /\ Len(fq') = RX_FRAMES
    BY <1>0, <2>1
  <2>3. \A j, k \in 1 .. RX_FRAMES : fq'[j] = fq'[k] => j = k
    BY <1>0, <2>1
  <2>4. \A k : k \notin 1 .. 0
    OBVIOUS
  <2> QED BY <2>2, <2>3, <2>4 DEF Apart
<1>4. ASSUME NEW x \in RxEntries, RxArrive(x) PROVE Apart(fq', rx', pendingRecycle')
  BY <1>0, <1>4, ApartArrive DEF RxArrive
<1>5. CASE UNCHANGED rxVars
  BY <1>0, <1>5 DEF rxVars
<1>6. Apart(fq', rx', pendingRecycle')
  BY <1>0, <1>1, <1>2, <1>3, <1>4, <1>5, RxCases
<1> QED BY <1>6

LEMMA RxAccountStep ==
  ASSUME TypeOK, Lifecycle, RxAccount, [Next]_vars
  PROVE  RxAccount'
<1> USE DEF queueVars
<1>0. /\ fq \in Seq(RxFrames) /\ rx \in Seq(RxEntries) /\ pendingRecycle \in Seq(RxFrames)
      /\ RX_FRAMES \in Nat \ {0} /\ TX_FRAMES \in Nat \ {0} /\ MAX_ENTRIES \in Nat \ {0}
      /\ Len(fq) \in Nat /\ Len(rx) \in Nat /\ Len(pendingRecycle) \in Nat
  BY Sizes DEF TypeOK, RxTyped
<1>f. faults \in Nat /\ faults * MAX_ENTRIES \in Nat
  <2>1. faults \in Nat
    BY ReplicatorAssumption DEF TypeOK, MainTyped
  <2> QED BY <1>0, <2>1, TimesNext
<1> DEFINE lost == faults * MAX_ENTRIES
<1>1. /\ Len(fq) + Len(rx) + Len(pendingRecycle) <= RX_FRAMES
      /\ Len(pendingRecycle) <= MAX_ENTRIES
      /\ mpc = "register" \/ xskMap => InUse + lost >= RX_FRAMES
      /\ qpc \in Busy => InUse = Len(fq) + Len(rx) + Len(pendingRecycle)
      /\ qpc \notin Busy => InUse = Len(fq) + Len(rx)
  <2>1. qpc \notin Busy => InUse = Len(fq) + Len(rx) + 0
    BY DEF InUse
  <2>2. qpc \in Busy => InUse = Len(fq) + Len(rx) + Len(pendingRecycle)
    BY DEF InUse
  <2> QED BY <1>0, <2>1, <2>2 DEF RxAccount
<1>2. ASSUME UNCHANGED rxVars, faults' = faults, qpc' \in Busy <=> qpc \in Busy
      PROVE  InUse' + faults' * MAX_ENTRIES = InUse + lost
  BY <1>2 DEF InUse, rxVars
\* Who is registered
<1>3. (mpc' = "register" \/ xskMap') => RxBind \/ mpc = "register" \/ xskMap
  <2>1. CASE initialize
    BY <2>1, InitOrder DEF initialize, loadXdpProgram, configureXdpProgram, bind, registerXskMap,
                           socketVars, setupVars, RxBind
  <2>2. CASE Joined \/ Destroy \/ initializeThrows \/ start \/ stop
    BY <2>2 DEF Joined, unloadXdpProgram, Destroy, close, initializeThrows, start, stop, socketVars,
                setupVars
  <2>3. CASE UNCHANGED <<running, mpc>> /\ UNCHANGED setupVars
    BY <2>3 DEF setupVars
  <2> QED BY <2>1, <2>2, <2>3, Frames DEF Framed, MainStep
<1>4. ASSUME NEW n \in 1 .. MAX_ENTRIES, QReceive(n), RxReceive(n) PROVE RxAccount'
  <2>1. /\ qpc = "loop" /\ qpc' = "packet" /\ n \in 1 .. Len(rx) /\ n <= MAX_ENTRIES
        /\ fq' = fq /\ rx' = SubSeq(rx, n + 1, Len(rx))
        /\ pendingRecycle' = [k \in 1 .. n |-> rx[k].frame]
    BY <1>4 DEF RxReceive
  <2>2. Len(rx') = Len(rx) - n /\ Len(pendingRecycle') = n
    BY <1>0, <2>1, SubSeqProperties
  <2>3. UNCHANGED <<mpc, xskMap, faults>>
    BY <1>4 DEF QReceive, setupVars
  <2>4. InUse = Len(fq) + Len(rx)
    BY <1>1, <2>1 DEF Busy, Handling
  <2>5. InUse' = Len(fq) + (Len(rx) - n) + n
    BY <2>1, <2>2 DEF InUse, Busy, Handling
  <2>6. InUse' = InUse
    BY <1>0, <2>1, <2>4, <2>5
  <2>7. Len(fq') + Len(rx') + Len(pendingRecycle') <= RX_FRAMES /\ Len(pendingRecycle') <= MAX_ENTRIES
    BY <1>0, <1>1, <2>1, <2>2
  <2> QED BY <2>3, <2>6, <2>7 DEF RxAccount
<1>5. ASSUME QRecycle, RxRecycle PROVE RxAccount'
  <2>1. /\ qpc = "recycle" /\ qpc' = "loop" /\ rx' = rx
        /\ fq' = fq \o pendingRecycle /\ pendingRecycle' = <<>>
    BY <1>5 DEF RxRecycle
  <2>2. Len(fq') = Len(fq) + Len(pendingRecycle) /\ Len(pendingRecycle') = 0
    BY <1>0, <2>1, ConcatProperties
  <2>3. UNCHANGED <<mpc, xskMap, faults>>
    BY <1>5 DEF QRecycle, setupVars
  <2>4. InUse = Len(fq) + Len(rx) + Len(pendingRecycle)
    BY <1>1, <2>1 DEF Busy
  <2>5. InUse' = (Len(fq) + Len(pendingRecycle)) + Len(rx) + 0
    BY <2>1, <2>2 DEF InUse, Busy, Handling
  <2>6. InUse' = InUse
    BY <1>0, <2>4, <2>5
  <2>7. Len(fq') + Len(rx') + Len(pendingRecycle') <= RX_FRAMES /\ Len(pendingRecycle') <= MAX_ENTRIES
    BY <1>0, <1>1, <2>1, <2>2
  <2> QED BY <2>3, <2>6, <2>7 DEF RxAccount
<1>6. ASSUME initialize, RxBind PROVE RxAccount'
  <2>1. /\ rx' = <<>> /\ pendingRecycle' = <<>> /\ qpc' = "off"
        /\ fq' = [k \in 1 .. RX_FRAMES |-> TX_FRAMES + k - 1]
    BY <1>6 DEF RxBind, Lifecycle
  <2>2. Len(rx') = 0 /\ Len(pendingRecycle') = 0 /\ Len(fq') = RX_FRAMES
    BY <1>0, <2>1
  <2>3. faults' = faults
    BY <1>6 DEF initialize
  <2>4. InUse' = RX_FRAMES + 0 + 0
    BY <2>1, <2>2 DEF InUse, Busy, Handling
  <2>5. InUse' + lost >= RX_FRAMES
    BY <1>0, <1>f, <2>4
  <2> QED BY <1>0, <2>2, <2>3, <2>5 DEF RxAccount
<1>7. ASSUME NEW p \in Shapes, NEW x \in RxEntries, Arrive(p), RxArrive(x) PROVE RxAccount'
  <2>1. /\ fq # <<>> /\ rx' = Append(rx, x) /\ fq' = Tail(fq) /\ pendingRecycle' = pendingRecycle
        /\ qpc' = qpc
    BY <1>7 DEF RxArrive
  <2>2. Len(rx') = Len(rx) + 1 /\ Len(fq') = Len(fq) - 1 /\ Len(fq) > 0
    BY <1>0, <2>1, QueueFacts
  <2>3. UNCHANGED <<mpc, xskMap, faults>>
    BY <1>7 DEF Arrive, KernelRx, threadVars, setupVars
  <2>4. Len(fq') + Len(rx') = Len(fq) + Len(rx)
    BY <1>0, <2>2
  <2>5. InUse' = InUse
    BY <2>1, <2>4 DEF InUse
  <2>6. Len(fq') + Len(rx') + Len(pendingRecycle') <= RX_FRAMES /\ Len(pendingRecycle') <= MAX_ENTRIES
    BY <1>0, <1>1, <2>1, <2>4
  <2> QED BY <2>3, <2>5, <2>6 DEF RxAccount
<1>8. ASSUME UNCHANGED rxVars, QThrow PROVE RxAccount'
  <2>1. /\ qpc = "snapshot" /\ qpc' = "loop" /\ faults' = faults + 1
        /\ UNCHANGED <<mpc, xskMap>>
    BY <1>8 DEF QThrow, socketVars, setupVars
  <2>2. InUse = Len(fq) + Len(rx) + Len(pendingRecycle)
    BY <1>1, <2>1 DEF Busy, Handling
  <2>3. InUse' = Len(fq) + Len(rx) + 0
    BY <1>8, <2>1 DEF InUse, Busy, Handling, rxVars
  <2>4. faults' * MAX_ENTRIES = lost + MAX_ENTRIES
    BY <1>0, <1>f, <2>1, TimesNext
  <2>5. InUse + lost >= RX_FRAMES => InUse' + faults' * MAX_ENTRIES >= RX_FRAMES
    BY <1>0, <1>1, <1>f, <2>2, <2>3, <2>4
  <2> QED BY <1>1, <1>8, <2>1, <2>5 DEF RxAccount, rxVars
<1>9. ASSUME UNCHANGED rxVars, ~QThrow, ~QRecycle, ~RxBind,
             ~\E n \in 1 .. MAX_ENTRIES : QReceive(n)
      PROVE  RxAccount'
  <2>1. faults' = faults
    BY <1>9, Frames DEF Framed
  <2>2. qpc' \in Busy <=> qpc \in Busy
    <3>1. CASE QPacket \/ QSnapshot \/ QPoll \/ QBuild \/ QBuildThrows \/ QReserve
      <4>1. /\ qpc \in {"packet", "snapshot", "poll", "build", "reserve"}
            /\ qpc' \in {"snapshot", "packet", "recycle", "poll", "build", "reserve", "wake", "give up",
                       "fallback"}
        BY <3>1 DEF QPacket, QSnapshot, QPoll, QBuild, QBuildThrows, TakeFrame, QReserve, AfterPacket
      <4> QED BY <4>1 DEF Busy, Handling
    <3>2. ASSUME NEW refusal \in BOOLEAN, QWake(refusal) PROVE qpc' \in Busy <=> qpc \in Busy
      <4>1. qpc \in {"wake", "give up"} /\ qpc' \in {"poll", "packet", "recycle"}
        BY <3>2 DEF QWake, NextDestination, AfterPacket
      <4> QED BY <4>1 DEF Busy, Handling
    <3>3. CASE QExit \/ start
      <4>1. qpc \in {"loop", "off"} /\ qpc' \in {"loop", "done"}
        BY <3>3 DEF QExit, start, Lifecycle
      <4> QED BY <4>1 DEF Busy, Handling
    <3>4. ASSUME NEW ok \in BOOLEAN, QFallback(ok) PROVE qpc' \in Busy <=> qpc \in Busy
      <4>1. qpc = "fallback" /\ qpc' \in {"poll", "packet", "recycle"}
        BY <3>4 DEF QFallback, NextDestination, AfterPacket
      <4> QED BY <4>1 DEF Busy, Handling
    <3> QED BY <1>9, <3>1, <3>2, <3>3, <3>4, Frames DEF Framed, QueueStep
  <2>3. InUse' + faults' * MAX_ENTRIES = InUse + lost
    BY <1>2, <1>9, <2>1, <2>2
  <2> QED BY <1>1, <1>3, <1>9, <2>3 DEF RxAccount, rxVars
<1> QED BY <1>4, <1>5, <1>6, <1>7, <1>8, <1>9, RxCases
LEMMA BatchWaitsStep ==
  ASSUME TypeOK, Lifecycle, InHand, RxRings, [Next]_vars
  PROVE  BatchWaits'
<1> USE DEF queueVars
<1>0. /\ rx \in Seq(RxEntries) /\ batch \in Seq(RxEntries) /\ Len(batch) \in Nat /\ Len(rx) \in Nat
      /\ BatchWaits /\ RxAccount
  BY Sizes DEF TypeOK, RxTyped, QueueTyped, RxRings
<1>1. ASSUME NEW n \in 1 .. MAX_ENTRIES, RxReceive(n) PROVE BatchWaits'
  <2>1. /\ n \in 1 .. Len(rx) /\ batch' = SubSeq(rx, 1, n)
        /\ pendingRecycle' = [k \in 1 .. n |-> rx[k].frame]
    BY <1>1 DEF RxReceive
  <2>2. /\ Len(batch') = n /\ \A k \in 1 .. n : batch'[k] = rx[k]
    <3>1. /\ Len(SubSeq(rx, 1, n)) = IF 1 <= n THEN n - 1 + 1 ELSE 0
          /\ \A k \in 1 .. n - 1 + 1 : SubSeq(rx, 1, n)[k] = rx[1 + k - 1]
      BY <1>0, <2>1, SubSeqProperties
    <3>2. \A k \in 1 .. n : 1 + k - 1 = k
      OBVIOUS
    <3> QED BY <2>1, <3>1, <3>2
  <2>3. Len(pendingRecycle') = n /\ \A k \in 1 .. n : pendingRecycle'[k] = rx[k].frame
    BY <1>0, <2>1
  <2> QED BY <2>2, <2>3 DEF BatchWaits
<1>2. ASSUME batch' = <<>> PROVE BatchWaits'
  <2>1. \A k : k \notin 1 .. Len(batch')
    BY <1>2
  <2> QED BY <2>1 DEF BatchWaits
<1>3. ASSUME pendingRecycle' = pendingRecycle, batch' = batch PROVE BatchWaits'
  BY <1>0, <1>3 DEF BatchWaits
<1>4. ASSUME pendingRecycle' = pendingRecycle, batch' = Tail(batch), batch # <<>> PROVE BatchWaits'
  <2>1. /\ Len(batch') = Len(batch) - 1
        /\ \A k \in 1 .. Len(batch) - 1 : batch'[k] = batch[k + 1]
    BY <1>0, <1>4, QueueFacts
  <2>2. \A k \in 1 .. Len(batch') : k + 1 \in 1 .. Len(batch) /\ batch'[k] = batch[k + 1]
    BY <1>0, <2>1
  <2> QED BY <1>0, <1>4, <2>2 DEF BatchWaits
<1>5. CASE QRecycle
  <2>1. batch' = batch /\ qpc = "recycle"
    BY <1>5 DEF QRecycle
  <2>2. batch = <<>>
    BY <2>1 DEF InHand, Handling
  <2> QED BY <1>2, <2>1, <2>2
<1>6. ASSUME RxBind PROVE BatchWaits'
  BY <1>3, <1>6 DEF RxBind
<1>7. ASSUME NEW x, RxArrive(x) PROVE BatchWaits'
  BY <1>3, <1>7 DEF RxArrive
<1>8. CASE UNCHANGED rxVars /\ ~\E n \in 1 .. MAX_ENTRIES : QReceive(n)
  <2>0. pendingRecycle' = pendingRecycle
    BY <1>8 DEF rxVars
  <2>1. batch' = batch \/ batch' = <<>> \/ (batch' = Tail(batch) /\ qpc \in Handling)
    <3>1. CASE QPacket \/ QSnapshot
      BY <3>1 DEF QPacket, QSnapshot, Handling
    <3>2. CASE \E refusal \in BOOLEAN : QWake(refusal)
      BY <3>2 DEF QWake, NextDestination, Handling
    <3>3. CASE QThrow \/ QPoll \/ QBuild \/ QBuildThrows \/ QReserve \/ QRecycle \/ QExit \/ start
      BY <3>3 DEF QThrow, QPoll, QBuild, QBuildThrows, TakeFrame, QReserve, QRecycle, QExit, start
    <3>4. CASE \E ok \in BOOLEAN : QFallback(ok)
      BY <3>4 DEF QFallback, NextDestination, Handling
    <3> QED BY <1>8, <3>1, <3>2, <3>3, <3>4, Frames DEF Framed, QueueStep
  <2> QED BY <1>2, <1>3, <1>4, <2>0, <2>1, HandFacts
<1> QED BY <1>0, <1>1, <1>5, <1>6, <1>7, <1>8, RxCases

-----------------------------------------------------------------------------
(* The TX frames *)

\* The k-th packet on its way, of the driver's first and then the TX ring's
LEMMA OnItsWayFacts ==
  ASSUME TypeOK
  PROVE  /\ OnItsWay \in Seq(TxEntries) /\ Len(OnItsWay) \in Nat
         /\ Len(OnItsWay) = Len(driver) + Len(tx)
         /\ \A k \in 1 .. Len(OnItsWay) : OnItsWay[k] \in TxEntries /\ OnItsWay[k].frame \in 0 .. TX_FRAMES - 1
<1>1. tx \in Seq(TxEntries) /\ driver \in Seq(TxEntries)
  BY DEF TypeOK, TxTyped
<1>2. OnItsWay \in Seq(TxEntries) /\ Len(OnItsWay) = Len(driver) + Len(tx)
  BY <1>1, ConcatProperties DEF OnItsWay
<1>3. \A k \in 1 .. Len(OnItsWay) : OnItsWay[k] \in TxEntries
  BY <1>2, ElementOfSeq
<1> QED BY <1>2, <1>3, LenProperties DEF TxEntries, TxFrames

\* getNextTxFrame: the frame after the last one is the first one.
LEMMA NextFrame ==
  ASSUME NEW f \in 0 .. TX_FRAMES - 1
  PROVE  (f + 1) % TX_FRAMES = IF f + 1 = TX_FRAMES THEN 0 ELSE f + 1
<1>1. TX_FRAMES \in Nat \ {0}
  BY SocketAssumption
<1>2. CASE f + 1 = TX_FRAMES
  BY <1>1, <1>2, f + 1 \in TX_FRAMES .. 2 * TX_FRAMES - 1, ModWrap
<1>3. CASE f + 1 # TX_FRAMES
  BY <1>1, <1>3, f + 1 \in 0 .. TX_FRAMES - 1, ModSmall
<1> QED BY <1>2, <1>3

\* With every frame used the distance to the next one grows by one;
LEMMA TurnedNext ==
  ASSUME NEW f \in 0 .. TX_FRAMES - 1, NEW age \in Nat, NEW next \in 0 .. TX_FRAMES - 1,
         Turned(f, age, next)
  PROVE  Turned(f, age + 1, (next + 1) % TX_FRAMES)
<1>1. TX_FRAMES \in Nat \ {0}
  BY SocketAssumption
<1>2. PICK turns \in Nat : f + age = next + turns * TX_FRAMES
  BY DEF Turned
<1>3. turns * TX_FRAMES \in Nat /\ (turns + 1) * TX_FRAMES = turns * TX_FRAMES + TX_FRAMES
  BY <1>1, TimesNext
<1>4. CASE next + 1 = TX_FRAMES
  <2>1. (next + 1) % TX_FRAMES = 0
    BY <1>4, NextFrame
  <2>2. f + (age + 1) = 0 + (turns + 1) * TX_FRAMES
    BY <1>1, <1>2, <1>3, <1>4
  <2> QED BY <2>1, <2>2 DEF Turned
<1>5. CASE next + 1 # TX_FRAMES
  <2>1. (next + 1) % TX_FRAMES = next + 1
    BY <1>5, NextFrame
  <2>2. f + (age + 1) = (next + 1) + turns * TX_FRAMES
    BY <1>1, <1>2, <1>3
  <2> QED BY <2>1, <2>2 DEF Turned
<1> QED BY <1>4, <1>5

\* ... and a frame is used again after a whole turn.
LEMMA TurnedSame ==
  ASSUME NEW f \in 0 .. TX_FRAMES - 1, NEW age \in Nat \ {0}, Turned(f, age, f)
  PROVE  age >= TX_FRAMES
<1>1. TX_FRAMES \in Nat \ {0}
  BY SocketAssumption
<1>2. PICK turns \in Nat : f + age = f + turns * TX_FRAMES
  BY DEF Turned
<1>3. turns # 0
  BY <1>1, <1>2
<1>4. PICK t \in Nat : turns = t + 1
  <2>1. turns - 1 \in Nat /\ turns = (turns - 1) + 1
    BY <1>3
  <2> QED BY <2>1
<1>5. t * TX_FRAMES \in Nat /\ turns * TX_FRAMES = t * TX_FRAMES + TX_FRAMES
  BY <1>1, <1>4, TimesNext
<1>6. age = turns * TX_FRAMES
  BY <1>1, <1>2, <1>5
<1> QED BY <1>1, <1>5, <1>6
LEMMA JustBuiltStep ==
  ASSUME TypeOK, JustBuilt, [Next]_vars
  PROVE  JustBuilt'
<1> USE DEF queueVars, txVars
<1>1. CASE QBuild
  <2>1. /\ prevUmemTxFrame' = (prevUmemTxFrame + 1) % TX_FRAMES /\ frame' = prevUmemTxFrame
        /\ umem' = [umem EXCEPT ![prevUmemTxFrame]
                      = [dest |-> NextDest(todo), num |-> Head(batch).num]]
        /\ UNCHANGED <<todo, batch>>
    BY <1>1 DEF QBuild, TakeFrame, getNextTxFrame
  <2>2. umem \in [TxFrames -> Packets \cup {Nothing}] /\ prevUmemTxFrame \in TxFrames
    BY DEF TypeOK, TxTyped
  <2> QED BY <2>1, <2>2 DEF JustBuilt
<1>2. ASSUME qpc' # "reserve" PROVE JustBuilt'
  BY <1>2 DEF JustBuilt
<1>3. CASE QueueStep /\ ~QBuild
  <2>1. CASE \E refusal \in BOOLEAN : QWake(refusal)
    <3>1. qpc' # "reserve"
      BY <2>1 DEF QWake, NextDestination, AfterPacket
    <3> QED BY <1>2, <3>1
  <2>2. CASE ~\E refusal \in BOOLEAN : QWake(refusal)
    <3>1. qpc' # "reserve"
      BY <1>3, <2>2 DEF QueueStep, QReceive, QPacket, QSnapshot, QThrow, QPoll, QBuildThrows,
                        QReserve, QFallback, NextDestination, QRecycle, QExit, start, AfterPacket
    <3> QED BY <1>2, <3>1
  <2> QED BY <2>1, <2>2
<1>4. CASE UNCHANGED queueVars
  <2>1. CASE UNCHANGED txVars
    BY <1>4, <2>1 DEF JustBuilt
  <2>2. CASE TxStep
    <3>1. CASE QPoll
      BY <1>4, <3>1 DEF QPoll
    <3>2. CASE QReserve \/ QBuildThrows
      BY <1>4, <3>2 DEF QReserve, QBuildThrows, TakeFrame
    <3>3. CASE \E refusal \in BOOLEAN : QWake(refusal)
      <4>1. qpc' # "reserve"
        BY <3>3 DEF QWake, NextDestination, AfterPacket
      <4> QED BY <1>2, <4>1
    <3>4. CASE Destroy \/ DriverTakes \/ DriverSends \/ DriverSleeps
      <4>1. UNCHANGED <<umem, prevUmemTxFrame>>
        BY <3>4 DEF Destroy, DriverTakes, DriverSends, DriverSleeps, close, KernelTxTake,
                    KernelTxComplete, KernelSleep
      <4> QED BY <1>4, <4>1 DEF JustBuilt
    <3> QED BY <1>1, <2>2, <3>1, <3>2, <3>3, <3>4 DEF TxStep
  <2> QED BY <2>1, <2>2, Frames DEF Framed
<1> QED BY <1>1, <1>3, <1>4, Frames DEF Framed

\* Taking the first element of the first part of a concatenation
LEMMA TailConcat ==
  ASSUME NEW S, NEW p \in Seq(S), NEW q \in Seq(S), p # <<>>
  PROVE  /\ Len(Tail(p) \o q) = Len(p \o q) - 1
         /\ \A k \in 1 .. Len(p \o q) - 1 : (Tail(p) \o q)[k] = (p \o q)[k + 1]
<1> DEFINE u == Tail(p)
           l == u \o q
           r == p \o q
<1>1. /\ u \in Seq(S) /\ Len(u) = Len(p) - 1 /\ Len(p) \in Nat \ {0}
      /\ \A k \in 1 .. Len(p) - 1 : u[k] = p[k + 1]
  BY QueueFacts
<1>2. Len(q) \in Nat
  BY LenProperties
<1>3. /\ Len(r) = Len(p) + Len(q)
      /\ \A i \in 1 .. Len(p) + Len(q) : r[i] = IF i <= Len(p) THEN p[i] ELSE q[i - Len(p)]
  BY ConcatProperties
<1> HIDE DEF u, r
<1>4. /\ Len(l) = Len(u) + Len(q)
      /\ \A i \in 1 .. Len(u) + Len(q) : l[i] = IF i <= Len(u) THEN u[i] ELSE q[i - Len(u)]
  BY <1>1, ConcatProperties
<1> HIDE DEF l
<1>5. ASSUME NEW k \in 1 .. Len(r) - 1 PROVE l[k] = r[k + 1]
  <2>1. k \in 1 .. Len(u) + Len(q) /\ k + 1 \in 1 .. Len(p) + Len(q)
    BY <1>1, <1>2, <1>3
  <2>2. CASE k <= Len(u)
    <3>1. l[k] = u[k] /\ r[k + 1] = p[k + 1] /\ k \in 1 .. Len(p) - 1
      BY <1>1, <1>2, <1>3, <1>4, <2>1, <2>2
    <3> QED BY <1>1, <3>1
  <2>3. CASE k > Len(u)
    <3>1. l[k] = q[k - Len(u)] /\ r[k + 1] = q[(k + 1) - Len(p)] /\ k - Len(u) = (k + 1) - Len(p)
      BY <1>1, <1>2, <1>3, <1>4, <2>1, <2>3
    <3> QED BY <3>1
  <2> QED BY <1>1, <2>2, <2>3
<1>6. Len(l) = Len(r) - 1
  BY <1>1, <1>2, <1>3, <1>4
<1> QED BY <1>5, <1>6 DEF l, r, u

\* The variables the ages depend on
ageVars == <<tx, driver, umem, prevUmemTxFrame, failed>>

LEMMA FrameAgesStep ==
  ASSUME TypeOK, Lifecycle, InHand, FrameAges, JustBuilt, [Next]_vars
  PROVE  FrameAges'
<1> USE DEF queueVars, txVars
<1>0. /\ tx \in Seq(TxEntries) /\ driver \in Seq(TxEntries) /\ failed \in Nat
      /\ umem \in [TxFrames -> Packets \cup {Nothing}]
      /\ prevUmemTxFrame \in 0 .. TX_FRAMES - 1 /\ frame \in 0 .. TX_FRAMES - 1
      /\ TX_FRAMES \in Nat \ {0}
  BY SocketAssumption DEF TypeOK, TxTyped, QueueTyped, GhostTyped, TxFrames
<1>w. /\ OnItsWay \in Seq(TxEntries) /\ Len(OnItsWay) \in Nat
      /\ \A k \in 1 .. Len(OnItsWay) : OnItsWay[k] \in TxEntries /\ OnItsWay[k].frame \in 0 .. TX_FRAMES - 1
  BY OnItsWayFacts
<1>s. /\ qpc = "reserve" => \A k : Since(k) = Len(OnItsWay) - k + 1 + failed + 1
      /\ qpc # "reserve" => \A k : Since(k) = Len(OnItsWay) - k + 1 + failed + 0
  BY DEF Since
<1>1. ASSUME OnItsWay' = OnItsWay, UNCHANGED <<umem, prevUmemTxFrame, failed>>,
             qpc' = "reserve" <=> qpc = "reserve"
      PROVE  FrameAges'
  <2>1. \A k : Since(k)' = Since(k)
    BY <1>1 DEF Since
  <2> QED BY <1>1, <2>1 DEF FrameAges, Intact
<1>2. ASSUME NEW x, prevUmemTxFrame' = (prevUmemTxFrame + 1) % TX_FRAMES,
             umem' = [umem EXCEPT ![prevUmemTxFrame] = x], qpc = "build", UNCHANGED <<tx, driver>>,
             \/ qpc' = "reserve" /\ failed' = failed
             \/ qpc' # "reserve" /\ failed' = failed + 1
      PROVE  FrameAges'
  <2>1. /\ prevUmemTxFrame' = (prevUmemTxFrame + 1) % TX_FRAMES
        /\ umem' = [umem EXCEPT ![prevUmemTxFrame] = x]
        /\ qpc = "build" /\ UNCHANGED <<tx, driver>>
    BY <1>2
  <2>2. OnItsWay' = OnItsWay
    BY <2>1 DEF OnItsWay
  <2>3. ASSUME NEW k \in 1 .. Len(OnItsWay), NEW age \in Nat \ {0},
               Turned(OnItsWay[k].frame, age, prevUmemTxFrame), age <= Since(k),
               age > TX_FRAMES \/ Intact(OnItsWay[k])
        PROVE  /\ age + 1 \in Nat \ {0}
               /\ Turned(OnItsWay[k].frame, age + 1, prevUmemTxFrame') /\ age + 1 <= Since(k)'
               /\ age + 1 > TX_FRAMES \/ Intact(OnItsWay[k])'
    <3>1. OnItsWay[k].frame \in 0 .. TX_FRAMES - 1
      BY <1>w
    <3>2. Turned(OnItsWay[k].frame, age + 1, prevUmemTxFrame')
      BY <1>0, <2>1, <2>3, <3>1, TurnedNext
    <3>3. age + 1 <= Since(k)'
      <4>1. Since(k) = Len(OnItsWay) - k + 1 + failed + 0
        BY <1>s, <2>1
      <4>2. \/ Since(k)' = Len(OnItsWay) - k + 1 + failed + 1
            \/ Since(k)' = Len(OnItsWay) - k + 1 + (failed + 1) + 0
        BY <1>2, <2>2 DEF Since
      <4> QED BY <1>0, <1>w, <2>3, <4>1, <4>2, SMTT(30)
    <3>4. CASE OnItsWay[k].frame = prevUmemTxFrame
      <4>1. age >= TX_FRAMES
        BY <1>0, <2>3, <3>4, TurnedSame
      <4> QED BY <1>0, <3>2, <3>3, <4>1
    <3>5. CASE OnItsWay[k].frame # prevUmemTxFrame
      <4>1. umem'[OnItsWay[k].frame] = umem[OnItsWay[k].frame]
        BY <1>0, <2>1, <3>1, <3>5 DEF TxFrames
      <4>2. Intact(OnItsWay[k]) => Intact(OnItsWay[k])'
        BY <2>2, <4>1 DEF Intact
      <4>3. age > TX_FRAMES => age + 1 > TX_FRAMES
        BY <1>0
      <4> QED BY <2>3, <3>2, <3>3, <4>2, <4>3
    <3> QED BY <3>4, <3>5
  <2>4. \A k \in 1 .. Len(OnItsWay) : \E age \in Nat \ {0} :
          /\ Turned(OnItsWay[k].frame, age, prevUmemTxFrame') /\ age <= Since(k)'
          /\ age > TX_FRAMES \/ Intact(OnItsWay[k])'
    <3> SUFFICES ASSUME NEW k \in 1 .. Len(OnItsWay)
                 PROVE  \E age \in Nat \ {0} :
                          /\ Turned(OnItsWay[k].frame, age, prevUmemTxFrame') /\ age <= Since(k)'
                          /\ age > TX_FRAMES \/ Intact(OnItsWay[k])'
      OBVIOUS
    <3>1. PICK age \in Nat \ {0} : /\ Turned(OnItsWay[k].frame, age, prevUmemTxFrame) /\ age <= Since(k)
                                   /\ age > TX_FRAMES \/ Intact(OnItsWay[k])
      BY DEF FrameAges
    <3> QED BY <2>3, <3>1
  <2> QED BY <2>2, <2>4 DEF FrameAges
<1>3. CASE QReserve /\ TxHasRoom
  <2> DEFINE e == [frame |-> frame, dest |-> NextDest(todo), num |-> Head(batch).num]
  <2>1. /\ tx' = Append(tx, e) /\ qpc = "reserve" /\ qpc' = "wake"
        /\ UNCHANGED <<driver, umem, prevUmemTxFrame, failed>>
    BY <1>3 DEF QReserve, submitTxRing
  <2>2. e \in TxEntries /\ e.frame = frame /\ e.dest = NextDest(todo) /\ e.num = Head(batch).num
    BY <2>1, HandFacts DEF TypeOK, QueueTyped, TxEntries, Handling, Copying
  <2>3. umem[e.frame] = [dest |-> e.dest, num |-> e.num] /\ prevUmemTxFrame = (frame + 1) % TX_FRAMES
    BY <2>1, <2>2 DEF JustBuilt
  <2> HIDE DEF e
  <2>4. OnItsWay' = Append(OnItsWay, e)
    BY <1>0, <2>1, <2>2, ConcatAppend, SMTT(30) DEF OnItsWay
  <2>5. /\ Len(OnItsWay') = Len(OnItsWay) + 1
        /\ \A k \in 1 .. Len(OnItsWay) : OnItsWay'[k] = OnItsWay[k]
        /\ OnItsWay'[Len(OnItsWay) + 1] = e
    BY <1>w, <2>2, <2>4, AppendProperties
  <2>6. \A k : Since(k)' = Len(OnItsWay') - k + 1 + failed + 0
    BY <2>1 DEF Since
  <2>7. ASSUME NEW k \in 1 .. Len(OnItsWay')
        PROVE  \E age \in Nat \ {0} :
                 /\ Turned(OnItsWay'[k].frame, age, prevUmemTxFrame') /\ age <= Since(k)'
                 /\ age > TX_FRAMES \/ umem'[OnItsWay'[k].frame] = [dest |-> OnItsWay'[k].dest, num |-> OnItsWay'[k].num]
    <3>1. CASE k \in 1 .. Len(OnItsWay)
      <4>1. OnItsWay'[k] = OnItsWay[k]
        BY <2>5, <3>1
      <4>2. PICK age \in Nat \ {0} : /\ Turned(OnItsWay[k].frame, age, prevUmemTxFrame) /\ age <= Since(k)
                                     /\ age > TX_FRAMES \/ Intact(OnItsWay[k])
        BY <3>1 DEF FrameAges
      <4>3. Since(k) = Len(OnItsWay) - k + 1 + failed + 1
        BY <1>s, <2>1
      <4>4. age <= Since(k)'
        BY <1>0, <1>w, <2>5, <2>6, <3>1, <4>2, <4>3, SMTT(30)
      <4> QED BY <2>1, <4>1, <4>2, <4>4 DEF Intact
    <3>2. CASE k = Len(OnItsWay) + 1
      <4>1. OnItsWay'[k] = e
        BY <2>5, <3>2
      <4>2. Turned(e.frame, 1, prevUmemTxFrame')
        <5>1. Turned(frame, 0, frame)
          <6>1. frame + 0 = frame + 0 * TX_FRAMES
            BY <1>0
          <6> QED BY <6>1 DEF Turned
        <5>2. Turned(frame, 0 + 1, (frame + 1) % TX_FRAMES)
          BY <1>0, <5>1, TurnedNext
        <5> QED BY <2>1, <2>2, <2>3, <5>2
      <4>3. 1 <= Since(k)'
        BY <1>0, <1>w, <2>5, <2>6, <3>2, SMTT(30)
      <4> QED BY <2>1, <2>3, <4>1, <4>2, <4>3
    <3> QED BY <1>w, <2>5, <3>1, <3>2
  <2> QED BY <2>7 DEF FrameAges, Intact
<1>4. CASE QReserve /\ ~TxHasRoom
  <2>1. /\ failed' = failed + 1 /\ qpc = "reserve" /\ qpc' = "give up"
        /\ UNCHANGED <<tx, driver, umem, prevUmemTxFrame>>
    BY <1>4 DEF QReserve
  <2>2. OnItsWay' = OnItsWay
    BY <2>1 DEF OnItsWay
  <2>3. \A k \in 1 .. Len(OnItsWay) : Since(k)' = Since(k)
    <3> SUFFICES ASSUME NEW k \in 1 .. Len(OnItsWay) PROVE Since(k)' = Since(k)
      OBVIOUS
    <3>1. Since(k)' = Len(OnItsWay) - k + 1 + (failed + 1) + 0
      BY <2>1, <2>2 DEF Since
    <3>2. Since(k) = Len(OnItsWay) - k + 1 + failed + 1
      BY <1>s, <2>1
    <3> QED BY <1>0, <1>w, <3>1, <3>2
  <2> QED BY <2>1, <2>2, <2>3 DEF FrameAges, Intact
<1>5. CASE Destroy
  <2>1. tx' = <<>> /\ driver' = <<>>
    BY <1>5 DEF Destroy, close
  <2>2. OnItsWay' = <<>>
    BY <2>1, ConcatEmptySeq DEF OnItsWay
  <2>3. \A k : k \notin 1 .. Len(OnItsWay')
    BY <2>2
  <2> QED BY <2>3 DEF FrameAges
<1>6. CASE DriverTakes
  <2>1. /\ tx # <<>> /\ tx' = Tail(tx) /\ driver' = Append(driver, Head(tx))
        /\ UNCHANGED <<umem, prevUmemTxFrame, qpc, failed>>
    BY <1>6 DEF DriverTakes, KernelTxTake, threadVars, ghostVars
  <2>2. OnItsWay' = OnItsWay
    BY <1>0, <2>1, MoveHead DEF OnItsWay
  <2> QED BY <1>1, <2>1, <2>2
<1>7. CASE DriverSends
  <2>1. /\ driver # <<>> /\ driver' = Tail(driver)
        /\ UNCHANGED <<tx, umem, prevUmemTxFrame, qpc, failed>>
    BY <1>7 DEF DriverSends, KernelTxComplete, threadVars
  <2>2. /\ Len(OnItsWay') = Len(OnItsWay) - 1
        /\ \A k \in 1 .. Len(OnItsWay) - 1 : OnItsWay'[k] = OnItsWay[k + 1]
    BY <1>0, <2>1, TailConcat DEF OnItsWay
  <2>3. ASSUME NEW k \in 1 .. Len(OnItsWay')
        PROVE  \E age \in Nat \ {0} :
                 /\ Turned(OnItsWay'[k].frame, age, prevUmemTxFrame') /\ age <= Since(k)'
                 /\ age > TX_FRAMES \/ Intact(OnItsWay[k])'
    <3>1. k + 1 \in 1 .. Len(OnItsWay) /\ OnItsWay'[k] = OnItsWay[k + 1]
      BY <1>w, <2>2
    <3>2. PICK age \in Nat \ {0} :
            /\ Turned(OnItsWay[k + 1].frame, age, prevUmemTxFrame) /\ age <= Since(k + 1)
            /\ age > TX_FRAMES \/ Intact(OnItsWay[k + 1])
      BY <3>1 DEF FrameAges
    <3>3. Since(k)' = Since(k + 1)
      <4>1. Len(OnItsWay') - k + 1 = Len(OnItsWay) - (k + 1) + 1
        BY <1>w, <2>2
      <4> QED BY <2>1, <4>1 DEF Since
    <3>4. Intact(OnItsWay[k + 1]) => Intact(OnItsWay[k])'
      BY <2>1, <3>1 DEF Intact
    <3> QED BY <2>1, <3>1, <3>2, <3>3, <3>4
  <2> QED BY <2>3 DEF FrameAges
<1>8. CASE UNCHANGED ageVars /\ (qpc' = "reserve" <=> qpc = "reserve")
  BY <1>1, <1>8 DEF ageVars, OnItsWay
<1>9. ASSUME ~QBuild, ~QBuildThrows, ~QReserve, ~Destroy, ~DriverTakes, ~DriverSends
      PROVE  UNCHANGED ageVars /\ (qpc' = "reserve" <=> qpc = "reserve")
  <2>1. UNCHANGED <<tx, driver, umem, prevUmemTxFrame>>
    <3>1. CASE QPoll \/ DriverSleeps
      BY <3>1 DEF QPoll, DriverSleeps, KernelSleep
    <3>2. CASE \E refusal \in BOOLEAN : QWake(refusal)
      BY <3>2 DEF QWake, NextDestination
    <3> QED BY <1>9, <3>1, <3>2, Frames DEF Framed, TxStep
  <2>2. qpc' = "reserve" <=> qpc = "reserve"
    <3>1. CASE \E refusal \in BOOLEAN : QWake(refusal)
      BY <3>1 DEF QWake, NextDestination, AfterPacket
    <3>2. CASE \E n \in 1 .. MAX_ENTRIES : QReceive(n)
      BY <3>2 DEF QReceive
    <3>3. CASE QPacket \/ QSnapshot \/ QThrow \/ QPoll \/ QRecycle \/ QExit
      BY <3>3 DEF QPacket, QSnapshot, QThrow, QPoll, QRecycle, QExit, AfterPacket
    <3>4. CASE start
      BY <3>4 DEF start, Lifecycle
    <3>5. CASE \E ok \in BOOLEAN : QFallback(ok)
      BY <3>5 DEF QFallback, NextDestination, AfterPacket
    <3> QED BY <1>9, <3>1, <3>2, <3>3, <3>4, <3>5, Frames DEF Framed, QueueStep
  <2> QED BY <1>9, <2>1, <2>2, Frames DEF Framed, ageVars
<1>10. CASE QBuild
  <2>1. /\ prevUmemTxFrame' = (prevUmemTxFrame + 1) % TX_FRAMES
        /\ umem' = [umem EXCEPT ![prevUmemTxFrame]
                      = [dest |-> NextDest(todo), num |-> Head(batch).num]]
        /\ qpc = "build" /\ qpc' = "reserve" /\ UNCHANGED <<tx, driver, failed>>
    BY <1>10 DEF QBuild, TakeFrame, getNextTxFrame
  <2> QED BY <1>2, <2>1
<1>11. CASE QBuildThrows
  <2>1. /\ prevUmemTxFrame' = (prevUmemTxFrame + 1) % TX_FRAMES
        /\ umem' = [umem EXCEPT ![prevUmemTxFrame] = Nothing]
        /\ qpc = "build" /\ qpc' = "fallback" /\ failed' = failed + 1 /\ UNCHANGED <<tx, driver>>
    BY <1>11 DEF QBuildThrows, TakeFrame, getNextTxFrame
  <2> QED BY <1>2, <2>1
<1> QED BY <1>3, <1>4, <1>5, <1>6, <1>7, <1>8, <1>9, <1>10, <1>11
-----------------------------------------------------------------------------
(* Theorems *)

LEMMA InitHolds == Init => ReplicatorInv
<1> SUFFICES ASSUME Init PROVE ReplicatorInv
  OBVIOUS
<1> USE DEF Init, SocketInit
<1>0. TX_FRAMES \in Nat \ {0} /\ TX_BATCH_SIZE \in Nat \ {0} /\ DRIVER_DEPTH \in Nat \ {0}
      /\ COMP_SIZE \in Nat /\ RX_FRAMES \in Nat \ {0} /\ MAX_ENTRIES \in Nat \ {0}
      /\ MaxPackets \in Nat /\ MaxMessages \in Nat /\ MaxFaults \in Nat
  BY SocketAssumption, ReplicatorAssumption
<1>1. SetupTyped
  BY DEF SetupTyped
<1>2. TxTyped
  <2>1. <<>> \in Seq(TxEntries) /\ <<>> \in Seq(TxFrames)
    OBVIOUS
  <2>2. [f \in TxFrames |-> Nothing] \in [TxFrames -> Packets \cup {Nothing}]
    OBVIOUS
  <2>3. 0 \in TxFrames /\ 0 \in 0 .. COMP_SIZE
    BY <1>0 DEF TxFrames
  <2> QED BY <2>1, <2>2, <2>3 DEF TxTyped
<1>3. RxTyped
  BY DEF RxTyped
<1>4. QueueTyped
  <2>1. <<>> \in Seq(RxEntries)
    OBVIOUS
  <2> QED BY <1>0, <2>1 DEF QueueTyped, TxFrames
<1>5. ControlTyped
  BY <1>0 DEF ControlTyped, Message, NoMessage
<1>6. MainTyped
  <2>1. 0 \in 0 .. MaxPackets /\ 0 \in 0 .. MaxFaults /\ "limits" \in ToSet(InitSteps)
    BY <1>0, InitSet
  <2> QED BY <2>1 DEF MainTyped
<1>7. GhostTyped
  <2>1. 0 \in 0 .. MaxFaults
    BY <1>0
  <2> QED BY <2>1 DEF GhostTyped
<1>8. TypeOK
  BY <1>1, <1>2, <1>3, <1>4, <1>5, <1>6, <1>7 DEF TypeOK
<1>9. Lifecycle
  BY DEF Lifecycle
<1>10. InHand
  BY DEF InHand, Handling, Copying
<1>11. Len(tx) = 0 /\ Len(driver) = 0 /\ Len(cq) = 0 /\ Len(fq) = 0 /\ Len(rx) = 0
       /\ Len(pendingRecycle) = 0 /\ Len(batch) = 0
  OBVIOUS
<1>12. TxRings
  <2>1. SentAccounted
    BY <1>11 DEF SentAccounted
  <2>2. OutstandingExact
    BY <1>11 DEF OutstandingExact
  <2>3. Unpeeked = 0
    BY <1>11 DEF Unpeeked
  <2> QED BY <1>0, <1>11, <2>1, <2>2, <2>3 DEF TxRings
<1>13. Told
  BY FS_EmptySet DEF Told
<1>14. LateBound
  BY DEF LateBound, Left, Copying
<1>15. \A k : k \notin 1 .. 0
  OBVIOUS
<1>16. Apart(fq, rx, pendingRecycle) /\ BatchWaits
  BY <1>11, <1>15 DEF Apart, BatchWaits
<1>17. RxAccount
  BY <1>0, <1>11 DEF RxAccount
<1>18. FrameAges
  <2>1. Len(OnItsWay) = 0
    BY <1>8, <1>11, OnItsWayFacts
  <2> QED BY <1>15, <2>1 DEF FrameAges
<1>19. JustBuilt /\ StrandedOnlyIfRefused
  BY DEF JustBuilt, StrandedOnlyIfRefused
<1> HIDE DEF Init, SocketInit
<1> QED BY <1>8, <1>9, <1>10, <1>12, <1>13, <1>14, <1>16, <1>17, <1>18, <1>19
        DEF ReplicatorInv, RxRings

\* The replicator's inductive invariant holds of every behaviour: the types, the
\* lifecycle of threads and socket, the accounts of the TX and RX rings, the table
\* and the ages of the TX frames.
THEOREM ReplicatorInvariant == Spec => []ReplicatorInv
<1>1. Init => ReplicatorInv
  BY InitHolds
<1>2. ReplicatorInv /\ [Next]_vars => ReplicatorInv'
  <2> SUFFICES ASSUME ReplicatorInv, [Next]_vars PROVE ReplicatorInv'
    OBVIOUS
  <2>1. /\ TypeOK /\ Lifecycle /\ InHand /\ TxRings /\ Told /\ LateBound /\ RxRings
        /\ FrameAges /\ JustBuilt /\ StrandedOnlyIfRefused /\ RxAccount
    BY DEF ReplicatorInv, RxRings
  <2>2. TypeOK' /\ Lifecycle' /\ InHand' /\ TxRings'
    BY <2>1, TypeStep, LifecycleStep, InHandStep, TxRingsStep
  <2>3. Told' /\ LateBound' /\ StrandedOnlyIfRefused'
    BY <2>1, ToldStep, LateStep, StrandedStep
  <2>4. RxRings'
    BY <2>1, ApartStep, RxAccountStep, BatchWaitsStep DEF RxRings
  <2>5. FrameAges' /\ JustBuilt'
    BY <2>1, FrameAgesStep, JustBuiltStep
  <2> QED BY <2>2, <2>3, <2>4, <2>5 DEF ReplicatorInv
<1> QED BY <1>1, <1>2, PTL DEF Spec

\* The accounts of the TX side agree, and the completion ring, whose entries are
\* released by the batch and only while sending, never stops the driver.
THEOREM TxAccountsAgree == Spec => []TxInv
<1>1. ReplicatorInv => TxInv
  <2> SUFFICES ASSUME ReplicatorInv PROVE TxInv
    OBVIOUS
  <2>1. TypeOK /\ TxRings
    BY DEF ReplicatorInv
  <2>2. ASSUME tx # <<>> PROVE Len(driver) + Len(cq) < COMP_SIZE
    <3>1. Len(tx) \in Nat \ {0}
      BY <2>1, <2>2, QueueFacts DEF TypeOK, TxTyped
    <3>2. cachedCompletions \in Nat
      BY <2>1 DEF TypeOK, TxTyped
    <3>3. /\ Len(tx) + Len(driver) + Len(cq) - cachedCompletions <= TX_FRAMES + DRIVER_DEPTH + 1
          /\ cachedCompletions < TX_BATCH_SIZE
      BY <2>1 DEF TxRings, Unpeeked
    <3>4. /\ TX_FRAMES \in Nat /\ TX_BATCH_SIZE \in Nat /\ DRIVER_DEPTH \in Nat /\ COMP_SIZE \in Nat
          /\ COMP_SIZE >= TX_FRAMES + TX_BATCH_SIZE + DRIVER_DEPTH
          /\ Len(driver) \in Nat /\ Len(cq) \in Nat
      BY <2>1, Sizes
    <3> QED BY <3>1, <3>2, <3>3, <3>4
  <2>3. CompletionRingNeverBlocks
    BY <2>2 DEF CompletionRingNeverBlocks
  <2> QED BY <2>1, <2>3 DEF TxInv, TxRings
<1> QED BY <1>1, ReplicatorInvariant, PTL

\* Submitted packets wait for a sleeping driver only after a refused wakeup.
THEOREM StrandedRight == Spec => []StrandedOnlyIfRefused
<1>1. ReplicatorInv => StrandedOnlyIfRefused
  BY DEF ReplicatorInv
<1> QED BY <1>1, ReplicatorInvariant, PTL

\* What control clients are told is true of the table, and a removed destination
\* is sent one more packet at most.
THEOREM TableHonoured == Spec => []DestinationsHonoured
<1>1. ReplicatorInv => DestinationsHonoured
  <2> SUFFICES ASSUME ReplicatorInv PROVE DestinationsHonoured
    OBVIOUS
  <2>1. TypeOK /\ Told /\ LateBound
    BY DEF ReplicatorInv
  <2>2. StaleSendBound
    BY <2>1 DEF LateBound, StaleSendBound
  <2>3. ASSUME reply.count = Cardinality(destinations) % COUNT_RANGE, reply.dests = destinations
        PROVE  Shown(reply) = Least(Cardinality(destinations) % COUNT_RANGE, CLIENT_ENTRIES)
    <3> DEFINE c == Cardinality(destinations)
               r == c % COUNT_RANGE
    <3>1. c \in Nat
      BY <2>1, FS_CardinalityType DEF Told
    <3>2. Shown(reply) = Least(r, Least(c, CLIENT_ENTRIES))
      BY <2>3 DEF Shown
    <3> HIDE DEF c
    <3>3. COUNT_RANGE \in Nat \ {0} /\ CLIENT_ENTRIES \in Nat
      BY ReplicatorAssumption
    <3>4. r \in Nat /\ r <= c
      <4>1. CASE c < COUNT_RANGE
        BY <3>1, <3>3, <4>1, ModSmall
      <4>2. CASE ~(c < COUNT_RANGE)
        BY <3>1, <3>3, <4>2
      <4> QED BY <4>1, <4>2
    <3> HIDE DEF r
    <3>5. Least(r, Least(c, CLIENT_ENTRIES)) = Least(r, CLIENT_ENTRIES)
      BY <3>1, <3>3, <3>4 DEF Least
    <3> QED BY <3>2, <3>5 DEF r, c
  <2>4. RepliesDescribeTable
    BY <2>1, <2>3 DEF RepliesDescribeTable, Told
  <2> QED BY <2>2, <2>4 DEF DestinationsHonoured
<1> QED BY <1>1, ReplicatorInvariant, PTL

\* A packet on its way out is overwritten in its frame only when as many packets as
\* there are frames are on their way, counting those given up.
THEOREM OverwritesBacklogged == Spec => []OverwrittenOnlyIfBacklogged
<1>1. ReplicatorInv => OverwrittenOnlyIfBacklogged
  <2> SUFFICES ASSUME ReplicatorInv, NEW k \in DOMAIN InFlight,
                      umem[InFlight[k].frame] # [dest |-> InFlight[k].dest, num |-> InFlight[k].num]
               PROVE  Len(InFlight) + failed >= TX_FRAMES
    BY DEF OverwrittenOnlyIfBacklogged
  <2>1. TypeOK /\ FrameAges
    BY DEF ReplicatorInv
  <2>2. /\ tx \in Seq(TxEntries) /\ driver \in Seq(TxEntries) /\ failed \in Nat
        /\ Len(tx) \in Nat /\ Len(driver) \in Nat /\ TX_FRAMES \in Nat
    BY <2>1, Sizes DEF TypeOK, TxTyped, GhostTyped
  <2>3. /\ InFlight \in Seq(TxEntries) /\ Len(InFlight) = Len(tx) + Len(driver)
        /\ \A j \in 1 .. Len(tx) + Len(driver) : InFlight[j] = IF j <= Len(tx) THEN tx[j] ELSE driver[j - Len(tx)]
    BY <2>2, ConcatProperties DEF InFlight
  <2>4. /\ Len(OnItsWay) = Len(driver) + Len(tx)
        /\ \A j \in 1 .. Len(driver) + Len(tx) : OnItsWay[j] = IF j <= Len(driver) THEN driver[j] ELSE tx[j - Len(driver)]
    BY <2>2, ConcatProperties DEF OnItsWay
  <2>5. k \in 1 .. Len(tx) + Len(driver)
    BY <2>3, LenProperties
  <2>6. \E j \in 1 .. Len(OnItsWay) : OnItsWay[j] = InFlight[k]
    <3>1. CASE k <= Len(tx)
      <4> DEFINE j == k + Len(driver)
      <4>1. j \in 1 .. Len(driver) + Len(tx) /\ ~(j <= Len(driver)) /\ j - Len(driver) = k
        BY <2>2, <2>5, <3>1
      <4>2. OnItsWay[j] = tx[k] /\ InFlight[k] = tx[k]
        BY <2>3, <2>4, <2>5, <3>1, <4>1
      <4> QED BY <2>4, <4>1, <4>2
    <3>2. CASE k > Len(tx)
      <4> DEFINE j == k - Len(tx)
      <4>1. j \in 1 .. Len(driver) + Len(tx) /\ j <= Len(driver) /\ ~(k <= Len(tx))
        BY <2>2, <2>5, <3>2
      <4>2. OnItsWay[j] = driver[j] /\ InFlight[k] = driver[j]
        BY <2>3, <2>4, <2>5, <4>1
      <4> QED BY <2>4, <4>1, <4>2
    <3> QED BY <2>2, <2>5, <3>1, <3>2
  <2>7. PICK j \in 1 .. Len(OnItsWay) : OnItsWay[j] = InFlight[k]
    BY <2>6
  <2>8. PICK age \in Nat \ {0} : age <= Since(j) /\ (age > TX_FRAMES \/ Intact(OnItsWay[j]))
    BY <2>1 DEF FrameAges
  <2>9. age > TX_FRAMES
    BY <2>7, <2>8 DEF Intact
  <2>10. Since(j) = Len(OnItsWay) - j + 1 + failed + 0 \/ Since(j) = Len(OnItsWay) - j + 1 + failed + 1
    BY DEF Since
  <2> QED BY <2>2, <2>3, <2>4, <2>7, <2>8, <2>9, <2>10
<1> QED BY <1>1, ReplicatorInvariant, PTL

\* An RX frame is in one place at a time, the packets in hand are in frames the
\* kernel has not got back, and frames disappear only through exceptions.
THEOREM FramesConserved == Spec => []RxFramesConserved
<1>1. ReplicatorInv => RxFramesConserved
  <2> SUFFICES ASSUME ReplicatorInv PROVE RxFramesConserved
    OBVIOUS
  <2> DEFINE f == fq
             r == [k \in DOMAIN rx |-> rx[k].frame]
             p == pendingRecycle
             a == f \o r
             held == a \o p
  <2>1. TypeOK /\ RxAccount /\ Apart(fq, rx, pendingRecycle) /\ BatchWaits
    BY DEF ReplicatorInv, RxRings
  <2>2. /\ f \in Seq(RxFrames) /\ p \in Seq(RxFrames) /\ rx \in Seq(RxEntries)
        /\ Len(f) \in Nat /\ Len(p) \in Nat /\ Len(rx) \in Nat
    BY <2>1, Sizes DEF TypeOK, RxTyped
  <2>3. /\ r \in Seq(RxFrames) /\ Len(r) = Len(rx)
        /\ \A k \in 1 .. Len(rx) : r[k] = rx[k].frame
    <3>1. DOMAIN rx = 1 .. Len(rx)
      BY <2>2, LenProperties
    <3>2. \A k \in 1 .. Len(rx) : rx[k] \in RxEntries
      BY <2>2, ElementOfSeq
    <3>3. \A k \in 1 .. Len(rx) : rx[k].frame \in RxFrames
      BY <3>2 DEF RxEntries
    <3> QED BY <2>2, <3>1, <3>3
  <2> HIDE DEF r
  <2>4. /\ a \in Seq(RxFrames) /\ Len(a) = Len(f) + Len(r)
        /\ \A k \in 1 .. Len(f) + Len(r) : a[k] = IF k <= Len(f) THEN f[k] ELSE r[k - Len(f)]
    BY <2>2, <2>3, ConcatProperties
  <2> HIDE DEF a, f, p
  <2>5. /\ held \in Seq(RxFrames) /\ Len(held) = Len(a) + Len(p)
        /\ \A k \in 1 .. Len(a) + Len(p) : held[k] = IF k <= Len(a) THEN a[k] ELSE p[k - Len(a)]
    <3>1. a \in Seq(RxFrames) /\ p \in Seq(RxFrames)
      BY <2>2, <2>4
    <3> QED BY <3>1, ConcatProperties
  <2>6. DOMAIN held = 1 .. Len(f) + Len(rx) + Len(p)
    BY <2>2, <2>3, <2>4, <2>5, LenProperties
  <2> HIDE DEF held
  <2>61. Apart(f, rx, p)
    BY <2>1 DEF f, p
  \* the three places of an element of held
  <2>7. \A k \in DOMAIN held :
          \/ k \in 1 .. Len(f) /\ held[k] = f[k]
          \/ k - Len(f) \in 1 .. Len(rx) /\ held[k] = rx[k - Len(f)].frame
          \/ k - (Len(f) + Len(rx)) \in 1 .. Len(p) /\ held[k] = p[k - (Len(f) + Len(rx))]
    <3> SUFFICES ASSUME NEW k \in DOMAIN held
                 PROVE  \/ k \in 1 .. Len(f) /\ held[k] = f[k]
                        \/ k - Len(f) \in 1 .. Len(rx) /\ held[k] = rx[k - Len(f)].frame
                        \/ k - (Len(f) + Len(rx)) \in 1 .. Len(p) /\ held[k] = p[k - (Len(f) + Len(rx))]
      OBVIOUS
    <3>0. Len(a) = Len(f) + Len(rx) /\ k \in 1 .. Len(a) + Len(p)
      BY <2>2, <2>3, <2>4, <2>6
    <3>1. CASE k <= Len(f)
      BY <2>2, <2>3, <2>4, <2>5, <3>0, <3>1
    <3>2. CASE k > Len(f) /\ k <= Len(f) + Len(rx)
      <4>1. held[k] = a[k] /\ a[k] = r[k - Len(f)] /\ k - Len(f) \in 1 .. Len(rx)
        BY <2>2, <2>3, <2>4, <2>5, <3>0, <3>2
      <4> QED BY <2>3, <4>1
    <3>3. CASE k > Len(f) + Len(rx)
      <4>1. held[k] = p[k - Len(a)] /\ k - (Len(f) + Len(rx)) \in 1 .. Len(p)
        BY <2>2, <2>5, <3>0, <3>3
      <4> QED BY <3>0, <4>1
    <3> QED BY <2>2, <3>0, <3>1, <3>2, <3>3
  <2>8. \A j, k \in DOMAIN held : held[j] = held[k] => j = k
    <3> SUFFICES ASSUME NEW j \in DOMAIN held, NEW k \in DOMAIN held, held[j] = held[k] PROVE j = k
      OBVIOUS
    <3>0. j \in Int /\ k \in Int
      BY <2>2, <2>6
    <3> DEFINE InFq(i, x) == i \in 1 .. Len(f) /\ x = f[i]
               InRx(i, x) == i - Len(f) \in 1 .. Len(rx) /\ x = rx[i - Len(f)].frame
               InP(i, x)  == /\ i - (Len(f) + Len(rx)) \in 1 .. Len(p)
                             /\ x = p[i - (Len(f) + Len(rx))]
    <3>a. \A x : ~(InFq(j, x) /\ InRx(k, x)) /\ ~(InFq(k, x) /\ InRx(j, x))
      BY <2>61 DEF Apart
    <3>b. \A x : ~(InFq(j, x) /\ InP(k, x)) /\ ~(InFq(k, x) /\ InP(j, x))
      BY <2>61 DEF Apart
    <3>c. \A x : ~(InRx(j, x) /\ InP(k, x)) /\ ~(InRx(k, x) /\ InP(j, x))
      BY <2>61 DEF Apart
    <3>1. ASSUME NEW x, InFq(j, x), InFq(k, x) PROVE j = k
      BY <2>61, <3>1 DEF Apart
    <3>2. ASSUME NEW x, InRx(j, x), InRx(k, x) PROVE j = k
      <4>1. j - Len(f) = k - Len(f)
        BY <2>61, <3>2 DEF Apart
      <4> QED BY <2>2, <3>0, <4>1
    <3>3. ASSUME NEW x, InP(j, x), InP(k, x) PROVE j = k
      <4>1. j - (Len(f) + Len(rx)) = k - (Len(f) + Len(rx))
        BY <2>61, <3>3 DEF Apart
      <4> QED BY <2>2, <3>0, <4>1
    <3>4. /\ InFq(j, held[j]) \/ InRx(j, held[j]) \/ InP(j, held[j])
          /\ InFq(k, held[j]) \/ InRx(k, held[j]) \/ InP(k, held[j])
      BY <2>7
    <3> HIDE DEF InFq, InRx, InP
    <3> QED BY <3>a, <3>b, <3>c, <3>1, <3>2, <3>3, <3>4
  <2>9. \A k \in DOMAIN batch : batch[k].frame \in ToSet(pendingRecycle)
    <3>1. DOMAIN batch = 1 .. Len(batch) /\ DOMAIN pendingRecycle = 1 .. Len(pendingRecycle)
      BY <2>1, LenProperties DEF TypeOK, QueueTyped, RxTyped
    <3> QED BY <2>1, <3>1 DEF BatchWaits, ToSet
  <2>10. xskMap => Len(held) + faults * MAX_ENTRIES >= RX_FRAMES
    <3>1. Len(held) = Len(fq) + Len(rx) + Len(pendingRecycle)
      BY <2>2, <2>3, <2>4, <2>5 DEF f, p
    <3>2. InUse <= Len(held) /\ InUse \in Nat
      <4>1. InUse = Len(fq) + Len(rx) + Len(pendingRecycle) \/ InUse = Len(fq) + Len(rx) + 0
        BY DEF InUse
      <4> QED BY <2>2, <3>1, <4>1 DEF f, p
    <3>3. faults * MAX_ENTRIES \in Nat
      <4>1. faults \in Nat /\ MAX_ENTRIES \in Nat
        BY <2>1, SocketAssumption, ReplicatorAssumption DEF TypeOK, MainTyped
      <4> QED BY <4>1, TimesNext
    <3>4. xskMap => InUse + faults * MAX_ENTRIES >= RX_FRAMES
      BY <2>1 DEF RxAccount
    <3>5. RX_FRAMES \in Nat /\ Len(held) \in Nat
      BY <2>2, <3>1, SocketAssumption DEF f, p
    <3> QED BY <3>2, <3>3, <3>4, <3>5
  <2> QED BY <2>8, <2>9, <2>10 DEF RxFramesConserved, held, a, r, f, p
<1> QED BY <1>1, ReplicatorInvariant, PTL
=============================================================================
