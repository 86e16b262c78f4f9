-------------------------- MODULE PacketReplicator --------------------------
(***************************************************************************)
(* The packet replicator: a queue thread that copies every packet of its   *)
(* AF_XDP socket to all destinations, the control thread that changes and  *)
(* lists the destinations, and the main thread that starts and stops them. *)
(*                                                                         *)
(* The code runs four queue threads, each with a socket of its own; what   *)
(* they share is the destination table, its mutex and the counters.  One   *)
(* is modelled.  A destination is a number, in the order of the table.     *)
(***************************************************************************)
EXTENDS AfXdpSocket, SequencesExt

CONSTANTS Destinations,   \* destinations a control client may name, in Nat \ {0}
          COUNT_RANGE,    \* values of the uint8_t count of a list reply (256)
          CLIENT_ENTRIES, \* destinations in the 1024 bytes a client reads (170)
          MaxPackets,     \* packets that arrive
          MaxMessages,    \* control messages that arrive
          MaxFaults       \* exceptions in the queue thread, of either kind

ASSUME ReplicatorAssumption ==
  /\ Destinations \subseteq Nat \ {0}
  /\ COUNT_RANGE \in Nat \ {0} /\ CLIENT_ENTRIES \in Nat
  /\ MaxPackets \in Nat /\ MaxMessages \in Nat /\ MaxFaults \in Nat

VARIABLES running,         \* running_
          destinations,    \* destinations_
          mutex,           \* who holds destinations_mutex_
          qpc,             \* queue thread: next step
          batch,           \* queue thread: received packets not yet handled
          current,         \* queue thread: current_destinations
          todo,            \* queue thread: those not sent to yet
          frame,           \* queue thread: tx_frame_number
          packetsReceived, \* packets_received_
          packetsSent,     \* packets_sent_
          cpc,             \* control thread: next step
          cmd,             \* control thread: the message in hand
          reply,           \* control thread: the response
          mpc,             \* main thread: next step
          arrived,         \* packets that have arrived
          messages,        \* control messages that have arrived
          faults,          \* exceptions that ended a batch so far
          thrown,          \* exceptions of createUdpPacket so far
          failed,          \* TX frames taken and not submitted
          transmitted,     \* packets the driver has sent
          bySocket,        \* packets sent through output_socket_ instead
          lostAtClose,     \* packets in the rings when the socket was closed
          refused,         \* the last wakeup that was needed was refused
          late             \* packets for a destination since its removal

queueVars   == <<qpc, batch, current, todo, frame, packetsReceived, packetsSent>>
controlVars == <<cpc, cmd, reply, messages>>
ghostVars   == <<thrown, failed, transmitted, bySocket, lostAtClose, refused, late>>
vars == <<socketVars, running, destinations, mutex, queueVars, controlVars,
          mpc, arrived, faults, ghostVars>>

\* add and remove carry a destination; "list" ignores it; "junk" is an unknown
\* command or an add or remove of less than 7 bytes
Message == [op : {"add", "remove"}, dest : Destinations]
             \cup [op : {"list", "junk"}, dest : {0}]
NoReply   == [count |-> 0, dests |-> {}]
NoMessage == [op |-> "junk", dest |-> 0]

Init ==
  /\ SocketInit
  /\ running = FALSE /\ destinations = {} /\ mutex = "free" /\ mpc = "limits"
  /\ qpc = "off" /\ batch = <<>> /\ current = {} /\ todo = {} /\ frame = 0
  /\ packetsReceived = 0 /\ packetsSent = 0
  /\ cpc = "off" /\ cmd = NoMessage /\ reply = NoReply /\ messages = 0
  /\ arrived = 0 /\ faults = 0 /\ thrown = 0 /\ failed = 0 /\ transmitted = 0
  /\ bySocket = 0 /\ lostAtClose = 0 /\ refused = FALSE /\ late = [d \in Destinations |-> 0]

-----------------------------------------------------------------------------
(* The queue thread: processPacketsForQueue *)

\* After a packet: the next one of the batch, or recycling
AfterPacket(rest) == IF rest = <<>> THEN "recycle" ELSE "packet"

\* Up to 64 packets, as many as the ring was seen to hold
QReceive(n) ==
  /\ qpc = "loop" /\ running
  /\ receive(n)
  /\ batch' = SubSeq(rx, 1, n) /\ qpc' = "packet"
  /\ UNCHANGED <<setupVars, txVars, running, destinations, mutex, current,
                 todo, frame, packetsReceived, packetsSent, controlVars, mpc, arrived,
                 faults, ghostVars>>

\* The packet is counted; one that is not valid UDP is left at that.
QPacket ==
  /\ qpc = "packet"
  /\ packetsReceived' = packetsReceived + 1
  /\ IF extractUdpPayload(Head(batch).shape)
       THEN qpc' = "snapshot" /\ UNCHANGED batch
       ELSE batch' = Tail(batch) /\ qpc' = AfterPacket(batch')
  /\ UNCHANGED <<socketVars, running, destinations, mutex, current, todo, frame,
                 packetsSent, controlVars, mpc, arrived, faults, ghostVars>>

\* Mutant: the table is copied for the first packet of a batch only.
Copied_PerBatch == IF Len(batch) = Len(pendingRecycle) THEN destinations ELSE current

\* current_destinations
Copied == destinations

\* replicatePacket copies the table under the mutex.
QSnapshot ==
  /\ qpc = "snapshot" /\ mutex = "free"
  /\ current' = Copied /\ todo' = current'
  /\ IF current' = {} THEN batch' = Tail(batch) /\ qpc' = AfterPacket(batch')
                      ELSE qpc' = "poll" /\ UNCHANGED batch
  /\ UNCHANGED <<socketVars, running, destinations, mutex, frame, packetsReceived,
                 packetsSent, controlVars, mpc, arrived, faults, ghostVars>>

\* There is no memory for the copy: the rest of the batch is abandoned, and
\* its frames are not recycled.
QThrow ==
  /\ qpc = "snapshot" /\ mutex = "free" /\ faults + thrown < MaxFaults
  /\ faults' = faults + 1 /\ batch' = <<>> /\ qpc' = "loop"
  /\ UNCHANGED <<socketVars, running, destinations, mutex, current, todo, frame,
                 packetsReceived, packetsSent, controlVars, mpc, arrived, ghostVars>>

\* The destination to send to: the first one left
NextDest(set) == CHOOSE d \in set : \A e \in set : d <= e

\* sendSinglePacketDirect begins
QPoll ==
  /\ qpc = "poll"
  /\ pollTxCompletions
  /\ qpc' = "build"
  /\ UNCHANGED <<setupVars, rxVars, prevUmemTxFrame, umem, tx, driver, awake,
                 running, destinations, mutex, batch, current, todo, frame, packetsReceived,
                 packetsSent, controlVars, mpc, arrived, faults, ghostVars>>

\* getNextTxFrame gives the frame out; a packet for a destination that has
\* been removed is counted.
TakeFrame ==
  /\ qpc = "build"
  /\ getNextTxFrame /\ frame' = prevUmemTxFrame
  /\ LET d == NextDest(todo) IN
       late' = [late EXCEPT ![d] = @ + (IF d \in destinations THEN 0 ELSE 1)]
  /\ UNCHANGED <<setupVars, rxVars, cachedCompletions, outstandingTx, tx, cq, cqSeen, driver,
                 awake, running, destinations, mutex, batch, current, todo, packetsReceived,
                 packetsSent, controlVars, mpc, arrived, faults, transmitted, bySocket,
                 lostAtClose, refused>>

\* createUdpPacket: the packet is written to the frame before a place in the
\* TX ring is asked for.  It always fits: what was received fits a frame.
QBuild ==
  /\ TakeFrame
  /\ umem' = [umem EXCEPT ![prevUmemTxFrame] =
                 [dest |-> NextDest(todo), num |-> Head(batch).num]]
  /\ qpc' = "reserve" /\ UNCHANGED <<thrown, failed>>

\* There is no memory for the address strings of createUdpPacket, which has
\* zeroed the frame by then: the frame is used up all the same.
QBuildThrows ==
  /\ TakeFrame /\ faults + thrown < MaxFaults
  /\ umem' = [umem EXCEPT ![prevUmemTxFrame] = Nothing]
  /\ qpc' = "fallback" /\ thrown' = thrown + 1 /\ failed' = failed + 1

\* A full TX ring: the driver is woken and this copy of the packet given up.
QReserve ==
  /\ qpc = "reserve"
  /\ IF TxHasRoom
       THEN /\ submitTxRing([frame |-> frame, dest |-> NextDest(todo), num |-> Head(batch).num])
            /\ qpc' = "wake" /\ UNCHANGED failed
       ELSE qpc' = "give up" /\ failed' = failed + 1 /\ UNCHANGED <<tx, outstandingTx>>
  /\ UNCHANGED <<setupVars, rxVars, prevUmemTxFrame, cachedCompletions, umem,
                 cq, cqSeen, driver, awake, running, destinations, mutex, batch, current, todo,
                 frame, packetsReceived, packetsSent, controlVars, mpc, arrived, faults, thrown,
                 transmitted, bySocket, lostAtClose, refused, late>>

\* What a destination adds to packets_sent_: replicatePacket counts what
\* sendToDestinationWithQueue reports as sent, by the TX ring or by the socket
SentBy(ok) == IF ok THEN 1 ELSE 0

\* replicatePacket goes on to the next destination, and after the last one to
\* the next packet.
NextDestination ==
  /\ todo' = todo \ {NextDest(todo)}
  /\ IF todo' # {} THEN qpc' = "poll" /\ UNCHANGED batch
                   ELSE batch' = Tail(batch) /\ qpc' = AfterPacket(batch')

\* The driver is woken either way; a submitted packet counts as sent.
QWake(refusal) ==
  /\ qpc \in {"wake", "give up"}
  /\ requestDriverPoll(refusal)
  /\ refused' = (~awake /\ refusal)
  /\ packetsSent' = packetsSent + SentBy(qpc = "wake")
  /\ NextDestination
  /\ UNCHANGED <<setupVars, rxVars, prevUmemTxFrame, cachedCompletions,
                 outstandingTx, umem, tx, cq, cqSeen, driver, running, destinations, mutex,
                 current, frame, packetsReceived, controlVars, mpc, arrived, faults, thrown,
                 failed, transmitted, bySocket, lostAtClose, late>>

\* sendToDestinationFallback: the payload goes out through output_socket_, or
\* sendto fails.
QFallback(ok) ==
  /\ qpc = "fallback"
  /\ packetsSent' = packetsSent + SentBy(ok)
  /\ bySocket' = bySocket + (IF ok THEN 1 ELSE 0)
  /\ NextDestination
  /\ UNCHANGED <<socketVars, running, destinations, mutex, current, frame, packetsReceived,
                 controlVars, mpc, arrived, faults, thrown, failed, transmitted, lostAtClose,
                 refused, late>>

QRecycle ==
  /\ qpc = "recycle"
  /\ recycleFrames
  /\ qpc' = "loop"
  /\ UNCHANGED <<setupVars, txVars, running, destinations, mutex, batch, current,
                 todo, frame, packetsReceived, packetsSent, controlVars, mpc, arrived, faults,
                 ghostVars>>

\* Mutant: the thread polls on.
QExit_Spins == qpc = "loop" /\ ~running /\ UNCHANGED vars

QExit ==
  /\ qpc = "loop" /\ ~running /\ qpc' = "done"
  /\ UNCHANGED <<socketVars, running, destinations, mutex, batch, current, todo, frame,
                 packetsReceived, packetsSent, controlVars, mpc, arrived, faults, ghostVars>>

-----------------------------------------------------------------------------
(* The control thread: handleControlProtocol, processControlMessage *)

\* The test at the top of the loop, made with the last step of a pass: running_
\* is not looked at again when recvfrom returns, so that one more message may be
\* handled after stop().
LoopTest == IF running THEN "receive" ELSE "done"

\* A message too short or unknown has no response.
CtlReceive(m) ==
  /\ cpc = "receive" /\ messages < MaxMessages
  /\ messages' = messages + 1 /\ cmd' = m
  /\ cpc' = IF m.op = "junk" THEN LoopTest ELSE "lock"
  /\ UNCHANGED <<socketVars, running, destinations, mutex, queueVars, reply, mpc, arrived,
                 faults, ghostVars>>

\* recvfrom times out after a second, or fails.
CtlTimeout ==
  /\ cpc = "receive" /\ cpc' = LoopTest
  /\ UNCHANGED <<socketVars, running, destinations, mutex, queueVars, cmd, reply, messages, mpc,
                 arrived, faults, ghostVars>>

\* The table without d
removeDestination(d) == destinations \ {d}

\* addDestination keeps the mutex through ARP resolution; removeDestination and
\* getDestinations hold it for one change or copy.  The count is one byte.
CtlLock ==
  /\ cpc = "lock" /\ mutex = "free"
  /\ \/ /\ cmd.op = "add" /\ destinations' = destinations \cup {cmd.dest}
        /\ mutex' = "control" /\ cpc' = "arp" /\ UNCHANGED <<reply, late>>
     \/ /\ cmd.op = "remove" /\ destinations' = removeDestination(cmd.dest)
        /\ late' = IF cmd.dest \in destinations THEN [late EXCEPT ![cmd.dest] = 0] ELSE late
        /\ reply' = [count |-> 1, dests |-> {}] /\ cpc' = "reply" /\ UNCHANGED mutex
     \/ /\ cmd.op = "list" /\ UNCHANGED <<destinations, mutex, late>>
        /\ reply' = [count |-> Cardinality(destinations) % COUNT_RANGE, dests |-> destinations]
        /\ cpc' = "reply"
  /\ UNCHANGED <<socketVars, running, queueVars, cmd, messages, mpc, arrived, faults, thrown,
                 failed, transmitted, bySocket, lostAtClose, refused>>

\* triggerArpResolution, 100 ms later; its failures are only printed.
CtlArp ==
  /\ cpc = "arp" /\ mutex' = "free"
  /\ reply' = [count |-> 1, dests |-> {}] /\ cpc' = "reply"
  /\ UNCHANGED <<socketVars, running, destinations, queueVars, cmd, messages, mpc, arrived,
                 faults, ghostVars>>

\* The message and its response are done with.
CtlReply ==
  /\ cpc = "reply" /\ cpc' = LoopTest /\ reply' = NoReply /\ cmd' = NoMessage
  /\ UNCHANGED <<socketVars, running, destinations, mutex, queueVars, messages, mpc, arrived,
                 faults, ghostVars>>

\* What the control client shows of a list reply (listDestinations)
Shown(r) == Least(r.count, Least(Cardinality(r.dests), CLIENT_ENTRIES))

-----------------------------------------------------------------------------
(* The main thread *)

\* initialize(): resource limits, XDP program, target address, AF_XDP socket,
\* control and output socket
InitSteps == <<"limits", "load", "configure", "bind", "register", "control", "output", "start">>
After(s)  == InitSteps[1 + CHOOSE k \in DOMAIN InitSteps : InitSteps[k] = s]

initialize ==
  /\ mpc \in ToSet(InitSteps) \ {"start"} /\ mpc' = After(mpc)
  /\ \/ mpc \in {"limits", "control", "output"} /\ UNCHANGED socketVars
     \/ mpc = "load" /\ loadXdpProgram
     \/ mpc = "configure" /\ \E found \in BOOLEAN : configureXdpProgram(found)
     \/ mpc = "bind" /\ bind
     \/ mpc = "register" /\ registerXskMap
  /\ UNCHANGED <<running, destinations, mutex, queueVars, controlVars, arrived, faults,
                 ghostVars>>

\* Any step may throw, the configuration on a listen address that is not one;
\* main() catches it and returns.
initializeThrows ==
  /\ mpc \in ToSet(InitSteps) \ {"start"} /\ mpc' = "failed"
  /\ UNCHANGED <<socketVars, running, destinations, mutex, queueVars, controlVars, arrived,
                 faults, ghostVars>>

start ==
  /\ mpc = "start" /\ running' = TRUE /\ mpc' = "running"
  /\ qpc' = "loop" /\ cpc' = "receive"
  /\ UNCHANGED <<socketVars, destinations, mutex, batch, current, todo, frame, packetsReceived,
                 packetsSent, cmd, reply, messages, arrived, faults, ghostVars>>

\* A signal: stop() takes running_ back and waits for the threads.  It runs on
\* the main thread, to which Linux delivers a signal that it does not block.
stop ==
  /\ mpc = "running" /\ running' = FALSE /\ mpc' = "joining"
  /\ UNCHANGED <<socketVars, destinations, mutex, queueVars, controlVars, arrived, faults,
                 ghostVars>>

\* Both threads have been joined; unloadXdpProgram
Joined ==
  /\ mpc = "joining" /\ qpc = "done" /\ cpc = "done" /\ mpc' = "unloaded"
  /\ unloadXdpProgram
  /\ UNCHANGED <<running, destinations, mutex, queueVars, controlVars, arrived,
                 faults, ghostVars>>

\* The replicator is destroyed and with it the socket.  The stop() of the
\* destructor does nothing: running_ is false, also when initialize() failed.
Destroy ==
  /\ \/ mpc = "unloaded" /\ mpc' = "done"
     \/ mpc = "failed" /\ mpc' = "aborted"
  /\ close
  /\ lostAtClose' = Len(tx) + Len(driver)
  /\ UNCHANGED <<running, destinations, mutex, queueVars, controlVars, arrived, faults, thrown,
                 failed, transmitted, bySocket, refused, late>>

Terminated == mpc \in {"done", "aborted"} /\ UNCHANGED vars

-----------------------------------------------------------------------------
(* The kernel *)

threadVars == <<running, destinations, mutex, queueVars, controlVars, mpc>>

\* Packets come through the filter as long as it is there.
Arrive(p) ==
  /\ arrived < MaxPackets
  /\ arrived' = arrived + 1
  /\ KernelRx(arrived', p)
  /\ UNCHANGED <<threadVars, faults, ghostVars>>

DriverTakes == KernelTxTake /\ UNCHANGED <<threadVars, arrived, faults, ghostVars>>

DriverSends ==
  /\ KernelTxComplete
  /\ transmitted' = transmitted + 1
  /\ UNCHANGED <<threadVars, arrived, faults, thrown, failed, bySocket, lostAtClose, refused, late>>

DriverSleeps == KernelSleep /\ UNCHANGED <<threadVars, arrived, faults, ghostVars>>

-----------------------------------------------------------------------------
QueueThread ==
  \/ \E n \in 1 .. MAX_ENTRIES : QReceive(n)
  \/ QPacket \/ QSnapshot \/ QThrow \/ QPoll \/ QBuild \/ QBuildThrows \/ QReserve
  \/ \E refusal \in BOOLEAN : QWake(refusal)
  \/ \E ok \in BOOLEAN : QFallback(ok)
  \/ QRecycle \/ QExit

ControlThread ==
  \/ \E m \in Message : CtlReceive(m)
  \/ CtlTimeout \/ CtlLock \/ CtlArp \/ CtlReply

Next ==
  \/ QueueThread \/ ControlThread
  \/ initialize \/ initializeThrows \/ start \/ stop \/ Joined \/ Destroy \/ Terminated
  \/ \E p \in Shapes : Arrive(p)
  \/ DriverTakes \/ DriverSends \/ DriverSleeps

\* Threads that can run do run, and the signal comes; nothing is assumed of
\* the clients, the network or the driver.
Fairness ==
  /\ WF_vars(QueueThread)
  /\ WF_vars(CtlTimeout \/ CtlLock \/ CtlArp \/ CtlReply)
  /\ WF_vars(initialize \/ initializeThrows \/ start \/ stop \/ Joined \/ Destroy)

Spec == Init /\ [][Next]_vars /\ Fairness
-----------------------------------------------------------------------------
(* Properties *)

InFlight == tx \o driver

\* A packet in a TX frame, a TX descriptor, and a packet in the RX ring
Packets   == [dest : Destinations, num : 1 .. MaxPackets]
TxEntries == [frame : TxFrames, dest : Destinations, num : 1 .. MaxPackets]
RxEntries == [frame : RxFrames, num : 1 .. MaxPackets, shape : Shapes]

SetupTyped ==
  closed \in BOOLEAN /\ attached \in BOOLEAN /\ xskMap \in BOOLEAN /\ configured \in BOOLEAN
TxTyped ==
  /\ prevUmemTxFrame \in TxFrames /\ cachedCompletions \in 0 .. COMP_SIZE
  /\ outstandingTx \in Nat /\ cqSeen \in 0 .. COMP_SIZE /\ awake \in BOOLEAN
  /\ umem \in [TxFrames -> Packets \cup {Nothing}]
  /\ tx \in Seq(TxEntries) /\ driver \in Seq(TxEntries) /\ cq \in Seq(TxFrames)
RxTyped == fq \in Seq(RxFrames) /\ pendingRecycle \in Seq(RxFrames) /\ rx \in Seq(RxEntries)
QueueTyped ==
  /\ qpc \in {"off", "loop", "packet", "snapshot", "poll", "build", "reserve", "wake",
               "give up", "fallback", "recycle", "done"}
  /\ batch \in Seq(RxEntries) /\ todo \subseteq current /\ current \subseteq Destinations
  /\ packetsReceived \in 0 .. MaxPackets /\ packetsSent \in Nat /\ frame \in TxFrames
ControlTyped ==
  /\ cpc \in {"off", "receive", "lock", "arp", "reply", "done"}
  /\ cmd \in Message /\ messages \in 0 .. MaxMessages
  /\ destinations \subseteq Destinations /\ mutex \in {"free", "control"}
MainTyped ==
  /\ mpc \in ToSet(InitSteps) \cup {"failed", "running", "joining", "unloaded", "done", "aborted"}
  /\ running \in BOOLEAN /\ arrived \in 0 .. MaxPackets /\ faults \in 0 .. MaxFaults
GhostTyped ==
  /\ thrown \in 0 .. MaxFaults /\ failed \in Nat /\ transmitted \in Nat
  /\ bySocket \in Nat /\ lostAtClose \in Nat
  /\ refused \in BOOLEAN /\ late \in [Destinations -> Nat]

\* Type correctness; frames, counters and steps of the threads are in range.
TypeOK ==
  /\ SetupTyped /\ TxTyped /\ RxTyped
  /\ QueueTyped /\ ControlTyped /\ MainTyped /\ GhostTyped

\* outstanding_tx_ is what the socket has submitted and not had back, although
\* completions are peeked, cached and released at different times.
OutstandingExact ==
  ~closed => /\ outstandingTx = Len(tx) + Len(driver) + Len(cq)
             /\ cachedCompletions + cqSeen <= Len(cq)

\* Releasing completions by the batch, and only while sending, never makes the
\* completion ring the reason for the driver to stop.
CompletionRingNeverBlocks ==
  Len(driver) < DRIVER_DEPTH /\ tx # <<>> => Len(driver) + Len(cq) < COMP_SIZE

\* getNextTxFrame does not ask who has the frame.  A packet on its way out is
\* overwritten only when as many packets as there are frames are on their way,
\* counting the frames used up for none: the TX ring was full, or an exception
\* sent the packet through the socket.
OverwrittenOnlyIfBacklogged ==
  \A k \in DOMAIN InFlight :
    umem[InFlight[k].frame] # [dest |-> InFlight[k].dest, num |-> InFlight[k].num]
      => Len(InFlight) + failed >= TX_FRAMES

\* What AFXDPSocket.hpp promises of getNextTxFrame, a frame that is available:
\* the packet of a descriptor is in its frame until the driver has sent it.
FrameNotReused ==
  \A k \in DOMAIN InFlight :
    umem[InFlight[k].frame] = [dest |-> InFlight[k].dest, num |-> InFlight[k].num]

\* An RX frame is in one place at a time, so that the kernel never writes to a
\* packet of the batch in hand, whose frames wait to be recycled.  Frames
\* disappear only through an exception, at most a batch for each: recycleFrames
\* always finds room.
RxFramesConserved ==
  LET held == fq \o [k \in DOMAIN rx |-> rx[k].frame] \o pendingRecycle IN
    /\ \A j, k \in DOMAIN held : held[j] = held[k] => j = k
    /\ \A k \in DOMAIN batch : batch[k].frame \in ToSet(pendingRecycle)
    /\ xskMap => Len(held) + faults * MAX_ENTRIES >= RX_FRAMES

\* packets_sent_ counts the packets that left, through the TX ring or through
\* the fallback socket, and those that still may; close() drops the latter.
SentAccounted ==
  packetsSent + (IF qpc = "wake" THEN 1 ELSE 0)
    = transmitted + bySocket + Len(tx) + Len(driver) + lostAtClose

\* The accounts of the TX side agree: what was counted as sent, what is on its
\* way, what has come back and what has been released.
TxInv == TypeOK /\ OutstandingExact /\ CompletionRingNeverBlocks /\ SentAccounted

\* After a destination was removed, the queue thread sends it no more than the
\* packet whose copy of the table was taken before.
StaleSendBound == \A d \in Destinations : late[d] <= 1

\* Submitted packets wait for a sleeping driver only when the wakeup after the
\* last of them was refused, or is the thread's next step.
StrandedOnlyIfRefused ==
  tx # <<>> /\ ~awake /\ ~closed => refused \/ qpc = "wake"

\* What the client is told is true of the table when it is told: the destination
\* is in it or not, and the list has as many of the table's entries as the count
\* byte says, which wraps, and the client's buffer holds.
RepliesDescribeTable ==
  cpc = "reply" =>
    /\ cmd.op = "add" => cmd.dest \in destinations
    /\ cmd.op = "remove" => cmd.dest \notin destinations
    /\ cmd.op = "list" =>
         /\ reply.dests = destinations
         /\ Shown(reply) = Least(Cardinality(destinations) % COUNT_RANGE, CLIENT_ENTRIES)

\* The two together: what a client was told holds of the table, and the queue
\* thread goes by an older table for no more than the packet in hand.
DestinationsHonoured == RepliesDescribeTable /\ StaleSendBound

\* stop() returns, once the signal has come: the queue thread gets past the
\* mutex, which the control thread may hold for the time of an ARP resolution,
\* and both see running_.  The XDP program is then off the interface for good and
\* the socket out of its map.  The only other end is a failed initialize().
StopReturns ==
  <>[](mpc = "aborted" \/ (mpc = "done" /\ closed /\ ~attached /\ ~xskMap))
=============================================================================
