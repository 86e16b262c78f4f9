---------------------------- MODULE AfXdpSocket ----------------------------
(***************************************************************************)
(* One AF_XDP socket (class AFXDPSocket) and the kernel behind it: the     *)
(* TX, completion, fill and RX rings, the frames of the UMEM that travel   *)
(* through them, the driver, and the XDP program unicast_filter that       *)
(* decides which packets reach the socket.  Every operation is an action   *)
(* on part of the state; PacketReplicator puts them in the order of a      *)
(* queue thread.                                                           *)
(*                                                                         *)
(* Frames 0 .. TX_FRAMES - 1 are for TX, the others for RX.  A frame       *)
(* stands for its UMEM address.  The rings are the sequences of what has   *)
(* been submitted and not yet consumed.  libxdp and the kernel are         *)
(* external: a reservation is all or nothing; a peek of the completion     *)
(* ring looks at the producer index again only when it has given out all   *)
(* it has seen; the kernel takes a TX descriptor only together with a      *)
(* place in the completion ring.                                           *)
(***************************************************************************)
EXTENDS Integers, Sequences, FiniteSets

CONSTANTS TX_FRAMES,     \* frames for TX, size of the TX ring (2048)
          RX_FRAMES,     \* frames for RX, size of the RX ring (2048)
          TX_BATCH_SIZE, \* completions are released this many at a time (64)
          COMP_SIZE,     \* size of the completion ring (4096)
          DRIVER_DEPTH,  \* descriptors the driver holds at a time
          MAX_ENTRIES,   \* packets per receive (64)
          Shapes         \* the packets that may arrive, see Shape

\* The default TX ring of the ENA driver has 1024 places: 4096 completions are
\* enough for 2048 + 64 + 1024.
ASSUME SocketAssumption ==
  /\ TX_FRAMES \in Nat \ {0} /\ RX_FRAMES \in Nat \ {0} /\ MAX_ENTRIES \in Nat \ {0}
  /\ TX_BATCH_SIZE \in Nat \ {0} /\ DRIVER_DEPTH \in Nat \ {0}
  /\ COMP_SIZE \in Nat /\ COMP_SIZE >= TX_FRAMES + TX_BATCH_SIZE + DRIVER_DEPTH

FILL_SIZE == 2 * RX_FRAMES
TxFrames  == 0 .. TX_FRAMES - 1
RxFrames  == TX_FRAMES .. TX_FRAMES + RX_FRAMES - 1

\* What the filter and the parser look at: lengths in bytes, ihl in words
Shape == [eth : {"ip", "other"}, proto : {"udp", "other"}, ihl : 0 .. 15,
          len : Nat, udpLen : Nat, toTarget : BOOLEAN]

VARIABLES closed,             \* closed_
          attached,           \* the XDP program is on the interface
          xskMap,             \* the socket is registered in xsks_map
          configured,         \* config_map holds the target address
          prevUmemTxFrame,    \* prev_umem_tx_frame_, modulo TX_FRAMES
          cachedCompletions,  \* cached_completions_: peeked, not released
          outstandingTx,      \* outstanding_tx_
          pendingRecycle,     \* pending_recycle_addrs_
          umem,               \* the packet in each TX frame
          tx,                 \* TX ring: frame and the packet it was sent for
          cq,                 \* completion ring, the peeked ones first
          cqSeen,             \* completions seen by a peek, not given out yet
          fq,                 \* fill ring
          rx,                 \* RX ring: frame, number and shape of a packet
          driver,             \* TX descriptors the driver has taken
          awake               \* the driver polls the TX ring (no need_wakeup)

txVars     == <<prevUmemTxFrame, cachedCompletions, outstandingTx, umem, tx, cq, cqSeen, driver, awake>>
rxVars     == <<pendingRecycle, fq, rx>>
setupVars  == <<closed, attached, xskMap, configured>>
socketVars == <<setupVars, txVars, rxVars>>

Nothing == [dest |-> 0, num |-> 0]   \* a frame not written yet, or zeroed

Least(a, b) == IF a < b THEN a ELSE b

\* The constructor; the XDP program is not loaded yet.
SocketInit ==
  /\ closed = FALSE /\ attached = FALSE /\ xskMap = FALSE /\ configured = FALSE
  /\ prevUmemTxFrame = 0 /\ cachedCompletions = 0 /\ outstandingTx = 0
  /\ pendingRecycle = <<>> /\ umem = [f \in TxFrames |-> Nothing]
  /\ tx = <<>> /\ cq = <<>> /\ cqSeen = 0 /\ driver = <<>> /\ awake = FALSE
  /\ fq = <<>> /\ rx = <<>>

-----------------------------------------------------------------------------
(* Set-up and removal *)

\* The XDP program is opened and attached to the interface.
loadXdpProgram ==
  attached' = TRUE /\ UNCHANGED <<closed, xskMap, configured, txVars, rxVars>>

\* The target address is stored; finding no config_map is only warned about.
configureXdpProgram(found) ==
  configured' = found /\ UNCHANGED <<closed, attached, xskMap, txVars, rxVars>>

\* setupUMem and bind: all RX frames go to the fill ring.
bind ==
  /\ fq' = [k \in 1 .. RX_FRAMES |-> TX_FRAMES + k - 1]
  /\ UNCHANGED <<setupVars, txVars, pendingRecycle, rx>>

\* From here on the XDP program finds the socket.
registerXskMap ==
  xskMap' = TRUE /\ UNCHANGED <<closed, attached, configured, txVars, rxVars>>

unloadXdpProgram ==
  attached' = FALSE /\ UNCHANGED <<closed, xskMap, configured, txVars, rxVars>>

-----------------------------------------------------------------------------
(* Packets *)

ETH == 14
IP  == 20
UDP == 8
Headers(p) == ETH + 4 * p.ihl + UDP

\* The XDP program redirects the packet to the socket; otherwise it passes
\* it to the kernel's own stack.
unicast_filter(p) ==
  p.len >= ETH + IP /\ p.eth = "ip" /\ p.proto = "udp"
    /\ 4 * p.ihl >= IP /\ p.len >= Headers(p) /\ configured /\ p.toTarget /\ xskMap

\* The replicator's own check of a packet it was given
extractUdpPayload(p) ==
  /\ p.len >= ETH + IP + UDP /\ p.eth = "ip" /\ p.proto = "udp"
  /\ 4 * p.ihl >= IP /\ p.len >= Headers(p)
  /\ p.udpLen >= UDP /\ p.udpLen <= p.len - Headers(p) + UDP

-----------------------------------------------------------------------------
(* TX: what the queue thread calls *)

\* Mutant: one completion more than a full batch is waited for.
pollTxCompletions_WaitsForMore ==
  LET avail == IF cqSeen > 0 THEN cqSeen ELSE Len(cq) - cachedCompletions
      n     == IF outstandingTx = 0 THEN 0 ELSE Least(avail, TX_FRAMES)
      c     == cachedCompletions + n
  IN  /\ cqSeen' = IF outstandingTx = 0 THEN cqSeen ELSE avail - n
      /\ IF n > 0 /\ c > TX_BATCH_SIZE
           THEN cq' = SubSeq(cq, c + 1, Len(cq)) /\ cachedCompletions' = 0
                  /\ outstandingTx' = outstandingTx - c
           ELSE cachedCompletions' = c /\ UNCHANGED <<cq, outstandingTx>>

\* Peek at most tx_frames_ completions; release all that are cached once
\* they make a full batch.
pollTxCompletions ==
  LET avail == IF cqSeen > 0 THEN cqSeen ELSE Len(cq) - cachedCompletions
      n     == IF outstandingTx = 0 THEN 0 ELSE Least(avail, TX_FRAMES)
      c     == cachedCompletions + n
  IN  /\ cqSeen' = IF outstandingTx = 0 THEN cqSeen ELSE avail - n
      /\ IF n > 0 /\ c >= TX_BATCH_SIZE
           THEN cq' = SubSeq(cq, c + 1, Len(cq)) /\ cachedCompletions' = 0
                  /\ outstandingTx' = outstandingTx - c
           ELSE cachedCompletions' = c /\ UNCHANGED <<cq, outstandingTx>>

\* Mutant: the counter wraps one frame early.
getNextTxFrame_Early ==
  prevUmemTxFrame' = IF TX_FRAMES = 1 THEN 0 ELSE (prevUmemTxFrame + 1) % (TX_FRAMES - 1)

\* The frame to use is prevUmemTxFrame: no look at who has it.
getNextTxFrame == prevUmemTxFrame' = (prevUmemTxFrame + 1) % TX_FRAMES

\* reserveTxRing(1) succeeds
TxHasRoom == Len(tx) < TX_FRAMES

\* setTxDescriptor and submitTxRing of one descriptor
submitTxRing(entry) == tx' = Append(tx, entry) /\ outstandingTx' = outstandingTx + 1

\* Mutant: the driver is woken only when the ring is full.
requestDriverPoll_IfFull(refusal) == awake' = (awake \/ (~refusal /\ ~TxHasRoom))

\* A sleeping driver is woken by an empty sendto, which may be refused (EAGAIN,
\* EBUSY, ENOBUFS, ENETDOWN): the code takes that for success.
requestDriverPoll(refusal) == awake' = (awake \/ ~refusal)

-----------------------------------------------------------------------------
(* RX: what the queue thread calls *)

\* n packets are peeked and released; their frames are remembered, and the
\* frames remembered before are forgotten.
receive(n) ==
  /\ n \in 1 .. Least(Len(rx), MAX_ENTRIES)
  /\ rx' = SubSeq(rx, n + 1, Len(rx))
  /\ pendingRecycle' = [k \in 1 .. n |-> rx[k].frame]
  /\ UNCHANGED fq

\* Mutant: the list of frames is not emptied.
recycleFrames_KeepsList ==
  /\ fq' = IF Len(fq) + Len(pendingRecycle) <= FILL_SIZE THEN fq \o pendingRecycle ELSE fq
  /\ UNCHANGED <<pendingRecycle, rx>>

\* The reservation is all or nothing; the list is emptied either way.
recycleFrames ==
  /\ fq' = IF Len(fq) + Len(pendingRecycle) <= FILL_SIZE THEN fq \o pendingRecycle ELSE fq
  /\ pendingRecycle' = <<>>
  /\ UNCHANGED rx

-----------------------------------------------------------------------------
(* The kernel *)

\* The driver takes a descriptor and with it a place in the completion ring.
KernelTxTake ==
  /\ ~closed /\ awake /\ tx # <<>>
  /\ Len(driver) < DRIVER_DEPTH /\ Len(driver) + Len(cq) < COMP_SIZE
  /\ driver' = Append(driver, Head(tx)) /\ tx' = Tail(tx)
  /\ UNCHANGED <<setupVars, rxVars, prevUmemTxFrame,
                 cachedCompletions, outstandingTx, umem, cq, cqSeen, awake>>

\* The packet in the frame goes out and the frame comes back.
KernelTxComplete ==
  /\ ~closed /\ driver # <<>>
  /\ cq' = Append(cq, Head(driver).frame) /\ driver' = Tail(driver)
  /\ UNCHANGED <<setupVars, rxVars, prevUmemTxFrame,
                 cachedCompletions, outstandingTx, umem, tx, cqSeen, awake>>

\* Out of work, the driver asks to be woken for the next descriptor.
KernelSleep ==
  /\ ~closed /\ awake /\ tx = <<>> /\ awake' = FALSE
  /\ UNCHANGED <<setupVars, rxVars, prevUmemTxFrame,
                 cachedCompletions, outstandingTx, umem, tx, cq, cqSeen, driver>>

\* Packet number num arrives: it is written to a frame of the fill ring and
\* announced in the RX ring when the filter redirects it and there is a frame.
KernelRx(num, p) ==
  /\ ~closed /\ attached
  /\ IF unicast_filter(p) /\ fq # <<>> /\ Len(rx) < RX_FRAMES
       THEN rx' = Append(rx, [frame |-> Head(fq), num |-> num, shape |-> p]) /\ fq' = Tail(fq)
       ELSE UNCHANGED <<rx, fq>>
  /\ UNCHANGED <<setupVars, pendingRecycle, txVars>>

\* The socket leaves xsks_map and is deleted with its rings.  What close() does
\* to finish pending TX depends on wrapper_->outstanding_tx, which stays 0.
close ==
  /\ ~closed /\ closed' = TRUE /\ xskMap' = FALSE
  /\ tx' = <<>> /\ driver' = <<>>
  /\ UNCHANGED <<attached, configured, rxVars, prevUmemTxFrame, cachedCompletions,
                 outstandingTx, umem, cq, cqSeen, awake>>
=============================================================================
