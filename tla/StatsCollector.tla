--------------------------- MODULE StatsCollector ---------------------------
(***************************************************************************)
(* The statistics ring of timestamp_client and timestamp_server            *)
(* (stats_collector_t).  One thread, the recorder, announces a packet      *)
(* (the client has sent it, the server has queued its answer), then        *)
(* creates the packet's entry (create_minimal_stats_entry, stats_enqueue)  *)
(* and fills in its own timestamp.  Other threads fill in theirs, whenever *)
(* they learn of the packet, by searching the ring for its sequence number *)
(* (update_stats_buffer_with_tx_timestamp, ..._app_tx_..., ..._rx_...).    *)
(* When the ring is full a new entry replaces the oldest.                  *)
(*                                                                         *)
(*   client round trip: recorder = main loop; updaters = TX timestamp      *)
(*     thread and RX thread;    one way: recorder = main loop, updater =   *)
(*     TX timestamp thread                                                 *)
(*   server round trip: recorder = RX loop; updaters = TX thread and TX    *)
(*     timestamp thread                                                    *)
(*                                                                         *)
(* Packet p is the p-th recorded one.  The threads know packets only by    *)
(* their sequence numbers.  Those a client gives out go up by one, but a   *)
(* server records what it receives: several clients, or one that is        *)
(* restarted, use the same numbers, and all datagrams of less than four    *)
(* bytes have number 2^32 - 1.  A timestamp is represented by the packet   *)
(* it was taken for, an entry by the packet it was created for, and 0 is   *)
(* zeroed memory.                                                          *)
(***************************************************************************)
EXTENDS Ring, FiniteSets

CONSTANTS Requested,   \* the number of packets given to --stats
          Updaters,    \* the threads that only update entries
          Numberings,  \* the ways the packets may be numbered
          MaxBatch,    \* most packets announced by one sendmmsg (128)
          MaxPackets,  \* bound: packets of the test
          MaxLookups   \* bound: updates made by each updater

ASSUME StatsAssumption ==
  /\ Requested \in Nat /\ Requested > 1
  /\ MaxBatch \in Nat \ {0} /\ MaxPackets \in Nat /\ MaxLookups \in Nat

\* Between a number and its double there is a power of two.
ASSUME SizeAssumption == next_power_of_2(Requested) \in Requested .. 2 * Requested

\* The recorder's timestamp is a field of its own.
ASSUME OwnAssumption == "own" \notin Updaters

Size    == next_power_of_2(Requested)     \* stats->size_mask + 1
Slots   == 0 .. Size - 1
Packets == 1 .. MaxPackets
ASSUME NumberAssumption == Numberings \subseteq [Packets -> Nat]

Own     == "own"                          \* the timestamp the recorder sets
Kinds   == Updaters \cup {Own}

VARIABLES head, tail,  \* stats->head, stats->tail
          seqNum,      \* the sequence number of every packet
          buf,         \* stats->buffer: packet and timestamps
          dropped,     \* stats->dropped_entries
          total,       \* stats->total_entries
          announced,   \* packets the other threads may know of
          rpc,         \* where the recorder is
          copied,      \* parts of the entry stats_enqueue has copied so far
          upc,         \* where each updater is
          job,         \* what each updater is looking for, and how far it got
          lookups,     \* updates started by each updater
          missed       \* history: lookups of a packet that was in the ring
                       \* during the whole search but was not found, and
                       \* whether tail moved between the two index loads

recVars == <<head, tail, dropped, total, announced, rpc, copied>>
updVars == <<upc, job, lookups, missed>>
vars    == <<recVars, buf, updVars, seqNum>>

NoStamps  == [k \in Kinds |-> 0]
NoJob     == [pkt |-> 0, tail |-> 0, head |-> 0, i |-> 0,
              present |-> FALSE, torn |-> FALSE]
Count     == RingCount(head, tail, Size)
\* (current_head - 1 - i) & size_mask
Back(h, i) == (h - 1 - i) % Size

\* seq_num of the entry of packet p, or of an entry not written yet
NumberOf(p) == IF p \in Packets THEN seqNum[p] ELSE 0

\* The active entries, oldest first, and whether packet p has one
Window   == RingContents([s \in Slots |-> buf[s].pkt], head, tail, Size)
InRing(p) == \E k \in 1 .. Count : Window[k] = p

\* create_stats_collector: head = tail = 0 and a zeroed buffer
Init ==
  /\ head = 0 /\ tail = 0 /\ dropped = 0 /\ total = 0
  /\ buf = [s \in Slots |-> [pkt |-> 0, ts |-> NoStamps]]
  /\ announced = 0 /\ rpc = "idle" /\ copied = {}
  /\ upc = [u \in Updaters |-> "idle"] /\ job = [u \in Updaters |-> NoJob]
  /\ lookups = [u \in Updaters |-> 0] /\ missed = {}
  /\ seqNum \in Numberings

-----------------------------------------------------------------------------
(* The recorder *)

\* sendmmsg sent n packets (client), or a packet was received and its answer
\* queued (server): other threads can now meet its sequence number.
Announce(n) ==
  /\ rpc = "idle" /\ announced = total
  /\ announced + n <= MaxPackets
  /\ announced' = announced + n
  /\ UNCHANGED <<head, tail, dropped, total, rpc, copied, buf, updVars>>

\* Mutant: the oldest entry is not given up when the ring is full.
EnqueueCheck_KeepsTail ==
  /\ rpc = "idle" /\ total < announced
  /\ rpc' = "copy" /\ copied' = {}
  /\ dropped' = IF RingFull(head, tail, Size) THEN dropped + 1 ELSE dropped
  /\ UNCHANGED <<head, tail, total, announced, buf, updVars>>

\* stats_enqueue of packet total + 1: a full ring gives up its oldest entry.
EnqueueCheck ==
  /\ rpc = "idle" /\ total < announced
  /\ rpc' = "copy" /\ copied' = {}
  /\ \/ /\ RingFull(head, tail, Size)
        /\ tail' = RingNext(tail, Size)
        /\ dropped' = dropped + 1
     \/ /\ ~RingFull(head, tail, Size)
        /\ UNCHANGED <<tail, dropped>>
  /\ UNCHANGED <<head, total, announced, buf, updVars>>

\* The structure copy is not atomic and its order is the compiler's: the
\* sequence number and the (zero) timestamps arrive in either order.
EnqueueCopy(part) ==
  /\ rpc = "copy" /\ part \in {"seq", "ts"} \ copied
  /\ copied' = copied \cup {part}
  /\ buf' = IF part = "seq" THEN [buf EXCEPT ![head].pkt = total + 1]
                            ELSE [buf EXCEPT ![head].ts = NoStamps]
  /\ rpc' = IF copied' = {"seq", "ts"} THEN "publish" ELSE "copy"
  /\ UNCHANGED <<head, tail, dropped, total, announced, updVars>>

EnqueuePublish ==
  /\ rpc = "publish"
  /\ head' = RingNext(head, Size) /\ total' = total + 1
  /\ rpc' = "own"
  /\ UNCHANGED <<tail, dropped, announced, copied, buf, updVars>>

\* The recorder's own update_stats_buffer_with_..._timestamp: nobody else
\* moves head, tail or a sequence number, so the search is one step.
OwnUpdate ==
  /\ rpc = "own"
  /\ buf' = LET hits == {i \in 0 .. Count - 1 : NumberOf(buf[Back(head, i)].pkt) = seqNum[total]}
            IN  IF hits = {} THEN buf
                ELSE [buf EXCEPT ![Back(head, CHOOSE i \in hits : \A j \in hits : i <= j)].ts[Own] = total]
  /\ rpc' = "idle"
  /\ UNCHANGED <<head, tail, dropped, total, announced, copied, updVars>>

-----------------------------------------------------------------------------
(* update_stats_buffer_with_*_timestamp in another thread *)

\* A timestamp for packet p turns up: load tail.
LoadTail(u, p) ==
  /\ upc[u] = "idle" /\ lookups[u] < MaxLookups /\ p <= announced
  /\ upc' = [upc EXCEPT ![u] = "head"]
  /\ job' = [job EXCEPT ![u] = [NoJob EXCEPT !.pkt = p, !.tail = tail, !.present = InRing(p)]]
  /\ lookups' = [lookups EXCEPT ![u] = @ + 1]
  /\ UNCHANGED <<recVars, buf, missed>>

\* ... then load head.
LoadHead(u) ==
  /\ upc[u] = "head"
  /\ upc' = [upc EXCEPT ![u] = "probe"]
  /\ job' = [job EXCEPT ![u].head = head, ![u].torn = (tail # job[u].tail)]
  /\ UNCHANGED <<recVars, buf, lookups, missed>>

\* Mutant: the search leaves out the oldest entry.
Probe_SkipsOldest(u) ==
  LET j == job[u] IN
  /\ upc[u] = "probe"
  /\ \/ /\ j.i + 1 >= RingCount(j.head, j.tail, Size)
        /\ upc' = [upc EXCEPT ![u] = "idle"]
        /\ missed' = IF j.present /\ InRing(j.pkt) THEN missed \cup {<<u, j.torn>>} ELSE missed
        /\ UNCHANGED job
     \/ /\ j.i + 1 < RingCount(j.head, j.tail, Size)
        /\ IF NumberOf(buf[Back(j.head, j.i)].pkt) = seqNum[j.pkt]
             THEN /\ upc' = [upc EXCEPT ![u] = "store"] /\ UNCHANGED job
             ELSE /\ job' = [job EXCEPT ![u].i = @ + 1] /\ UNCHANGED upc
        /\ UNCHANGED missed
  /\ UNCHANGED <<recVars, buf, lookups>>

\* One turn of the search loop: give up after buffer_count entries, stop at a
\* matching entry, or go on to the next older one.
Probe(u) ==
  LET j == job[u] IN
  /\ upc[u] = "probe"
  /\ \/ /\ j.i >= RingCount(j.head, j.tail, Size)
        /\ upc' = [upc EXCEPT ![u] = "idle"]
        /\ missed' = IF j.present /\ InRing(j.pkt) THEN missed \cup {<<u, j.torn>>} ELSE missed
        /\ UNCHANGED job
     \/ /\ j.i < RingCount(j.head, j.tail, Size)
        /\ IF NumberOf(buf[Back(j.head, j.i)].pkt) = seqNum[j.pkt]
             THEN /\ upc' = [upc EXCEPT ![u] = "store"] /\ UNCHANGED job
             ELSE /\ job' = [job EXCEPT ![u].i = @ + 1] /\ UNCHANGED upc
        /\ UNCHANGED missed
  /\ UNCHANGED <<recVars, buf, lookups>>

\* Mutant: the timestamp goes to the slot next to the matching one.
Store_WrongSlot(u) ==
  /\ upc[u] = "store"
  /\ buf' = [buf EXCEPT ![Back(job[u].head, job[u].i + 1)].ts[u] = job[u].pkt]
  /\ upc' = [upc EXCEPT ![u] = "idle"]
  /\ UNCHANGED <<recVars, job, lookups, missed>>

\* entry->timestamp_ns[...] = ...: the entry may have been replaced meanwhile.
Store(u) ==
  /\ upc[u] = "store"
  /\ buf' = [buf EXCEPT ![Back(job[u].head, job[u].i)].ts[u] = job[u].pkt]
  /\ upc' = [upc EXCEPT ![u] = "idle"]
  /\ UNCHANGED <<recVars, job, lookups, missed>>

-----------------------------------------------------------------------------
Recorder == \/ \E n \in 1 .. MaxBatch : Announce(n)
            \/ EnqueueCheck
            \/ \E part \in {"seq", "ts"} : EnqueueCopy(part)
            \/ EnqueuePublish \/ OwnUpdate

Updater(u) == \/ \E p \in Packets : LoadTail(u, p)
              \/ LoadHead(u) \/ Probe(u) \/ Store(u)

Finished == /\ rpc = "idle" /\ total = MaxPackets
            /\ \A u \in Updaters : upc[u] = "idle" /\ lookups[u] = MaxLookups
            /\ UNCHANGED vars

Next == \/ (Recorder \/ \E u \in Updaters : Updater(u)) /\ UNCHANGED seqNum
        \/ Finished

Spec == Init /\ [][Next]_vars

-----------------------------------------------------------------------------
(* Properties *)

\* Types; the indices stay in the ring and the loop counter within a lap.
TypeOK ==
  /\ head \in Slots /\ tail \in Slots
  /\ buf \in [Slots -> [pkt : 0 .. MaxPackets, ts : [Kinds -> 0 .. MaxPackets]]]
  /\ dropped \in 0 .. MaxPackets /\ total \in 0 .. MaxPackets
  /\ announced \in 0 .. MaxPackets
  /\ rpc \in {"idle", "copy", "publish", "own"} /\ copied \subseteq {"seq", "ts"}
  /\ upc \in [Updaters -> {"idle", "head", "probe", "store"}]
  /\ job \in [Updaters -> [pkt : 0 .. MaxPackets, tail : Slots, head : Slots,
                           i : 0 .. Size - 1, present : BOOLEAN, torn : BOOLEAN]]
  /\ lookups \in [Updaters -> 0 .. MaxLookups]
  /\ missed \subseteq Updaters \X BOOLEAN /\ seqNum \in [Packets -> Nat]

\* The ring holds the most recent packets without gap: all of them until it
\* is full, then the last Size - 1 (one fewer while an entry is replaced).
WindowIsMostRecent ==
  LET n == Len(Window) IN
  /\ \A k \in 1 .. n : Window[k] = total - n + k
  /\ n + dropped = total
  /\ dropped > 0 => n >= (IF rpc \in {"copy", "publish"} THEN Size - 2 ELSE Size - 1)

\* A timestamp that ends up in another packet's entry got there in one of two
\* ways, or both: that packet has the same sequence number as its own, or the
\* updater was lapped between its match and its store, and the entry is of a
\* packet a whole number of laps after one with that number.  With numbers that
\* do not repeat only the lap is left.
\* Active entries only; the slot being filled is not part of the ring.
MisplacedOnlyByLapOrNumber ==
  \A k \in 1 .. Count, u \in Kinds :
    LET e == buf[(tail + k - 1) % Size] IN
    e.ts[u] # 0 => \E p \in Packets : /\ seqNum[p] = seqNum[e.ts[u]]
                                      /\ p <= e.pkt /\ (e.pkt - p) % Size = 0

\* The recorder's own timestamp is never lost or misplaced.
OwnStampAlwaysSet ==
  \A k \in 1 .. Count :
    LET e == buf[(tail + k - 1) % Size] IN
    e.ts[Own] = e.pkt \/ (rpc = "own" /\ e.pkt = total /\ e.ts[Own] = 0)

\* What the recorder guarantees whatever the updaters do beside it: the most
\* recent packets, without gap, each with the recorder's own timestamp.
RecorderInv == TypeOK /\ WindowIsMostRecent /\ OwnStampAlwaysSet

\* The only searches that miss an active entry are the torn ones: the ring was
\* full, the recorder moved both indices between the loads of tail and head,
\* and the occupancy the search computed wrapped around to almost nothing.
MissOnlyIfTorn ==
  missed # {} => dropped > 0 /\ \A m \in missed : m[2]
=============================================================================
