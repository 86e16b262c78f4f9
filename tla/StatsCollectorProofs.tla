------------------------ MODULE StatsCollectorProofs ------------------------
(***************************************************************************)
(* Proofs about the statistics ring, for every size, every number of       *)
(* packets and any set of updating threads.  The ring's entries are        *)
(* overwritten while other threads search it and store into it; the        *)
(* argument is that a packet has one slot, packet number minus one modulo  *)
(* the size, that no entry is created in another slot, and that a          *)
(* timestamp is only stored into a slot where a packet with the sequence   *)
(* number of its own has been.                                             *)
(*                                                                         *)
(* The second part is about the analysis of the ring after the test: the   *)
(* histogram, the value array and the outlier count account for every      *)
(* delta, and the percentiles shown lie between their order statistics.    *)
(***************************************************************************)
EXTENDS StatsCollector, StatsAnalysis, RingLemmas, FiniteSetTheorems, WellFoundedInduction

-----------------------------------------------------------------------------
(* The inductive invariant *)

Congruent(a, b) == (a - b) % Size = 0
Filling == rpc \in {"copy", "publish"}

\* The indices count: head has gone once around for every Size entries, tail for
\* every Size dropped ones.
Indices ==
  /\ Congruent(total, head) /\ Congruent(dropped, tail)
  /\ Count + dropped = total /\ total <= announced
  /\ Filling => total < announced /\ Count < Size - 1
  /\ rpc = "own" => Count >= 1
  /\ dropped > 0 => Count >= (IF Filling THEN Size - 2 ELSE Size - 1)

\* With the numbering n, a timestamp of packet t may be found in slot s after the
\* entry of packet q was created there: up to q, the slot had the entry of some
\* packet with t's sequence number.
Excused(n, t, s, q) ==
  \E p \in Packets : n[p] = n[t] /\ p <= q /\ Congruent(p, s + 1)

\* Whatever is in a slot, active or not, belongs to a packet of that slot, and its
\* timestamps are excused.
Places ==
  \A s \in Slots :
    /\ buf[s].pkt <= total + 1
    /\ buf[s].pkt # 0 => Congruent(buf[s].pkt, s + 1)
    /\ \A k \in Kinds : buf[s].ts[k] # 0 => Excused(seqNum, buf[s].ts[k], s, buf[s].pkt)

\* The slots are written one after the other, and a search, torn or not, looks
\* only at slots that have been: it never takes zeroed memory for a packet with
\* sequence number 0.
Written ==
  /\ \A s \in Slots : s < total => buf[s].pkt # 0
  /\ \A u \in Updaters : upc[u] = "probe" =>
       \A o \in 0 .. RingCount(job[u].head, job[u].tail, Size) - 1 :
         buf[Back(job[u].head, o)].pkt # 0

\* The entry being filled: what has been copied is there.
Filled ==
  /\ Filling /\ "seq" \in copied => buf[head].pkt = total + 1
  /\ Filling /\ "ts" \in copied => buf[head].ts[Own] = 0
  /\ rpc = "publish" => copied = {"seq", "ts"}

\* The active entries are those of the packets after the dropped ones, each with
\* the recorder's timestamp once it has come to that.
Active ==
  \A k \in 1 .. Count :
    LET e == buf[(tail + k - 1) % Size] IN
    /\ e.pkt = dropped + k
    /\ e.ts[Own] = dropped + k \/ (rpc = "own" /\ k = Count /\ e.ts[Own] = 0)

\* An updater that found an entry has a slot where its timestamp is excused.
Matched ==
  \A u \in Updaters :
    /\ upc[u] # "idle" => job[u].pkt # 0
    /\ upc[u] = "store" =>
         LET s == Back(job[u].head, job[u].i) IN Excused(seqNum, job[u].pkt, s, buf[s].pkt)

\* A search with matching indices has its packet's slot before it for as long as
\* the packet is not dropped.
Searching ==
  \A u \in Updaters :
    /\ upc[u] # "idle" /\ job[u].present => job[u].pkt <= total
    /\ upc[u] = "head" => job[u].i = 0
    /\ upc[u] = "probe" /\ job[u].present /\ ~job[u].torn /\ dropped < job[u].pkt =>
         \E o \in job[u].i .. RingCount(job[u].head, job[u].tail, Size) - 1 :
           Congruent(job[u].pkt, Back(job[u].head, o) + 1)

\* Before anything is dropped tail has not moved.
Unmoved ==
  dropped = 0 => tail = 0 /\ \A u \in Updaters : job[u].tail = 0 /\ ~job[u].torn

StatsInv == /\ TypeOK /\ Indices /\ Places /\ Written /\ Filled /\ Active
            /\ Matched /\ Searching /\ Unmoved /\ MissOnlyIfTorn

-----------------------------------------------------------------------------
(* Arithmetic modulo the size *)

\* The ring has at least two slots.
LEMMA SizeFact == Size \in Nat /\ Size > 1 /\ Slots = 0 .. Size - 1
BY StatsAssumption, SizeAssumption DEF Size, Slots

\* What leaves no remainder is a multiple.
LEMMA Quotient ==
  ASSUME NEW n \in Nat, n > 1, NEW x \in Int, x % n = 0
  PROVE  \E q \in Int : x = q * n
<1>1. x \div n \in Int
  OBVIOUS
<1>2. x = (n * (x \div n)) + (x % n)
  OBVIOUS
<1>3. x = (x \div n) * n
  BY <1>1, <1>2
<1> QED BY <1>1, <1>3

\* A multiple leaves no remainder.
LEMMA Multiple ==
  ASSUME NEW n \in Nat, n > 1, NEW q \in Int
  PROVE  (q * n) % n = 0
OBVIOUS

\* Sums and differences of multiples are multiples.
LEMMA SumMultiple ==
  ASSUME NEW n \in Nat, n > 1, NEW x \in Int, NEW y \in Int, x % n = 0, y % n = 0
  PROVE  (x + y) % n = 0 /\ (x - y) % n = 0
<1>1. PICK p \in Int : x = p * n
  BY Quotient
<1>2. PICK q \in Int : y = q * n
  BY Quotient
<1>3. x + y = (p + q) * n /\ x - y = (p - q) * n
  BY <1>1, <1>2
<1> QED BY <1>3, p + q \in Int, p - q \in Int, Multiple

\* The same for the size of the ring, as one formula.
LEMMA SizeMultiples ==
  /\ \A x, y \in Int : x % Size = 0 /\ y % Size = 0 => (x + y) % Size = 0
  /\ \A x, y \in Int : x % Size = 0 /\ y % Size = 0 => (x - y) % Size = 0
BY SizeFact, SumMultiple

\* Numbers congruent to the same number differ by a multiple of the size.
LEMMA CongruentDiff ==
  ASSUME NEW a \in Int, NEW b \in Int, NEW c \in Int, Congruent(a, c), Congruent(b, c)
  PROVE  (a - b) % Size = 0
<1>1. a - b = (a - c) - (b - c) /\ a - c \in Int /\ b - c \in Int
  OBVIOUS
<1>2. ((a - c) - (b - c)) % Size = 0
  BY <1>1, SizeMultiples, Zenon DEF Congruent
<1> QED BY <1>1, <1>2

\* A packet has one slot.
LEMMA OneSlot ==
  ASSUME NEW p \in Int, NEW s \in Slots, NEW t \in Slots,
         Congruent(p, s + 1), Congruent(p, t + 1)
  PROVE  s = t
<1>1. s \in 0 .. Size - 1 /\ t \in 0 .. Size - 1 /\ Size \in Nat /\ Size > 1
  BY SizeFact
<1>2. s - t = (p - (t + 1)) - (p - (s + 1)) /\ p - (t + 1) \in Int /\ p - (s + 1) \in Int
  BY <1>1
<1>3. (s - t) % Size = 0
  <2>1. ((p - (t + 1)) - (p - (s + 1))) % Size = 0
    BY <1>2, SizeMultiples, Zenon DEF Congruent
  <2> QED BY <1>2, <2>1
<1>4. s - t \in Int /\ -Size < s - t /\ s - t < Size
  BY <1>1
<1>5. \A x \in Int : -Size < x /\ x < Size /\ x % Size = 0 => x = 0
  BY <1>1
<1> QED BY <1>1, <1>3, <1>4, <1>5

\* The counter and its index move together.
LEMMA CongruentNext ==
  ASSUME NEW a \in Int, NEW i \in Slots, Congruent(a, i)
  PROVE  Congruent(a + 1, RingNext(i, Size)) /\ Congruent(a + 1, i + 1)
<1>1. i \in 0 .. Size - 1 /\ Size \in Nat /\ Size > 1
  BY SizeFact
<1>2. (a + 1) - (i + 1) = a - i
  BY <1>1
<1>3. Congruent(a + 1, i + 1)
  BY <1>2 DEF Congruent
<1>4. RingNext(i, Size) = IF i = Size - 1 THEN 0 ELSE i + 1
  BY <1>1, RingNextValue
<1>5. CASE i = Size - 1
  <2>1. (a + 1) - 0 = (a - i) + Size /\ Size % Size = 0 /\ a - i \in Int /\ (a - i) % Size = 0
    BY <1>1, <1>5 DEF Congruent
  <2>2. ((a - i) + Size) % Size = 0
    BY <1>1, <2>1, Size \in Int, SizeMultiples, Zenon
  <2>3. ((a + 1) - 0) % Size = 0
    BY <2>1, <2>2
  <2> QED BY <1>3, <1>4, <1>5, <2>3 DEF Congruent
<1>6. CASE i # Size - 1
  BY <1>3, <1>4, <1>6
<1> QED BY <1>5, <1>6

\* The k-th active entry is in the slot of the packet k after the dropped ones,
\* and found k back from the end by a search from head.
LEMMA SlotFacts ==
  ASSUME NEW h \in Slots, NEW t \in Slots, NEW d \in Int, Congruent(d, t),
         NEW k \in 1 .. RingCount(h, t, Size)
  PROVE  /\ (t + k - 1) % Size \in Slots
         /\ (t + k - 1) % Size # h
         /\ Congruent(d + k, ((t + k - 1) % Size) + 1)
         /\ RingCount(h, t, Size) - k \in 0 .. RingCount(h, t, Size) - 1
         /\ Back(h, RingCount(h, t, Size) - k) = (t + k - 1) % Size
<1> DEFINE c == RingCount(h, t, Size)
           s == (t + k - 1) % Size
<1>1. h \in 0 .. Size - 1 /\ t \in 0 .. Size - 1 /\ Size \in Nat /\ Size > 1
  BY SizeFact
<1>2. c \in 0 .. Size - 1 /\ c = IF h >= t THEN h - t ELSE h - t + Size
  BY <1>1, RingCountValue
<1>3. k \in 1 .. Size /\ k \in 1 .. c
  BY <1>1, <1>2
<1>4. s = (IF t + k - 1 >= Size THEN t + k - 1 - Size ELSE t + k - 1) /\ s \in 0 .. Size - 1
  BY <1>1, <1>3, RingSlotValue
<1>5. (h - 1 - (c - k)) % Size = s
  <2> DEFINE x == h - 1 - (c - k)
  <2> HIDE DEF c, s
  <2>1. x = (IF h >= t THEN t + k - 1 ELSE t + k - 1 - Size) /\ x \in Int
    BY <1>1, <1>2, <1>3
  <2>2. CASE x >= 0
    <3>1. x \in 0 .. Size - 1
      BY <1>1, <1>2, <1>3, <2>1, <2>2
    <3>2. x = s
      BY <1>1, <1>2, <1>3, <1>4, <2>1, <2>2, <3>1
    <3> QED BY <1>1, <3>1, <3>2, ModSmall
  <2>3. CASE x < 0
    <3>1. x \in (-Size) .. (-1)
      BY <1>1, <1>2, <1>3, <2>1, <2>3
    <3>2. x + Size = s
      BY <1>1, <1>2, <1>3, <1>4, <2>1, <2>3, <3>1
    <3> QED BY <1>1, <3>1, <3>2, ModNegative
  <2> QED BY <2>1, <2>2, <2>3
<1>6. s # h
  <2> HIDE DEF c, s
  <2> QED BY <1>1, <1>2, <1>3, <1>4
<1>7. Congruent(d + k, s + 1)
  <2> HIDE DEF c, s
  <2>1. (d - t) % Size = 0 /\ d - t \in Int
    BY <1>1 DEF Congruent
  <2>2. CASE t + k - 1 >= Size
    <3>1. (d + k) - (s + 1) = (d - t) + Size /\ Size % Size = 0
      BY <1>1, <1>3, <1>4, <2>2
    <3>2. ((d - t) + Size) % Size = 0
      BY <1>1, <2>1, <3>1, Size \in Int, SizeMultiples, Zenon
    <3> QED BY <3>1, <3>2 DEF Congruent
  <2>3. CASE t + k - 1 < Size
    <3>1. (d + k) - (s + 1) = d - t
      BY <1>1, <1>3, <1>4, <2>3
    <3> QED BY <2>1, <3>1 DEF Congruent
  <2> QED BY <1>1, <1>3, <2>2, <2>3
<1>8. c - k \in 0 .. c - 1
  <2> HIDE DEF c
  <2> QED BY <1>1, <1>2, <1>3
<1> QED BY <1>4, <1>5, <1>6, <1>7, <1>8, SizeFact DEF Back

\* A search index stays in the ring.
LEMMA BackInRing ==
  ASSUME NEW h \in Slots, NEW i \in 0 .. Size - 1
  PROVE  Back(h, i) \in Slots
<1>1. h \in 0 .. Size - 1 /\ Size \in Nat /\ Size > 1 /\ Slots = 0 .. Size - 1
  BY SizeFact
<1>2. h - 1 - i \in Int
  BY <1>1
<1>3. \A x \in Int : x % Size \in 0 .. Size - 1
  BY <1>1
<1> QED BY <1>1, <1>2, <1>3 DEF Back

\* A search of less than a lap does not get round to where it started.
LEMMA BackNotHead ==
  ASSUME NEW h \in Slots, NEW i \in 0 .. Size - 2
  PROVE  Back(h, i) \in Slots /\ Back(h, i) # h
<1>1. h \in 0 .. Size - 1 /\ Size \in Nat /\ Size > 1 /\ Slots = 0 .. Size - 1
      /\ i \in 0 .. Size - 1
  BY SizeFact
<1>2. CASE h - 1 - i >= 0
  <2>1. h - 1 - i \in 0 .. Size - 1 /\ h - 1 - i # h
    BY <1>1, <1>2
  <2>2. (h - 1 - i) % Size = h - 1 - i
    BY <1>1, <2>1, ModSmall
  <2> QED BY <1>1, <2>1, <2>2 DEF Back
<1>3. CASE h - 1 - i < 0
  <2>1. h - 1 - i \in (-Size) .. (-1) /\ h - 1 - i + Size # h /\ h - 1 - i + Size \in 0 .. Size - 1
    BY <1>1, <1>3
  <2>2. (h - 1 - i) % Size = h - 1 - i + Size
    BY <1>1, <2>1, ModNegative
  <2> QED BY <1>1, <2>1, <2>2 DEF Back
<1> QED BY <1>1, <1>2, <1>3

\* A counter below the size is its own slot.
LEMMA SameSlot ==
  ASSUME NEW a \in Slots, NEW i \in Slots, Congruent(a, i)
  PROVE  a = i
<1>1. a \in 0 .. Size - 1 /\ i \in 0 .. Size - 1 /\ Size \in Nat /\ Size > 1
  BY SizeFact
<1>2. a - i \in Int /\ -Size < a - i /\ a - i < Size /\ (a - i) % Size = 0
  BY <1>1 DEF Congruent
<1>3. \A x \in Int : -Size < x /\ x < Size /\ x % Size = 0 => x = 0
  BY <1>1
<1> QED BY <1>1, <1>2, <1>3

-----------------------------------------------------------------------------
(* Types of what the threads hold, and the active entries *)

BufType == [Slots -> [pkt : 0 .. MaxPackets, ts : [Kinds -> 0 .. MaxPackets]]]
JobType == [Updaters -> [pkt : 0 .. MaxPackets, tail : Slots, head : Slots,
                         i : 0 .. Size - 1, present : BOOLEAN, torn : BOOLEAN]]

\* What is in the entries has its type.
LEMMA EntryTypes ==
  ASSUME NEW a \in BufType, NEW s \in Slots
  PROVE  /\ a[s].pkt \in 0 .. MaxPackets
         /\ \A k \in Kinds : a[s].ts[k] \in 0 .. MaxPackets
BY DEF BufType

\* What the updaters hold has its type.
LEMMA JobTypes ==
  ASSUME NEW a \in JobType, NEW u \in Updaters
  PROVE  /\ a[u].pkt \in 0 .. MaxPackets /\ a[u].tail \in Slots /\ a[u].head \in Slots
         /\ a[u].i \in 0 .. Size - 1 /\ a[u].present \in BOOLEAN /\ a[u].torn \in BOOLEAN
BY DEF JobType

\* The timestamp kinds of the updaters are not the recorder's.
LEMMA KindFacts == Own \in Kinds /\ Updaters \subseteq Kinds /\ Own \notin Updaters
BY OwnAssumption DEF Kinds, Own

\* Count is the number of active entries.
LEMMA CountFact ==
  ASSUME head \in Slots, tail \in Slots
  PROVE  /\ Count \in 0 .. Size - 1
         /\ Count = IF head >= tail THEN head - tail ELSE head - tail + Size
         /\ RingFull(head, tail, Size) <=> Count = Size - 1
BY SizeFact, RingCountValue, RingFullValue DEF Count

\* A packet is in the ring when it has been recorded and not dropped.
LEMMA InRingFact ==
  ASSUME TypeOK, Indices, Active, NEW p \in Int
  PROVE  InRing(p) <=> dropped < p /\ p <= total
<1>1. Count \in 0 .. Size - 1 /\ Size \in Nat /\ dropped \in Nat /\ total \in Nat
  BY CountFact, SizeFact DEF TypeOK
<1>2. \A k \in 1 .. Count : Window[k] = dropped + k
  <2> SUFFICES ASSUME NEW k \in 1 .. Count
               PROVE  Window[k] = dropped + k
    OBVIOUS
  <2>1. (tail + k - 1) % Size \in Slots /\ k \in 1 .. RingCount(head, tail, Size)
    BY SlotFacts DEF TypeOK, Indices, Count
  <2>2. Window[k] = [s \in Slots |-> buf[s].pkt][(tail + k - 1) % Size]
    BY <2>1 DEF Window, RingContents
  <2>3. Window[k] = buf[(tail + k - 1) % Size].pkt
    BY <2>1, <2>2
  <2> QED BY <2>3 DEF Active
<1>3. ASSUME InRing(p) PROVE dropped < p /\ p <= total
  BY <1>1, <1>2, <1>3 DEF InRing, Indices
<1>4. ASSUME dropped < p /\ p <= total PROVE InRing(p)
  <2>1. p - dropped \in 1 .. Count /\ dropped + (p - dropped) = p
    BY <1>1, <1>4 DEF Indices
  <2> QED BY <1>2, <2>1 DEF InRing
<1> QED BY <1>3, <1>4

-----------------------------------------------------------------------------
(* The steps that store into the entries *)

\* EnqueueCopy: the part is stored into the free entry.
LEMMA CopyStores ==
  ASSUME TypeOK, Indices, NEW part \in {"seq", "ts"}, EnqueueCopy(part)
  PROVE  /\ buf' \in BufType
         /\ \A t \in Slots :
              buf'[t].pkt = IF part = "seq" /\ t = head THEN total + 1 ELSE buf[t].pkt
         /\ \A t \in Slots : \A c \in Kinds :
              buf'[t].ts[c] = IF part = "ts" /\ t = head THEN 0 ELSE buf[t].ts[c]
<1>1. buf \in BufType /\ head \in Slots
  BY DEF TypeOK, BufType
<1>2. total + 1 \in 0 .. MaxPackets
  BY StatsAssumption DEF TypeOK, Indices, Filling, EnqueueCopy
<1>3. CASE part = "seq"
  <2>1. buf' = [buf EXCEPT ![head].pkt = total + 1]
    BY <1>3 DEF EnqueueCopy
  <2> QED BY <1>1, <1>2, <1>3, <2>1 DEF BufType
<1>4. CASE part = "ts"
  <2>1. buf' = [buf EXCEPT ![head].ts = NoStamps]
    BY <1>4 DEF EnqueueCopy
  <2> QED BY <1>1, <1>4, <2>1, StatsAssumption DEF BufType, NoStamps
<1> QED BY <1>3, <1>4

\* OwnUpdate: the recorder finds the entry it has just published, the newest.
LEMMA OwnStores ==
  ASSUME TypeOK, Indices, Active, OwnUpdate
  PROVE  /\ Count \in 1 .. Size - 1 /\ (tail + Count - 1) % Size \in Slots
         /\ buf' \in BufType
         /\ \A t \in Slots : buf'[t].pkt = buf[t].pkt
         /\ \A t \in Slots : \A c \in Kinds :
              buf'[t].ts[c] = IF t = (tail + Count - 1) % Size /\ c = Own
                              THEN total ELSE buf[t].ts[c]
<1> DEFINE hits == {i \in 0 .. Count - 1 : NumberOf(buf[Back(head, i)].pkt) = seqNum[total]}
<1>1. /\ Count \in 1 .. Size - 1 /\ Size \in Nat /\ dropped \in Nat /\ total \in 0 .. MaxPackets
      /\ Count = RingCount(head, tail, Size) /\ Count + dropped = total
  BY CountFact, SizeFact, StatsAssumption DEF TypeOK, Indices, OwnUpdate, Count
<1>2. \A k \in 1 .. Count : Back(head, Count - k) = (tail + k - 1) % Size
  BY <1>1, SlotFacts DEF TypeOK, Indices
<1>3. \A i \in 0 .. Count - 1 : buf[Back(head, i)].pkt = total - i
  <2> SUFFICES ASSUME NEW i \in 0 .. Count - 1
               PROVE  buf[Back(head, i)].pkt = total - i
    OBVIOUS
  <2>1. Count - i \in 1 .. Count /\ Count - (Count - i) = i /\ dropped + (Count - i) = total - i
    BY <1>1
  <2>2. Back(head, i) = (tail + (Count - i) - 1) % Size
    BY <1>2, <2>1
  <2>3. buf[(tail + (Count - i) - 1) % Size].pkt = dropped + (Count - i)
    BY <2>1 DEF Active
  <2> QED BY <2>1, <2>2, <2>3
<1>4. total \in Packets /\ total - 0 = total
  BY <1>1, StatsAssumption DEF Packets
<1>5. 0 \in 0 .. Count - 1
  BY <1>1
<1>6. 0 \in hits /\ hits \subseteq Nat
  BY <1>1, <1>3, <1>4, <1>5 DEF NumberOf
<1> HIDE DEF hits
<1>7. (CHOOSE i \in hits : \A j \in hits : i <= j) = 0 /\ hits # {}
  <2>1. \A j \in hits : 0 <= j
    BY <1>6
  <2>2. \A i \in hits : (\A j \in hits : i <= j) => i = 0
    BY <1>6
  <2> QED BY <1>6, <2>1, <2>2
<1>8. Back(head, 0) = (tail + Count - 1) % Size
  BY <1>1, <1>2, Count \in 1 .. Count, Count - Count = 0
<1>9. (tail + Count - 1) % Size \in Slots
  BY <1>1, Count \in 1 .. Count, SlotFacts DEF TypeOK, Indices
<1>10. buf' = [buf EXCEPT ![Back(head, 0)].ts[Own] = total]
  <2>1. buf' = IF hits = {} THEN buf
               ELSE [buf EXCEPT ![Back(head, CHOOSE i \in hits : \A j \in hits : i <= j)].ts[Own] = total]
    BY DEF OwnUpdate, hits
  <2> QED BY <1>7, <2>1, Zenon
<1>11. buf \in BufType
  BY DEF TypeOK, BufType
<1>12. buf' = [buf EXCEPT ![(tail + Count - 1) % Size].ts[Own] = total]
  BY <1>8, <1>10
<1>13. /\ buf' \in BufType
       /\ \A t \in Slots : buf'[t].pkt = buf[t].pkt
       /\ \A t \in Slots : \A c \in Kinds :
            buf'[t].ts[c] = IF t = (tail + Count - 1) % Size /\ c = Own
                            THEN total ELSE buf[t].ts[c]
  BY <1>1, <1>9, <1>11, <1>12, KindFacts, ZenonT(30) DEF BufType
<1> QED BY <1>1, <1>9, <1>13

\* Store: the updater's timestamp goes to the slot where it found its packet.
LEMMA StoreStores ==
  ASSUME TypeOK, NEW u \in Updaters, Store(u)
  PROVE  /\ Back(job[u].head, job[u].i) \in Slots
         /\ buf' \in BufType
         /\ \A t \in Slots : buf'[t].pkt = buf[t].pkt
         /\ \A t \in Slots : \A c \in Kinds :
              buf'[t].ts[c] = IF t = Back(job[u].head, job[u].i) /\ c = u
                              THEN job[u].pkt ELSE buf[t].ts[c]
<1>1. buf \in BufType /\ job \in JobType
  BY DEF TypeOK, BufType, JobType
<1>2. job[u].pkt \in 0 .. MaxPackets /\ Back(job[u].head, job[u].i) \in Slots
  BY <1>1, JobTypes, BackInRing
<1>3. buf' = [buf EXCEPT ![Back(job[u].head, job[u].i)].ts[u] = job[u].pkt] /\ u \in Kinds
  BY KindFacts DEF Store
<1> QED BY <1>1, <1>2, <1>3 DEF BufType

-----------------------------------------------------------------------------
(* The initial state *)

LEMMA InitStatsInv == Init => StatsInv
<1> SUFFICES ASSUME Init PROVE StatsInv
  OBVIOUS
<1>1. Size \in Nat /\ Size > 1 /\ 0 \in Slots /\ MaxPackets \in Nat /\ MaxLookups \in Nat
  BY SizeFact, StatsAssumption
<1>2. head = 0 /\ tail = 0 /\ dropped = 0 /\ total = 0 /\ announced = 0 /\ rpc = "idle"
  BY DEF Init
<1>3. /\ \A s \in Slots : buf[s].pkt = 0
      /\ \A s \in Slots : \A k \in Kinds : buf[s].ts[k] = 0
  BY DEF Init, NoStamps
<1>4. \A u \in Updaters : /\ upc[u] = "idle" /\ job[u].tail = 0
                          /\ job[u].torn = FALSE
  BY DEF Init, NoJob
<1>5. TypeOK
  <2>1. buf \in BufType
    BY <1>1 DEF Init, BufType, NoStamps
  <2>2. job \in JobType
    <3>1. NoJob \in [pkt : 0 .. MaxPackets, tail : Slots, head : Slots,
                     i : 0 .. Size - 1, present : BOOLEAN, torn : BOOLEAN]
      BY <1>1 DEF NoJob
    <3> QED BY <3>1 DEF Init, JobType
  <2>3. /\ upc \in [Updaters -> {"idle", "head", "probe", "store"}]
        /\ lookups \in [Updaters -> 0 .. MaxLookups]
        /\ missed \subseteq Updaters \X BOOLEAN /\ copied \subseteq {"seq", "ts"}
        /\ seqNum \in [Packets -> Nat]
    BY <1>1, NumberAssumption DEF Init
  <2> QED BY <1>1, <1>2, <2>1, <2>2, <2>3 DEF TypeOK, BufType, JobType
<1>6. Count = 0
  BY <1>1, <1>2, CountFact
<1>7. Indices
  <2>1. 0 % Size = 0 /\ 0 - 0 = 0
    BY <1>1
  <2> QED BY <1>1, <1>2, <1>6, <2>1 DEF Indices, Congruent, Filling
<1>8. Places /\ Written
  <2>1. \A s \in Slots : ~(s < 0)
    BY <1>1, SizeFact
  <2> QED BY <1>2, <1>3, <1>4, <2>1 DEF Places, Written
<1>9. Filled /\ Active
  BY <1>2, <1>6 DEF Filled, Filling, Active
<1>10. Matched /\ Searching
  BY <1>4 DEF Matched, Searching
<1>11. Unmoved
  BY <1>2, <1>4 DEF Unmoved
<1>12. MissOnlyIfTorn
  BY Zenon DEF MissOnlyIfTorn, Init
<1> QED BY <1>5, <1>7, <1>8, <1>9, <1>10, <1>11, <1>12 DEF StatsInv

-----------------------------------------------------------------------------
(* The steps, part by part *)

\* The packets keep their numbers.
LEMMA NumbersStay == [Next]_vars => seqNum' = seqNum
BY DEF Next, Finished, vars

\* Steps of the updaters leave the recorder's variables alone, and all but Store
\* the entries too.
LEMMA UpdaterFrame ==
  ASSUME NEW u \in Updaters, Updater(u)
  PROVE  /\ UNCHANGED recVars /\ UNCHANGED <<head, tail, dropped, total, announced, rpc, copied>>
         /\ Store(u) \/ UNCHANGED buf
BY Zenon DEF Updater, LoadTail, LoadHead, Probe, Store, recVars

\* LoadTail: the updater starts on packet p with the tail it sees.
LEMMA LoadTailJob ==
  ASSUME job \in JobType, tail \in Slots, NEW u \in Updaters, NEW p \in Packets, LoadTail(u, p)
  PROVE  /\ job' \in JobType
         /\ \A v \in Updaters : v # u => job'[v] = job[v]
         /\ job'[u].pkt = p /\ job'[u].tail = tail /\ job'[u].i = 0 /\ job'[u].torn = FALSE
         /\ job'[u].present <=> InRing(p)
<1>1. PICK b \in BOOLEAN : b = InRing(p)
  <2>1. InRing(p) \in BOOLEAN
    BY Zenon DEF InRing
  <2> QED BY <2>1, Zenon
<1> DEFINE r == [NoJob EXCEPT !.pkt = p, !.tail = tail, !.present = b]
<1>3. job' = [job EXCEPT ![u] = [NoJob EXCEPT !.pkt = p, !.tail = tail, !.present = InRing(p)]]
  BY Zenon DEF LoadTail
<1>4. job' = [job EXCEPT ![u] = r]
  BY <1>1, <1>3, Zenon
<1>5. p \in 0 .. MaxPackets /\ 0 \in 0 .. Size - 1 /\ 0 \in Slots
  BY SizeFact DEF Packets
<1>6. r \in [pkt : 0 .. MaxPackets, tail : Slots, head : Slots,
             i : 0 .. Size - 1, present : BOOLEAN, torn : BOOLEAN]
  BY <1>5 DEF NoJob
<1>7. r.pkt = p /\ r.tail = tail /\ r.i = 0 /\ r.torn = FALSE /\ r.present = b
  BY DEF NoJob
<1> HIDE DEF r
<1>8. job' \in JobType /\ job'[u] = r /\ \A v \in Updaters : v # u => job'[v] = job[v]
  BY <1>4, <1>6 DEF JobType
<1> QED BY <1>1, <1>7, <1>8, Zenon

\* LoadHead: the updater has both indices, and they match or are torn.
LEMMA LoadHeadJob ==
  ASSUME job \in JobType, head \in Slots, NEW u \in Updaters, LoadHead(u)
  PROVE  /\ job' \in JobType
         /\ \A v \in Updaters : v # u => job'[v] = job[v]
         /\ job'[u].pkt = job[u].pkt /\ job'[u].tail = job[u].tail /\ job'[u].head = head
         /\ job'[u].i = job[u].i /\ job'[u].present = job[u].present
         /\ job'[u].torn <=> tail # job[u].tail
<1>1. PICK b \in BOOLEAN : b = (tail # job[u].tail)
  <2>1. (tail # job[u].tail) \in BOOLEAN
    BY Zenon
  <2> QED BY <2>1, Zenon
<1>2. job' = [job EXCEPT ![u].head = head, ![u].torn = (tail # job[u].tail)]
  BY Zenon DEF LoadHead
<1>3. job' = [job EXCEPT ![u].head = head, ![u].torn = b]
  BY <1>1, <1>2, Zenon
<1>4. /\ job' \in JobType
      /\ \A v \in Updaters : v # u => job'[v] = job[v]
      /\ job'[u].pkt = job[u].pkt /\ job'[u].tail = job[u].tail /\ job'[u].head = head
      /\ job'[u].i = job[u].i /\ job'[u].present = job[u].present /\ job'[u].torn = b
  BY <1>3 DEF JobType
<1> QED BY <1>1, <1>4, Zenon

\* Types are preserved.
LEMMA NextTypeOK == StatsInv /\ [Next]_vars => TypeOK'
<1> SUFFICES ASSUME StatsInv, [Next]_vars PROVE TypeOK'
  OBVIOUS
<1>0. TypeOK /\ Indices /\ Active /\ seqNum' = seqNum
  BY NumbersStay DEF StatsInv
<1>1. /\ Size \in Nat /\ Size > 1 /\ MaxPackets \in Nat /\ MaxLookups \in Nat
      /\ head \in Slots /\ tail \in Slots /\ RingNext(head, Size) \in Slots
      /\ RingNext(tail, Size) \in Slots /\ Count \in 0 .. Size - 1
      /\ RingFull(head, tail, Size) <=> Count = Size - 1
  BY <1>0, SizeFact, StatsAssumption, RingNextValue, CountFact DEF TypeOK
<1>2. ASSUME NEW n \in 1 .. MaxBatch, Announce(n)
      PROVE  TypeOK'
  BY <1>0, <1>1, <1>2, StatsAssumption DEF TypeOK, Announce, updVars
<1>3. CASE EnqueueCheck
  <2>1. dropped' \in 0 .. MaxPackets
    BY <1>0, <1>1, <1>3 DEF TypeOK, Indices, EnqueueCheck
  <2> QED BY <1>0, <1>1, <1>3, <2>1 DEF TypeOK, EnqueueCheck, updVars
<1>4. ASSUME NEW part \in {"seq", "ts"}, EnqueueCopy(part)
      PROVE  TypeOK'
  <2>1. buf' \in BufType
    BY <1>0, <1>4, CopyStores
  <2>2. rpc' \in {"copy", "publish"} /\ copied' \subseteq {"seq", "ts"}
    BY <1>0, <1>4 DEF TypeOK, EnqueueCopy
  <2> QED BY <1>0, <1>4, <2>1, <2>2 DEF TypeOK, EnqueueCopy, updVars, BufType
<1>5. CASE EnqueuePublish
  <2>1. total' \in 0 .. MaxPackets
    <3>1. /\ total' = total + 1 /\ total < announced
          /\ total \in 0 .. MaxPackets /\ announced \in 0 .. MaxPackets
      <4>1. total \in 0 .. MaxPackets /\ announced \in 0 .. MaxPackets
        BY <1>0, Zenon DEF TypeOK
      <4>2. total' = total + 1 /\ Filling
        BY <1>5 DEF Filling, EnqueuePublish
      <4>3. total < announced
        BY <1>0, <4>2, ZenonT(30) DEF Indices
      <4> QED BY <4>1, <4>2, <4>3
    <3> QED BY <1>1, <3>1
  <2> QED BY <1>0, <1>1, <1>5, <2>1 DEF TypeOK, EnqueuePublish, updVars
<1>6. CASE OwnUpdate
  <2>1. buf' \in BufType
    BY <1>0, <1>6, OwnStores
  <2> QED BY <1>0, <1>6, <2>1 DEF TypeOK, OwnUpdate, updVars, BufType
<1>7. ASSUME NEW u \in Updaters, Updater(u)
      PROVE  TypeOK'
  <2>0. /\ job \in JobType /\ buf \in BufType
        /\ upc \in [Updaters -> {"idle", "head", "probe", "store"}]
        /\ lookups \in [Updaters -> 0 .. MaxLookups] /\ missed \subseteq Updaters \X BOOLEAN
    BY <1>0 DEF TypeOK, JobType, BufType
  <2>1. SUFFICES /\ job' \in JobType /\ buf' \in BufType
                 /\ upc' \in [Updaters -> {"idle", "head", "probe", "store"}]
                 /\ lookups' \in [Updaters -> 0 .. MaxLookups]
                 /\ missed' \subseteq Updaters \X BOOLEAN
    BY <1>0, <1>7, UpdaterFrame DEF TypeOK, JobType, BufType
  <2>2. ASSUME NEW p \in Packets, LoadTail(u, p)
        PROVE  job' \in JobType /\ lookups' \in [Updaters -> 0 .. MaxLookups]
    <3>1. job' \in JobType
      BY <1>1, <2>0, <2>2, LoadTailJob
    <3>2. lookups' \in [Updaters -> 0 .. MaxLookups]
      BY <1>1, <2>0, <2>2 DEF LoadTail
    <3> QED BY <3>1, <3>2
  <2>3. ASSUME LoadHead(u) PROVE job' \in JobType
    BY <1>1, <2>0, <2>3, LoadHeadJob
  <2>4. ASSUME Probe(u)
        PROVE  job' \in JobType /\ missed' \subseteq Updaters \X BOOLEAN
    <3>1. /\ job[u].i \in 0 .. Size - 1 /\ job[u].torn \in BOOLEAN
          /\ RingCount(job[u].head, job[u].tail, Size) \in 0 .. Size - 1
      BY <1>1, <2>0, JobTypes, SizeFact, RingCountValue
    <3>2. job' \in JobType
      <4>1. CASE UNCHANGED job
        BY <2>0, <4>1
      <4>2. CASE /\ job[u].i < RingCount(job[u].head, job[u].tail, Size)
                 /\ job' = [job EXCEPT ![u].i = @ + 1]
        <5>1. job[u].i + 1 \in 0 .. Size - 1
          BY <1>1, <3>1, <4>2
        <5> QED BY <2>0, <4>2, <5>1 DEF JobType
      <4> QED BY <2>4, <4>1, <4>2 DEF Probe
    <3>3. missed' = missed \/ missed' = missed \cup {<<u, job[u].torn>>}
      BY <2>4 DEF Probe
    <3>4. missed' \subseteq Updaters \X BOOLEAN
      BY <2>0, <3>1, <3>3
    <3> QED BY <3>2, <3>4
  <2>5. ASSUME Store(u) PROVE buf' \in BufType
    BY <1>0, <2>5, StoreStores, SMTT(30)
  <2>6. upc' \in [Updaters -> {"idle", "head", "probe", "store"}]
    BY <1>7, <2>0 DEF Updater, LoadTail, LoadHead, Probe, Store
  <2>7. CASE \E p \in Packets : LoadTail(u, p)
    BY <2>0, <2>2, <2>6, <2>7 DEF LoadTail
  <2>8. CASE LoadHead(u)
    BY <2>0, <2>3, <2>6, <2>8 DEF LoadHead
  <2>9. CASE Probe(u)
    BY <2>0, <2>4, <2>6, <2>9 DEF Probe
  <2>10. CASE Store(u)
    BY <2>0, <2>5, <2>6, <2>10 DEF Store
  <2> QED BY <1>7, <2>7, <2>8, <2>9, <2>10 DEF Updater
<1>8. CASE UNCHANGED vars
  BY <1>0, <1>8 DEF TypeOK, vars, recVars, updVars
<1> QED BY <1>2, <1>3, <1>4, <1>5, <1>6, <1>7, <1>8 DEF Next, Recorder, Finished

\* The new indices and occupancy, and the slots of the entries that stay.
LEMMA IndexSteps ==
  ASSUME head \in Slots, tail \in Slots
  PROVE  /\ Count < Size - 1 => RingCount(RingNext(head, Size), tail, Size) = Count + 1
         /\ Count < Size - 1 => (tail + (Count + 1) - 1) % Size = head
         /\ Count > 0 => RingCount(head, RingNext(tail, Size), Size) = Count - 1
         /\ Count > 0 => \A k \in 1 .. Count - 1 :
              (RingNext(tail, Size) + k - 1) % Size = (tail + (k + 1) - 1) % Size
<1>1. /\ Size \in Nat /\ Size > 1 /\ head \in 0 .. Size - 1 /\ tail \in 0 .. Size - 1
      /\ Count \in 0 .. Size - 1 /\ Count = IF head >= tail THEN head - tail ELSE head - tail + Size
  BY SizeFact, CountFact
<1> DEFINE h == RingNext(head, Size)
           t == RingNext(tail, Size)
<1>2. /\ h \in 0 .. Size - 1 /\ h = IF head = Size - 1 THEN 0 ELSE head + 1
      /\ t \in 0 .. Size - 1 /\ t = IF tail = Size - 1 THEN 0 ELSE tail + 1
  BY <1>1, RingNextValue
<1> HIDE DEF h, t
<1>3. /\ RingCount(h, tail, Size) = IF h >= tail THEN h - tail ELSE h - tail + Size
      /\ RingCount(head, t, Size) = IF head >= t THEN head - t ELSE head - t + Size
  BY <1>1, <1>2, RingCountValue
<1>4. Count < Size - 1 => RingCount(h, tail, Size) = Count + 1
  BY <1>1, <1>2, <1>3
<1>5. Count > 0 => RingCount(head, t, Size) = Count - 1
  BY <1>1, <1>2, <1>3
<1>6. ASSUME Count < Size - 1 PROVE (tail + (Count + 1) - 1) % Size = head
  <2>1. Count + 1 \in 1 .. Size
    BY <1>1
  <2>2. (tail + (Count + 1) - 1) % Size = IF tail + (Count + 1) - 1 >= Size
           THEN tail + (Count + 1) - 1 - Size ELSE tail + (Count + 1) - 1
    BY <1>1, <2>1, RingSlotValue
  <2> QED BY <1>1, <2>2
<1>7. ASSUME Count > 0, NEW k \in 1 .. Count - 1
      PROVE  (t + k - 1) % Size = (tail + (k + 1) - 1) % Size
  <2>1. k \in 1 .. Size /\ k + 1 \in 1 .. Size
    BY <1>1, <1>7
  <2>2. (t + k - 1) % Size = IF t + k - 1 >= Size THEN t + k - 1 - Size ELSE t + k - 1
    BY <1>1, <1>2, <2>1, RingSlotValue
  <2>3. (tail + (k + 1) - 1) % Size = IF tail + (k + 1) - 1 >= Size
           THEN tail + (k + 1) - 1 - Size ELSE tail + (k + 1) - 1
    BY <1>1, <2>1, RingSlotValue
  <2> QED BY <1>1, <1>2, <2>1, <2>2, <2>3
<1> QED BY <1>4, <1>5, <1>6, <1>7 DEF h, t

\* The indices and the counters stay in step.
LEMMA NextIndices == StatsInv /\ [Next]_vars => Indices'
<1> SUFFICES ASSUME StatsInv, [Next]_vars PROVE Indices'
  OBVIOUS
<1>0. TypeOK /\ Indices
  BY DEF StatsInv
<1>1. /\ Size \in Nat /\ Size > 1 /\ head \in Slots /\ tail \in Slots
      /\ total \in Nat /\ dropped \in Nat /\ announced \in Nat /\ total \in Int /\ dropped \in Int
      /\ Count \in 0 .. Size - 1 /\ (RingFull(head, tail, Size) <=> Count = Size - 1)
  BY <1>0, SizeFact, StatsAssumption, CountFact DEF TypeOK
<1>2. ASSUME NEW n \in 1 .. MaxBatch, Announce(n)
      PROVE  Indices'
  <2>1. Count' = Count
    BY <1>2 DEF Announce, Count
  <2> QED BY <1>0, <1>1, <1>2, <2>1 DEF Indices, Announce, Filling
<1>3. CASE EnqueueCheck
  <2>1. CASE RingFull(head, tail, Size)
    <3>1. Count' = Count - 1
      BY <1>1, <1>3, <2>1, IndexSteps DEF EnqueueCheck, Count
    <3>2. Congruent(dropped', tail')
      BY <1>0, <1>1, <1>3, <2>1, CongruentNext DEF Indices, EnqueueCheck
    <3>3. /\ head' = head /\ total' = total /\ announced' = announced /\ dropped' = dropped + 1
          /\ total < announced /\ rpc' = "copy"
      BY <1>3, <2>1 DEF EnqueueCheck
    <3> QED BY <1>0, <1>1, <2>1, <3>1, <3>2, <3>3 DEF Indices, Filling
  <2>2. CASE ~RingFull(head, tail, Size)
    <3>1. /\ head' = head /\ total' = total /\ announced' = announced /\ dropped' = dropped
          /\ tail' = tail /\ total < announced /\ rpc' = "copy" /\ rpc = "idle"
      BY <1>3, <2>2 DEF EnqueueCheck
    <3>2. Count' = Count
      BY <3>1 DEF Count
    <3> QED BY <1>0, <1>1, <2>2, <3>1, <3>2 DEF Indices, Filling
  <2> QED BY <2>1, <2>2
<1>4. ASSUME NEW part \in {"seq", "ts"}, EnqueueCopy(part)
      PROVE  Indices'
  <2>1. /\ head' = head /\ total' = total /\ announced' = announced /\ dropped' = dropped
        /\ tail' = tail /\ rpc = "copy" /\ rpc' \in {"copy", "publish"}
    BY <1>4 DEF EnqueueCopy
  <2>2. Count' = Count
    BY <2>1 DEF Count
  <2> QED BY <1>0, <2>1, <2>2 DEF Indices, Filling
<1>5. CASE EnqueuePublish
  <2>1. /\ tail' = tail /\ announced' = announced /\ dropped' = dropped /\ total' = total + 1
        /\ head' = RingNext(head, Size) /\ rpc = "publish" /\ rpc' = "own"
    BY <1>5 DEF EnqueuePublish
  <2>2. Count < Size - 1 /\ total < announced
    BY <1>0, <2>1 DEF Indices, Filling
  <2>3. Count' = Count + 1
    BY <1>1, <2>1, <2>2, IndexSteps DEF Count
  <2>4. Congruent(total', head')
    BY <1>0, <1>1, <2>1, CongruentNext DEF Indices
  <2> QED BY <1>0, <1>1, <2>1, <2>2, <2>3, <2>4 DEF Indices, Filling
<1>6. CASE OwnUpdate
  <2>1. /\ head' = head /\ total' = total /\ announced' = announced /\ dropped' = dropped
        /\ tail' = tail /\ rpc = "own" /\ rpc' = "idle"
    BY <1>6 DEF OwnUpdate
  <2>2. Count' = Count
    BY <2>1 DEF Count
  <2> QED BY <1>0, <2>1, <2>2 DEF Indices, Filling
<1>7. ASSUME UNCHANGED recVars PROVE Indices'
  <2>1. /\ head' = head /\ total' = total /\ announced' = announced /\ dropped' = dropped
        /\ tail' = tail /\ rpc' = rpc
    BY <1>7 DEF recVars
  <2>2. Count' = Count
    BY <2>1 DEF Count
  <2> QED BY <1>0, <2>1, <2>2 DEF Indices, Filling
<1> QED BY <1>2, <1>3, <1>4, <1>5, <1>6, <1>7, UpdaterFrame DEF Next, Recorder, Finished, vars

\* What is excused stays so when a later packet takes the slot.
LEMMA ExcusedLater ==
  ASSUME NEW n, NEW t, NEW s, NEW q \in Nat, NEW r \in Nat, q <= r, Excused(n, t, s, q)
  PROVE  Excused(n, t, s, r)
<1>1. PICK p \in Packets : n[p] = n[t] /\ p <= q /\ Congruent(p, s + 1)
  BY DEF Excused
<1>2. p <= r
  BY <1>1 DEF Packets
<1> QED BY <1>1, <1>2 DEF Excused

\* Only packets of the slot and excused timestamps are stored.
LEMMA NextPlaces == StatsInv /\ [Next]_vars => Places'
<1> SUFFICES ASSUME StatsInv, [Next]_vars PROVE Places'
  OBVIOUS
<1>0. /\ TypeOK /\ Indices /\ Places /\ Active /\ Matched /\ buf \in BufType
      /\ seqNum' = seqNum
  BY NumbersStay DEF StatsInv, TypeOK, BufType
<1>1. total \in Nat /\ head \in Slots
  BY <1>0, StatsAssumption DEF TypeOK
<1>2. \A s \in Slots : /\ buf[s].pkt \in Nat
                       /\ \A k \in Kinds : buf[s].ts[k] \in Nat
  BY <1>0, EntryTypes, StatsAssumption
<1>3. ASSUME NEW part \in {"seq", "ts"}, EnqueueCopy(part)
      PROVE  Places'
  <2>1. total' = total
    BY <1>3 DEF EnqueueCopy
  <2>2. Congruent(total + 1, head + 1)
    BY <1>0, <1>1, CongruentNext DEF Indices
  <2> SUFFICES ASSUME NEW s \in Slots
               PROVE  /\ buf'[s].pkt <= total + 1
                      /\ buf'[s].pkt # 0 => Congruent(buf'[s].pkt, s + 1)
                      /\ \A k \in Kinds : buf'[s].ts[k] # 0 =>
                           Excused(seqNum, buf'[s].ts[k], s, buf'[s].pkt)
    BY <1>0, <2>1 DEF Places
  <2>3. /\ buf'[s].pkt = IF part = "seq" /\ s = head THEN total + 1 ELSE buf[s].pkt
        /\ \A c \in Kinds : buf'[s].ts[c] = IF part = "ts" /\ s = head THEN 0 ELSE buf[s].ts[c]
    BY <1>0, <1>3, CopyStores
  <2>4. /\ buf[s].pkt <= total + 1
        /\ buf[s].pkt # 0 => Congruent(buf[s].pkt, s + 1)
        /\ \A k \in Kinds : buf[s].ts[k] # 0 => Excused(seqNum, buf[s].ts[k], s, buf[s].pkt)
    BY <1>0 DEF Places
  <2>5. buf'[s].pkt \in Nat /\ buf[s].pkt <= buf'[s].pkt /\ buf[s].pkt \in Nat
    BY <1>1, <1>2, <2>3, <2>4
  <2>6. \A k \in Kinds : buf[s].ts[k] # 0 => Excused(seqNum, buf[s].ts[k], s, buf'[s].pkt)
    BY <2>4, <2>5, ExcusedLater
  <2>7. \A k \in Kinds : buf'[s].ts[k] # 0 => buf'[s].ts[k] = buf[s].ts[k]
    BY <2>3
  <2>8. \A k \in Kinds : buf'[s].ts[k] # 0 => Excused(seqNum, buf'[s].ts[k], s, buf'[s].pkt)
    BY <2>6, <2>7
  <2> QED BY <1>1, <1>2, <2>2, <2>3, <2>4, <2>8
<1>4. ASSUME NEW s \in Slots, NEW k \in Kinds, NEW x \in Nat, total' = total,
             \A t \in Slots : buf'[t].pkt = buf[t].pkt,
             \A t \in Slots : \A c \in Kinds :
               buf'[t].ts[c] = IF t = s /\ c = k THEN x ELSE buf[t].ts[c],
             Excused(seqNum, x, s, buf[s].pkt)
      PROVE  Places'
  BY <1>0, <1>4 DEF Places
<1>5. CASE OwnUpdate
  <2> DEFINE s == (tail + Count - 1) % Size
  <2>1. /\ Count \in 1 .. Size - 1 /\ s \in Slots
        /\ \A t \in Slots : buf'[t].pkt = buf[t].pkt
        /\ \A t \in Slots : \A c \in Kinds :
             buf'[t].ts[c] = IF t = s /\ c = Own THEN total ELSE buf[t].ts[c]
    BY <1>0, <1>5, OwnStores
  <2>2. Count \in 1 .. Count /\ dropped \in Nat /\ dropped + Count = total /\ total > 0
    BY <1>0, <2>1, SizeFact, StatsAssumption DEF TypeOK, Indices
  <2>3. buf[s].pkt = total
    BY <1>0, <2>2 DEF Active
  <2>4. Congruent(total, s + 1)
    BY <1>0, <2>1, <2>2, <2>3 DEF Places
  <2>5. total' = total /\ total <= buf[s].pkt /\ total \in Packets
    BY <1>0, <1>1, <1>5, <2>2, <2>3 DEF OwnUpdate, TypeOK, Packets
  <2> HIDE DEF s
  <2>6. Excused(seqNum, total, s, buf[s].pkt)
    BY <2>4, <2>5 DEF Excused
  <2> QED BY <1>1, <1>4, <2>1, <2>5, <2>6, KindFacts
<1>6. ASSUME NEW u \in Updaters, Store(u)
      PROVE  Places'
  <2> DEFINE s == Back(job[u].head, job[u].i)
  <2>1. /\ s \in Slots
        /\ \A t \in Slots : buf'[t].pkt = buf[t].pkt
        /\ \A t \in Slots : \A c \in Kinds :
             buf'[t].ts[c] = IF t = s /\ c = u THEN job[u].pkt ELSE buf[t].ts[c]
    BY <1>0, <1>6, StoreStores
  <2>2. job[u].pkt \in Nat
    BY <1>0, JobTypes, StatsAssumption DEF TypeOK, JobType
  <2>3. Excused(seqNum, job[u].pkt, s, buf[s].pkt)
    BY <1>0, <1>6 DEF Matched, Store
  <2>4. total' = total
    BY <1>6 DEF Store, recVars
  <2> HIDE DEF s
  <2> QED BY <1>4, <2>1, <2>2, <2>3, <2>4, KindFacts
<1>7. ASSUME UNCHANGED buf, total' \in Nat, total' >= total
      PROVE  Places'
  BY <1>0, <1>1, <1>2, <1>7 DEF Places
<1>8. ASSUME NEW n \in 1 .. MaxBatch, Announce(n)
      PROVE  Places'
  BY <1>1, <1>7, <1>8 DEF Announce
<1>9. CASE EnqueueCheck
  BY <1>1, <1>7, <1>9 DEF EnqueueCheck
<1>10. CASE EnqueuePublish
  BY <1>1, <1>7, <1>10 DEF EnqueuePublish
<1>11. ASSUME NEW u \in Updaters, Updater(u)
       PROVE  Places'
  BY <1>1, <1>6, <1>7, <1>11, UpdaterFrame DEF recVars
<1>12. CASE UNCHANGED vars
  BY <1>1, <1>7, <1>12 DEF vars, recVars
<1> QED BY <1>3, <1>5, <1>8, <1>9, <1>10, <1>11, <1>12 DEF Next, Recorder, Finished

\* What the recorder has copied stays until it is published: the updaters store
\* no sequence number and not the recorder's timestamp.
LEMMA NextFilled == StatsInv /\ [Next]_vars => Filled'
<1> SUFFICES ASSUME StatsInv, [Next]_vars PROVE Filled'
  OBVIOUS
<1>0. TypeOK /\ Indices /\ Filled /\ head \in Slots /\ Own \in Kinds
  BY KindFacts DEF StatsInv, TypeOK
<1>1. ASSUME NEW n \in 1 .. MaxBatch, Announce(n)
      PROVE  Filled'
  BY <1>0, <1>1 DEF Announce, Filled, Filling
<1>2. CASE EnqueueCheck
  BY <1>2 DEF EnqueueCheck, Filled, Filling
<1>3. ASSUME NEW part \in {"seq", "ts"}, EnqueueCopy(part)
      PROVE  Filled'
  <2>1. /\ buf'[head].pkt = IF part = "seq" THEN total + 1 ELSE buf[head].pkt
        /\ buf'[head].ts[Own] = IF part = "ts" THEN 0 ELSE buf[head].ts[Own]
    BY <1>0, <1>3, CopyStores
  <2>2. /\ head' = head /\ total' = total /\ rpc = "copy" /\ copied' = copied \cup {part}
        /\ rpc' = IF copied' = {"seq", "ts"} THEN "publish" ELSE "copy"
    BY <1>3 DEF EnqueueCopy
  <2>3. /\ "seq" \in copied' => part = "seq" \/ "seq" \in copied
        /\ "ts" \in copied' => part = "ts" \/ "ts" \in copied
    BY <2>2
  <2>4. rpc' = "publish" => copied' = {"seq", "ts"}
    BY <2>2
  <2> QED BY <1>0, <2>1, <2>2, <2>3, <2>4 DEF Filled, Filling
<1>4. CASE EnqueuePublish \/ OwnUpdate
  BY <1>4 DEF EnqueuePublish, OwnUpdate, Filled, Filling
<1>5. ASSUME UNCHANGED recVars, buf'[head].pkt = buf[head].pkt, buf'[head].ts[Own] = buf[head].ts[Own]
      PROVE  Filled'
  BY <1>0, <1>5 DEF Filled, Filling, recVars
<1>6. ASSUME NEW u \in Updaters, Updater(u)
      PROVE  Filled'
  <2>1. CASE Store(u)
    <3>1. buf'[head].pkt = buf[head].pkt
      BY <1>0, <2>1, StoreStores
    <3>2. buf'[head].ts[Own] = buf[head].ts[Own]
      BY <1>0, <2>1, StoreStores, KindFacts
    <3> QED BY <1>5, <1>6, <3>1, <3>2, UpdaterFrame
  <2>2. CASE UNCHANGED buf
    BY <1>5, <1>6, <2>2, UpdaterFrame
  <2> QED BY <1>6, <2>1, <2>2, UpdaterFrame
<1>7. CASE UNCHANGED vars
  BY <1>5, <1>7 DEF vars
<1> QED BY <1>1, <1>2, <1>3, <1>4, <1>6, <1>7 DEF Next, Recorder, Finished

\* The active entries remain the packets after the dropped ones.
LEMMA NextActive == StatsInv /\ [Next]_vars => Active'
<1> SUFFICES ASSUME StatsInv, [Next]_vars PROVE Active'
  OBVIOUS
<1>0. TypeOK /\ Indices /\ Filled /\ Active /\ Own \in Kinds
  BY KindFacts DEF StatsInv
<1>1. /\ head \in Slots /\ tail \in Slots /\ dropped \in Int /\ dropped \in Nat /\ total \in Nat
      /\ Size \in Nat /\ Count \in 0 .. Size - 1 /\ Count + dropped = total
      /\ RingFull(head, tail, Size) <=> Count = Size - 1
  BY <1>0, CountFact, SizeFact, StatsAssumption DEF TypeOK, Indices
<1> DEFINE Sl(k) == (tail + k - 1) % Size
           Entry(k) == /\ buf[Sl(k)].pkt = dropped + k
                       /\ buf[Sl(k)].ts[Own] = dropped + k
                            \/ (rpc = "own" /\ k = Count /\ buf[Sl(k)].ts[Own] = 0)
<1>2. \A k \in 1 .. Count : Sl(k) \in Slots /\ Sl(k) # head
  BY <1>0, <1>1, SlotFacts DEF Indices, Count
<1>3. \A k \in 1 .. Count : Entry(k)
  BY <1>0 DEF Active
<1>4. ASSUME UNCHANGED <<head, tail, dropped, rpc>>,
             \A k \in 1 .. Count : /\ buf'[Sl(k)].pkt = buf[Sl(k)].pkt
                                   /\ buf'[Sl(k)].ts[Own] = buf[Sl(k)].ts[Own]
      PROVE  Active'
  <2>1. Count' = Count
    BY <1>4 DEF Count
  <2> QED BY <1>3, <1>4, <2>1 DEF Active
<1>5. ASSUME NEW n \in 1 .. MaxBatch, Announce(n)
      PROVE  Active'
  BY <1>4, <1>5 DEF Announce
<1>6. CASE EnqueueCheck
  <2>1. CASE RingFull(head, tail, Size)
    <3>1. tail' = RingNext(tail, Size) /\ dropped' = dropped + 1 /\ rpc = "idle"
          /\ buf' = buf /\ head' = head
      BY <1>6, <2>1 DEF EnqueueCheck
    <3>2. Count > 0
      BY <1>1, <2>1, SizeFact
    <3>3. Count' = Count - 1
      BY <1>1, <3>1, <3>2, IndexSteps DEF Count
    <3>4. \A k \in 1 .. Count - 1 : (tail' + k - 1) % Size = Sl(k + 1)
      BY <1>1, <3>1, <3>2, IndexSteps
    <3>5. ASSUME NEW k \in 1 .. Count - 1
          PROVE  /\ buf[Sl(k + 1)].pkt = (dropped + 1) + k
                 /\ buf[Sl(k + 1)].ts[Own] = (dropped + 1) + k
      <4>1. k + 1 \in 1 .. Count /\ dropped + (k + 1) = (dropped + 1) + k
        BY <1>1, <3>2
      <4>2. Entry(k + 1)
        BY <1>3, <4>1
      <4> HIDE DEF Sl
      <4> QED BY <3>1, <4>1, <4>2
    <3> HIDE DEF Sl, Entry
    <3> QED BY <3>1, <3>3, <3>4, <3>5 DEF Active
  <2>2. CASE ~RingFull(head, tail, Size)
    <3>1. UNCHANGED <<head, tail, dropped, buf>> /\ rpc = "idle"
      BY <1>6, <2>2 DEF EnqueueCheck
    <3>2. Count' = Count
      BY <3>1 DEF Count
    <3> QED BY <1>3, <3>1, <3>2 DEF Active
  <2> QED BY <2>1, <2>2
<1>7. ASSUME NEW part \in {"seq", "ts"}, EnqueueCopy(part)
      PROVE  Active'
  <2>1. \A k \in 1 .. Count : /\ buf'[Sl(k)].pkt = buf[Sl(k)].pkt
                              /\ buf'[Sl(k)].ts[Own] = buf[Sl(k)].ts[Own]
    <3> HIDE DEF Sl
    <3> QED BY <1>0, <1>2, <1>7, CopyStores
  <2>2. UNCHANGED <<head, tail, dropped>> /\ rpc = "copy"
    BY <1>7 DEF EnqueueCopy
  <2>3. Count' = Count
    BY <2>2 DEF Count
  <2> QED BY <1>3, <2>1, <2>2, <2>3 DEF Active
<1>8. CASE EnqueuePublish
  <2>1. /\ head' = RingNext(head, Size) /\ UNCHANGED <<tail, dropped, buf>>
        /\ rpc = "publish" /\ rpc' = "own"
    BY <1>8 DEF EnqueuePublish
  <2>2. Count < Size - 1
    BY <1>0, <2>1 DEF Indices, Filling
  <2>3. Count' = Count + 1 /\ Sl(Count + 1) = head
    BY <1>1, <2>1, <2>2, IndexSteps DEF Count
  <2>4. buf[head].pkt = total + 1 /\ buf[head].ts[Own] = 0
    BY <1>0, <2>1 DEF Filled, Filling
  <2>5. dropped + (Count + 1) = total + 1
    BY <1>1
  <2>6. \A k \in 1 .. Count + 1 : k \in 1 .. Count \/ k = Count + 1
    BY <1>1
  <2>7. ASSUME NEW k \in 1 .. Count + 1
        PROVE  /\ buf[Sl(k)].pkt = dropped + k
               /\ buf[Sl(k)].ts[Own] = dropped + k
                            \/ (k = Count + 1 /\ buf[Sl(k)].ts[Own] = 0)
    <3> HIDE DEF Sl
    <3>1. CASE k \in 1 .. Count
      BY <1>3, <2>1, <3>1
    <3>2. CASE k = Count + 1
      BY <2>3, <2>4, <2>5, <3>2
    <3> QED BY <2>6, <3>1, <3>2
  <2> HIDE DEF Entry
  <2> QED BY <2>1, <2>3, <2>7 DEF Active
<1>9. CASE OwnUpdate
  <2>1. /\ \A t \in Slots : buf'[t].pkt = buf[t].pkt
        /\ \A t \in Slots : buf'[t].ts[Own] = IF t = Sl(Count) THEN total ELSE buf[t].ts[Own]
    BY <1>0, <1>9, OwnStores
  <2>2. UNCHANGED <<head, tail, dropped>>
    BY <1>9 DEF OwnUpdate
  <2>3. Count' = Count
    BY <2>2 DEF Count
  <2>4. ASSUME NEW k \in 1 .. Count
        PROVE  buf'[Sl(k)].pkt = dropped + k /\ buf'[Sl(k)].ts[Own] = dropped + k
    <3>1. Sl(k) \in Slots /\ Entry(k)
      BY <1>2, <1>3
    <3>2. buf[Sl(k)].pkt = dropped + k
      BY <3>1
    <3>3. CASE k = Count
      <4> HIDE DEF Sl
      <4> QED BY <1>1, <2>1, <3>1, <3>2, <3>3
    <3>4. CASE k # Count
      <4>1. Count \in 1 .. Count
        BY <1>1
      <4>2. buf[Sl(Count)].pkt = dropped + Count
        BY <1>3, <4>1
      <4>3. Sl(k) # Sl(Count)
        <5> HIDE DEF Sl
        <5> QED BY <1>1, <3>2, <3>4, <4>2
      <4>4. buf[Sl(k)].ts[Own] = dropped + k
        BY <3>1, <3>4
      <4> HIDE DEF Sl
      <4> QED BY <2>1, <3>1, <3>2, <4>3, <4>4
    <3> QED BY <3>3, <3>4
  <2> HIDE DEF Entry
  <2> QED BY <2>2, <2>3, <2>4 DEF Active
<1>10. ASSUME NEW u \in Updaters, Updater(u)
       PROVE  Active'
  <2>1. CASE Store(u)
    <3>1. /\ \A t \in Slots : buf'[t].pkt = buf[t].pkt
          /\ \A t \in Slots : buf'[t].ts[Own] = buf[t].ts[Own]
      BY <1>0, <2>1, StoreStores, KindFacts
    <3>2. \A k \in 1 .. Count : /\ buf'[Sl(k)].pkt = buf[Sl(k)].pkt
                                /\ buf'[Sl(k)].ts[Own] = buf[Sl(k)].ts[Own]
      BY <1>2, <3>1
    <3> HIDE DEF Sl, Entry
    <3> QED BY <1>4, <1>10, <3>2, UpdaterFrame
  <2>2. CASE UNCHANGED buf
    <3> HIDE DEF Sl, Entry
    <3> QED BY <1>4, <1>10, <2>2, UpdaterFrame
  <2> QED BY <1>10, <2>1, <2>2, UpdaterFrame
<1>11. CASE UNCHANGED vars
  BY <1>4, <1>11 DEF vars, recVars
<1> QED BY <1>5, <1>6, <1>7, <1>8, <1>9, <1>10, <1>11 DEF Next, Recorder, Finished

\* Counters only grow, and so do the sequence numbers in every slot.
LEMMA Growing ==
  ASSUME StatsInv, [Next]_vars
  PROVE  /\ total \in Nat /\ dropped \in Nat /\ total' \in Nat /\ dropped' \in Nat
         /\ total <= total' /\ dropped <= dropped'
         /\ \A s \in Slots : buf[s].pkt \in Nat /\ buf'[s].pkt \in Nat /\ buf[s].pkt <= buf'[s].pkt
<1>0. TypeOK /\ Indices /\ Places /\ Active /\ buf \in BufType
  BY DEF StatsInv, TypeOK, BufType
<1>1. total \in Nat /\ dropped \in Nat /\ \A s \in Slots : buf[s].pkt \in Nat
  BY <1>0, EntryTypes, StatsAssumption DEF TypeOK
<1>2. ASSUME NEW n \in 1 .. MaxBatch, Announce(n)
      PROVE  UNCHANGED <<total, dropped, buf>>
  BY <1>2 DEF Announce
<1>3. CASE EnqueueCheck
  BY <1>1, <1>3 DEF EnqueueCheck
<1>4. ASSUME NEW part \in {"seq", "ts"}, EnqueueCopy(part)
      PROVE  /\ UNCHANGED <<total, dropped>>
             /\ \A s \in Slots : buf'[s].pkt \in Nat /\ buf[s].pkt <= buf'[s].pkt
  <2>1. \A s \in Slots : buf'[s].pkt = IF part = "seq" /\ s = head THEN total + 1 ELSE buf[s].pkt
    BY <1>0, <1>4, CopyStores
  <2>2. \A s \in Slots : buf[s].pkt <= total + 1
    BY <1>0 DEF Places
  <2> QED BY <1>1, <1>4, <2>1, <2>2 DEF EnqueueCopy
<1>5. CASE EnqueuePublish
  BY <1>1, <1>5 DEF EnqueuePublish
<1>6. CASE OwnUpdate
  <2>1. \A s \in Slots : buf'[s].pkt = buf[s].pkt
    BY <1>0, <1>6, OwnStores
  <2> QED BY <1>1, <1>6, <2>1 DEF OwnUpdate
<1>7. ASSUME NEW u \in Updaters, Updater(u)
      PROVE  UNCHANGED <<total, dropped>> /\ \A s \in Slots : buf'[s].pkt = buf[s].pkt
  BY <1>0, <1>7, UpdaterFrame, StoreStores
<1>8. CASE UNCHANGED vars
  BY <1>1, <1>8 DEF vars, recVars
<1> QED BY <1>1, <1>2, <1>3, <1>4, <1>5, <1>6, <1>7, <1>8 DEF Next, Recorder, Finished

\* Steps of the recorder leave the updaters' variables alone; a step of an updater
\* leaves those of the others alone.
LEMMA OthersKeep ==
  ASSUME StatsInv, [Next]_vars
  PROVE  \/ UNCHANGED <<upc, job, missed>>
         \/ \E u \in Updaters :
              /\ Updater(u)
              /\ \A v \in Updaters : v # u => upc'[v] = upc[v] /\ job'[v] = job[v]
<1>0. /\ job \in JobType /\ upc \in [Updaters -> {"idle", "head", "probe", "store"}]
      /\ head \in Slots /\ tail \in Slots
  BY DEF StatsInv, TypeOK, JobType
<1>1. CASE Recorder \/ UNCHANGED vars
  BY <1>1 DEF Recorder, Announce, EnqueueCheck, EnqueueCopy, EnqueuePublish, OwnUpdate,
              vars, updVars
<1>2. ASSUME NEW u \in Updaters, Updater(u), NEW v \in Updaters, v # u
      PROVE  upc'[v] = upc[v] /\ job'[v] = job[v]
  <2>1. upc'[v] = upc[v]
    BY <1>0, <1>2, Zenon DEF Updater, LoadTail, LoadHead, Probe, Store
  <2>2. job'[v] = job[v]
    <3>1. CASE \E p \in Packets : LoadTail(u, p)
      BY <1>0, <1>2, <3>1, LoadTailJob
    <3>2. CASE LoadHead(u)
      BY <1>0, <1>2, <3>2, LoadHeadJob
    <3>3. CASE Probe(u) \/ Store(u)
      BY <1>0, <1>2, <3>3 DEF Probe, Store, JobType
    <3> QED BY <1>2, <3>1, <3>2, <3>3 DEF Updater
  <2> QED BY <2>1, <2>2, Zenon
<1> QED BY <1>1, <1>2 DEF Next, Finished

\* The outcomes of one turn of the search loop.
LEMMA ProbeCases ==
  ASSUME StatsInv, NEW u \in Updaters, Probe(u)
  PROVE  /\ upc[u] = "probe" /\ UNCHANGED <<recVars, buf>>
         /\ \/ /\ upc'[u] = "idle" /\ job' = job
               /\ job[u].i >= RingCount(job[u].head, job[u].tail, Size)
               /\ missed' = IF job[u].present /\ InRing(job[u].pkt)
                            THEN missed \cup {<<u, job[u].torn>>} ELSE missed
            \/ /\ upc'[u] = "store" /\ job' = job /\ missed' = missed
               /\ job[u].i < RingCount(job[u].head, job[u].tail, Size)
               /\ NumberOf(buf[Back(job[u].head, job[u].i)].pkt) = seqNum[job[u].pkt]
            \/ /\ upc'[u] = "probe" /\ missed' = missed
               /\ NumberOf(buf[Back(job[u].head, job[u].i)].pkt) # seqNum[job[u].pkt]
               /\ job'[u].i = job[u].i + 1
               /\ job'[u].pkt = job[u].pkt /\ job'[u].tail = job[u].tail
               /\ job'[u].head = job[u].head /\ job'[u].present = job[u].present
               /\ job'[u].torn = job[u].torn
<1>0. job \in JobType /\ upc \in [Updaters -> {"idle", "head", "probe", "store"}]
  BY DEF StatsInv, TypeOK, JobType
<1>1. upc[u] = "probe" /\ UNCHANGED <<recVars, buf>>
  BY DEF Probe
<1>2. CASE /\ job[u].i >= RingCount(job[u].head, job[u].tail, Size)
           /\ upc' = [upc EXCEPT ![u] = "idle"]
           /\ missed' = IF job[u].present /\ InRing(job[u].pkt)
                        THEN missed \cup {<<u, job[u].torn>>} ELSE missed
           /\ UNCHANGED job
  <2>1. upc'[u] = "idle"
    BY <1>0, <1>2
  <2> QED BY <1>1, <1>2, <2>1
<1>3. CASE /\ job[u].i < RingCount(job[u].head, job[u].tail, Size)
           /\ NumberOf(buf[Back(job[u].head, job[u].i)].pkt) = seqNum[job[u].pkt]
           /\ upc' = [upc EXCEPT ![u] = "store"] /\ UNCHANGED <<job, missed>>
  <2>1. upc'[u] = "store"
    BY <1>0, <1>3
  <2> QED BY <1>1, <1>3, <2>1
<1>4. CASE /\ NumberOf(buf[Back(job[u].head, job[u].i)].pkt) # seqNum[job[u].pkt]
           /\ job' = [job EXCEPT ![u].i = @ + 1] /\ UNCHANGED <<upc, missed>>
  <2>1. /\ job'[u].i = job[u].i + 1
        /\ job'[u].pkt = job[u].pkt /\ job'[u].tail = job[u].tail
        /\ job'[u].head = job[u].head /\ job'[u].present = job[u].present
        /\ job'[u].torn = job[u].torn
    BY <1>0, <1>4 DEF JobType
  <2> QED BY <1>1, <1>4, <2>1
<1> QED BY <1>2, <1>3, <1>4 DEF Probe

\* The slots a search from head looks at have all been written, whatever tail it
\* loaded before: with a tail that has moved on, the ring has been full.
LEMMA SearchedWritten ==
  ASSUME StatsInv, NEW u \in Updaters, NEW o \in 0 .. RingCount(head, job[u].tail, Size) - 1
  PROVE  buf[Back(head, o)].pkt # 0
<1>0. /\ TypeOK /\ Indices /\ Active /\ Written /\ Unmoved /\ job \in JobType
      /\ head \in Slots /\ tail \in Slots /\ job[u].tail \in Slots
  BY JobTypes DEF StatsInv, TypeOK, JobType
<1>1. /\ Size \in Nat /\ Size > 1 /\ Slots = 0 .. Size - 1
      /\ total \in Nat /\ dropped \in Nat /\ Count \in 0 .. Size - 1 /\ Count + dropped = total
      /\ Count = RingCount(head, tail, Size)
      /\ RingCount(head, job[u].tail, Size) \in 0 .. Size - 1
  <2>1. Size \in Nat /\ Size > 1 /\ Slots = 0 .. Size - 1
    BY SizeFact
  <2>2. total \in Nat /\ dropped \in Nat
    BY <1>0, StatsAssumption DEF TypeOK
  <2>3. Count \in 0 .. Size - 1
    BY <1>0, CountFact
  <2>4. Count + dropped = total
    BY <1>0, <2>2, <2>3 DEF Indices
  <2>5. Count = RingCount(head, tail, Size)
    BY DEF Count
  <2>6. RingCount(head, job[u].tail, Size) \in 0 .. Size - 1
    BY <1>0, <2>1, RingCountValue
  <2> QED BY <2>1, <2>2, <2>3, <2>4, <2>5, <2>6
<1>2. o \in 0 .. Size - 2 /\ o \in 0 .. Size - 1
  BY <1>1
<1>3. CASE tail = job[u].tail
  <2> DEFINE k == Count - o
  <2>1. k \in 1 .. RingCount(head, tail, Size) /\ RingCount(head, tail, Size) - k = o
    BY <1>1, <1>3
  <2> HIDE DEF k
  <2>2. Back(head, o) = (tail + k - 1) % Size
    BY <1>0, <1>1, <2>1, SlotFacts DEF Indices
  <2>3. buf[(tail + k - 1) % Size].pkt = dropped + k
    BY <1>0, <1>1, <2>1 DEF Active
  <2> QED BY <1>1, <2>1, <2>2, <2>3
<1>4. CASE tail # job[u].tail
  <2>1. dropped > 0
    BY <1>0, <1>1, <1>4 DEF Unmoved
  <2>2. Count >= Size - 2
    BY <1>0, <1>1, <2>1 DEF Indices
  <2>3. total >= Size - 1
    BY <1>1, <2>1, <2>2
  <2>4. Back(head, o) \in Slots /\ Back(head, o) # head
    BY <1>0, <1>1, <1>2, BackNotHead
  <2>5. Back(head, o) < total
    <3>1. CASE total >= Size
      BY <1>1, <2>4, <3>1
    <3>2. CASE total = Size - 1
      <4>1. Size - 1 \in Slots /\ Congruent(total, head)
        BY <1>0, <1>1 DEF Indices
      <4>2. head = Size - 1
        BY <1>0, <1>1, <3>2, <4>1, SameSlot
      <4> QED BY <1>1, <2>4, <3>2, <4>2
    <3> QED BY <1>1, <2>3, <3>1, <3>2
  <2> QED BY <1>0, <2>4, <2>5 DEF Written
<1> QED BY <1>3, <1>4

\* Every slot is written before it counts, and a search keeps to written slots.
LEMMA NextWritten == StatsInv /\ [Next]_vars => Written'
<1> SUFFICES ASSUME StatsInv, [Next]_vars PROVE Written'
  OBVIOUS
<1>0. /\ TypeOK /\ Indices /\ Filled /\ Written /\ job \in JobType
      /\ upc \in [Updaters -> {"idle", "head", "probe", "store"}]
      /\ head \in Slots /\ tail \in Slots /\ Slots = 0 .. Size - 1 /\ Size \in Nat
  BY SizeFact DEF StatsInv, TypeOK, JobType
<1>1. /\ total \in Nat /\ total' \in Nat
      /\ \A s \in Slots : buf[s].pkt \in Nat /\ buf'[s].pkt \in Nat /\ buf[s].pkt <= buf'[s].pkt
  BY Growing
<1>2. \A s \in Slots : buf[s].pkt # 0 => buf'[s].pkt # 0
  BY <1>1
<1>3. ASSUME NEW s \in Slots, s < total' PROVE buf'[s].pkt # 0
  <2>1. CASE EnqueuePublish
    <3>1. total' = total + 1 /\ buf[head].pkt = total + 1
      BY <1>0, <2>1 DEF EnqueuePublish, Filled, Filling
    <3>2. CASE s < total
      BY <1>0, <1>2, <3>2 DEF Written
    <3>3. CASE s = total
      <4>1. s = head
        BY <1>0, <1>1, <3>3, SameSlot DEF Indices
      <4> QED BY <1>0, <1>1, <1>2, <3>1, <4>1
    <3> QED BY <1>0, <1>1, <1>3, <3>1, <3>2, <3>3
  <2>2. CASE total' = total
    BY <1>0, <1>2, <1>3, <2>2 DEF Written
  <2>3. EnqueuePublish \/ total' = total
    BY UpdaterFrame DEF Next, Recorder, Announce, EnqueueCheck, EnqueueCopy, OwnUpdate,
       Finished, vars, recVars
  <2> QED BY <2>1, <2>2, <2>3
<1>4. ASSUME NEW v \in Updaters, upc'[v] = "probe",
             NEW o \in 0 .. RingCount(job'[v].head, job'[v].tail, Size) - 1
      PROVE  buf'[Back(job'[v].head, o)].pkt # 0
  <2>0. job[v].head \in Slots /\ job[v].tail \in Slots
    BY <1>0, JobTypes
  <2>1. ASSUME upc[v] = "probe", job'[v].head = job[v].head, job'[v].tail = job[v].tail
        PROVE  buf'[Back(job'[v].head, o)].pkt # 0
    <3>1. buf[Back(job[v].head, o)].pkt # 0
      BY <1>0, <1>4, <2>1 DEF Written
    <3>2. RingCount(job[v].head, job[v].tail, Size) \in 0 .. Size - 1
      BY <1>0, <2>0, SizeFact, RingCountValue
    <3>3. o \in 0 .. Size - 1
      BY <1>0, <1>4, <2>1, <3>2
    <3>4. Back(job[v].head, o) \in Slots
      BY <2>0, <3>3, BackInRing
    <3> QED BY <1>2, <2>1, <3>1, <3>4
  <2>2. CASE upc'[v] = upc[v] /\ job'[v] = job[v]
    BY <1>4, <2>1, <2>2
  <2>3. CASE \E p \in Packets : LoadTail(v, p)
    BY <1>0, <1>4, <2>3 DEF LoadTail
  <2>4. CASE LoadHead(v)
    <3>1. job'[v].tail = job[v].tail /\ job'[v].head = head /\ buf' = buf
      BY <1>0, <2>4, LoadHeadJob DEF LoadHead
    <3> QED BY <1>4, <3>1, SearchedWritten
  <2>5. CASE Probe(v)
    <3>1. upc[v] = "probe" /\ job'[v].head = job[v].head /\ job'[v].tail = job[v].tail
      BY <1>4, <2>5, ProbeCases
    <3> QED BY <2>1, <3>1
  <2>6. CASE Store(v)
    BY <1>0, <1>4, <2>6 DEF Store
  <2> QED BY <2>2, <2>3, <2>4, <2>5, <2>6, OthersKeep DEF Updater
<1> QED BY <1>3, <1>4 DEF Written

\* An updater stores where it found a packet with its number, or where a later
\* packet has taken that slot.
LEMMA NextMatched == StatsInv /\ [Next]_vars => Matched'
<1> SUFFICES ASSUME StatsInv, [Next]_vars, NEW v \in Updaters
             PROVE  /\ upc'[v] # "idle" => job'[v].pkt # 0
                    /\ upc'[v] = "store" =>
                         LET s == Back(job'[v].head, job'[v].i) IN
                         Excused(seqNum, job'[v].pkt, s, buf'[s].pkt)
  BY NumbersStay DEF Matched
<1>0. /\ TypeOK /\ Places /\ Written /\ Matched /\ job \in JobType
      /\ upc \in [Updaters -> {"idle", "head", "probe", "store"}]
      /\ head \in Slots /\ tail \in Slots
  BY DEF StatsInv, TypeOK, JobType
<1>1. /\ job[v].pkt \in Nat /\ Back(job[v].head, job[v].i) \in Slots
  BY <1>0, JobTypes, BackInRing, StatsAssumption
<1>2. /\ upc[v] # "idle" => job[v].pkt # 0
      /\ upc[v] = "store" => Excused(seqNum, job[v].pkt, Back(job[v].head, job[v].i),
                                     buf[Back(job[v].head, job[v].i)].pkt)
  BY <1>0 DEF Matched
<1>3. CASE upc'[v] = upc[v] /\ job'[v] = job[v]
  <2>1. buf[Back(job[v].head, job[v].i)].pkt <= buf'[Back(job[v].head, job[v].i)].pkt
        /\ buf[Back(job[v].head, job[v].i)].pkt \in Nat
        /\ buf'[Back(job[v].head, job[v].i)].pkt \in Nat
    BY <1>1, Growing
  <2> QED BY <1>1, <1>2, <1>3, <2>1, ExcusedLater
<1>4. CASE \E p \in Packets : LoadTail(v, p)
  <2>1. PICK p \in Packets : LoadTail(v, p)
    BY <1>4
  <2>2. job'[v].pkt = p
    BY <1>0, <2>1, LoadTailJob
  <2>4. p # 0
    BY DEF Packets
  <2>3. upc'[v] = "head"
    BY <1>0, <2>1 DEF LoadTail
  <2> QED BY <2>2, <2>3, <2>4
<1>5. CASE LoadHead(v)
  <2>1. job'[v].pkt = job[v].pkt
    BY <1>0, <1>5, LoadHeadJob
  <2>2. upc'[v] = "probe" /\ upc[v] = "head"
    BY <1>0, <1>5 DEF LoadHead
  <2> QED BY <1>2, <2>1, <2>2
<1>6. CASE Probe(v)
  <2>1. CASE upc'[v] = "store"
    <3> DEFINE s == Back(job[v].head, job[v].i)
               q == buf[s].pkt
    <3>1. /\ job' = job /\ buf' = buf /\ NumberOf(q) = seqNum[job[v].pkt] /\ upc[v] = "probe"
          /\ job[v].i < RingCount(job[v].head, job[v].tail, Size)
      BY <1>6, <2>1, ProbeCases
    <3>2. job[v].pkt # 0
      BY <1>2, <3>1
    <3>3. /\ job[v].i \in 0 .. Size - 1 /\ RingCount(job[v].head, job[v].tail, Size) \in 0 .. Size - 1
          /\ Size \in Nat
      BY <1>0, JobTypes, SizeFact, RingCountValue
    <3>4. job[v].i \in 0 .. RingCount(job[v].head, job[v].tail, Size) - 1
      BY <3>1, <3>3
    <3>5. q # 0
      BY <1>0, <3>1, <3>4 DEF Written
    <3>6. q \in 0 .. MaxPackets
      BY <1>0, <1>1, EntryTypes DEF TypeOK, BufType
    <3>7. q \in Packets /\ q <= q /\ Congruent(q, s + 1)
      BY <1>0, <1>1, <3>5, <3>6, StatsAssumption DEF Places, Packets
    <3> HIDE DEF q, s
    <3>8. seqNum[q] = seqNum[job[v].pkt]
      BY <3>1, <3>7 DEF NumberOf
    <3>9. Excused(seqNum, job[v].pkt, s, q)
      BY <3>7, <3>8 DEF Excused
    <3> QED BY <3>1, <3>2, <3>9 DEF s, q
  <2>2. CASE upc'[v] # "store"
    <3>1. upc[v] = "probe" /\ (upc'[v] = "idle" \/ job'[v].pkt = job[v].pkt)
      BY <1>6, <2>2, ProbeCases
    <3> QED BY <1>2, <2>2, <3>1
  <2> QED BY <2>1, <2>2
<1>7. CASE Store(v)
  <2>1. upc'[v] = "idle"
    BY <1>0, <1>7 DEF Store
  <2> QED BY <2>1
<1> QED BY <1>3, <1>4, <1>5, <1>6, <1>7, OthersKeep DEF Updater

\* A search does not pass its packet's slot by.
LEMMA NextSearching == StatsInv /\ [Next]_vars => Searching'
<1> SUFFICES ASSUME StatsInv, [Next]_vars, NEW v \in Updaters
             PROVE  /\ upc'[v] # "idle" /\ job'[v].present => job'[v].pkt <= total'
                    /\ upc'[v] = "head" => job'[v].i = 0
                    /\ upc'[v] = "probe" /\ job'[v].present /\ ~job'[v].torn
                         /\ dropped' < job'[v].pkt =>
                           \E o \in job'[v].i .. RingCount(job'[v].head, job'[v].tail, Size) - 1 :
                             Congruent(job'[v].pkt, Back(job'[v].head, o) + 1)
  BY DEF Searching
<1>0. /\ TypeOK /\ Indices /\ Active /\ Searching /\ job \in JobType
      /\ upc \in [Updaters -> {"idle", "head", "probe", "store"}]
      /\ head \in Slots /\ tail \in Slots
  BY DEF StatsInv, TypeOK, JobType
<1>1. /\ job[v].pkt \in Nat /\ job[v].pkt \in Int /\ job[v].tail \in Slots /\ job[v].head \in Slots
      /\ job[v].i \in 0 .. Size - 1 /\ Size \in Nat
      /\ RingCount(job[v].head, job[v].tail, Size) \in 0 .. Size - 1
  <2>1. /\ job[v].pkt \in 0 .. MaxPackets /\ job[v].tail \in Slots /\ job[v].head \in Slots
        /\ job[v].i \in 0 .. Size - 1
    BY <1>0, JobTypes
  <2>2. RingCount(job[v].head, job[v].tail, Size) \in 0 .. Size - 1 /\ Size \in Nat
    BY <2>1, SizeFact, RingCountValue
  <2> QED BY <2>1, <2>2
<1>2. /\ upc[v] # "idle" /\ job[v].present => job[v].pkt <= total
      /\ upc[v] = "head" => job[v].i = 0
      /\ upc[v] = "probe" /\ job[v].present /\ ~job[v].torn /\ dropped < job[v].pkt =>
           \E o \in job[v].i .. RingCount(job[v].head, job[v].tail, Size) - 1 :
             Congruent(job[v].pkt, Back(job[v].head, o) + 1)
  BY <1>0 DEF Searching
<1>3. /\ total \in Nat /\ dropped \in Nat /\ total' \in Nat /\ dropped' \in Nat
      /\ total <= total' /\ dropped <= dropped'
  BY Growing
<1>4. CASE upc'[v] = upc[v] /\ job'[v] = job[v]
  <2>1. dropped' < job[v].pkt => dropped < job[v].pkt
    BY <1>1, <1>3
  <2>2. job[v].pkt <= total => job[v].pkt <= total'
    BY <1>1, <1>3
  <2> QED BY <1>2, <1>4, <2>1, <2>2
<1>5. CASE \E p \in Packets : LoadTail(v, p)
  <2>1. PICK p \in Packets : LoadTail(v, p)
    BY <1>5
  <2>2. job'[v].pkt = p /\ job'[v].i = 0 /\ (job'[v].present <=> InRing(p))
    BY <1>0, <2>1, LoadTailJob
  <2>4. upc'[v] = "head" /\ total' = total
    BY <1>0, <2>1 DEF LoadTail, recVars
  <2>3. InRing(p) => p <= total
    BY <1>0, p \in Int, InRingFact DEF Packets
  <2> QED BY <2>2, <2>3, <2>4
<1>6. CASE LoadHead(v)
  <2>1. /\ job'[v].pkt = job[v].pkt /\ job'[v].tail = job[v].tail /\ job'[v].head = head
        /\ job'[v].present = job[v].present /\ (job'[v].torn <=> tail # job[v].tail)
        /\ job'[v].i = job[v].i
    BY <1>0, <1>6, LoadHeadJob
  <2>2. upc'[v] = "probe" /\ upc[v] = "head" /\ total' = total /\ dropped' = dropped
    BY <1>0, <1>6 DEF LoadHead, recVars
  <2>3. job'[v].present => job[v].pkt <= total
    BY <1>2, <2>1, <2>2
  <2>4. ASSUME job'[v].present, ~job'[v].torn, dropped < job[v].pkt
        PROVE  \E o \in job[v].i .. RingCount(head, tail, Size) - 1 :
                 Congruent(job[v].pkt, Back(head, o) + 1)
    <3> DEFINE k == job[v].pkt - dropped
    <3>1. Count = RingCount(head, tail, Size) /\ Count + dropped = total /\ Congruent(dropped, tail)
          /\ Count \in 0 .. Size - 1
      BY <1>0, CountFact DEF Count, Indices
    <3>2. k \in 1 .. RingCount(head, tail, Size) /\ dropped + k = job[v].pkt /\ dropped \in Int
      BY <1>1, <1>3, <2>3, <2>4, <3>1
    <3> HIDE DEF k
    <3>3. /\ Congruent(dropped + k, ((tail + k - 1) % Size) + 1)
          /\ RingCount(head, tail, Size) - k \in 0 .. RingCount(head, tail, Size) - 1
          /\ Back(head, RingCount(head, tail, Size) - k) = (tail + k - 1) % Size
      BY <1>0, <3>1, <3>2, SlotFacts
    <3>4. job[v].i = 0
      BY <1>2, <2>2
    <3> QED BY <3>2, <3>3, <3>4
  <2>5. ~job'[v].torn => tail = job[v].tail
    BY <2>1
  <2> QED BY <2>1, <2>2, <2>3, <2>4, <2>5
<1>7. CASE Probe(v)
  <2>1. upc[v] = "probe" /\ total' = total /\ dropped' = dropped
    BY <1>7, ProbeCases DEF recVars
  <2>2. CASE upc'[v] # "probe"
    <3>1. upc'[v] = "idle" \/ (upc'[v] = "store" /\ job' = job)
      BY <1>7, <2>2, ProbeCases
    <3> QED BY <1>2, <2>1, <2>2, <3>1
  <2>3. CASE upc'[v] = "probe"
    <3>1. /\ NumberOf(buf[Back(job[v].head, job[v].i)].pkt) # seqNum[job[v].pkt]
          /\ job'[v].i = job[v].i + 1
          /\ job'[v].pkt = job[v].pkt /\ job'[v].tail = job[v].tail
          /\ job'[v].head = job[v].head /\ job'[v].present = job[v].present
          /\ job'[v].torn = job[v].torn
      BY <1>7, <2>3, ProbeCases
    <3>2. ASSUME job[v].present, ~job[v].torn, dropped < job[v].pkt
          PROVE  \E o \in job[v].i + 1 .. RingCount(job[v].head, job[v].tail, Size) - 1 :
                   Congruent(job[v].pkt, Back(job[v].head, o) + 1)
      <4>1. PICK o \in job[v].i .. RingCount(job[v].head, job[v].tail, Size) - 1 :
               Congruent(job[v].pkt, Back(job[v].head, o) + 1)
        BY <1>2, <2>1, <3>2
      <4>2. job[v].pkt <= total
        BY <1>2, <2>1, <3>2
      <4>3. o # job[v].i
        <5> SUFFICES ASSUME o = job[v].i PROVE FALSE
          OBVIOUS
        <5> DEFINE k == job[v].pkt - dropped
        <5>1. Count = RingCount(head, tail, Size) /\ Count + dropped = total
              /\ Congruent(dropped, tail) /\ Count \in 0 .. Size - 1
          BY <1>0, CountFact DEF Count, Indices
        <5>2. k \in 1 .. RingCount(head, tail, Size) /\ dropped + k = job[v].pkt /\ dropped \in Int
          BY <1>1, <1>3, <3>2, <4>2, <5>1
        <5> HIDE DEF k
        <5>3. /\ (tail + k - 1) % Size \in Slots
              /\ Congruent(dropped + k, ((tail + k - 1) % Size) + 1)
          BY <1>0, <5>1, <5>2, SlotFacts
        <5>4. buf[(tail + k - 1) % Size].pkt = dropped + k
          BY <1>0, <5>1, <5>2 DEF Active
        <5>5. Back(job[v].head, job[v].i) \in Slots
          BY <1>1, BackInRing
        <5>6. Back(job[v].head, job[v].i) = (tail + k - 1) % Size
          BY <1>1, <4>1, <5>2, <5>3, <5>5, OneSlot
        <5>7. buf[Back(job[v].head, job[v].i)].pkt = job[v].pkt
          BY <5>2, <5>4, <5>6
        <5>8. job[v].pkt \in Packets
          BY <1>0, <1>1, <3>2, <1>3, JobTypes DEF Packets
        <5> QED BY <3>1, <5>7, <5>8 DEF NumberOf
      <4>4. o \in job[v].i + 1 .. RingCount(job[v].head, job[v].tail, Size) - 1
        BY <1>1, <4>3
      <4> QED BY <4>1, <4>4
    <3> QED BY <1>2, <2>1, <2>3, <3>1, <3>2
  <2> QED BY <2>2, <2>3
<1>8. CASE Store(v)
  <2>1. upc'[v] = "idle"
    BY <1>0, <1>8 DEF Store
  <2> QED BY <2>1
<1> QED BY <1>4, <1>5, <1>6, <1>7, <1>8, OthersKeep DEF Updater

\* As long as nothing is dropped tail does not move, and no search is torn.
LEMMA NextUnmoved == StatsInv /\ [Next]_vars => Unmoved'
<1> SUFFICES ASSUME StatsInv, [Next]_vars, dropped' = 0
             PROVE  /\ tail' = 0
                    /\ \A v \in Updaters : job'[v].tail = 0 /\ ~job'[v].torn
  BY DEF Unmoved
<1>0. /\ TypeOK /\ job \in JobType /\ head \in Slots /\ tail \in Slots
      /\ upc \in [Updaters -> {"idle", "head", "probe", "store"}]
  BY DEF StatsInv, TypeOK, JobType
<1>1. dropped \in Nat /\ dropped = 0
  <2>1. dropped \in Nat /\ dropped <= dropped'
    BY Growing
  <2> QED BY <2>1
<1>2. tail = 0 /\ \A v \in Updaters : job[v].tail = 0 /\ ~job[v].torn
  BY <1>1 DEF StatsInv, Unmoved
<1>3. tail' = tail
  <2>1. CASE EnqueueCheck
    BY <1>1, <2>1 DEF EnqueueCheck
  <2>2. CASE ~EnqueueCheck
    BY <2>2, UpdaterFrame DEF Next, Recorder, Announce, EnqueueCopy, EnqueuePublish, OwnUpdate,
       Finished, vars, recVars
  <2> QED BY <2>1, <2>2
<1>4. ASSUME NEW v \in Updaters
      PROVE  job'[v].tail = 0 /\ ~job'[v].torn
  <2>1. CASE job'[v] = job[v]
    BY <1>2, <2>1
  <2>2. CASE \E p \in Packets : LoadTail(v, p)
    <3>1. job'[v].tail = tail /\ job'[v].torn = FALSE
      BY <1>0, <2>2, LoadTailJob
    <3> QED BY <1>2, <3>1
  <2>3. CASE LoadHead(v)
    <3>1. job'[v].tail = job[v].tail /\ (job'[v].torn <=> tail # job[v].tail)
      BY <1>0, <2>3, LoadHeadJob
    <3> QED BY <1>2, <3>1
  <2>4. CASE Probe(v)
    <3>1. job'[v].tail = job[v].tail /\ job'[v].torn = job[v].torn
      BY <2>4, ProbeCases
    <3> QED BY <1>2, <3>1
  <2>5. CASE Store(v)
    BY <2>1, <2>5 DEF Store
  <2> QED BY <2>1, <2>2, <2>3, <2>4, <2>5, OthersKeep DEF Updater
<1> QED BY <1>2, <1>3, <1>4

\* A search that gives up although its packet is in the ring is a torn one.
LEMMA NextMiss == StatsInv /\ [Next]_vars => MissOnlyIfTorn'
<1> SUFFICES ASSUME StatsInv, [Next]_vars PROVE MissOnlyIfTorn'
  OBVIOUS
<1>0. /\ TypeOK /\ Indices /\ Active /\ Searching /\ Unmoved /\ MissOnlyIfTorn /\ job \in JobType
  BY DEF StatsInv, TypeOK, JobType
<1>1. dropped \in Nat /\ dropped' \in Nat /\ dropped <= dropped'
  BY Growing
<1>2. ASSUME missed' = missed PROVE MissOnlyIfTorn'
  BY <1>0, <1>1, <1>2 DEF MissOnlyIfTorn
<1>3. ASSUME NEW u \in Updaters, Probe(u)
      PROVE  MissOnlyIfTorn'
  <2> SUFFICES ASSUME missed' # missed PROVE MissOnlyIfTorn'
    BY <1>2
  <2>1. /\ upc[u] = "probe" /\ missed' = missed \cup {<<u, job[u].torn>>}
        /\ job[u].present /\ InRing(job[u].pkt)
        /\ job[u].i >= RingCount(job[u].head, job[u].tail, Size)
    BY <1>3, ProbeCases
  <2>2. /\ job[u].pkt \in Int /\ job[u].i \in 0 .. Size - 1 /\ job[u].torn \in BOOLEAN
        /\ RingCount(job[u].head, job[u].tail, Size) \in 0 .. Size - 1 /\ Size \in Nat
    <3>1. /\ job[u].pkt \in 0 .. MaxPackets /\ job[u].tail \in Slots /\ job[u].head \in Slots
          /\ job[u].i \in 0 .. Size - 1 /\ job[u].torn \in BOOLEAN
      BY <1>0, JobTypes
    <3>2. RingCount(job[u].head, job[u].tail, Size) \in 0 .. Size - 1 /\ Size \in Nat
      BY <3>1, SizeFact, RingCountValue
    <3> QED BY <3>1, <3>2
  <2>3. dropped < job[u].pkt
    BY <1>0, <2>1, <2>2, InRingFact
  <2>4. job[u].i .. RingCount(job[u].head, job[u].tail, Size) - 1 = {}
    BY <2>1, <2>2
  <2>5. job[u].torn
    BY <1>0, <2>1, <2>3, <2>4 DEF Searching
  <2>6. dropped > 0
    BY <1>0, <1>1, <2>5 DEF Unmoved
  <2>7. <<u, job[u].torn>>[2]
    BY <2>5
  <2>8. \A m \in missed : m[2]
    BY <1>0 DEF MissOnlyIfTorn
  <2>9. \A m \in missed' : m \in missed \/ m = <<u, job[u].torn>>
    BY <2>1
  <2>10. ASSUME NEW m \in missed' PROVE m[2]
    <3>1. CASE m \in missed
      BY <2>8, <3>1, Zenon
    <3>2. CASE m = <<u, job[u].torn>>
      BY <2>7, <3>2, ZenonT(30)
    <3> QED BY <2>9, <3>1, <3>2, Zenon
  <2> QED BY <1>1, <2>6, <2>10 DEF MissOnlyIfTorn
<1>4. ASSUME NEW u \in Updaters, Updater(u), ~Probe(u)
      PROVE  missed' = missed
  BY <1>4 DEF Updater, LoadTail, LoadHead, Store
<1> QED BY <1>2, <1>3, <1>4, OthersKeep

-----------------------------------------------------------------------------
\* StatsInv is an inductive invariant of the specification.
THEOREM StatsInvariant == Spec => []StatsInv
<1>1. StatsInv /\ [Next]_vars => StatsInv'
  BY NextTypeOK, NextIndices, NextPlaces, NextWritten, NextFilled, NextActive, NextMatched,
     NextSearching, NextUnmoved, NextMiss DEF StatsInv
<1> QED BY InitStatsInv, <1>1, PTL DEF Spec

\* The ring holds the most recent packets without gap, each with the recorder's
\* own timestamp, whatever the updaters do beside it (RecorderInv).
THEOREM RecorderRight == Spec => []RecorderInv
<1>1. StatsInv => RecorderInv
  <2> SUFFICES ASSUME StatsInv PROVE RecorderInv
    OBVIOUS
  <2>1. TypeOK /\ Indices /\ Active
    BY DEF StatsInv
  <2>2. /\ Count \in 0 .. Size - 1 /\ Size \in Nat /\ total \in Nat /\ dropped \in Nat
        /\ Count + dropped = total /\ Count = RingCount(head, tail, Size)
        /\ head \in Slots /\ tail \in Slots /\ dropped \in Int /\ Congruent(dropped, tail)
    BY <2>1, CountFact, SizeFact, StatsAssumption DEF TypeOK, Indices, Count
  <2>3. Len(Window) = Count
    <3>1. Window = [k \in 1 .. Count |-> [s \in Slots |-> buf[s].pkt][(tail + k - 1) % Size]]
      BY <2>2 DEF Window, RingContents
    <3> QED BY <2>2, <3>1
  <2>4. \A k \in 1 .. Count : /\ (tail + k - 1) % Size \in Slots
                              /\ buf[(tail + k - 1) % Size].pkt = dropped + k
    BY <2>1, <2>2, SlotFacts DEF Active
  <2>5. \A k \in 1 .. Count : Window[k] = dropped + k
    <3>1. \A k \in 1 .. Count : Window[k] = [s \in Slots |-> buf[s].pkt][(tail + k - 1) % Size]
      BY <2>2 DEF Window, RingContents
    <3> QED BY <2>4, <3>1
  <2>6. WindowIsMostRecent
    <3>1. \A k \in 1 .. Count : total - Count + k = dropped + k
      BY <2>2
    <3>2. /\ \A k \in 1 .. Len(Window) : Window[k] = total - Len(Window) + k
          /\ Len(Window) + dropped = total
      BY <2>2, <2>3, <2>5, <3>1
    <3>3. dropped > 0 => Len(Window) >= (IF rpc \in {"copy", "publish"} THEN Size - 2 ELSE Size - 1)
      BY <2>1, <2>3 DEF Indices, Filling
    <3> QED BY <3>2, <3>3 DEF WindowIsMostRecent
  <2>7. OwnStampAlwaysSet
    <3> SUFFICES ASSUME NEW k \in 1 .. Count
                 PROVE  LET e == buf[(tail + k - 1) % Size] IN
                        e.ts[Own] = e.pkt \/ (rpc = "own" /\ e.pkt = total /\ e.ts[Own] = 0)
      BY DEF OwnStampAlwaysSet
    <3>1. k = Count => dropped + k = total
      BY <2>2
    <3> QED BY <2>1, <3>1 DEF Active
  <2> QED BY <2>1, <2>6, <2>7 DEF RecorderInv
<1> QED BY StatsInvariant, <1>1, PTL

\* A timestamp in an entry is excused by the sequence number of the entry's packet,
\* or of one whole laps before it: an equal number and a lap between match and
\* store are the only ways to misplace one (MisplacedOnlyByLapOrNumber).
THEOREM MisplacedByLapOrNumber == Spec => []MisplacedOnlyByLapOrNumber
<1>1. StatsInv => MisplacedOnlyByLapOrNumber
  <2> SUFFICES ASSUME StatsInv, NEW k \in 1 .. Count, NEW u \in Kinds,
                      buf[(tail + k - 1) % Size].ts[u] # 0
               PROVE  LET e == buf[(tail + k - 1) % Size] IN
                      \E p \in Packets : /\ seqNum[p] = seqNum[e.ts[u]]
                                         /\ p <= e.pkt /\ (e.pkt - p) % Size = 0
    BY DEF MisplacedOnlyByLapOrNumber
  <2> DEFINE s == (tail + k - 1) % Size
             t == buf[s].ts[u]
             q == buf[s].pkt
  <2>1. s \in Slots
    BY SlotFacts DEF StatsInv, TypeOK, Indices, Count
  <2> HIDE DEF s
  <2>2. q \in Nat
    BY <2>1, EntryTypes, StatsAssumption DEF StatsInv, TypeOK, BufType
  <2>3. t # 0
    BY DEF s
  <2>4. Excused(seqNum, t, s, q) /\ (q # 0 => Congruent(q, s + 1))
    BY <2>1, <2>3 DEF StatsInv, Places
  <2> HIDE DEF t, q
  <2>5. PICK p \in Packets : seqNum[p] = seqNum[t] /\ p <= q /\ Congruent(p, s + 1)
    BY <2>4 DEF Excused
  <2>6. q # 0 /\ s + 1 \in Int /\ p \in Int
    BY <2>1, <2>2, <2>5, SizeFact DEF Packets
  <2>7. (q - p) % Size = 0
    BY <2>2, <2>4, <2>5, <2>6, CongruentDiff
  <2> QED BY <2>5, <2>7 DEF s, t, q
<1> QED BY StatsInvariant, <1>1, PTL

\* A search misses an active entry only when tail moved between its two index
\* loads, which takes a full ring (MissOnlyIfTorn).
THEOREM MissesAreTorn == Spec => []MissOnlyIfTorn
<1>1. StatsInv => MissOnlyIfTorn
  BY DEF StatsInv
<1> QED BY StatsInvariant, <1>1, PTL

-----------------------------------------------------------------------------
(* Sorting the values *)

\* A sequence of bounded numbers that is not empty has a largest one.
LEMMA LargestAt ==
  ASSUME NEW n \in Nat \ {0}, NEW s \in [1 .. n -> 1 .. Limit]
  PROVE  \E m \in 1 .. n : \A k \in 1 .. n : s[k] <= s[m]
<1> DEFINE T == {Limit - s[k] : k \in 1 .. n}
<1>0. Limit \in Nat
  BY AnalysisAssumption
<1>1. T \subseteq Nat /\ Limit - s[1] \in T
  BY <1>0
<1>2. PICK x \in T : \A y \in T : x <= y
  BY <1>1, LeastOf
<1>3. PICK m \in 1 .. n : x = Limit - s[m]
  BY <1>2
<1>4. ASSUME NEW k \in 1 .. n PROVE s[k] <= s[m]
  <2>1. x <= Limit - s[k]
    BY <1>2
  <2> QED BY <1>0, <1>3, <2>1
<1> QED BY <1>4

\* Sets of positions are finite.
LEMMA PositionsFinite ==
  ASSUME NEW n \in Nat, NEW S \in SUBSET (1 .. n)
  PROVE  IsFiniteSet(S) /\ Cardinality(S) \in Nat /\ Cardinality(S) <= n
<1>1. IsFiniteSet(1 .. n) /\ Cardinality(1 .. n) = n
  BY FS_Interval
<1> QED BY <1>1, FS_Subset, FS_CardinalityType

\* A value occurs if it is somewhere.
LEMMA OccursSomewhere ==
  ASSUME NEW s, Len(s) \in Nat, NEW v
  PROVE  /\ Occurrences(s, v) \in Nat
         /\ Occurrences(s, v) > 0 <=> \E i \in 1 .. Len(s) : s[i] = v
<1> DEFINE A == {i \in 1 .. Len(s) : s[i] = v}
<1>1. IsFiniteSet(A) /\ Cardinality(A) \in Nat
  BY PositionsFinite
<1>2. Cardinality(A) = 0 <=> A = {}
  BY <1>1, FS_EmptySet
<1>3. A = {} <=> ~\E i \in 1 .. Len(s) : s[i] = v
  OBVIOUS
<1>4. Occurrences(s, v) = Cardinality(A)
  BY DEF Occurrences
<1> HIDE DEF A
<1> QED BY <1>1, <1>2, <1>3, <1>4

\* A value that is appended occurs once more.
LEMMA OccursAppended ==
  ASSUME NEW S, NEW s \in Seq(S), NEW x \in S, NEW v
  PROVE  Occurrences(Append(s, x), v) = Occurrences(s, v) + (IF x = v THEN 1 ELSE 0)
<1> DEFINE n == Len(s)
           t == Append(s, x)
           A == {i \in 1 .. n : s[i] = v}
           B == {i \in 1 .. Len(t) : t[i] = v}
<1>0. n \in Nat /\ Len(t) = n + 1 /\ t[n + 1] = x /\ \A i \in 1 .. n : t[i] = s[i]
  BY AppendProperties, LenProperties
<1>1. IsFiniteSet(A) /\ Cardinality(A) \in Nat /\ n + 1 \notin A
  BY <1>0, PositionsFinite
<1>2. B = IF x = v THEN A \cup {n + 1} ELSE A
  <2> HIDE DEF t, n
  <2>1. \A i \in 1 .. n + 1 : i \in 1 .. n \/ i = n + 1
    BY <1>0
  <2>2. 1 .. n \subseteq 1 .. n + 1 /\ n + 1 \in 1 .. n + 1
    BY <1>0
  <2>3. \A i : i \in B <=> (i \in 1 .. n + 1 /\ t[i] = v)
    BY <1>0
  <2>4. \A i : i \in A <=> (i \in 1 .. n /\ s[i] = v)
    OBVIOUS
  <2> HIDE DEF A, B
  <2> QED BY <1>0, <2>1, <2>2, <2>3, <2>4
<1>3. Occurrences(t, v) = Cardinality(B) /\ Occurrences(s, v) = Cardinality(A)
  BY DEF Occurrences
<1> HIDE DEF A, B, t
<1>4. Cardinality(A \cup {n + 1}) = Cardinality(A) + 1
  BY <1>1, FS_AddElement
<1>5. Occurrences(t, v) = Occurrences(s, v) + (IF x = v THEN 1 ELSE 0)
  BY <1>1, <1>2, <1>3, <1>4
<1> QED BY <1>5 DEF t

\* Exchanging two values changes no number of occurrences.
LEMMA OccursExchanged ==
  ASSUME NEW n \in Nat, NEW m \in 1 .. n, NEW s, NEW t, NEW v, Len(s) = n, Len(t) = n,
         t[m] = s[n], t[n] = s[m], \A i \in 1 .. n : i # m /\ i # n => t[i] = s[i]
  PROVE  Occurrences(t, v) = Occurrences(s, v)
<1> DEFINE A == {i \in 1 .. n : s[i] = v}
           B == {i \in 1 .. n : t[i] = v}
<1>0. Occurrences(t, v) = Cardinality(B) /\ Occurrences(s, v) = Cardinality(A)
  BY DEF Occurrences
<1>a. \A i : (i \in A <=> i \in 1 .. n /\ s[i] = v) /\ (i \in B <=> i \in 1 .. n /\ t[i] = v)
  OBVIOUS
<1>1. IsFiniteSet(A) /\ Cardinality(A) \in Nat /\ n \in 1 .. n
  BY PositionsFinite
<1> HIDE DEF A, B
<1>2. CASE s[m] = v /\ s[n] # v
  <2>1. B = (A \ {m}) \cup {n} /\ m \in A /\ n \notin A
    BY <1>a, <1>1, <1>2
  <2>2. IsFiniteSet(A \ {m}) /\ Cardinality(A \ {m}) = Cardinality(A) - 1
    BY <1>1, <2>1, FS_RemoveElement
  <2>3. Cardinality((A \ {m}) \cup {n}) = Cardinality(A \ {m}) + 1
    BY <2>1, <2>2, FS_AddElement
  <2> QED BY <1>0, <1>1, <2>1, <2>2, <2>3
<1>3. CASE s[m] # v /\ s[n] = v
  <2>1. B = (A \ {n}) \cup {m} /\ n \in A /\ m \notin A
    BY <1>a, <1>1, <1>3
  <2>2. IsFiniteSet(A \ {n}) /\ Cardinality(A \ {n}) = Cardinality(A) - 1
    BY <1>1, <2>1, FS_RemoveElement
  <2>3. Cardinality((A \ {n}) \cup {m}) = Cardinality(A \ {n}) + 1
    BY <2>1, <2>2, FS_AddElement
  <2> QED BY <1>0, <1>1, <2>1, <2>2, <2>3
<1>4. CASE s[m] = v <=> s[n] = v
  <2>1. B = A
    BY <1>a, <1>1, <1>4
  <2> QED BY <1>0, <2>1
<1> QED BY <1>2, <1>3, <1>4

\* What a sort may return.
Sorts(t, s) ==
  /\ t \in Seq(1 .. Limit) /\ Len(t) = Len(s) /\ Ascending(t)
  /\ \A v \in 1 .. Limit : Occurrences(t, v) = Occurrences(s, v)

\* Values can be sorted when those without one of the largest can.
LEMMA SortLonger ==
  ASSUME NEW n \in Nat \ {0}, NEW s \in Seq(1 .. Limit), Len(s) = n,
         \A r \in Seq(1 .. Limit) : Len(r) = n - 1 => \E t : Sorts(t, r)
  PROVE  \E t : Sorts(t, s)
<1> DEFINE S == 1 .. Limit
<1>0. s \in [1 .. n -> S] /\ n \in 1 .. n /\ Limit \in Nat
  BY LenProperties, AnalysisAssumption
<1>1. PICK m \in 1 .. n : \A k \in 1 .. n : s[k] <= s[m]
  BY <1>0, LargestAt
<1> DEFINE r == [i \in 1 .. n - 1 |-> IF i = m THEN s[n] ELSE s[i]]
           x == s[m]
<1>2. r \in Seq(S) /\ Len(r) = n - 1 /\ x \in S
  BY <1>0
<1>r. \A i \in 1 .. n - 1 : r[i] = IF i = m THEN s[n] ELSE s[i]
  OBVIOUS
<1>x. \A k \in 1 .. n : s[k] <= x
  BY <1>1
<1> HIDE DEF r, S
<1>3. PICK t : Sorts(t, r)
  BY <1>2 DEF S
<1>4. t \in Seq(S) /\ Len(t) = n - 1 /\ Ascending(t) /\ \A v \in S : Occurrences(t, v) = Occurrences(r, v)
  BY <1>2, <1>3 DEF Sorts, S
<1>5. /\ Append(t, x) \in Seq(S) /\ Len(Append(t, x)) = n /\ Append(t, x)[n] = x
      /\ \A i \in 1 .. n - 1 : Append(t, x)[i] = t[i]
  BY <1>2, <1>4, AppendProperties
<1>6. \A i \in 1 .. n - 1 : t[i] \in S /\ t[i] <= x
  <2> SUFFICES ASSUME NEW i \in 1 .. n - 1 PROVE t[i] \in S /\ t[i] <= x
    OBVIOUS
  <2>1. t[i] \in S
    BY <1>4, ElementOfSeq
  <2>2. Occurrences(t, t[i]) > 0
    BY <1>4, OccursSomewhere
  <2>3. Occurrences(r, t[i]) > 0
    BY <1>4, <2>1, <2>2
  <2>4. PICK j \in 1 .. n - 1 : r[j] = t[i]
    BY <1>2, <2>3, OccursSomewhere
  <2>5. \E k \in 1 .. n : r[j] = s[k]
    BY <1>0, <1>r
  <2> QED BY <1>x, <2>1, <2>4, <2>5
<1>7. Ascending(Append(t, x))
  <2> SUFFICES ASSUME NEW i \in 1 .. n, NEW j \in 1 .. n, i < j
               PROVE  Append(t, x)[i] <= Append(t, x)[j]
    BY <1>5 DEF Ascending
  <2>1. i \in 1 .. n - 1
    OBVIOUS
  <2>2. CASE j = n
    BY <1>5, <1>6, <2>1, <2>2
  <2>3. CASE j # n
    BY <1>4, <1>5, <2>1, <2>3 DEF Ascending
  <2> QED BY <2>2, <2>3
<1>8. ASSUME NEW v \in S PROVE Occurrences(Append(t, x), v) = Occurrences(s, v)
  <2> DEFINE q == Append(r, x)
  <2>1. /\ q \in Seq(S) /\ Len(q) = n /\ q[n] = x /\ \A i \in 1 .. n - 1 : q[i] = r[i]
    BY <1>2, AppendProperties
  <2>2. Occurrences(q, v) = Occurrences(r, v) + (IF x = v THEN 1 ELSE 0)
    BY <1>2, OccursAppended
  <2> HIDE DEF q
  <2>3. Occurrences(Append(t, x), v) = Occurrences(t, v) + (IF x = v THEN 1 ELSE 0)
    BY <1>2, <1>4, OccursAppended
  <2>4. /\ q[m] = s[n] /\ q[n] = s[m] /\ \A i \in 1 .. n : i # m /\ i # n => q[i] = s[i]
    BY <1>0, <1>r, <2>1
  <2>5. Occurrences(q, v) = Occurrences(s, v)
    <3>1. n \in Nat /\ Len(s) = n /\ Len(q) = n
      BY <2>1
    <3>2. \A a, b : (/\ Len(a) = n /\ Len(b) = n /\ b[m] = a[n] /\ b[n] = a[m]
                     /\ \A i \in 1 .. n : i # m /\ i # n => b[i] = a[i])
                    => Occurrences(b, v) = Occurrences(a, v)
      BY <3>1, OccursExchanged
    <3> QED BY <2>4, <3>1, <3>2
  <2> QED BY <1>4, <2>2, <2>3, <2>5
<1>9. Sorts(Append(t, x), s)
  BY <1>5, <1>7, <1>8 DEF Sorts, S
<1> QED BY <1>9

\* All values can be sorted: there is no shortest sequence that cannot.
LEMMA SortExists ==
  ASSUME NEW s \in Seq(1 .. Limit)
  PROVE  \E t : Sorts(t, s)
<1> DEFINE Fails(n) == \E r \in Seq(1 .. Limit) : Len(r) = n /\ ~\E t : Sorts(t, r)
           T == {n \in Nat : Fails(n)}
<1>1. T = {}
  <2> SUFFICES ASSUME T # {} PROVE FALSE
    OBVIOUS
  <2>1. PICK n \in T : \A k \in T : n <= k
    BY LeastOf
  <2>2. PICK r \in Seq(1 .. Limit) : Len(r) = n /\ ~\E t : Sorts(t, r)
    BY <2>1
  <2>3. CASE n = 0
    <3>1. r = <<>>
      BY <2>2, <2>3, EmptySeq
    <3>2. Sorts(r, r)
      BY <2>2, <2>3 DEF Sorts, Ascending
    <3> QED BY <2>2, <3>2
  <2>4. CASE n # 0
    <3>1. n - 1 \in Nat /\ n \in Nat \ {0} /\ ~(n <= n - 1)
      BY <2>1, <2>4
    <3>2. ~Fails(n - 1)
      BY <2>1, <3>1
    <3>3. \A q \in Seq(1 .. Limit) : Len(q) = n - 1 => \E t : Sorts(t, q)
      BY <3>2
    <3> QED BY <2>2, <3>1, <3>3, SortLonger
  <2> QED BY <2>3, <2>4
<1>2. Len(s) \in Nat
  BY LenProperties
<1>3. ~Fails(Len(s))
  BY <1>1, <1>2
<1> QED BY <1>3

\* qsort returns as many values, of the same range, in ascending order.
LEMMA QsortSorts ==
  ASSUME NEW s \in Seq(1 .. Limit)
  PROVE  qsort(s) \in Seq(1 .. Limit) /\ Len(qsort(s)) = Len(s) /\ Ascending(qsort(s))
<1> DEFINE R == {s[i] : i \in 1 .. Len(s)}
           OK(t) == /\ Ascending(t)
                    /\ \A i \in 1 .. Len(s) : Occurrences(t, s[i]) = Occurrences(s, s[i])
<1>0. Len(s) \in Nat /\ \A i \in 1 .. Len(s) : s[i] \in 1 .. Limit
  BY LenProperties, ElementOfSeq
<1>1. PICK t : Sorts(t, s)
  BY SortExists
<1>2. t \in [1 .. Len(s) -> R]
  <2>1. t \in Seq(1 .. Limit) /\ Len(t) = Len(s)
    BY <1>1 DEF Sorts
  <2>2. t = [i \in 1 .. Len(s) |-> t[i]]
    BY <2>1, LenProperties
  <2>3. ASSUME NEW i \in 1 .. Len(s) PROVE t[i] \in R
    <3>1. t[i] \in 1 .. Limit
      BY <2>1, ElementOfSeq
    <3>2. Occurrences(s, t[i]) > 0
      BY <1>0, <1>1, <2>1, <3>1, OccursSomewhere DEF Sorts
    <3> QED BY <1>0, <3>2, OccursSomewhere
  <2> HIDE DEF R
  <2> QED BY <2>2, <2>3
<1>3. OK(t)
  BY <1>0, <1>1 DEF Sorts
<1>4. qsort(s) = CHOOSE q \in [1 .. Len(s) -> R] : OK(q)
  BY DEF qsort
<1>5. R \subseteq 1 .. Limit
  BY <1>0
<1> HIDE DEF R, OK
<1>6. qsort(s) \in [1 .. Len(s) -> R] /\ OK(qsort(s))
  BY <1>2, <1>3, <1>4
<1>7. qsort(s) \in [1 .. Len(s) -> 1 .. Limit]
  BY <1>5, <1>6
<1>8. qsort(s) \in Seq(1 .. Limit) /\ Len(qsort(s)) = Len(s)
  BY <1>0, <1>7, FunctionIsSeq
<1> QED BY <1>6, <1>8 DEF OK

-----------------------------------------------------------------------------
(* The percentiles *)

\* PercentileOf at a position that is given in hundredths.
AtPosition(s, q) ==
  LET lower == q \div 100
      upper == (q + 99) \div 100
  IN  IF lower = upper \/ upper >= Len(s) THEN 100 * s[lower + 1]
      ELSE 100 * s[lower + 1] + (q - 100 * lower) * (s[upper + 1] - s[lower + 1])

\* A larger part of a difference is larger.
LEMMA PartOf ==
  ASSUME NEW f \in Nat, NEW g \in Nat, NEW d \in Nat, f <= g
  PROVE  f * d \in Nat /\ f * d <= g * d
<1>1. (g - f) * d \in Nat
  OBVIOUS
<1>2. (g - f) * d = g * d - f * d
  OBVIOUS
<1> QED BY <1>1, <1>2

\* The neighbours of a position, and what lies between their values.
LEMMA Neighbours ==
  ASSUME NEW s \in Seq(1 .. Limit), s # <<>>, Ascending(s),
         NEW q \in 0 .. 100 * (Len(s) - 1)
  PROVE  LET lo == q \div 100
             up == (q + 99) \div 100
         IN  /\ lo \in 0 .. Len(s) - 1 /\ up \in 0 .. Len(s) - 1
             /\ 100 * lo <= q /\ q < 100 * lo + 100 /\ 100 * up <= q + 99
             /\ (q = 100 * lo /\ up = lo) \/ (q > 100 * lo /\ up = lo + 1)
             /\ s[lo + 1] \in Nat /\ s[up + 1] \in Nat /\ s[lo + 1] <= s[up + 1]
             /\ AtPosition(s, q) \in Nat
             /\ AtPosition(s, q) = 100 * s[lo + 1] + (q - 100 * lo) * (s[up + 1] - s[lo + 1])
             /\ 100 * s[lo + 1] <= AtPosition(s, q) /\ AtPosition(s, q) <= 100 * s[up + 1]
<1> DEFINE n  == Len(s)
           lo == q \div 100
           up == (q + 99) \div 100
           d  == s[up + 1] - s[lo + 1]
           f  == q - 100 * lo
<1>0. n \in Nat \ {0} /\ \A i \in 1 .. n : s[i] \in 1 .. Limit
  BY EmptySeq, LenProperties, ElementOfSeq
<1>1. /\ lo \in 0 .. n - 1 /\ up \in 0 .. n - 1
      /\ 100 * lo <= q /\ q < 100 * lo + 100 /\ 100 * up <= q + 99
      /\ (q = 100 * lo /\ up = lo) \/ (q > 100 * lo /\ up = lo + 1)
  <2>1. q \in Nat /\ q <= 100 * (n - 1)
    BY <1>0
  <2> HIDE DEF n
  <2> QED BY <1>0, <2>1
<1>2. /\ s[lo + 1] \in Nat /\ s[up + 1] \in Nat /\ s[lo + 1] <= s[up + 1] /\ f \in 0 .. 99
  <2>1. lo + 1 \in 1 .. n /\ up + 1 \in 1 .. n /\ (lo = up \/ lo + 1 < up + 1) /\ f \in 0 .. 99
    <3> HIDE DEF n, lo, up
    <3> QED BY <1>0, <1>1
  <2>2. s[lo + 1] \in 1 .. Limit /\ s[up + 1] \in 1 .. Limit
    BY <1>0, <2>1
  <2>3. lo = up \/ s[lo + 1] <= s[up + 1]
    BY <2>1 DEF Ascending
  <2> HIDE DEF lo, up
  <2> QED BY <2>1, <2>2, <2>3
<1>3. AtPosition(s, q) = IF lo = up \/ up >= n THEN 100 * s[lo + 1]
                         ELSE 100 * s[lo + 1] + f * d
  BY DEF AtPosition
<1>4. d \in Nat /\ f \in Nat /\ f <= 100
  <2> DEFINE x == s[lo + 1]
             y == s[up + 1]
  <2>1. x \in Nat /\ y \in Nat /\ x <= y /\ f \in 0 .. 99 /\ d = y - x
    BY <1>2
  <2> HIDE DEF x, y, f, d
  <2> QED BY <2>1
<1> HIDE DEF f
<1>5. f * d \in Nat /\ f * d <= 100 * d
  <2> HIDE DEF d
  <2> QED BY <1>4, PartOf
<1>6. lo = up => f * d = 0
  <2>1. lo = up => d = 0
    <3> HIDE DEF lo, up
    <3> QED BY <1>2
  <2> HIDE DEF d
  <2> QED BY <1>4, <2>1
<1>7. up < n
  <2> HIDE DEF up, n
  <2> QED BY <1>0, <1>1
<1>8. AtPosition(s, q) = 100 * s[lo + 1] + f * d
  <2> DEFINE y == f * d
             x == 100 * s[lo + 1]
  <2>1. x \in Nat /\ (lo = up => y = 0) /\ ~(up >= n) /\ y \in Nat
    <3>1. x \in Nat
      <4> HIDE DEF lo
      <4> QED BY <1>2
    <3>2. ~(up >= n)
      <4> HIDE DEF up, n
      <4> QED BY <1>0, <1>1, <1>7
    <3> QED BY <1>5, <1>6, <3>1, <3>2
  <2>2. AtPosition(s, q) = IF lo = up \/ up >= n THEN x ELSE x + y
    BY <1>3
  <2> HIDE DEF lo, up, n, x, y
  <2>3. AtPosition(s, q) = x + y
    BY <2>1, <2>2
  <2> QED BY <2>3 DEF x, y
<1>9. /\ AtPosition(s, q) \in Nat
      /\ 100 * s[lo + 1] <= AtPosition(s, q) /\ AtPosition(s, q) <= 100 * s[up + 1]
  <2>1. 100 * d = 100 * s[up + 1] - 100 * s[lo + 1]
    <3> HIDE DEF lo, up
    <3> QED BY <1>2
  <2> DEFINE y == f * d
  <2>2. y \in Nat /\ y <= 100 * d /\ AtPosition(s, q) = 100 * s[lo + 1] + y
    BY <1>5, <1>8
  <2> DEFINE a == s[lo + 1]
             b == s[up + 1]
             v == AtPosition(s, q)
  <2>3. /\ a \in Nat /\ b \in Nat /\ y \in Nat /\ y <= 100 * d /\ v = 100 * a + y
        /\ 100 * d = 100 * b - 100 * a /\ d \in Nat
    BY <1>2, <1>4, <2>1, <2>2
  <2> HIDE DEF y, d, a, b, v
  <2>4. v \in Nat /\ 100 * a <= v /\ v <= 100 * b
    BY <2>3
  <2> QED BY <2>4 DEF a, b, v
<1> QED BY <1>1, <1>2, <1>8, <1>9 DEF f

\* A later position has no smaller value.
LEMMA PositionsAscend ==
  ASSUME NEW s \in Seq(1 .. Limit), s # <<>>, Ascending(s),
         NEW q \in 0 .. 100 * (Len(s) - 1), NEW r \in 0 .. 100 * (Len(s) - 1), q <= r
  PROVE  AtPosition(s, q) <= AtPosition(s, r)
<1> DEFINE n  == Len(s)
           lq == q \div 100
           uq == (q + 99) \div 100
           lr == r \div 100
           ur == (r + 99) \div 100
           V  == AtPosition(s, q)
           W  == AtPosition(s, r)
<1>0. n \in Nat
  BY LenProperties
<1>1. /\ lq \in 0 .. n - 1 /\ uq \in 0 .. n - 1 /\ 100 * lq <= q /\ q < 100 * lq + 100
      /\ (q = 100 * lq /\ uq = lq) \/ (q > 100 * lq /\ uq = lq + 1)
      /\ s[lq + 1] \in Nat /\ s[uq + 1] \in Nat /\ s[lq + 1] <= s[uq + 1] /\ V \in Nat
      /\ V = 100 * s[lq + 1] + (q - 100 * lq) * (s[uq + 1] - s[lq + 1])
      /\ V <= 100 * s[uq + 1] /\ 100 * s[lq + 1] <= V
  BY Neighbours
<1>2. /\ lr \in 0 .. n - 1 /\ ur \in 0 .. n - 1 /\ 100 * lr <= r /\ r < 100 * lr + 100
      /\ (r = 100 * lr /\ ur = lr) \/ (r > 100 * lr /\ ur = lr + 1)
      /\ s[lr + 1] \in Nat /\ s[ur + 1] \in Nat /\ s[lr + 1] <= s[ur + 1] /\ W \in Nat
      /\ W = 100 * s[lr + 1] + (r - 100 * lr) * (s[ur + 1] - s[lr + 1])
      /\ W <= 100 * s[ur + 1] /\ 100 * s[lr + 1] <= W
  BY Neighbours
<1>3. q \in Nat /\ r \in Nat /\ q <= r
  BY <1>0
<1>4. lq <= lr
  <2> HIDE DEF lq, lr, uq, ur, V, W
  <2> QED BY <1>0, <1>1, <1>2, <1>3
<1> HIDE DEF lq, lr, uq, ur, V, W
<1>5. CASE lq < lr
  <2>1. uq + 1 \in 1 .. n /\ lr + 1 \in 1 .. n /\ (uq = lr \/ uq + 1 < lr + 1)
    BY <1>0, <1>1, <1>2, <1>5
  <2>2. s[uq + 1] <= s[lr + 1]
    BY <1>1, <1>2, <2>1 DEF Ascending
  <2> DEFINE x == s[uq + 1]
             y == s[lr + 1]
  <2>3. x \in Nat /\ y \in Nat /\ x <= y /\ V <= 100 * x /\ 100 * y <= W
    BY <1>1, <1>2, <2>2
  <2> HIDE DEF x, y
  <2>4. V <= W
    BY <1>1, <1>2, <2>3
  <2> QED BY <2>4 DEF V, W
<1>6. CASE lq = lr
  <2>1. CASE uq = lq
    <3>1. V <= W
      <4>1. V <= 100 * s[lr + 1]
        BY <1>1, <1>6, <2>1
      <4> QED BY <1>1, <1>2, <4>1
    <3> QED BY <3>1 DEF V, W
  <2>2. CASE uq # lq
    <3>1. ur = uq /\ r > 100 * lr
      BY <1>0, <1>1, <1>2, <1>3, <1>6, <2>2
    <3> DEFINE f == q - 100 * lq
               g == r - 100 * lr
               d == s[uq + 1] - s[lq + 1]
    <3>2. f \in Nat /\ g \in Nat /\ d \in Nat /\ f <= g
      <4>1. f \in Nat /\ g \in Nat /\ f <= g
        BY <1>0, <1>1, <1>2, <1>3, <1>6
      <4> DEFINE x == s[lq + 1]
                 y == s[uq + 1]
      <4>2. x \in Nat /\ y \in Nat /\ x <= y /\ d = y - x
        BY <1>1
      <4> HIDE DEF x, y, d
      <4>3. d \in Nat
        BY <4>2
      <4> QED BY <4>1, <4>3
    <3>3. V = 100 * s[lq + 1] + f * d /\ W = 100 * s[lq + 1] + g * d
      BY <1>1, <1>2, <1>6, <3>1
    <3> HIDE DEF f, g, d
    <3>4. f * d \in Nat /\ f * d <= g * d /\ g * d \in Nat
      BY <3>2, PartOf
    <3>5. V <= W
      BY <1>1, <3>3, <3>4
    <3> QED BY <3>5 DEF V, W
  <2> QED BY <2>1, <2>2
<1> QED BY <1>0, <1>1, <1>2, <1>4, <1>5, <1>6

\* A value at a position is between the two order statistics around it.
LEMMA RankOf ==
  ASSUME NEW s \in Seq(1 .. Limit), s # <<>>, Ascending(s),
         NEW q \in 0 .. 100 * (Len(s) - 1)
  PROVE  LET v == AtPosition(s, q) IN
         /\ 100 * Cardinality({k \in 1 .. Len(s) : 100 * s[k] < v}) <= q + 99
         /\ 100 * Cardinality({k \in 1 .. Len(s) : 100 * s[k] <= v}) > q - (q % 100)
<1> DEFINE n  == Len(s)
           v  == AtPosition(s, q)
           lo == q \div 100
           up == (q + 99) \div 100
           B  == {k \in 1 .. n : 100 * s[k] < v}
           U  == {k \in 1 .. n : 100 * s[k] <= v}
<1>0. n \in Nat /\ \A i \in 1 .. n : s[i] \in Nat
  <2>1. n \in Nat /\ \A i \in 1 .. n : s[i] \in 1 .. Limit
    BY LenProperties, ElementOfSeq
  <2>2. 1 .. Limit \subseteq Nat
    BY AnalysisAssumption
  <2> QED BY <2>1, <2>2
<1>1. /\ lo \in 0 .. n - 1 /\ up \in 0 .. n - 1 /\ 100 * up <= q + 99 /\ v \in Nat
      /\ s[lo + 1] \in Nat /\ s[up + 1] \in Nat
      /\ 100 * s[lo + 1] <= v /\ v <= 100 * s[up + 1]
  BY Neighbours
<1>2. q \in Nat /\ q - (q % 100) = 100 * lo
  BY <1>0
<1> HIDE DEF v, lo, up
<1>3. B \subseteq 1 .. up
  <2> SUFFICES ASSUME NEW k \in 1 .. n, 100 * s[k] < v PROVE k \in 1 .. up
    OBVIOUS
  <2>1. up + 1 \in 1 .. n /\ s[k] \in Nat
    BY <1>0, <1>1
  <2>2. s[k] < s[up + 1]
    BY <1>0, <1>1, <2>1
  <2>3. ~(up + 1 < k) /\ up + 1 # k
    <3>1. up + 1 < k => s[up + 1] <= s[k]
      BY <2>1 DEF Ascending
    <3>2. up + 1 = k => s[up + 1] <= s[k]
      BY <2>1
    <3> QED BY <1>1, <2>1, <2>2, <3>1, <3>2
  <2> QED BY <1>0, <1>1, <2>3
<1>4. 1 .. lo + 1 \subseteq U
  <2> SUFFICES ASSUME NEW k \in 1 .. lo + 1 PROVE k \in 1 .. n /\ 100 * s[k] <= v
    OBVIOUS
  <2>1. k \in 1 .. n /\ lo + 1 \in 1 .. n
    BY <1>0, <1>1
  <2>2. s[k] <= s[lo + 1] /\ s[k] \in Nat
    <3>1. k < lo + 1 => s[k] <= s[lo + 1]
      BY <2>1 DEF Ascending
    <3> QED BY <1>0, <1>1, <2>1, <3>1
  <2> QED BY <1>1, <2>1, <2>2
<1>5. up \in Nat /\ lo + 1 \in Nat /\ lo \in Nat
  BY <1>0, <1>1
<1>6. Cardinality(B) \in Nat /\ Cardinality(B) <= up
  BY <1>3, <1>5, PositionsFinite
<1>7. Cardinality(U) \in Nat /\ lo + 1 <= Cardinality(U)
  <2>1. IsFiniteSet(U) /\ Cardinality(U) \in Nat
    BY <1>0, PositionsFinite
  <2>2. Cardinality(1 .. lo + 1) = lo + 1
    BY <1>5, FS_Interval
  <2> HIDE DEF U
  <2> QED BY <1>4, <2>1, <2>2, FS_Subset
<1>8. 100 * Cardinality(B) <= q + 99 /\ 100 * Cardinality(U) > q - (q % 100)
  <2> HIDE DEF B, U
  <2> QED BY <1>1, <1>2, <1>5, <1>6, <1>7
<1> QED BY <1>8 DEF v

-----------------------------------------------------------------------------
(* The inductive invariant of the analysis *)

\* The pass is over as many entries as the ring holds; it starts at the first.
Pass ==
  /\ entries \in Seq(Stamps) /\ Len(entries) <= MaxEntries /\ next <= Len(entries) + 1
  /\ pc \in {"configure", "allocate", "reallocate"} => next = 1
  /\ pc = "process" => hist # NoHist

\* An entry adds at most one to a bin and two to the outliers.
AtMostPerEntry ==
  /\ outliers <= 2 * (next - 1)
  /\ hist # NoHist => \A b \in Bins : hist[b] <= next - 1

\* used_bins is just past the highest bin with data.
BinsInUse ==
  hist # NoHist => /\ \A b \in Bins : b >= usedBins => hist[b] = 0
                   /\ usedBins > 0 => hist[usedBins - 1] > 0

\* A bin counts the deltas that fall in it.
InBin(b) == {i \in Valid : Delta(entries[i]) \div BinWidth = b}
BinsExact == Processing => \A b \in Bins : hist[b] = Cardinality(InBin(b))

\* The percentiles on display are those of the sorted values.
ShownRight ==
  /\ pc \notin {"cleanup", "done"} => shown = <<>>
  /\ (pc = "cleanup" /\ shown # <<>>) =>
       /\ values # <<>> /\ Ascending(values)
       /\ shown = [i \in DOMAIN Percentiles |-> PercentileOf(values, Percentiles[i])]

FullAnalysisInv ==
  /\ AnalysisTypeOK /\ Pass /\ AtMostPerEntry /\ BinsInUse /\ BinsExact
  /\ EveryDeltaAccounted /\ ShownRight

-----------------------------------------------------------------------------
(* One entry of the ring *)

\* The number of the bin a delta falls in.
LEMMA BinNumber ==
  ASSUME NEW d \in Nat
  PROVE  d \div BinWidth \in Nat
<1>1. BinWidth \in Nat \ {0}
  BY AnalysisAssumption
<1> QED BY <1>1

\* A histogram is not the missing one: it has a first bin.
LEMMA SomeHist ==
  ASSUME NEW h, DOMAIN h = Bins
  PROVE  h # NoHist
<1>1. 0 \in Bins /\ DOMAIN <<>> = {}
  BY AnalysisAssumption DEF Bins
<1> QED BY <1>1 DEF NoHist

\* A histogram that is there counts in every bin.
LEMMA HistType ==
  ASSUME AnalysisTypeOK, hist # NoHist
  PROVE  hist \in [Bins -> 0 .. MaxEntries] /\ \A b \in Bins : hist[b] \in Nat
<1>1. hist \in [Bins -> 0 .. MaxEntries]
  BY DEF AnalysisTypeOK
<1>2. 0 .. MaxEntries \subseteq Nat
  BY AnalysisAssumption
<1> QED BY <1>1, <1>2

\* The entry being processed.
LEMMA EntryType ==
  ASSUME FullAnalysisInv, pc = "process", next <= Len(entries)
  PROVE  /\ next \in Nat \ {0} /\ next <= MaxEntries /\ entries[next] \in Nat \X Nat
         /\ Delta(entries[next]) \in Int
         /\ IsValid(entries[next]) => Delta(entries[next]) \in Nat \ {0}
<1>1. entries \in Seq(Stamps) /\ Len(entries) <= MaxEntries /\ Len(entries) \in Nat
  BY LenProperties DEF FullAnalysisInv, Pass
<1>2. next \in Nat \ {0} /\ next \in 1 .. Len(entries) /\ next <= MaxEntries
  BY <1>1, AnalysisAssumption DEF FullAnalysisInv, AnalysisTypeOK
<1>3. entries[next] \in Stamps
  BY <1>1, <1>2, ElementOfSeq
<1>4. entries[next] \in Nat \X Nat
  BY <1>3, AnalysisAssumption
<1>5. Delta(entries[next]) \in Int
  BY <1>4 DEF Delta
<1> QED BY <1>2, <1>4, <1>5 DEF IsValid

\* What the entry adds to the deltas that are accounted for.
Storable == IsValid(entries[next]) /\ Delta(entries[next]) <= Limit
Excess   == IsValid(entries[next]) /\ Delta(entries[next]) > Limit
BinOf    == Delta(entries[next]) \div BinWidth

\* The entry joins the sets it belongs to, and no others.
LEMMA DeltasGrow ==
  ASSUME FullAnalysisInv, ProcessEntry
  PROVE  /\ Valid' = (IF Storable THEN Valid \cup {next} ELSE Valid)
         /\ TooLarge' = (IF Excess THEN TooLarge \cup {next} ELSE TooLarge)
         /\ Beyond' = (IF Storable /\ BinOf >= MaxBins THEN Beyond \cup {next} ELSE Beyond)
         /\ \A b : InBin(b)' = (IF Storable /\ BinOf = b THEN InBin(b) \cup {next} ELSE InBin(b))
<1>0. /\ next \in Nat \ {0} /\ next' = next + 1 /\ entries' = entries
  BY EntryType DEF ProcessEntry
<1>1. \A i : i \in 1 .. next' - 1 <=> i \in 1 .. next - 1 \/ i = next
  BY <1>0
<1>2. ~(next \in 1 .. next - 1)
  BY <1>0
<1>3. Valid' = (IF Storable THEN Valid \cup {next} ELSE Valid)
  <2>1. \A i : i \in Valid' <=> /\ i \in 1 .. next' - 1
                                /\ IsValid(entries[i]) /\ Delta(entries[i]) <= Limit
    BY <1>0 DEF Valid, IsValid, Delta
  <2>2. \A i : i \in Valid <=> /\ i \in 1 .. next - 1
                               /\ IsValid(entries[i]) /\ Delta(entries[i]) <= Limit
    BY DEF Valid
  <2> QED BY <1>1, <2>1, <2>2 DEF Storable
<1>4. TooLarge' = (IF Excess THEN TooLarge \cup {next} ELSE TooLarge)
  <2>1. \A i : i \in TooLarge' <=> /\ i \in 1 .. next' - 1
                                   /\ IsValid(entries[i]) /\ Delta(entries[i]) > Limit
    BY <1>0 DEF TooLarge, IsValid, Delta
  <2>2. \A i : i \in TooLarge <=> /\ i \in 1 .. next - 1
                                  /\ IsValid(entries[i]) /\ Delta(entries[i]) > Limit
    BY DEF TooLarge
  <2> QED BY <1>1, <2>1, <2>2 DEF Excess
<1>5. Beyond' = (IF Storable /\ BinOf >= MaxBins THEN Beyond \cup {next} ELSE Beyond)
  <2>1. \A i : i \in Beyond' <=> i \in Valid' /\ Delta(entries[i]) \div BinWidth >= MaxBins
    BY <1>0 DEF Beyond, Delta
  <2>2. \A i : i \in Beyond <=> i \in Valid /\ Delta(entries[i]) \div BinWidth >= MaxBins
    BY DEF Beyond
  <2> QED BY <1>3, <2>1, <2>2 DEF BinOf
<1>6. ASSUME NEW b
      PROVE  InBin(b)' = (IF Storable /\ BinOf = b THEN InBin(b) \cup {next} ELSE InBin(b))
  <2>1. \A i : i \in InBin(b)' <=> i \in Valid' /\ Delta(entries[i]) \div BinWidth = b
    BY <1>0 DEF InBin, Delta
  <2>2. \A i : i \in InBin(b) <=> i \in Valid /\ Delta(entries[i]) \div BinWidth = b
    BY DEF InBin
  <2> QED BY <1>3, <2>1, <2>2 DEF BinOf
<1> QED BY <1>3, <1>4, <1>5, <1>6

\* The sets are of entries that were processed: they are finite, and the next
\* entry is new to them.
LEMMA DeltasCounted ==
  ASSUME FullAnalysisInv, NEW S, S \subseteq 1 .. next - 1
  PROVE  /\ Cardinality(S) \in Nat
         /\ Cardinality(S \cup {next}) = Cardinality(S) + 1
<1>0. next \in Nat \ {0}
  BY AnalysisAssumption DEF FullAnalysisInv, AnalysisTypeOK
<1>1. next - 1 \in Nat /\ next \notin S
  BY <1>0
<1>2. IsFiniteSet(S) /\ Cardinality(S) \in Nat
  BY <1>1, PositionsFinite
<1> QED BY <1>1, <1>2, FS_AddElement

\* Only entries already processed are counted.
LEMMA DeltasWithin ==
  /\ Valid \subseteq 1 .. next - 1 /\ TooLarge \subseteq 1 .. next - 1
  /\ Beyond \subseteq 1 .. next - 1 /\ \A b : InBin(b) \subseteq 1 .. next - 1
BY DEF Valid, TooLarge, Beyond, InBin

\* Before the first entry they are empty.
LEMMA NothingYet ==
  ASSUME next = 1
  PROVE  /\ Cardinality(Valid) = 0 /\ Cardinality(TooLarge) = 0 /\ Cardinality(Beyond) = 0
         /\ \A b : Cardinality(InBin(b)) = 0
<1>1. 1 .. next - 1 = {}
  OBVIOUS
<1>2. Valid = {} /\ TooLarge = {} /\ Beyond = {} /\ \A b : InBin(b) = {}
  BY <1>1, DeltasWithin
<1> QED BY <1>2, FS_EmptySet

\* The three things that can happen to an entry.
LEMMA EntryCases ==
  ASSUME FullAnalysisInv, ProcessEntry
  PROVE  /\ next' = next + 1 /\ UNCHANGED <<entries, pc, array, shown>>
         /\ \/ ~Storable /\ ~Excess /\ UNCHANGED <<values, outliers, hist, usedBins>>
            \/ /\ ~Storable /\ Excess /\ outliers' = outliers + 1
               /\ UNCHANGED <<values, hist, usedBins>>
            \/ Storable /\ ~Excess /\ StoreDelta(Delta(entries[next]))
<1>1. /\ pc = "process" /\ next <= Len(entries)
  BY DEF ProcessEntry
<1>2. Delta(entries[next]) \in Int /\ Limit \in Nat
  BY <1>1, EntryType, AnalysisAssumption
<1> QED BY <1>2 DEF ProcessEntry, Storable, Excess

\* What storing a delta does, with the bin test expanded.
LEMMA StoreCases ==
  ASSUME FullAnalysisInv, ProcessEntry, Storable
  PROVE  /\ Delta(entries[next]) \in 1 .. Limit /\ BinOf \in Nat
         /\ values' = (IF array /\ Len(values) < Capacity
                         THEN Append(values, Delta(entries[next])) ELSE values)
         /\ \/ /\ BinOf < MaxBins /\ BinOf \in Bins
               /\ hist' = [hist EXCEPT ![BinOf] = @ + 1]
               /\ usedBins' = (IF BinOf >= usedBins THEN BinOf + 1 ELSE usedBins)
               /\ outliers' = outliers + (IF array /\ ~(Len(values) < Capacity) THEN 1 ELSE 0)
            \/ /\ BinOf >= MaxBins /\ hist' = hist /\ usedBins' = usedBins
               /\ outliers' = outliers + (IF array /\ ~(Len(values) < Capacity) THEN 1 ELSE 0) + 1
<1> DEFINE d == Delta(entries[next])
<1>1. pc = "process" /\ next <= Len(entries) /\ Limit \in Nat /\ MaxBins \in Nat
  BY AnalysisAssumption DEF ProcessEntry
<1>2. d \in 1 .. Limit /\ d \in Nat
  BY <1>1, EntryType DEF Storable
<1>3. BinOf \in Nat /\ BinOf = d \div BinWidth
  BY <1>2, BinNumber DEF BinOf
<1>4. StoreDelta(d)
  BY EntryCases DEF StoreDelta
<1> HIDE DEF d
<1>5. /\ values' = (IF array /\ Len(values) < Capacity THEN Append(values, d) ELSE values)
      /\ outliers' = outliers + (IF array /\ ~(Len(values) < Capacity) THEN 1 ELSE 0)
                              + (IF BinOf < MaxBins THEN 0 ELSE 1)
      /\ hist' = (IF BinOf < MaxBins THEN [hist EXCEPT ![BinOf] = @ + 1] ELSE hist)
      /\ usedBins' = (IF BinOf < MaxBins /\ BinOf >= usedBins THEN BinOf + 1 ELSE usedBins)
  BY <1>3, <1>4 DEF StoreDelta, BinInRange, CanStore
<1>6. outliers \in Nat
  BY AnalysisAssumption DEF FullAnalysisInv, AnalysisTypeOK
<1>7. CASE BinOf < MaxBins
  <2>1. BinOf \in Bins
    BY <1>1, <1>3, <1>7 DEF Bins
  <2>2. outliers' = outliers + (IF array /\ ~(Len(values) < Capacity) THEN 1 ELSE 0)
    BY <1>5, <1>6, <1>7
  <2> QED BY <1>2, <1>3, <1>5, <1>7, <2>1, <2>2 DEF d
<1>8. CASE BinOf >= MaxBins
  <2>1. ~(BinOf < MaxBins)
    BY <1>1, <1>3, <1>8
  <2> QED BY <1>2, <1>3, <1>5, <1>8, <2>1 DEF d
<1> QED BY <1>1, <1>3, <1>7, <1>8

-----------------------------------------------------------------------------
(* The steps of the analysis *)

\* A step is one of the operations, or changes nothing.
LEMMA AnalysisCases ==
  ASSUME [AnalysisNext]_analysisVars
  PROVE  \/ Configure \/ Allocate \/ Reallocate \/ ProcessEntry \/ EndOfEntries \/ Display
         \/ Cleanup \/ UNCHANGED analysisVars
BY DEF AnalysisNext, AnalysisFinished

\* An allocation starts from nothing, or fails and leaves the counters alone.
LEMMA AllocationCases ==
  ASSUME FullAnalysisInv, Allocate \/ Reallocate
  PROVE  /\ array' \in BOOLEAN /\ UNCHANGED <<entries, next, shown>> /\ next = 1
         /\ \/ /\ hist' = [b \in Bins |-> 0] /\ values' = <<>> /\ outliers' = 0 /\ usedBins' = 0
               /\ pc' = (IF pc = "allocate" THEN "reallocate" ELSE "process")
            \/ /\ hist' = NoHist /\ UNCHANGED <<outliers, usedBins>>
               /\ values' \in {<<>>, values}
               /\ pc' = (IF pc = "allocate" THEN "cleanup" ELSE "display")
<1>1. pc \in {"allocate", "reallocate"}
  BY DEF Allocate, Reallocate
<1>2. array' \in BOOLEAN
  BY Zenon DEF Allocate, Reallocate, AllocateStructures, exact_percentiles_init
<1>3. next = 1
  BY <1>1 DEF FullAnalysisInv, Pass
<1>4. UNCHANGED <<entries, next, shown>>
  BY DEF Allocate, Reallocate, AllocateStructures
<1>5. CASE Allocate
  BY <1>2, <1>3, <1>4, <1>5 DEF Allocate, AllocateStructures, ResetCounters
<1>6. CASE Reallocate
  BY <1>2, <1>3, <1>4, <1>6 DEF Reallocate, AllocateStructures, ResetCounters
<1> QED BY <1>5, <1>6

\* The types, parameter by parameter.
LEMMA AnalysisTypes ==
  ASSUME FullAnalysisInv
  PROVE  /\ next \in 1 .. MaxEntries + 1 /\ next \in Nat /\ array \in BOOLEAN
         /\ values \in Seq(1 .. Limit) /\ Len(values) \in Nat /\ Len(values) <= Capacity
         /\ outliers \in Nat /\ usedBins \in Nat /\ usedBins <= MaxBins
         /\ MaxEntries \in Nat /\ MaxBins \in Nat \ {0} /\ Capacity \in Nat \ {0} /\ Limit \in Nat
         /\ entries \in Seq(Stamps) /\ Len(entries) \in Nat
         /\ Len(entries) <= MaxEntries /\ next <= Len(entries) + 1
<1>1. array \in BOOLEAN
  BY Zenon DEF FullAnalysisInv, AnalysisTypeOK
<1>2. /\ MaxEntries \in Nat /\ MaxBins \in Nat \ {0} /\ Capacity \in Nat \ {0} /\ Limit \in Nat
  BY AnalysisAssumption
<1>3. /\ next \in 1 .. MaxEntries + 1 /\ values \in Seq(1 .. Limit) /\ Len(values) <= Capacity
      /\ outliers \in 0 .. 2 * MaxEntries /\ usedBins \in 0 .. MaxBins
  BY DEF FullAnalysisInv, AnalysisTypeOK
<1>4. Len(values) \in Nat
  BY <1>3, LenProperties
<1>5. entries \in Seq(Stamps) /\ Len(entries) <= MaxEntries /\ next <= Len(entries) + 1
  BY DEF FullAnalysisInv, Pass
<1>6. Len(entries) \in Nat
  BY <1>5, LenProperties
<1> QED BY <1>1, <1>2, <1>3, <1>4, <1>5, <1>6

Typed == AnalysisTypeOK /\ Pass /\ AtMostPerEntry

\* An entry keeps the types: a bin grows by one per entry, the outliers by two.
LEMMA EntryTyped ==
  ASSUME FullAnalysisInv, ProcessEntry
  PROVE  Typed'
<1>0. /\ pc = "process" /\ next <= Len(entries) /\ hist # NoHist
      /\ outliers <= 2 * (next - 1) /\ \A b \in Bins : hist[b] <= next - 1
  BY DEF ProcessEntry, FullAnalysisInv, Pass, AtMostPerEntry
<1>1. /\ next' = next + 1 /\ UNCHANGED <<entries, pc, array, shown>>
      /\ next \in Nat \ {0} /\ next <= MaxEntries
  BY <1>0, EntryCases, EntryType
<1>2. hist \in [Bins -> 0 .. MaxEntries] /\ \A b \in Bins : hist[b] \in Nat
  BY <1>0, HistType DEF FullAnalysisInv
<1>3. values' \in Seq(1 .. Limit) /\ Len(values') <= Capacity
  <2>1. CASE values' = values
    BY <2>1, AnalysisTypes
  <2>2. CASE Storable
    <3>1. /\ Delta(entries[next]) \in 1 .. Limit
          /\ values' = (IF array /\ Len(values) < Capacity
                         THEN Append(values, Delta(entries[next])) ELSE values)
      BY <2>2, StoreCases
    <3> DEFINE d == Delta(entries[next])
    <3>2. d \in 1 .. Limit
      BY <3>1
    <3>3. CASE array /\ Len(values) < Capacity
      <4>1. values' = Append(values, d)
        BY <3>1, <3>3
      <4> HIDE DEF d
      <4>2. Append(values, d) \in Seq(1 .. Limit) /\ Len(Append(values, d)) = Len(values) + 1
        BY <3>2, AnalysisTypes, AppendProperties
      <4> QED BY <3>3, <4>1, <4>2, AnalysisTypes
    <3>4. CASE ~(array /\ Len(values) < Capacity)
      <4>1. values' = values
        BY <3>1, <3>4
      <4> QED BY <4>1, AnalysisTypes
    <3> QED BY <3>3, <3>4
  <2> QED BY <2>1, <2>2, EntryCases
<1>4. outliers' \in Nat /\ outliers' <= outliers + 2
  <2>1. CASE outliers' \in {outliers, outliers + 1}
    BY <2>1, AnalysisTypes
  <2>2. CASE Storable
    <3> DEFINE full == IF array /\ ~(Len(values) < Capacity) THEN 1 ELSE 0
    <3>1. full \in {0, 1}
      OBVIOUS
    <3>2. outliers' = outliers + full \/ outliers' = outliers + full + 1
      BY <2>2, StoreCases
    <3> HIDE DEF full
    <3>3. CASE full = 0
      BY <3>2, <3>3, AnalysisTypes
    <3>4. CASE full = 1
      BY <3>2, <3>4, AnalysisTypes
    <3> QED BY <3>1, <3>3, <3>4
  <2> QED BY <2>1, <2>2, EntryCases
<1>5. usedBins' \in 0 .. MaxBins
  <2>1. CASE usedBins' = usedBins
    BY <2>1, AnalysisTypes
  <2>2. CASE Storable
    BY <2>2, StoreCases, AnalysisTypes
  <2> QED BY <2>1, <2>2, EntryCases
<1>6. /\ hist' \in [Bins -> 0 .. MaxEntries] /\ hist' # NoHist
      /\ \A b \in Bins : hist'[b] <= next
  <2>1. CASE hist' = hist
    BY <1>0, <1>1, <1>2, <2>1
  <2>2. CASE Storable /\ hist' = [hist EXCEPT ![BinOf] = @ + 1]
    <3>1. \A b \in Bins : hist'[b] \in Nat /\ hist'[b] <= next
      BY <1>0, <1>1, <1>2, <2>2
    <3>2. hist' = [b \in Bins |-> hist'[b]]
      BY <1>2, <2>2
    <3>3. \A b \in Bins : hist'[b] \in 0 .. MaxEntries
      BY <1>1, <3>1, AnalysisTypes
    <3>4. DOMAIN hist' = Bins
      BY <3>2
    <3> QED BY <3>1, <3>2, <3>3, <3>4, SomeHist
  <2> QED BY <2>1, <2>2, EntryCases, StoreCases
<1>7. next' \in 1 .. MaxEntries + 1 /\ outliers' \in 0 .. 2 * MaxEntries /\ outliers' <= 2 * (next' - 1)
  BY <1>0, <1>1, <1>4, AnalysisTypes
<1>8. AnalysisTypeOK'
  <2>1. array' \in BOOLEAN
    BY <1>1, AnalysisTypes
  <2> QED BY <1>0, <1>1, <1>3, <1>5, <1>6, <1>7, <2>1 DEF AnalysisTypeOK
<1>9. Pass'
  BY <1>0, <1>1, <1>6, AnalysisTypes DEF Pass
<1>10. AtMostPerEntry'
  BY <1>1, <1>6, <1>7 DEF AtMostPerEntry
<1> QED BY <1>8, <1>9, <1>10 DEF Typed

\* Every operation keeps the types and the bounds of the pass.
LEMMA NextAnalysisTyped == FullAnalysisInv /\ [AnalysisNext]_analysisVars => Typed'
<1> SUFFICES ASSUME FullAnalysisInv, [AnalysisNext]_analysisVars PROVE Typed'
  OBVIOUS
<1>t. AnalysisTypeOK /\ Pass /\ AtMostPerEntry
  BY DEF FullAnalysisInv
<1>e. <<>> \in Seq(1 .. Limit) /\ Len(<<>>) = 0
  OBVIOUS
<1>1. CASE Configure \/ Cleanup
  <2>1. /\ pc' \in {"allocate", "done"} /\ values' = <<>> /\ outliers' = 0 /\ usedBins' = 0
        /\ hist' = NoHist /\ UNCHANGED <<entries, next>> /\ (pc' = "allocate" => next = 1)
    BY <1>t, <1>1 DEF Configure, Cleanup, ResetCounters, Pass
  <2>2. array' \in BOOLEAN
    BY <1>1, Zenon DEF Configure, Cleanup, exact_percentiles_init
  <2> QED BY <1>t, <1>e, <2>1, <2>2, AnalysisTypes DEF Typed, AnalysisTypeOK, Pass, AtMostPerEntry
<1>2. CASE Allocate \/ Reallocate
  <2>0. pc \in {"allocate", "reallocate"} /\ array' \in BOOLEAN /\ next = 1 /\ next' = 1 /\ entries' = entries
    BY <1>2, AllocationCases DEF Allocate, Reallocate
  <2>1. CASE /\ hist' = [b \in Bins |-> 0] /\ values' = <<>> /\ outliers' = 0 /\ usedBins' = 0
             /\ pc' \in {"reallocate", "process"}
    <3>1. hist' \in [Bins -> 0 .. MaxEntries] /\ hist' # NoHist /\ \A b \in Bins : hist'[b] = 0
      <4>1. hist' \in [Bins -> 0 .. MaxEntries] /\ DOMAIN hist' = Bins /\ \A b \in Bins : hist'[b] = 0
        BY <2>1, AnalysisTypes
      <4> QED BY <4>1, SomeHist
    <3>2. AnalysisTypeOK'
      BY <1>e, <2>0, <2>1, <3>1, AnalysisTypes DEF AnalysisTypeOK
    <3>3. Pass'
      BY <1>t, <2>0, <2>1, <3>1 DEF Pass
    <3>4. AtMostPerEntry'
      BY <2>0, <2>1, <3>1 DEF AtMostPerEntry
    <3> QED BY <3>2, <3>3, <3>4 DEF Typed
  <2>2. CASE /\ hist' = NoHist /\ UNCHANGED <<outliers, usedBins>> /\ values' \in {<<>>, values}
             /\ pc' \in {"cleanup", "display"}
    <3>1. values' \in Seq(1 .. Limit) /\ Len(values') <= Capacity
      <4>1. CASE values' = <<>>
        BY <1>e, <4>1, AnalysisTypes
      <4>2. CASE values' = values
        BY <4>2, AnalysisTypes
      <4> QED BY <2>2, <4>1, <4>2
    <3>2. AnalysisTypeOK'
      BY <1>t, <2>0, <2>2, <3>1, AnalysisTypes DEF AnalysisTypeOK
    <3>3. Pass'
      BY <1>t, <2>0, <2>2 DEF Pass
    <3>4. AtMostPerEntry'
      BY <1>t, <2>0, <2>2 DEF AtMostPerEntry
    <3> QED BY <3>2, <3>3, <3>4 DEF Typed
  <2> QED BY <1>2, <2>0, <2>1, <2>2, AllocationCases
<1>3. CASE ProcessEntry
  BY <1>3, EntryTyped
<1>4. CASE EndOfEntries
  BY <1>t, <1>4 DEF EndOfEntries, Typed, AnalysisTypeOK, Pass, AtMostPerEntry
<1>5. CASE Display
  <2>1. values' \in Seq(1 .. Limit) /\ Len(values') = Len(values)
    BY <1>5, AnalysisTypes, QsortSorts DEF Display
  <2>2. pc' = "cleanup" /\ UNCHANGED <<entries, next, array, hist, outliers, usedBins>>
    BY <1>5 DEF Display
  <2> QED BY <1>t, <2>1, <2>2 DEF Typed, AnalysisTypeOK, Pass, AtMostPerEntry
<1>6. CASE UNCHANGED analysisVars
  BY <1>t, <1>6 DEF analysisVars, Typed, AnalysisTypeOK, Pass, AtMostPerEntry
<1> QED BY <1>1, <1>2, <1>3, <1>4, <1>5, <1>6, AnalysisCases

-----------------------------------------------------------------------------
(* The histogram *)

\* The counted sets depend on the entries and the position in them only.
LEMMA SameDeltas ==
  ASSUME UNCHANGED <<entries, next>>
  PROVE  /\ Valid' = Valid /\ TooLarge' = TooLarge /\ Beyond' = Beyond
         /\ \A b : InBin(b)' = InBin(b)
<1>1. Valid' = Valid
  BY DEF Valid, IsValid, Delta
<1>2. TooLarge' = TooLarge
  BY DEF TooLarge, IsValid, Delta
<1>3. Beyond' = Beyond
  BY <1>1 DEF Beyond, Delta
<1>4. ASSUME NEW b PROVE InBin(b)' = InBin(b)
  BY <1>1 DEF InBin, Delta
<1> QED BY <1>1, <1>2, <1>3, <1>4

Binned == BinsInUse /\ BinsExact

\* An entry adds one to the bin of its delta, if it has one.
LEMMA EntryBinned ==
  ASSUME FullAnalysisInv, ProcessEntry
  PROVE  Binned'
<1>0. /\ pc = "process" /\ next <= Len(entries) /\ hist # NoHist /\ Processing
      /\ BinsInUse /\ BinsExact
  BY DEF ProcessEntry, FullAnalysisInv, Pass, Processing
<1>1. hist \in [Bins -> 0 .. MaxEntries] /\ \A b \in Bins : hist[b] \in Nat
  BY <1>0, HistType DEF FullAnalysisInv
<1>2. /\ \A b \in Bins : b \in Nat /\ b < MaxBins
      /\ \A b \in Bins : b >= usedBins => hist[b] = 0
      /\ usedBins > 0 => hist[usedBins - 1] > 0
      /\ \A b \in Bins : hist[b] = Cardinality(InBin(b))
  BY <1>0, AnalysisTypes DEF BinsInUse, BinsExact, Bins
<1>3. \A b : /\ Cardinality(InBin(b)) \in Nat
             /\ Cardinality(InBin(b) \cup {next}) = Cardinality(InBin(b)) + 1
  BY DeltasWithin, DeltasCounted
<1>4. CASE hist' = hist /\ usedBins' = usedBins /\ ~(Storable /\ BinOf \in Bins)
  <2>1. BinsInUse'
    BY <1>0, <1>4 DEF BinsInUse
  <2>2. \A b \in Bins : InBin(b)' = InBin(b)
    BY <1>4, DeltasGrow
  <2> QED BY <1>2, <1>4, <2>1, <2>2 DEF Binned, BinsExact
<1>5. CASE /\ Storable /\ BinOf \in Bins
           /\ hist' = [hist EXCEPT ![BinOf] = @ + 1]
           /\ usedBins' = (IF BinOf >= usedBins THEN BinOf + 1 ELSE usedBins)
  <2>0. BinOf \in Nat /\ BinOf < MaxBins /\ usedBins \in Nat /\ usedBins <= MaxBins
    BY <1>2, <1>5, AnalysisTypes
  <2>1. /\ hist'[BinOf] = hist[BinOf] + 1
        /\ \A b \in Bins : b # BinOf => hist'[b] = hist[b]
    BY <1>1, <1>5
  <2>2. \A b \in Bins : hist'[b] = Cardinality(InBin(b)')
    <3> SUFFICES ASSUME NEW b \in Bins PROVE hist'[b] = Cardinality(InBin(b)')
      OBVIOUS
    <3>1. CASE b = BinOf
      <4>1. InBin(b)' = InBin(b) \cup {next}
        BY <1>5, <3>1, DeltasGrow
      <4>2. hist'[b] = hist[b] + 1
        BY <2>1, <3>1
      <4> QED BY <1>2, <1>3, <4>1, <4>2
    <3>2. CASE b # BinOf
      <4>1. InBin(b)' = InBin(b)
        BY <3>2, DeltasGrow
      <4> QED BY <1>2, <2>1, <3>2, <4>1
    <3> QED BY <3>1, <3>2
  <2>3. CASE BinOf >= usedBins
    <3>1. usedBins' = BinOf + 1 /\ usedBins' - 1 = BinOf
      BY <1>5, <2>0, <2>3
    <3>2. hist'[usedBins' - 1] > 0
      BY <1>1, <1>5, <2>1, <3>1
    <3>3. ASSUME NEW b \in Bins, b >= usedBins' PROVE hist'[b] = 0
      <4>1. b # BinOf /\ b >= usedBins
        BY <1>2, <2>0, <2>3, <3>1, <3>3
      <4> QED BY <1>2, <2>1, <4>1
    <3> QED BY <2>2, <3>2, <3>3 DEF Binned, BinsInUse, BinsExact
  <2>4. CASE BinOf < usedBins
    <3>1. usedBins' = usedBins /\ usedBins > 0 /\ usedBins - 1 \in Bins
      <4>1. ~(BinOf >= usedBins) /\ usedBins > 0 /\ usedBins - 1 \in 0 .. MaxBins - 1
        BY <2>0, <2>4, AnalysisTypes
      <4> QED BY <1>5, <4>1 DEF Bins
    <3>2. hist'[usedBins' - 1] > 0
      <4>1. CASE usedBins - 1 = BinOf
        BY <1>1, <1>5, <2>1, <3>1, <4>1
      <4>2. CASE usedBins - 1 # BinOf
        BY <1>2, <2>1, <3>1, <4>2
      <4> QED BY <4>1, <4>2
    <3>3. ASSUME NEW b \in Bins, b >= usedBins' PROVE hist'[b] = 0
      <4>1. b # BinOf /\ b >= usedBins
        BY <1>2, <2>0, <2>4, <3>1, <3>3
      <4> QED BY <1>2, <2>1, <4>1
    <3> QED BY <2>2, <3>2, <3>3 DEF Binned, BinsInUse, BinsExact
  <2> QED BY <2>0, <2>3, <2>4
<1>6. CASE Storable
  <2>1. CASE BinOf >= MaxBins
    <3>1. ~(BinOf \in Bins)
      BY <1>2, <1>6, <2>1, StoreCases, AnalysisTypes
    <3>2. ~(BinOf < MaxBins)
      BY <1>6, <2>1, StoreCases, AnalysisTypes
    <3> QED BY <1>4, <1>6, <2>1, <3>1, <3>2, StoreCases
  <2>2. CASE BinOf < MaxBins
    <3>1. ~(BinOf >= MaxBins)
      BY <1>6, <2>2, StoreCases, AnalysisTypes
    <3> QED BY <1>5, <1>6, <3>1, StoreCases
  <2> QED BY <1>6, <2>1, <2>2, StoreCases
<1>7. CASE ~Storable
  BY <1>4, <1>7, EntryCases
<1> QED BY <1>6, <1>7

\* Allocation starts with empty bins, and only an entry changes them.
LEMMA NextBinned == FullAnalysisInv /\ [AnalysisNext]_analysisVars => Binned'
<1> SUFFICES ASSUME FullAnalysisInv, [AnalysisNext]_analysisVars PROVE Binned'
  OBVIOUS
<1>t. BinsInUse /\ BinsExact
  BY DEF FullAnalysisInv
<1>1. CASE hist' = NoHist
  BY <1>1 DEF Binned, BinsInUse, BinsExact, Processing
<1>2. CASE (Allocate \/ Reallocate) /\ hist' # NoHist
  <2>1. /\ hist' = [b \in Bins |-> 0] /\ usedBins' = 0 /\ next = 1 /\ UNCHANGED <<entries, next>>
    BY <1>2, AllocationCases
  <2>2. \A b \in Bins : hist'[b] = 0 /\ Cardinality(InBin(b)') = 0
    BY <2>1, NothingYet, SameDeltas
  <2>3. ~(usedBins' > 0)
    BY <2>1
  <2> QED BY <2>2, <2>3 DEF Binned, BinsInUse, BinsExact
<1>3. CASE ProcessEntry
  BY <1>3, EntryBinned
<1>4. CASE /\ UNCHANGED <<entries, next, hist, usedBins>>
           /\ pc' \in {"process", "display"} => pc \in {"process", "display"}
  <2>1. BinsInUse'
    BY <1>t, <1>4 DEF BinsInUse
  <2>2. Processing' => Processing
    BY <1>4 DEF Processing
  <2>3. BinsExact'
    BY <1>t, <1>4, <2>2, SameDeltas DEF BinsExact
  <2> QED BY <2>1, <2>3 DEF Binned
<1>5. CASE EndOfEntries \/ Display \/ UNCHANGED analysisVars
  <2>1. /\ UNCHANGED <<entries, next, hist, usedBins>>
        /\ pc' \in {"process", "display"} => pc \in {"process", "display"}
    BY <1>5 DEF EndOfEntries, Display, analysisVars
  <2> QED BY <1>4, <2>1
<1>6. CASE Configure \/ Cleanup
  BY <1>1, <1>6 DEF Configure, Cleanup
<1> QED BY <1>1, <1>2, <1>3, <1>5, <1>6, AnalysisCases

-----------------------------------------------------------------------------
(* The value array and the outliers *)

\* An entry that can be stored goes to the array while there is room, and is
\* an outlier otherwise; one beyond the last bin is an outlier, too.
LEMMA EntryAccounted ==
  ASSUME FullAnalysisInv, ProcessEntry
  PROVE  EveryDeltaAccounted'
<1> SUFFICES ASSUME Processing', array' PROVE EveryDeltaAccounted'
  BY DEF EveryDeltaAccounted
<1> DEFINE V == Cardinality(Valid)
           T == Cardinality(TooLarge)
           B == Cardinality(Beyond)
           L == Len(values)
<1>0. /\ pc = "process" /\ next <= Len(entries) /\ hist # NoHist /\ Processing
      /\ array /\ EveryDeltaAccounted
  BY EntryCases DEF ProcessEntry, FullAnalysisInv, Pass, Processing
<1>1. V \in Nat /\ T \in Nat /\ B \in Nat /\ L \in Nat /\ Capacity \in Nat /\ outliers \in Nat
  BY DeltasWithin, DeltasCounted, AnalysisTypes
<1>2. /\ Cardinality(Valid \cup {next}) = V + 1
      /\ Cardinality(TooLarge \cup {next}) = T + 1
      /\ Cardinality(Beyond \cup {next}) = B + 1
  BY DeltasWithin, DeltasCounted
<1>3. L = (IF V < Capacity THEN V ELSE Capacity) /\ outliers = T + B + V - L
  BY <1>0 DEF EveryDeltaAccounted
<1>g. SUFFICES /\ Len(values') = (IF Cardinality(Valid') < Capacity
                                    THEN Cardinality(Valid') ELSE Capacity)
               /\ outliers' = Cardinality(TooLarge') + Cardinality(Beyond')
                              + Cardinality(Valid') - Len(values')
  BY DEF EveryDeltaAccounted
<1>4. CASE ~Storable /\ ~Excess
  <2>1. /\ Valid' = Valid /\ TooLarge' = TooLarge /\ Beyond' = Beyond
        /\ values' = values /\ outliers' = outliers
    BY <1>4, DeltasGrow, EntryCases
  <2> QED BY <1>3, <2>1
<1>5. CASE ~Storable /\ Excess
  <2>1. /\ Valid' = Valid /\ TooLarge' = TooLarge \cup {next} /\ Beyond' = Beyond
        /\ values' = values /\ outliers' = outliers + 1
    BY <1>5, DeltasGrow, EntryCases
  <2>2. outliers + 1 = (T + 1) + B + V - L
    BY <1>1, <1>3
  <2> QED BY <1>2, <1>3, <2>1, <2>2
<1>6. CASE Storable
  <2> DEFINE d == Delta(entries[next])
  <2>0. TooLarge' = TooLarge /\ Valid' = Valid \cup {next}
    BY <1>6, DeltasGrow, EntryCases
  <2>1. /\ d \in 1 .. Limit /\ BinOf \in Nat
        /\ L < Capacity => values' = Append(values, d)
        /\ ~(L < Capacity) => values' = values
    BY <1>0, <1>6, StoreCases
  <2> HIDE DEF d
  <2> DEFINE full == IF L < Capacity THEN 0 ELSE 1
             out  == IF BinOf >= MaxBins THEN 1 ELSE 0
             L1   == Len(values')
  <2>2. L1 = (IF L < Capacity THEN L + 1 ELSE L)
    <3>1. CASE L < Capacity
      <4>1. Len(Append(values, d)) = L + 1
        BY <2>1, AnalysisTypes, AppendProperties
      <4> QED BY <2>1, <3>1, <4>1
    <3>2. CASE ~(L < Capacity)
      BY <2>1, <3>2
    <3> QED BY <3>1, <3>2
  <2>3. outliers' = outliers + full + out /\ Cardinality(Beyond') = B + out
    <3>1. CASE BinOf >= MaxBins
      <4>1. ~(BinOf < MaxBins)
        BY <2>1, <3>1, AnalysisTypes
      <4>2. outliers' = outliers + (IF array /\ ~(Len(values) < Capacity) THEN 1 ELSE 0) + 1
        BY <1>6, <4>1, StoreCases
      <4>3. Beyond' = Beyond \cup {next}
        BY <1>6, <3>1, DeltasGrow
      <4> QED BY <1>0, <1>2, <3>1, <4>2, <4>3
    <3>2. CASE ~(BinOf >= MaxBins)
      <4>1. outliers' = outliers + (IF array /\ ~(Len(values) < Capacity) THEN 1 ELSE 0)
        BY <1>6, <3>2, StoreCases
      <4>2. Beyond' = Beyond
        BY <3>2, DeltasGrow
      <4>3. full \in Nat /\ out = 0
        BY <3>2
      <4>4. outliers' = outliers + full
        BY <1>0, <4>1
      <4> HIDE DEF full, out
      <4> QED BY <1>1, <4>2, <4>3, <4>4
    <3> QED BY <3>1, <3>2
  <2>4. out \in Nat
    OBVIOUS
  <2>5. Cardinality(Valid') = V + 1 /\ Cardinality(TooLarge') = T
    BY <1>2, <2>0
  <2> DEFINE V1 == Cardinality(Valid')
             B1 == Cardinality(Beyond')
             T1 == Cardinality(TooLarge')
  <2>6. V1 = V + 1 /\ B1 = B + out /\ T1 = T
    BY <2>3, <2>5
  <2> HIDE DEF V, T, B, L, V1, B1, T1, L1, out
  <2>7. CASE L < Capacity
    <3>1. full = 0 /\ L1 = L + 1 /\ L = V
      BY <1>1, <1>3, <2>2, <2>7
    <3>2. outliers' = outliers + out
      BY <1>1, <2>3, <2>4, <3>1
    <3>3. L1 = (IF V1 < Capacity THEN V1 ELSE Capacity)
      BY <1>1, <2>6, <2>7, <3>1
    <3>4. outliers' = T1 + B1 + V1 - L1
      BY <1>1, <1>3, <2>4, <2>6, <3>1, <3>2
    <3> QED BY <3>3, <3>4 DEF L1, V1, T1, B1
  <2>8. CASE ~(L < Capacity)
    <3>1. full = 1 /\ L1 = L /\ L = Capacity /\ V >= Capacity
      BY <1>1, <1>3, <2>2, <2>8
    <3>2. outliers' = outliers + 1 + out
      BY <1>1, <2>3, <2>4, <3>1
    <3>3. L1 = (IF V1 < Capacity THEN V1 ELSE Capacity)
      BY <1>1, <2>6, <3>1
    <3>4. outliers' = T1 + B1 + V1 - L1
      BY <1>1, <1>3, <2>4, <2>6, <3>1, <3>2
    <3> QED BY <3>3, <3>4 DEF L1, V1, T1, B1
  <2> QED BY <2>7, <2>8
<1> QED BY <1>4, <1>5, <1>6

\* Allocation starts with nothing to account for, and only an entry adds to it.
LEMMA NextAccounted == FullAnalysisInv /\ [AnalysisNext]_analysisVars => EveryDeltaAccounted'
<1> SUFFICES ASSUME FullAnalysisInv, [AnalysisNext]_analysisVars PROVE EveryDeltaAccounted'
  OBVIOUS
<1>t. EveryDeltaAccounted
  BY DEF FullAnalysisInv
<1>1. CASE hist' = NoHist
  BY <1>1 DEF EveryDeltaAccounted, Processing
<1>2. CASE (Allocate \/ Reallocate) /\ hist' # NoHist
  <2>1. values' = <<>> /\ outliers' = 0 /\ next = 1 /\ UNCHANGED <<entries, next>>
    BY <1>2, AllocationCases
  <2>2. Cardinality(Valid') = 0 /\ Cardinality(TooLarge') = 0 /\ Cardinality(Beyond') = 0
    BY <2>1, NothingYet, SameDeltas
  <2>3. Len(values') = 0 /\ Capacity \in Nat \ {0}
    BY <2>1, AnalysisAssumption
  <2>4. Len(values') = (IF Cardinality(Valid') < Capacity THEN Cardinality(Valid') ELSE Capacity)
    BY <2>2, <2>3
  <2>5. outliers' = Cardinality(TooLarge') + Cardinality(Beyond') + Cardinality(Valid') - Len(values')
    <3>1. outliers' = 0 /\ 0 + 0 + 0 - 0 = 0
      BY <2>1
    <3> QED BY <2>2, <2>3, <3>1, Zenon
  <2> QED BY <2>4, <2>5 DEF EveryDeltaAccounted
<1>3. CASE ProcessEntry
  BY <1>3, EntryAccounted
<1>4. CASE EndOfEntries \/ UNCHANGED analysisVars
  <2>1. /\ UNCHANGED <<entries, next, hist, array, values, outliers>>
        /\ pc' \in {"process", "display"} => pc \in {"process", "display"}
    BY <1>4 DEF EndOfEntries, analysisVars
  <2>2. Processing' => Processing
    BY <2>1 DEF Processing
  <2> QED BY <1>t, <2>1, <2>2, SameDeltas DEF EveryDeltaAccounted
<1>5. CASE Display
  BY <1>5 DEF Display, EveryDeltaAccounted, Processing
<1>6. CASE Configure \/ Cleanup
  BY <1>1, <1>6 DEF Configure, Cleanup
<1> QED BY <1>1, <1>2, <1>3, <1>4, <1>5, <1>6, AnalysisCases

-----------------------------------------------------------------------------
(* The display *)

\* The percentiles are computed once, from the values just sorted, and the
\* values are gone after the clean-up.
LEMMA NextShown == FullAnalysisInv /\ [AnalysisNext]_analysisVars => ShownRight'
<1> SUFFICES ASSUME FullAnalysisInv, [AnalysisNext]_analysisVars PROVE ShownRight'
  OBVIOUS
<1>t. ShownRight
  BY DEF FullAnalysisInv
<1>1. CASE Display
  <2>1. /\ values' = qsort(values) /\ pc' = "cleanup"
        /\ shown' = (IF values = <<>> THEN <<>>
                     ELSE [i \in DOMAIN Percentiles |-> PercentileOf(values', Percentiles[i])])
    BY <1>1 DEF Display
  <2>2. Ascending(values') /\ Len(values') = Len(values)
    BY <2>1, AnalysisTypes, QsortSorts
  <2>3. values # <<>> => values' # <<>>
    <3> SUFFICES ASSUME values # <<>>, values' = <<>> PROVE FALSE
      OBVIOUS
    <3>1. Len(values) = 0
      BY <2>2
    <3> QED BY <3>1, AnalysisTypes, EmptySeq
  <2>4. CASE values = <<>>
    BY <2>1, <2>4 DEF ShownRight
  <2>5. CASE values # <<>>
    <3>1. shown' = [i \in DOMAIN Percentiles |-> PercentileOf(values', Percentiles[i])]
      BY <2>1, <2>5
    <3>2. shown' = [i \in DOMAIN Percentiles |-> PercentileOf(values, Percentiles[i])]'
      BY <3>1 DEF Percentiles, PercentileOf
    <3>3. Ascending(values)'
      BY <2>2 DEF Ascending
    <3> QED BY <2>1, <2>3, <2>5, <3>2, <3>3 DEF ShownRight
  <2> QED BY <2>4, <2>5
<1>2. CASE UNCHANGED analysisVars
  BY <1>t, <1>2 DEF analysisVars, ShownRight, Ascending, Percentiles, PercentileOf
<1>3. CASE Allocate \/ Reallocate
  <2>1. pc \notin {"cleanup", "done"} /\ shown' = shown
    BY <1>3, AllocationCases DEF Allocate, Reallocate
  <2> QED BY <1>t, <2>1 DEF ShownRight
<1>4. CASE Configure \/ ProcessEntry \/ EndOfEntries
  <2>1. pc \notin {"cleanup", "done"} /\ shown' = shown
    BY <1>4 DEF Configure, ProcessEntry, EndOfEntries
  <2> QED BY <1>t, <2>1 DEF ShownRight
<1>5. CASE Cleanup
  BY <1>5 DEF Cleanup, ShownRight
<1> QED BY <1>1, <1>2, <1>3, <1>4, <1>5, AnalysisCases

-----------------------------------------------------------------------------
(* The theorems about the analysis *)

\* Nothing is allocated, counted or shown at the start.
LEMMA InitAnalysis == AnalysisInit => FullAnalysisInv
<1> SUFFICES ASSUME AnalysisInit PROVE FullAnalysisInv
  OBVIOUS
<1>0. /\ pc = "configure" /\ next = 1 /\ array = FALSE /\ values = <<>> /\ hist = NoHist
      /\ outliers = 0 /\ usedBins = 0 /\ shown = <<>>
  BY DEF AnalysisInit
<1>1. MaxEntries \in Nat /\ MaxBins \in Nat \ {0} /\ Capacity \in Nat \ {0} /\ Limit \in Nat
  BY AnalysisAssumption
<1>2. entries \in Seq(Stamps) /\ Len(entries) \in Nat /\ Len(entries) <= MaxEntries
  <2>1. PICK n \in 1 .. MaxEntries : entries \in [1 .. n -> Stamps]
    BY DEF AnalysisInit
  <2>2. n \in Nat /\ n <= MaxEntries
    BY <1>1, <2>1
  <2> QED BY <2>1, <2>2, FunctionIsSeq
<1>3. <<>> \in Seq(1 .. Limit) /\ Len(<<>>) = 0
  OBVIOUS
<1>4. AnalysisTypeOK
  <2>1. array \in BOOLEAN
    BY <1>0
  <2>2. /\ values \in Seq(1 .. Limit) /\ Len(values) <= Capacity
        /\ next \in 1 .. MaxEntries + 1 /\ outliers \in 0 .. 2 * MaxEntries /\ usedBins \in 0 .. MaxBins
    BY <1>0, <1>1, <1>3
  <2> QED BY <1>0, <2>1, <2>2 DEF AnalysisTypeOK
<1>5. Pass /\ AtMostPerEntry
  BY <1>0, <1>2 DEF Pass, AtMostPerEntry
<1>6. BinsInUse /\ BinsExact /\ EveryDeltaAccounted
  BY <1>0 DEF BinsInUse, BinsExact, EveryDeltaAccounted, Processing
<1>7. ShownRight
  BY <1>0 DEF ShownRight
<1> QED BY <1>4, <1>5, <1>6, <1>7 DEF FullAnalysisInv

\* The analysis of a delta (configure_analysis_for_mode, initialize_analysis_result,
\* process_buffer_for_analysis, display_delta_block, cleanup_analysis_result)
\* keeps its inductive invariant, whichever allocations fail and for every
\* size of ring, value array and histogram.
THEOREM AnalysisInvariant == AnalysisSpec => []FullAnalysisInv
<1>1. FullAnalysisInv /\ [AnalysisNext]_analysisVars => FullAnalysisInv'
  BY NextAnalysisTyped, NextBinned, NextAccounted, NextShown DEF FullAnalysisInv, Typed, Binned
<1> QED BY InitAnalysis, <1>1, PTL DEF AnalysisSpec

\* used_bins, kept as a running maximum, is what a scan of the bins finds.
LEMMA UsedBinsScan ==
  ASSUME FullAnalysisInv, hist # NoHist
  PROVE  usedBins = (IF \A b \in Bins : hist[b] = 0 THEN 0
                     ELSE 1 + CHOOSE b \in Bins : hist[b] > 0 /\ \A c \in Bins : c > b => hist[c] = 0)
<1> DEFINE Top(b) == hist[b] > 0 /\ \A c \in Bins : c > b => hist[c] = 0
<1> SUFFICES usedBins = (IF \A b \in Bins : hist[b] = 0 THEN 0 ELSE 1 + CHOOSE b \in Bins : Top(b))
  OBVIOUS
<1>0. /\ \A b \in Bins : b \in Nat /\ b < MaxBins /\ hist[b] \in Nat
      /\ usedBins \in Nat /\ usedBins <= MaxBins /\ MaxBins \in Nat
  BY HistType, AnalysisTypes DEF Bins, FullAnalysisInv
<1>1. /\ \A b \in Bins : b >= usedBins => hist[b] = 0
      /\ usedBins > 0 => hist[usedBins - 1] > 0
  BY DEF FullAnalysisInv, BinsInUse
<1>2. CASE usedBins = 0
  <2>1. \A b \in Bins : hist[b] = 0
    BY <1>0, <1>1, <1>2
  <2> QED BY <1>2, <2>1
<1>3. CASE usedBins > 0
  <2> DEFINE top == usedBins - 1
  <2>1. top \in Bins /\ top \in Nat /\ usedBins = 1 + top
    BY <1>0, <1>3 DEF Bins
  <2>2. hist[top] > 0
    BY <1>1, <1>3
  <2> HIDE DEF top
  <2>3. Top(top)
    BY <1>0, <1>1, <2>1, <2>2
  <2>4. ASSUME NEW b \in Bins, Top(b) PROVE b = top
    <3>1. ~(top > b)
      BY <1>0, <2>1, <2>2, <2>4
    <3>2. ~(b > top)
      BY <1>0, <2>1, <2>3, <2>4
    <3> QED BY <1>0, <2>1, <3>1, <3>2
  <2> HIDE DEF Top
  <2>5. (CHOOSE b \in Bins : Top(b)) = top
    BY <2>1, <2>3, <2>4
  <2>6. ~(\A b \in Bins : hist[b] = 0)
    BY <1>0, <2>1, <2>2
  <2>7. usedBins = 1 + CHOOSE b \in Bins : Top(b)
    BY <2>1, <2>5
  <2> QED BY <2>6, <2>7
<1> QED BY <1>0, <1>2, <1>3

\* Histogram, value array and outlier count account for every delta of the
\* ring (process_entry_for_delta, exact_percentiles_add_value): each bin counts
\* exactly the deltas that fall in it, used_bins hides none, the array has the
\* first Capacity values, and the rest are outliers, each counted once per reason.
THEOREM DeltasAccounted == AnalysisSpec => []AnalysisInv
<1>1. FullAnalysisInv => AnalysisInv
  <2> SUFFICES ASSUME FullAnalysisInv PROVE AnalysisInv
    OBVIOUS
  <2>1. AnalysisTypeOK /\ EveryDeltaAccounted
    BY DEF FullAnalysisInv
  <2>2. HistogramExact
    <3> SUFFICES ASSUME Processing PROVE HistogramExact
      BY DEF HistogramExact
    <3>1. \A b \in Bins : hist[b] = Cardinality({i \in Valid : Delta(entries[i]) \div BinWidth = b})
      BY DEF FullAnalysisInv, BinsExact, InBin
    <3>2. hist # NoHist
      BY DEF Processing
    <3> QED BY <3>1, <3>2, UsedBinsScan DEF HistogramExact
  <2> QED BY <2>1, <2>2 DEF AnalysisInv
<1> QED BY <1>1, AnalysisInvariant, PTL

\* exact_percentiles_calculate: a percentile is the value at its position, and
\* the positions of the displayed percentiles ascend.
LEMMA PercentilePositions ==
  ASSUME NEW n \in Nat \ {0}
  PROVE  /\ DOMAIN Percentiles = 1 .. 5 /\ Len(Percentiles) = 5
         /\ \A i \in 1 .. 5 : Percentiles[i] \in 0 .. 100
                              /\ Percentiles[i] * (n - 1) \in 0 .. 100 * (n - 1)
         /\ \A i \in 1 .. 4 : Percentiles[i] * (n - 1) <= Percentiles[i + 1] * (n - 1)
<1>1. /\ Percentiles[1] = 25 /\ Percentiles[2] = 50 /\ Percentiles[3] = 75
      /\ Percentiles[4] = 90 /\ Percentiles[5] = 95
      /\ Len(Percentiles) = 5 /\ DOMAIN Percentiles = 1 .. 5
  BY DEF Percentiles
<1>2. \A i \in 1 .. 5 : i = 1 \/ i = 2 \/ i = 3 \/ i = 4 \/ i = 5
  OBVIOUS
<1>3. \A i \in 1 .. 5 : Percentiles[i] \in 0 .. 100
  BY <1>1, <1>2
<1>4. \A p \in 0 .. 100 : p * (n - 1) \in 0 .. 100 * (n - 1)
  <2> SUFFICES ASSUME NEW p \in 0 .. 100 PROVE p * (n - 1) \in 0 .. 100 * (n - 1)
    OBVIOUS
  <2>1. p \in Nat /\ p <= 100 /\ n - 1 \in Nat
    OBVIOUS
  <2>2. p * (n - 1) \in Nat /\ p * (n - 1) <= 100 * (n - 1)
    BY <2>1, PartOf
  <2> QED BY <2>2
<1>5. \A i \in 1 .. 4 : Percentiles[i] * (n - 1) <= Percentiles[i + 1] * (n - 1)
  <2>1. \A i \in 1 .. 4 : i = 1 \/ i = 2 \/ i = 3 \/ i = 4
    OBVIOUS
  <2>2. /\ 25 * (n - 1) <= 50 * (n - 1) /\ 50 * (n - 1) <= 75 * (n - 1)
        /\ 75 * (n - 1) <= 90 * (n - 1) /\ 90 * (n - 1) <= 95 * (n - 1)
    OBVIOUS
  <2> QED BY <1>1, <2>1, <2>2
<1> QED BY <1>1, <1>3, <1>4, <1>5

\* Every percentile display_delta_block shows lies between the two order
\* statistics around its rank, and the five of them ascend.
THEOREM PercentilesRight == AnalysisSpec => []PercentilesBetweenRanks
<1>1. FullAnalysisInv => PercentilesBetweenRanks
  <2> SUFFICES ASSUME FullAnalysisInv, pc = "cleanup", shown # <<>>
               PROVE  PercentilesBetweenRanks
    BY DEF PercentilesBetweenRanks
  <2> DEFINE n    == Len(values)
             q(i) == Percentiles[i] * (n - 1)
  <2>1. /\ values # <<>> /\ Ascending(values) /\ values \in Seq(1 .. Limit)
        /\ shown = [i \in DOMAIN Percentiles |-> PercentileOf(values, Percentiles[i])]
    BY AnalysisTypes DEF FullAnalysisInv, ShownRight
  <2>2. n \in Nat \ {0}
    BY <2>1, EmptySeq
  <2>3. /\ DOMAIN Percentiles = 1 .. 5 /\ Len(Percentiles) = 5
        /\ \A i \in 1 .. 5 : q(i) \in 0 .. 100 * (n - 1)
        /\ \A i \in 1 .. 4 : q(i) <= q(i + 1)
    BY <2>2, PercentilePositions
  <2>4. \A i \in 1 .. 5 : shown[i] = AtPosition(values, q(i))
    <3> SUFFICES ASSUME NEW i \in 1 .. 5 PROVE shown[i] = AtPosition(values, q(i))
      OBVIOUS
    <3>1. shown[i] = PercentileOf(values, Percentiles[i])
      BY <2>1, <2>3
    <3> QED BY <3>1, Zenon DEF PercentileOf, AtPosition
  <2>5. ASSUME NEW i \in 1 .. 5
        PROVE  /\ 100 * Cardinality({k \in 1 .. n : 100 * values[k] < shown[i]}) <= q(i) + 99
               /\ 100 * Cardinality({k \in 1 .. n : 100 * values[k] <= shown[i]}) > q(i) - (q(i) % 100)
    <3> DEFINE r == q(i)
    <3>1. r \in 0 .. 100 * (n - 1) /\ shown[i] = AtPosition(values, r)
      BY <2>3, <2>4
    <3> HIDE DEF r
    <3>2. LET v == AtPosition(values, r) IN
          /\ 100 * Cardinality({k \in 1 .. n : 100 * values[k] < v}) <= r + 99
          /\ 100 * Cardinality({k \in 1 .. n : 100 * values[k] <= v}) > r - (r % 100)
      BY <2>1, <3>1, RankOf
    <3>3. /\ 100 * Cardinality({k \in 1 .. n : 100 * values[k] < shown[i]}) <= r + 99
          /\ 100 * Cardinality({k \in 1 .. n : 100 * values[k] <= shown[i]}) > r - (r % 100)
      BY <3>1, <3>2, Zenon
    <3> QED BY <3>3 DEF r
  <2>6. ASSUME NEW i \in 1 .. 4 PROVE shown[i] <= shown[i + 1]
    <3>1. i \in 1 .. 5 /\ i + 1 \in 1 .. 5
      OBVIOUS
    <3> DEFINE a == q(i)
               b == q(i + 1)
    <3>2. /\ a \in 0 .. 100 * (n - 1) /\ b \in 0 .. 100 * (n - 1) /\ a <= b
          /\ shown[i] = AtPosition(values, a) /\ shown[i + 1] = AtPosition(values, b)
      BY <2>3, <2>4, <3>1
    <3> HIDE DEF a, b
    <3>3. AtPosition(values, a) <= AtPosition(values, b)
      BY <2>1, <3>2, PositionsAscend
    <3> QED BY <3>2, <3>3
  <2>7. 1 .. Len(Percentiles) - 1 = 1 .. 4
    BY <2>3
  <2> QED BY <2>3, <2>5, <2>6, <2>7, Zenon DEF PercentilesBetweenRanks
<1> QED BY <1>1, AnalysisInvariant, PTL
=============================================================================
