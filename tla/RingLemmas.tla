----------------------------- MODULE RingLemmas -----------------------------
(***************************************************************************)
(* Facts about the operators the models are built from: the ring index     *)
(* arithmetic, for every size n > 1, power of two or not; sequences used   *)
(* as queues and logs; and the least number of a set, which the inductions *)
(* over data go by.                                                        *)
(***************************************************************************)
EXTENDS Ring, SequenceTheorems, WellFoundedInduction, TLAPS

\* Masking leaves an index inside the ring alone.
LEMMA ModSmall ==
  ASSUME NEW n \in Nat \ {0}, NEW x \in 0 .. n-1
  PROVE  x % n = x
OBVIOUS

\* Masking brings an index that ran past the end back to the start.
LEMMA ModWrap ==
  ASSUME NEW n \in Nat \ {0}, NEW x \in n .. 2*n-1
  PROVE  x % n = x - n
OBVIOUS

\* Masking a negative difference (head behind tail) adds the ring size.
LEMMA ModNegative ==
  ASSUME NEW n \in Nat \ {0}, NEW x \in (-n) .. (-1)
  PROVE  x % n = x + n
OBVIOUS

\* The successor index used by both ends of the rings.
LEMMA RingNextValue ==
  ASSUME NEW n \in Nat, n > 1, NEW i \in 0 .. n-1
  PROVE  /\ RingNext(i, n) = IF i = n-1 THEN 0 ELSE i + 1
         /\ RingNext(i, n) \in 0 .. n-1
<1>1. CASE i = n-1
  BY <1>1, i + 1 \in n .. 2*n-1, ModWrap DEF RingNext
<1>2. CASE i # n-1
  BY <1>2, i + 1 \in 0 .. n-1, ModSmall DEF RingNext
<1> QED BY <1>1, <1>2

\* The occupancy used by the full and empty tests.
LEMMA RingCountValue ==
  ASSUME NEW n \in Nat, n > 1, NEW h \in 0 .. n-1, NEW t \in 0 .. n-1
  PROVE  /\ RingCount(h, t, n) = IF h >= t THEN h - t ELSE h - t + n
         /\ RingCount(h, t, n) \in 0 .. n-1
<1>1. CASE h >= t
  BY <1>1, h - t \in 0 .. n-1, ModSmall DEF RingCount
<1>2. CASE h < t
  BY <1>2, h - t \in (-n) .. (-1), ModNegative DEF RingCount
<1> QED BY <1>1, <1>2

\* The test next_head == tail recognises exactly a ring with n - 1 entries.
LEMMA RingFullValue ==
  ASSUME NEW n \in Nat, n > 1, NEW h \in 0 .. n-1, NEW t \in 0 .. n-1
  PROVE  RingFull(h, t, n) <=> RingCount(h, t, n) = n - 1
<1>1. RingNext(h, n) = IF h = n-1 THEN 0 ELSE h + 1
  BY RingNextValue
<1>2. RingCount(h, t, n) = IF h >= t THEN h - t ELSE h - t + n
  BY RingCountValue
<1> QED BY <1>1, <1>2 DEF RingFull

\* Slot of the k-th occupied entry.
LEMMA RingSlotValue ==
  ASSUME NEW n \in Nat, n > 1, NEW t \in 0 .. n-1, NEW k \in 1 .. n
  PROVE  /\ (t + k - 1) % n = IF t + k - 1 >= n THEN t + k - 1 - n ELSE t + k - 1
         /\ (t + k - 1) % n \in 0 .. n-1
<1> DEFINE i == t + k - 1
<1>0. i \in Int /\ i >= 0 /\ i < 2*n
  OBVIOUS
<1> HIDE DEF i
<1>1. CASE i >= n
  <2>1. i \in n .. 2*n-1
    BY <1>0, <1>1
  <2>2. i % n = i - n
    BY <2>1, ModWrap
  <2> QED BY <1>1, <2>1, <2>2 DEF i
<1>2. CASE i < n
  <2>1. i \in 0 .. n-1
    BY <1>0, <1>2
  <2>2. i % n = i
    BY <2>1, ModSmall
  <2> QED BY <1>2, <2>1, <2>2 DEF i
<1> QED BY <1>1, <1>2 DEF i

\* The contents of a ring form a sequence as long as its occupancy.
LEMMA RingContentsType ==
  ASSUME NEW n \in Nat, n > 1, NEW h \in 0 .. n-1, NEW t \in 0 .. n-1,
         NEW S, NEW buf \in [0 .. n-1 -> S]
  PROVE  /\ RingContents(buf, h, t, n) \in Seq(S)
         /\ Len(RingContents(buf, h, t, n)) = RingCount(h, t, n)
<1>1. RingCount(h, t, n) \in 0 .. n-1
  BY RingCountValue
<1>2. \A k \in 1 .. RingCount(h, t, n) : (t + k - 1) % n \in 0 .. n-1
  BY <1>1, RingSlotValue
<1>3. \A k \in 1 .. RingCount(h, t, n) : buf[(t + k - 1) % n] \in S
  BY <1>2
<1> QED BY <1>1, <1>3 DEF RingContents

\* A full ring aside, storing into the slot at head does not disturb what the
\* ring holds: the producer's copy is invisible until it moves head.
LEMMA RingStoreInvisible ==
  ASSUME NEW n \in Nat, n > 1, NEW h \in 0 .. n-1, NEW t \in 0 .. n-1,
         NEW S, NEW buf \in [0 .. n-1 -> S], NEW x
  PROVE  RingContents([buf EXCEPT ![h] = x], h, t, n) = RingContents(buf, h, t, n)
<1> DEFINE c == RingCount(h, t, n)
<1>1. c \in 0 .. n-1 /\ c = IF h >= t THEN h - t ELSE h - t + n
  BY RingCountValue
<1>2. ASSUME NEW k \in 1 .. c
      PROVE  /\ (t + k - 1) % n \in 0 .. n-1
             /\ (t + k - 1) % n # h
  <2>1. k \in 1 .. n
    BY <1>1
  <2>2. /\ (t + k - 1) % n = IF t + k - 1 >= n THEN t + k - 1 - n ELSE t + k - 1
        /\ (t + k - 1) % n \in 0 .. n-1
    BY <2>1, RingSlotValue
  <2> HIDE DEF c
  <2> QED BY <2>1, <2>2, <1>1
<1>3. \A k \in 1 .. c : [buf EXCEPT ![h] = x][(t + k - 1) % n] = buf[(t + k - 1) % n]
  BY <1>2
<1> QED BY <1>3 DEF RingContents

\* Moving head past a stored entry appends it to the contents.
LEMMA RingPublish ==
  ASSUME NEW n \in Nat, n > 1, NEW h \in 0 .. n-1, NEW t \in 0 .. n-1,
         NEW S, NEW buf \in [0 .. n-1 -> S], ~RingFull(h, t, n)
  PROVE  RingContents(buf, RingNext(h, n), t, n)
           = Append(RingContents(buf, h, t, n), buf[h])
<1> DEFINE c == RingCount(h, t, n)
           d == RingCount(RingNext(h, n), t, n)
<1>1. c \in 0 .. n-1 /\ c = IF h >= t THEN h - t ELSE h - t + n
  BY RingCountValue
<1>2. d = c + 1 /\ c < n - 1
  <2>1. RingNext(h, n) \in 0 .. n-1 /\ RingNext(h, n) = IF h = n-1 THEN 0 ELSE h + 1
    BY RingNextValue
  <2>2. d = IF RingNext(h, n) >= t THEN RingNext(h, n) - t ELSE RingNext(h, n) - t + n
    BY <2>1, RingCountValue
  <2>3. c # n - 1
    BY RingFullValue
  <2> HIDE DEF c, d
  <2> QED BY <1>1, <2>1, <2>2, <2>3
<1>3. (t + (c + 1) - 1) % n = h
  <2>1. c + 1 \in 1 .. n
    BY <1>1, <1>2
  <2>2. (t + (c+1) - 1) % n = IF t + (c+1) - 1 >= n THEN t + (c+1) - 1 - n ELSE t + (c+1) - 1
    BY <2>1, RingSlotValue
  <2> HIDE DEF c
  <2> QED BY <2>2, <1>1
<1>4. RingContents(buf, h, t, n) \in Seq(S) /\ Len(RingContents(buf, h, t, n)) = c
  BY RingContentsType
<1> HIDE DEF c, d
<1>5. RingContents(buf, RingNext(h, n), t, n) = [k \in 1 .. c+1 |-> buf[(t + k - 1) % n]]
  BY <1>2 DEF RingContents, d
<1>6. RingContents(buf, h, t, n) = [k \in 1 .. c |-> buf[(t + k - 1) % n]]
  BY DEF RingContents, c
<1>7. Append(RingContents(buf, h, t, n), buf[h])
        = [k \in 1 .. c+1 |-> IF k <= c THEN RingContents(buf, h, t, n)[k] ELSE buf[h]]
  <2> DEFINE q == RingContents(buf, h, t, n)
  <2> HIDE DEF q
  <2>1. q \in Seq(S) /\ Len(q) = c /\ buf[h] \in S
    BY <1>4 DEF q
  <2>2. Append(q, buf[h]) = [k \in 1 .. c+1 |-> IF k <= c THEN q[k] ELSE buf[h]]
    BY <1>1, <2>1
  <2> QED BY <2>2 DEF q
<1>8. \A k \in 1 .. c+1 :
        buf[(t + k - 1) % n] = IF k <= c THEN RingContents(buf, h, t, n)[k] ELSE buf[h]
  <2> SUFFICES ASSUME NEW k \in 1 .. c+1
               PROVE  buf[(t + k - 1) % n]
                        = IF k <= c THEN RingContents(buf, h, t, n)[k] ELSE buf[h]
    OBVIOUS
  <2>1. CASE k <= c
    BY <1>1, <1>6, <2>1
  <2>2. CASE k = c + 1
    BY <1>1, <1>3, <2>2
  <2> QED BY <1>1, <2>1, <2>2
<1> QED BY <1>5, <1>7, <1>8

\* Moving tail past an entry removes the oldest one.
LEMMA RingAdvance ==
  ASSUME NEW n \in Nat, n > 1, NEW h \in 0 .. n-1, NEW t \in 0 .. n-1,
         NEW S, NEW buf \in [0 .. n-1 -> S], h # t
  PROVE  /\ RingContents(buf, h, t, n) # <<>>
         /\ Head(RingContents(buf, h, t, n)) = buf[t]
         /\ RingContents(buf, h, RingNext(t, n), n) = Tail(RingContents(buf, h, t, n))
<1> DEFINE c == RingCount(h, t, n)
           d == RingCount(h, RingNext(t, n), n)
           q == RingContents(buf, h, t, n)
<1>1. c \in 1 .. n-1 /\ c = IF h >= t THEN h - t ELSE h - t + n
  <2>1. /\ RingCount(h, t, n) \in 0 .. n-1
        /\ RingCount(h, t, n) = IF h >= t THEN h - t ELSE h - t + n
    BY RingCountValue
  <2> QED BY <2>1
<1>2. d = c - 1
  <2>1. RingNext(t, n) \in 0 .. n-1 /\ RingNext(t, n) = IF t = n-1 THEN 0 ELSE t + 1
    BY RingNextValue
  <2>2. d = IF h >= RingNext(t, n) THEN h - RingNext(t, n) ELSE h - RingNext(t, n) + n
    BY <2>1, RingCountValue
  <2> HIDE DEF c, d
  <2> QED BY <1>1, <2>1, <2>2
<1>3. q \in Seq(S) /\ Len(q) = c
  BY RingContentsType
<1>4. \A k \in 1 .. d : (RingNext(t, n) + k - 1) % n = (t + (k + 1) - 1) % n
  <2> SUFFICES ASSUME NEW k \in 1 .. d
               PROVE  (RingNext(t, n) + k - 1) % n = (t + (k + 1) - 1) % n
    OBVIOUS
  <2>1. k \in 1 .. n /\ k + 1 \in 1 .. n
    BY <1>1, <1>2
  <2>2. RingNext(t, n) \in 0 .. n-1 /\ RingNext(t, n) = IF t = n-1 THEN 0 ELSE t + 1
    BY RingNextValue
  <2>3. (RingNext(t, n) + k - 1) % n
          = IF RingNext(t, n) + k - 1 >= n THEN RingNext(t, n) + k - 1 - n
            ELSE RingNext(t, n) + k - 1
    BY <2>1, <2>2, RingSlotValue
  <2>4. (t + (k+1) - 1) % n = IF t + (k+1) - 1 >= n THEN t + (k+1) - 1 - n ELSE t + (k+1) - 1
    BY <2>1, RingSlotValue
  <2> QED BY <2>1, <2>2, <2>3, <2>4
<1>5. q = [k \in 1 .. c |-> buf[(t + k - 1) % n]]
  BY DEF RingContents
<1>6. RingContents(buf, h, RingNext(t, n), n)
        = [k \in 1 .. d |-> buf[(RingNext(t, n) + k - 1) % n]]
  BY DEF RingContents
<1>7. (t + 1 - 1) % n = t
  BY ModSmall
<1> HIDE DEF c, d, q
<1>8. q # <<>> /\ Head(q) = q[1] /\ q[1] = buf[t]
  BY <1>1, <1>3, <1>5, <1>7
<1>9. /\ Tail(q) \in Seq(S) /\ Len(Tail(q)) = c - 1
      /\ \A k \in 1 .. c-1 : Tail(q)[k] = q[k+1]
  BY <1>3, <1>8, HeadTailProperties
<1>10. \A k \in 1 .. c-1 : q[k+1] = buf[(RingNext(t, n) + k - 1) % n]
  BY <1>1, <1>2, <1>4, <1>5
<1>11. /\ RingContents(buf, h, RingNext(t, n), n) \in Seq(S)
       /\ Len(RingContents(buf, h, RingNext(t, n), n)) = c - 1
  <2>1. RingNext(t, n) \in 0 .. n-1
    BY RingNextValue
  <2> QED BY <1>2, <2>1, RingContentsType DEF d
<1>12. RingContents(buf, h, RingNext(t, n), n) = Tail(q)
  <2> DEFINE r == RingContents(buf, h, RingNext(t, n), n)
             u == Tail(q)
  <2>1. \A k \in 1 .. c-1 : r[k] = u[k]
    BY <1>2, <1>6, <1>9, <1>10
  <2>2. r \in Seq(S) /\ u \in Seq(S) /\ Len(r) = c - 1 /\ Len(u) = c - 1
    BY <1>9, <1>11
  <2> HIDE DEF r, u
  <2>3. r = u
    BY <2>1, <2>2, SeqEqual
  <2> QED BY <2>3 DEF r, u
<1> QED BY <1>8, <1>12 DEF q

\* Moving the first element of q to the end of p keeps their concatenation.
LEMMA MoveHead ==
  ASSUME NEW S, NEW p \in Seq(S), NEW q \in Seq(S), q # <<>>
  PROVE  Append(p, Head(q)) \o Tail(q) = p \o q
<1>1. /\ Head(q) \in S /\ Head(q) = q[1] /\ Tail(q) \in Seq(S) /\ Len(Tail(q)) = Len(q) - 1
      /\ Len(q) \in Nat /\ Len(q) >= 1
      /\ \A i \in 1 .. Len(Tail(q)) : Tail(q)[i] = q[i+1]
  BY HeadTailProperties
<1> DEFINE a == Append(p, Head(q))
           u == Tail(q)
           l == a \o u
           r == p \o q
<1>2. /\ a \in Seq(S) /\ Len(a) = Len(p) + 1 /\ Len(p) \in Nat
      /\ \A i \in 1 .. Len(p) : a[i] = p[i]
      /\ a[Len(p) + 1] = q[1]
  BY <1>1, AppendProperties
<1> HIDE DEF a, u
<1>3. /\ u \in Seq(S) /\ Len(u) = Len(q) - 1
      /\ \A i \in 1 .. Len(q) - 1 : u[i] = q[i+1]
  BY <1>1 DEF u
<1>4. /\ l \in Seq(S) /\ Len(l) = Len(p) + Len(q)
      /\ \A i \in 1 .. Len(p) + Len(q) : l[i] = IF i <= Len(p) + 1 THEN a[i] ELSE u[i - (Len(p) + 1)]
  <2>1. /\ a \o u \in Seq(S) /\ Len(a \o u) = Len(a) + Len(u)
        /\ \A i \in 1 .. Len(a) + Len(u) : (a \o u)[i] = IF i <= Len(a) THEN a[i] ELSE u[i - Len(a)]
    BY <1>2, <1>3, ConcatProperties
  <2> QED BY <1>1, <1>2, <1>3, <2>1
<1>5. /\ r \in Seq(S) /\ Len(r) = Len(p) + Len(q)
      /\ \A i \in 1 .. Len(p) + Len(q) : r[i] = IF i <= Len(p) THEN p[i] ELSE q[i - Len(p)]
  BY ConcatProperties
<1> HIDE DEF l, r
<1>6. ASSUME NEW i \in 1 .. Len(p) + Len(q)
      PROVE  l[i] = r[i]
  <2>1. CASE i <= Len(p)
    BY <1>2, <1>4, <1>5, <2>1, SMTT(30)
  <2>2. CASE i = Len(p) + 1
    <3>1. i - Len(p) = 1 /\ ~(i <= Len(p)) /\ i <= Len(p) + 1
      BY <1>2, <2>2
    <3>2. l[i] = a[i] /\ a[i] = q[1]
      BY <1>2, <1>4, <2>2, <3>1
    <3>3. r[i] = q[1]
      BY <1>5, <3>1
    <3> QED BY <3>2, <3>3
  <2>3. CASE i > Len(p) + 1
    <3>1. i - (Len(p) + 1) \in 1 .. Len(q) - 1
      BY <1>1, <1>2, <2>3
    <3>2. u[i - (Len(p) + 1)] = q[i - Len(p)]
      BY <1>1, <1>2, <1>3, <3>1, SMTT(30)
    <3> QED BY <1>1, <1>2, <1>4, <1>5, <2>3, <3>2
  <2> QED BY <1>2, <2>1, <2>2, <2>3
<1>7. l = r
  BY <1>4, <1>5, <1>6, SeqEqual
<1> QED BY <1>7 DEF l, r, a, u

\* Appending to the second part of a concatenation appends to the whole.
LEMMA ConcatAppend ==
  ASSUME NEW S, NEW p \in Seq(S), NEW q \in Seq(S), NEW x \in S
  PROVE  p \o Append(q, x) = Append(p \o q, x)
<1>1. <<x>> \in Seq(S)
  OBVIOUS
<1>2. Append(q, x) = q \o <<x>>
  BY AppendIsConcat
<1>3. p \o q \in Seq(S)
  BY ConcatProperties
<1>4. Append(p \o q, x) = (p \o q) \o <<x>>
  BY <1>3, AppendIsConcat
<1>5. (p \o q) \o <<x>> = p \o (q \o <<x>>)
  BY <1>1, ConcatAssociative
<1> QED BY <1>2, <1>4, <1>5

\* What a log holds after one more element; without repetition if it is new.
LEMMA RangeAppend ==
  ASSUME NEW S, NEW s \in Seq(S), NEW x \in S
  PROVE  /\ Range(Append(s, x)) = Range(s) \cup {x}
         /\ IsInjective(s) /\ x \notin Range(s) => IsInjective(Append(s, x))
<1> DEFINE t == Append(s, x)
<1>1. /\ DOMAIN s = 1 .. Len(s) /\ DOMAIN t = 1 .. Len(s) + 1 /\ Len(s) \in Nat
      /\ \A k \in 1 .. Len(s) : t[k] = s[k]
      /\ t[Len(s) + 1] = x
  BY AppendProperties, LenProperties
<1> HIDE DEF t
<1>2. Range(t) = Range(s) \cup {x}
  <2>1. ASSUME NEW y \in Range(t) PROVE y \in Range(s) \cup {x}
    <3>1. PICK k \in 1 .. Len(s) + 1 : y = t[k]
      BY <1>1 DEF Range
    <3>2. k \in 1 .. Len(s) \/ k = Len(s) + 1
      BY <1>1
    <3> QED BY <1>1, <3>1, <3>2 DEF Range
  <2>2. ASSUME NEW y \in Range(s) PROVE y \in Range(t)
    <3>1. PICK k \in 1 .. Len(s) : y = s[k]
      BY <1>1 DEF Range
    <3>2. k \in DOMAIN t /\ t[k] = y
      BY <1>1, <3>1
    <3> QED BY <3>2 DEF Range
  <2>3. x \in Range(t)
    <3>1. Len(s) + 1 \in DOMAIN t
      BY <1>1
    <3> QED BY <1>1, <3>1 DEF Range
  <2> QED BY <2>1, <2>2, <2>3
<1>3. ASSUME IsInjective(s), x \notin Range(s) PROVE IsInjective(t)
  <2>1. \A k \in 1 .. Len(s) : s[k] # x
    BY <1>1, <1>3 DEF Range
  <2>2. SUFFICES ASSUME NEW a \in DOMAIN t, NEW b \in DOMAIN t, t[a] = t[b] PROVE a = b
    BY DEF IsInjective
  <2>3. CASE a \in 1 .. Len(s) /\ b \in 1 .. Len(s)
    BY <1>1, <1>3, <2>2, <2>3 DEF IsInjective
  <2>4. CASE a = Len(s) + 1 \/ b = Len(s) + 1
    BY <1>1, <2>1, <2>2, <2>4
  <2> QED BY <1>1, <2>3, <2>4
<1> QED BY <1>2, <1>3 DEF t

\* What a queue holds before its head is removed.
LEMMA RangeTail ==
  ASSUME NEW S, NEW s \in Seq(S), s # <<>>
  PROVE  /\ Range(s) = Range(Tail(s)) \cup {Head(s)}
         /\ IsInjective(s) => IsInjective(Tail(s)) /\ Head(s) \notin Range(Tail(s))
<1> DEFINE t == Tail(s)
<1>1. /\ DOMAIN s = 1 .. Len(s) /\ DOMAIN t = 1 .. Len(s) - 1 /\ Len(s) \in Nat /\ Len(s) > 0
      /\ \A k \in 1 .. Len(s) - 1 : t[k] = s[k + 1]
      /\ Head(s) = s[1]
  <2>1. Tail(s) \in Seq(S) /\ Len(Tail(s)) = Len(s) - 1
    BY HeadTailProperties
  <2>2. DOMAIN Tail(s) = 1 .. Len(Tail(s)) /\ DOMAIN s = 1 .. Len(s)
    BY <2>1, LenProperties
  <2>3. Len(s) \in Nat \ {0}
    BY EmptySeq
  <2> QED BY <2>1, <2>2, <2>3, HeadTailProperties
<1> HIDE DEF t
<1>2. Range(s) = Range(t) \cup {Head(s)}
  <2>1. ASSUME NEW y \in Range(s) PROVE y \in Range(t) \cup {Head(s)}
    <3>1. PICK k \in 1 .. Len(s) : y = s[k]
      BY <1>1 DEF Range
    <3>2. CASE k = 1
      BY <1>1, <3>1, <3>2
    <3>3. CASE k > 1
      <4>1. k - 1 \in DOMAIN t /\ t[k - 1] = y
        BY <1>1, <3>1, <3>3
      <4> QED BY <4>1 DEF Range
    <3> QED BY <3>2, <3>3
  <2>2. ASSUME NEW y \in Range(t) PROVE y \in Range(s)
    <3>1. PICK k \in 1 .. Len(s) - 1 : y = t[k]
      BY <1>1 DEF Range
    <3>2. k + 1 \in DOMAIN s /\ s[k + 1] = y
      BY <1>1, <3>1
    <3> QED BY <3>2 DEF Range
  <2>3. Head(s) \in Range(s)
    <3>1. 1 \in DOMAIN s
      BY <1>1
    <3> QED BY <1>1, <3>1 DEF Range
  <2> QED BY <2>1, <2>2, <2>3
<1>3. ASSUME IsInjective(s) PROVE IsInjective(t) /\ Head(s) \notin Range(t)
  <2>1. ASSUME NEW a \in DOMAIN t, NEW b \in DOMAIN t, t[a] = t[b] PROVE a = b
    <3>1. a + 1 \in DOMAIN s /\ b + 1 \in DOMAIN s /\ s[a + 1] = s[b + 1]
      BY <1>1, <2>1
    <3> QED BY <1>1, <1>3, <3>1 DEF IsInjective
  <2>2. ASSUME NEW k \in DOMAIN t PROVE t[k] # Head(s)
    <3>1. k + 1 \in DOMAIN s /\ 1 \in DOMAIN s /\ t[k] = s[k + 1] /\ k + 1 # 1
      BY <1>1
    <3> QED BY <1>1, <1>3, <3>1 DEF IsInjective
  <2> QED BY <2>1, <2>2 DEF IsInjective, Range
<1> QED BY <1>2, <1>3 DEF t

\* A log that numbers its elements holds the numbers up to its length.
LEMMA RangeNumbered ==
  ASSUME NEW S, NEW s \in Seq(S), \A k \in 1 .. Len(s) : s[k] = k - 1
  PROVE  Range(s) = 0 .. Len(s) - 1
<1>1. DOMAIN s = 1 .. Len(s) /\ Len(s) \in Nat
  BY LenProperties
<1>2. ASSUME NEW y \in 0 .. Len(s) - 1 PROVE y \in Range(s)
  <2>1. y + 1 \in DOMAIN s /\ s[y + 1] = y
    BY <1>1
  <2> QED BY <2>1 DEF Range
<1>3. ASSUME NEW y \in Range(s) PROVE y \in 0 .. Len(s) - 1
  <2>1. PICK k \in DOMAIN s : y = s[k]
    BY DEF Range
  <2> QED BY <1>1, <2>1
<1> QED BY <1>2, <1>3

\* A function on 1 .. n is a sequence.
LEMMA FunctionIsSeq ==
  ASSUME NEW S, NEW n \in Nat, NEW f \in [1 .. n -> S]
  PROVE  f \in Seq(S) /\ Len(f) = n
OBVIOUS

\* A set of numbers that is not empty has a smallest one.
LEMMA LeastOf ==
  ASSUME NEW T, T \subseteq Nat, T # {}
  PROVE  \E x \in T : \A y \in T : x <= y
<1>1. PICK x \in T : \A y \in T : <<y, x>> \notin OpToRel(<, Nat)
  BY NatLessThanWellFounded, WFMin
<1>2. ASSUME NEW y \in T PROVE x <= y
  <2>1. <<y, x>> \in Nat \X Nat /\ <<y, x>>[1] = y /\ <<y, x>>[2] = x
    OBVIOUS
  <2>2. ~(y < x)
    BY <1>1, <2>1 DEF OpToRel
  <2> QED BY <2>2
<1> QED BY <1>2
=============================================================================
