--------------------------- MODULE DeliveryProofs ---------------------------
(***************************************************************************)
(* Proofs about Delivery, for any sets of consumers and trace ids, any     *)
(* routes, any capacity of the send channels and any number of events.     *)
(***************************************************************************)
EXTENDS Delivery, DedupProofs, FiniteSetTheorems, TLAPS

FrameRecords == {Control} \union [kind : {"event", "dropped"}, n : Nat \ {0}]

PubRecords ==
  [phase : {"idle", "snapshot", "next", "evict", "retry", "drop", "notify", "count"},
   todo : SUBSET Consumers, cur : Consumers \union {Nobody},
   enqueued : BOOLEAN, evicted : BOOLEAN, count : Nat]

WireRecords == [last : Nat, events : Nat, announced : Nat]

Types ==
  /\ DedupTypeOK
  /\ subscribers \subseteq Consumers
  /\ conn \in [Consumers -> {"new", "open", "closed"}]
  /\ sendCh \in [Consumers -> Seq(FrameRecords)]
  /\ inFlight \in [Consumers -> Seq(FrameRecords)]
  /\ \A c \in Consumers : Len(sendCh[c]) <= SendChCap /\ Len(inFlight[c]) <= 1
  /\ received \in [Consumers -> Nat] /\ dropped \in [Consumers -> Nat]
  /\ drops \in [Consumers -> [pending : Nat, throttled : BOOLEAN]]
  /\ wire \in [Consumers -> WireRecords]
  /\ pub \in PubRecords
  /\ emits \in 0..MaxEmits /\ published \in 0..emits

\* The source goroutine: whom it serves and what it knows at each step.
PubMatches ==
  /\ pub.phase \in {"idle", "snapshot"} => pub.todo = {}
  /\ pub.phase \in {"idle", "snapshot", "next"} => pub.cur = Nobody
  /\ pub.phase \in {"evict", "retry", "drop", "notify", "count"} => pub.cur \in pub.todo
  /\ pub.phase = "retry" => HasRoom(pub.cur)
  /\ pub.phase \in {"drop", "notify", "count"} => pub.enqueued
  /\ pub.phase = "drop" => pub.evicted
  /\ pub.phase = "notify" <=> pub.count # 0

\* The event under way has yet to be pushed to c, to cost c a drop, to be
\* counted as received.
ToPush(c) ==
  pub.phase = "snapshot"
    \/ (c \in pub.todo /\ ~(pub.cur = c /\ pub.phase \in {"drop", "notify", "count"}))
ToDrop(c) ==
  pub.phase = "snapshot"
    \/ (c \in pub.todo /\ ~(pub.cur = c /\ pub.phase \in {"notify", "count"}))
ToCount(c) == pub.phase = "snapshot" \/ c \in pub.todo

\* The latest event that was pushed to c.
Top(c) == published - One(ToPush(c))

\* The frames q, in order behind what w says is written and up to event t.
InOrder(q, w, t) ==
  /\ w.events <= w.last /\ w.last <= t
  /\ \A i \in DOMAIN q : q[i].kind = "event" => w.last < q[i].n /\ q[i].n <= t
  /\ \A i, j \in DOMAIN q :
       i < j /\ q[i].kind = "event" /\ q[j].kind = "event" => q[i].n < q[j].n

Ordered(c) == InOrder(Outgoing(c), wire[c], Top(c))

Bounded(c) ==
  /\ dropped[c] + One(ToDrop(c)) <= published
  /\ received[c] + One(ToCount(c)) <= published

NoLoss(c) ==
  Pushed(c) <= wire[c].events + Cardinality(EventsIn(Outgoing(c))) + Evicted(c)

Line(c) == Ordered(c) /\ Bounded(c) /\ NoLoss(c) /\ Accounted(c) <= dropped[c]

DeliveryInv == Types /\ PubMatches /\ \A c \in Consumers : Line(c)

\* The pairs whose number AnnouncedIn is.
Pairs(q) == UNION {{i} \X (1..q[i].n) : i \in {d \in DOMAIN q : q[d].kind = "dropped"}}

\* What a notice adds to the sum.
Weight(f) == IF f.kind = "dropped" THEN f.n ELSE 0

\* q without its frame at p.
Without(q, p) == [i \in 1..(Len(q) - 1) |-> IF i < p THEN q[i] ELSE q[i + 1]]

-----------------------------------------------------------------------------
\* The frames of a connection: what appending one and removing one does to
\* the events among them and to the sum of the notices.

LEMMA EventsAreFinite ==
  ASSUME NEW q \in Seq(FrameRecords)
  PROVE  IsFiniteSet(EventsIn(q)) /\ Cardinality(EventsIn(q)) \in Nat
<1>1. IsFiniteSet(DOMAIN q)
  BY FS_Interval
<1>2. q \in Surjection(DOMAIN q, Range(q))
  BY DEF Surjection, Range
<1>3. IsFiniteSet(Range(q))
  BY <1>1, <1>2, FS_Surjection
<1>4. EventsIn(q) \in SUBSET Range(q)
  BY DEF EventsIn
<1> QED
  BY <1>3, <1>4, FS_Subset, FS_CardinalityType

LEMMA FrameOf ==
  ASSUME NEW q \in Seq(FrameRecords), NEW i \in DOMAIN q
  PROVE  /\ i \in Nat /\ i >= 1 /\ i <= Len(q)
         /\ q[i].n \in Nat /\ q[i] \in FrameRecords /\ Weight(q[i]) \in Nat
<1>1. q[i] \in FrameRecords /\ i \in 1..Len(q) /\ Len(q) \in Nat
  OBVIOUS
<1> QED
  BY <1>1 DEF FrameRecords, Control, Weight

\* A block of pairs has as many elements as its notice announces.
LEMMA BlockSize ==
  ASSUME NEW i, NEW n \in Nat
  PROVE  IsFiniteSet({i} \X (1..n)) /\ Cardinality({i} \X (1..n)) = n
<1>1. IsFiniteSet({i}) /\ Cardinality({i}) = 1
  BY FS_Singleton
<1>2. IsFiniteSet(1..n) /\ Cardinality(1..n) = n
  BY FS_Interval
<1>3. /\ IsFiniteSet({i} \X (1..n))
      /\ Cardinality({i} \X (1..n)) = Cardinality({i}) * Cardinality(1..n)
  BY <1>1, <1>2, FS_Product, Zenon
<1> QED
  BY <1>1, <1>2, <1>3

LEMMA UnionAtMost ==
  ASSUME NEW S, IsFiniteSet(S), NEW T, IsFiniteSet(T)
  PROVE  /\ IsFiniteSet(S \union T)
         /\ Cardinality(S \union T) <= Cardinality(S) + Cardinality(T)
         /\ S \intersect T = {} => Cardinality(S \union T) = Cardinality(S) + Cardinality(T)
<1>1. /\ IsFiniteSet(S \union T)
      /\ Cardinality(S \union T) = Cardinality(S) + Cardinality(T) - Cardinality(S \intersect T)
  BY FS_Union
<1>2. IsFiniteSet(S \intersect T)
  BY FS_Intersection
<1>3. /\ Cardinality(S) \in Nat /\ Cardinality(T) \in Nat
      /\ Cardinality(S \intersect T) \in Nat
  BY <1>2, FS_CardinalityType
<1>4. S \intersect T = {} => Cardinality(S \intersect T) = 0
  BY FS_EmptySet
<1> QED
  BY <1>1, <1>3, <1>4

LEMMA PairsMembers ==
  ASSUME NEW q \in Seq(FrameRecords)
  PROVE  /\ Pairs(q) \subseteq Nat \X Nat
         /\ \A i, j \in Nat : <<i, j>> \in Pairs(q)
              <=> i \in DOMAIN q /\ q[i].kind = "dropped" /\ j \in 1..q[i].n
<1>1. \A i \in DOMAIN q : q[i].n \in Nat /\ i \in Nat
  BY FrameOf
<1> QED
  BY <1>1 DEF Pairs

LEMMA PairsAreFinite ==
  ASSUME NEW q \in Seq(FrameRecords)
  PROVE  IsFiniteSet(Pairs(q)) /\ Cardinality(Pairs(q)) \in Nat
<1> DEFINE D == {d \in DOMAIN q : q[d].kind = "dropped"}
           blocks == {{i} \X (1..q[i].n) : i \in D}
           f == [i \in D |-> {i} \X (1..q[i].n)]
<1>1. IsFiniteSet(D)
  BY FS_Interval, FS_Subset
<1>2. f \in Surjection(D, blocks)
  BY DEF Surjection
<1>3. IsFiniteSet(blocks)
  BY <1>1, <1>2, FS_Surjection
<1>4. \A b \in blocks : IsFiniteSet(b)
  <2> SUFFICES ASSUME NEW b \in blocks PROVE IsFiniteSet(b)
    OBVIOUS
  <2>1. PICK i \in D : b = {i} \X (1..q[i].n)
    OBVIOUS
  <2>2. q[i].n \in Nat
    BY FrameOf
  <2> QED
    BY <2>1, <2>2, BlockSize
<1>5. Pairs(q) = UNION blocks
  BY DEF Pairs
<1> HIDE DEF blocks
<1> QED
  BY <1>3, <1>4, <1>5, FS_UNION, FS_CardinalityType

LEMMA AppendFrame ==
  ASSUME NEW q \in Seq(FrameRecords), NEW f \in FrameRecords
  PROVE  /\ EventsIn(Append(q, f)) = EventsIn(q) \union (IF f.kind = "event" THEN {f} ELSE {})
         /\ Cardinality(Pairs(Append(q, f))) <= Cardinality(Pairs(q)) + Weight(f)
<1> DEFINE a == Append(q, f)
           last == {Len(a)} \X (1..Weight(f))
<1>1. /\ a \in Seq(FrameRecords) /\ DOMAIN a = DOMAIN q \union {Len(q) + 1}
      /\ Len(a) = Len(q) + 1 /\ a[Len(a)] = f /\ \A i \in DOMAIN q : a[i] = q[i]
      /\ Weight(f) \in Nat
  BY DEF Weight, FrameRecords, Control
<1> HIDE DEF a
<1>2. EventsIn(a) = EventsIn(q) \union (IF f.kind = "event" THEN {f} ELSE {})
  BY <1>1 DEF EventsIn, Range
<1>3. Pairs(a) \subseteq Pairs(q) \union last
  BY <1>1 DEF Pairs, Weight
<1>4. /\ IsFiniteSet(Pairs(q) \union last)
      /\ Cardinality(Pairs(q) \union last) <= Cardinality(Pairs(q)) + Weight(f)
  <2>1. IsFiniteSet(Pairs(q)) /\ IsFiniteSet(last) /\ Cardinality(last) = Weight(f)
    BY <1>1, PairsAreFinite, BlockSize
  <2> QED
    BY <2>1, UnionAtMost
<1>5. Cardinality(Pairs(a)) <= Cardinality(Pairs(q) \union last)
  BY <1>3, <1>4, FS_Subset
<1>6. Cardinality(Pairs(q) \union last) \in Nat /\ Cardinality(Pairs(q)) \in Nat
  BY <1>4, PairsAreFinite, FS_CardinalityType
<1>7. Cardinality(Pairs(a)) \in Nat
  BY <1>1, PairsAreFinite
<1> QED
  BY <1>1, <1>2, <1>4, <1>5, <1>6, <1>7 DEF a

LEMMA WithoutIsSeq ==
  ASSUME NEW q \in Seq(FrameRecords), NEW p \in DOMAIN q
  PROVE  /\ Without(q, p) \in Seq(FrameRecords)
         /\ Len(Without(q, p)) = Len(q) - 1
         /\ \A i \in 1..(Len(q) - 1) : Without(q, p)[i] = IF i < p THEN q[i] ELSE q[i + 1]
BY DEF Without

LEMMA RemoveEvents ==
  ASSUME NEW q \in Seq(FrameRecords), NEW p \in DOMAIN q
  PROVE  EventsIn(q) \subseteq EventsIn(Without(q, p))
                               \union (IF q[p].kind = "event" THEN {q[p]} ELSE {})
<1> DEFINE w == Without(q, p)
<1> SUFFICES ASSUME NEW i \in DOMAIN q, q[i].kind = "event", i # p
             PROVE  q[i] \in EventsIn(w)
  BY DEF EventsIn, Range
<1>1. \E j \in DOMAIN w : w[j] = q[i]
  <2>0. /\ DOMAIN w = 1..(Len(q) - 1) /\ Len(q) \in Nat /\ i \in 1..Len(q) /\ p \in 1..Len(q)
        /\ \A j \in 1..(Len(q) - 1) : w[j] = IF j < p THEN q[j] ELSE q[j + 1]
    BY WithoutIsSeq
  <2> HIDE DEF w
  <2>1. CASE i < p
    <3>1. i \in DOMAIN w /\ w[i] = q[i]
      BY <2>0, <2>1
    <3> QED
      BY <3>1
  <2>2. CASE i > p
    <3>1. i - 1 \in DOMAIN w /\ w[i - 1] = q[i]
      BY <2>0, <2>2
    <3> QED
      BY <3>1
  <2> QED
    BY <2>0, <2>1, <2>2
<1> QED
  BY <1>1 DEF EventsIn, Range

\* The number of events: one fewer at most, and none if the frame is none.
LEMMA EventsAfterRemoval ==
  ASSUME NEW q \in Seq(FrameRecords), NEW p \in DOMAIN q
  PROVE  /\ Cardinality(EventsIn(q)) <= Cardinality(EventsIn(Without(q, p))) + 1
         /\ q[p].kind # "event"
              => Cardinality(EventsIn(q)) <= Cardinality(EventsIn(Without(q, p)))
<1> DEFINE E == EventsIn(q)
           W == EventsIn(Without(q, p))
<1>1. /\ IsFiniteSet(E) /\ Cardinality(E) \in Nat
      /\ IsFiniteSet(W) /\ Cardinality(W) \in Nat
  BY WithoutIsSeq, EventsAreFinite
<1>2. E \subseteq W \union {q[p]} /\ (q[p].kind # "event" => E \subseteq W)
  BY RemoveEvents
<1> HIDE DEF E, W
<1>3. IsFiniteSet(W \union {q[p]}) /\ Cardinality(W \union {q[p]}) <= Cardinality(W) + 1
  <2>1. /\ IsFiniteSet(W \union {q[p]})
        /\ Cardinality(W \union {q[p]})
             = IF q[p] \in W THEN Cardinality(W) ELSE Cardinality(W) + 1
    BY <1>1, FS_AddElement
  <2> QED
    BY <1>1, <2>1
<1>4. Cardinality(E) <= Cardinality(W \union {q[p]}) /\ Cardinality(W \union {q[p]}) \in Nat
  BY <1>2, <1>3, FS_Subset, FS_CardinalityType
<1>5. q[p].kind # "event" => Cardinality(E) <= Cardinality(W)
  BY <1>1, <1>2, FS_Subset
<1> QED
  BY <1>1, <1>3, <1>4, <1>5 DEF E, W

LEMMA RemovePairs ==
  ASSUME NEW q \in Seq(FrameRecords), NEW p \in DOMAIN q
  PROVE  Cardinality(Pairs(Without(q, p))) + Weight(q[p]) <= Cardinality(Pairs(q))
<1> DEFINE w == Without(q, p)
           block == {p} \X (1..Weight(q[p]))
           rest == Pairs(q) \ block
           Old(i) == IF i < p THEN i ELSE i + 1
           f == [x \in Pairs(w) |-> <<Old(x[1]), x[2]>>]
<1>1. /\ w \in Seq(FrameRecords) /\ Len(w) = Len(q) - 1
      /\ \A i \in DOMAIN w : Old(i) \in DOMAIN q /\ Old(i) # p /\ w[i] = q[Old(i)]
  <2>1. /\ w \in Seq(FrameRecords) /\ Len(w) = Len(q) - 1 /\ p \in 1..Len(q) /\ Len(q) \in Nat
        /\ \A j \in 1..(Len(q) - 1) : w[j] = IF j < p THEN q[j] ELSE q[j + 1]
    BY WithoutIsSeq
  <2> HIDE DEF w
  <2> QED
    BY <2>1
<1>2. q[p] \in FrameRecords /\ Weight(q[p]) \in Nat
  BY FrameOf
<1> HIDE DEF w
<1>3. \A x \in Pairs(w) : f[x] \in rest
  <2> SUFFICES ASSUME NEW x \in Pairs(w)
               PROVE  f[x] \in rest
    OBVIOUS
  <2>1. PICK i \in Nat, j \in Nat : x = <<i, j>>
    BY <1>1, PairsMembers
  <2>2. i \in DOMAIN w /\ w[i].kind = "dropped" /\ j \in 1..w[i].n
    BY <1>1, <2>1, PairsMembers
  <2>3. f[x] = <<Old(i), j>> /\ Old(i) \in Nat
    BY <2>1
  <2>4. <<Old(i), j>> \in Pairs(q)
    BY <1>1, <2>2, <2>3, PairsMembers
  <2> QED
    BY <1>1, <2>2, <2>3, <2>4
<1>4. f \in Injection(Pairs(w), rest)
  <2>1. ASSUME NEW x \in Pairs(w), NEW y \in Pairs(w), f[x] = f[y]
        PROVE  x = y
    <3>1. PICK i \in Nat, j \in Nat : x = <<i, j>>
      BY <1>1, PairsMembers
    <3>2. PICK k \in Nat, l \in Nat : y = <<k, l>>
      BY <1>1, PairsMembers
    <3> QED
      BY <2>1, <3>1, <3>2
  <2> QED
    BY <1>3, <2>1 DEF Injection, IsInjective
<1>5. IsFiniteSet(rest) /\ IsFiniteSet(block) /\ Cardinality(block) = Weight(q[p])
  BY <1>2, PairsAreFinite, BlockSize, FS_Subset
<1>6. Cardinality(Pairs(w)) <= Cardinality(rest)
  BY <1>4, <1>5, FS_Injection
<1>7. block \subseteq Pairs(q)
  <2>1. ASSUME NEW j \in 1..Weight(q[p])
        PROVE  <<p, j>> \in Pairs(q)
    BY <1>2, PairsMembers DEF Weight
  <2> QED
    BY <2>1
<1>8. Pairs(q) = rest \union block /\ rest \intersect block = {}
  BY <1>7
<1>9. Cardinality(Pairs(q)) = Cardinality(rest) + Cardinality(block)
  BY <1>5, <1>8, UnionAtMost
<1>10. Cardinality(Pairs(w)) \in Nat /\ Cardinality(rest) \in Nat
  BY <1>1, <1>5, PairsAreFinite, FS_CardinalityType
<1> QED
  BY <1>2, <1>5, <1>6, <1>9, <1>10 DEF w

-----------------------------------------------------------------------------
\* Frames that stay in order, when the bound grows, when one leaves and when
\* one joins them.

LEMMA InOrderUpTo ==
  ASSUME NEW q \in Seq(FrameRecords), NEW w \in WireRecords, NEW t \in Int, NEW u \in Int,
         InOrder(q, w, t), t <= u
  PROVE  InOrder(q, w, u)
<1>1. \A i \in DOMAIN q : q[i].n \in Nat
  BY FrameOf
<1>2. w.last \in Nat
  BY DEF WireRecords
<1> QED
  BY <1>1, <1>2 DEF InOrder

LEMMA InOrderWithout ==
  ASSUME NEW q \in Seq(FrameRecords), NEW w \in WireRecords, NEW t \in Int,
         InOrder(q, w, t), NEW p \in DOMAIN q
  PROVE  InOrder(Without(q, p), w, t)
<1> DEFINE r == Without(q, p)
           Old(i) == IF i < p THEN i ELSE i + 1
<1>1. /\ r \in Seq(FrameRecords) /\ Len(r) = Len(q) - 1
      /\ p \in 1..Len(q) /\ Len(q) \in Nat
      /\ \A i \in 1..(Len(q) - 1) : r[i] = IF i < p THEN q[i] ELSE q[i + 1]
  <2>1. p \in 1..Len(q) /\ Len(q) \in Nat
    OBVIOUS
  <2> QED
    BY <2>1, WithoutIsSeq
<1> HIDE DEF r
<1>2. \A i \in DOMAIN r : Old(i) \in DOMAIN q /\ r[i] = q[Old(i)]
  BY <1>1
<1>3. \A i, j \in DOMAIN r : i < j => Old(i) < Old(j)
  BY <1>1
<1> HIDE DEF Old
<1>4. InOrder(r, w, t)
  BY <1>2, <1>3 DEF InOrder
<1> QED
  BY <1>4 DEF r

LEMMA InOrderAppend ==
  ASSUME NEW q \in Seq(FrameRecords), NEW w \in WireRecords, NEW t \in Int, NEW u \in Int,
         InOrder(q, w, t), t <= u,
         NEW f \in FrameRecords, f.kind = "event" => f.n = u /\ t < u
  PROVE  InOrder(Append(q, f), w, u)
<1> DEFINE a == Append(q, f)
           k == Len(q) + 1
<1>1. /\ DOMAIN a = DOMAIN q \union {k} /\ a[k] = f
      /\ \A i \in DOMAIN q : a[i] = q[i]
  OBVIOUS
<1>2. \A i \in DOMAIN q : i < k /\ i \in Nat
  OBVIOUS
<1>3. k \in Nat /\ ~(k < k)
  OBVIOUS
<1>4. \A i \in DOMAIN q : q[i].n \in Nat
  BY FrameOf
<1>5. w.last \in Nat /\ f.n \in Nat
  BY DEF WireRecords, FrameRecords, Control
<1> HIDE DEF a, k
<1>6. w.events <= w.last /\ w.last <= u
  BY <1>5 DEF InOrder, WireRecords
<1>7. \A i \in DOMAIN a : a[i].kind = "event" => w.last < a[i].n /\ a[i].n <= u
  BY <1>1, <1>4, <1>5 DEF InOrder
<1>8. \A i, j \in DOMAIN a :
        i < j /\ a[i].kind = "event" /\ a[j].kind = "event" => a[i].n < a[j].n
  BY <1>1, <1>2, <1>3, <1>4, <1>5 DEF InOrder
<1> QED
  BY <1>6, <1>7, <1>8 DEF InOrder, a

\* The first frame is written.
LEMMA InOrderWritten ==
  ASSUME NEW q \in Seq(FrameRecords), NEW w \in WireRecords, NEW t \in Int,
         InOrder(q, w, t), 1 \in DOMAIN q, q[1].kind = "event",
         NEW v \in WireRecords, v.last = q[1].n, v.events = w.events + 1
  PROVE  InOrder(Without(q, 1), v, t)
<1> DEFINE r == Without(q, 1)
<1>1. InOrder(r, w, t)
  BY InOrderWithout
<1>2. /\ r \in Seq(FrameRecords) /\ Len(r) = Len(q) - 1 /\ Len(q) \in Nat
      /\ \A i \in 1..(Len(q) - 1) : r[i] = IF i < 1 THEN q[i] ELSE q[i + 1]
  BY WithoutIsSeq
<1> HIDE DEF r
<1>3. \A i \in DOMAIN r : i + 1 \in DOMAIN q /\ 1 < i + 1 /\ r[i] = q[i + 1]
  BY <1>2
<1>4. /\ q[1].n \in Nat /\ w.last \in Nat /\ w.events \in Nat
      /\ w.events <= w.last /\ w.last < q[1].n /\ q[1].n <= t
  BY FrameOf DEF InOrder, WireRecords
<1>5. InOrder(r, v, t)
  BY <1>1, <1>3, <1>4 DEF InOrder
<1> QED
  BY <1>5 DEF r

-----------------------------------------------------------------------------
\* What the channel operations do to the frames on their way to a connection.

LEMMA OutgoingType ==
  ASSUME Types, NEW c \in Consumers
  PROVE  /\ inFlight[c] \in Seq(FrameRecords) /\ sendCh[c] \in Seq(FrameRecords)
         /\ Outgoing(c) \in Seq(FrameRecords)
         /\ Len(Outgoing(c)) = Len(inFlight[c]) + Len(sendCh[c])
BY DEF Types, Outgoing

LEMMA OneFrame ==
  ASSUME NEW s \in Seq(FrameRecords), s # <<>>, Len(s) <= 1
  PROVE  Len(s) = 1 /\ Head(s) \in FrameRecords
<1>1. Len(s) \in Nat /\ Len(s) # 0
  OBVIOUS
<1>2. Len(s) = 1
  <2>1. \A n \in Nat : n # 0 /\ n <= 1 => n = 1
    OBVIOUS
  <2> QED
    BY <1>1, <2>1, Zenon
<1>3. Head(s) = s[1] /\ 1 \in DOMAIN s
  BY <1>1
<1> QED
  BY <1>2, <1>3

LEMMA OutgoingAppend ==
  ASSUME NEW a \in Seq(FrameRecords), NEW b \in Seq(FrameRecords), NEW f \in FrameRecords
  PROVE  a \o Append(b, f) = Append(a \o b, f)
OBVIOUS

LEMMA OutgoingTake ==
  ASSUME NEW b \in Seq(FrameRecords), b # <<>>
  PROVE  <<Head(b)>> \o Tail(b) = <<>> \o b
OBVIOUS

LEMMA Concatenation ==
  ASSUME NEW a \in Seq(FrameRecords), NEW b \in Seq(FrameRecords)
  PROVE  /\ a \o b \in Seq(FrameRecords) /\ Len(a) \in Nat /\ Len(b) \in Nat
         /\ Len(a \o b) = Len(a) + Len(b)
         /\ \A i \in 1..Len(a) : (a \o b)[i] = a[i]
         /\ \A i \in 1..Len(b) : (a \o b)[Len(a) + i] = b[i]
OBVIOUS

LEMMA OutgoingWrite ==
  ASSUME NEW a \in Seq(FrameRecords), NEW b \in Seq(FrameRecords), Len(a) = 1
  PROVE  /\ <<>> \o b = Without(a \o b, 1)
         /\ 1 \in DOMAIN (a \o b) /\ (a \o b)[1] = Head(a)
<1> DEFINE r == Without(a \o b, 1)
<1>1. /\ a \o b \in Seq(FrameRecords) /\ Len(a \o b) = 1 + Len(b) /\ Len(b) \in Nat
      /\ \A i \in 1..Len(b) : (a \o b)[i + 1] = b[i]
  <2> DEFINE q == a \o b
  <2>1. /\ q \in Seq(FrameRecords) /\ Len(q) = Len(a) + Len(b) /\ Len(b) \in Nat
        /\ \A i \in 1..Len(b) : q[Len(a) + i] = b[i]
    BY Concatenation
  <2> HIDE DEF q
  <2>2. ASSUME NEW i \in 1..Len(b)
        PROVE  q[i + 1] = b[i]
    <3>1. Len(a) + i = i + 1
      BY <2>1
    <3> QED
      BY <2>1, <3>1
  <2> QED
    BY <2>1, <2>2 DEF q
<1>4. 1 \in DOMAIN (a \o b) /\ (a \o b)[1] = Head(a)
  <2>1. (a \o b)[1] = a[1]
    <3>1. 1 \in 1..Len(a) /\ \A i \in 1..Len(a) : (a \o b)[i] = a[i]
      BY Concatenation
    <3> QED
      BY <3>1
  <2> QED
    BY <1>1, <2>1
<1>2. r \in Seq(FrameRecords) /\ Len(r) = Len(b) /\ \A i \in 1..Len(b) : r[i] = b[i]
  <2>1. /\ r \in Seq(FrameRecords) /\ Len(r) = Len(a \o b) - 1
        /\ \A i \in 1..(Len(a \o b) - 1) :
             r[i] = IF i < 1 THEN (a \o b)[i] ELSE (a \o b)[i + 1]
    BY <1>1, <1>4, WithoutIsSeq, Zenon
  <2> HIDE DEF r
  <2> QED
    BY <1>1, <2>1
<1> HIDE DEF r
<1>3. <<>> \o b = b /\ b = r
  BY <1>1, <1>2
<1> QED
  BY <1>3, <1>4 DEF r

LEMMA OutgoingEvict ==
  ASSUME NEW a \in Seq(FrameRecords), NEW b \in Seq(FrameRecords), b # <<>>
  PROVE  /\ a \o Tail(b) = Without(a \o b, Len(a) + 1)
         /\ Len(a) + 1 \in DOMAIN (a \o b)
<1>1. Len(b) \in Nat \ {0} /\ Tail(b) \in Seq(FrameRecords) /\ Len(Tail(b)) = Len(b) - 1
      /\ Len(a) \in Nat /\ Len(a \o b) = Len(a) + Len(b)
      /\ \A i \in 1..Len(Tail(b)) : Tail(b)[i] = b[i + 1]
  OBVIOUS
<1> DEFINE l == a \o Tail(b)
           r == Without(a \o b, Len(a) + 1)
<1>2. l \in Seq(FrameRecords) /\ Len(l) = Len(a) + Len(b) - 1
  BY <1>1
<1>3. r \in Seq(FrameRecords) /\ Len(r) = Len(a) + Len(b) - 1
  <2>1. a \o b \in Seq(FrameRecords) /\ Len(a) + 1 \in DOMAIN (a \o b)
    BY <1>1
  <2> QED
    <3>1. r \in Seq(FrameRecords) /\ Len(r) = Len(a \o b) - 1
      BY <2>1, WithoutIsSeq, Zenon
    <3> QED
      BY <1>1, <3>1
<1>4. ASSUME NEW i \in 1..(Len(a) + Len(b) - 1)
      PROVE  l[i] = r[i]
  BY <1>1 DEF Without
<1> HIDE DEF l, r
<1>5. l = r
  BY <1>1, <1>2, <1>3, <1>4
<1> QED
  BY <1>1, <1>5 DEF l, r

-----------------------------------------------------------------------------
\* The line of one consumer when a step touches it.

\* The count of the notice under way to c.
Noticing(c) == IF pub.cur = c THEN pub.count ELSE 0

Numbers(c) ==
  /\ wire[c] \in WireRecords
  /\ received[c] \in Nat /\ dropped[c] \in Nat /\ drops[c].pending \in Nat
  /\ published \in Nat /\ Noticing(c) \in Nat /\ Top(c) \in Int
  /\ Outgoing(c) \in Seq(FrameRecords)
  /\ Cardinality(EventsIn(Outgoing(c))) \in Nat
  /\ AnnouncedIn(Outgoing(c)) = Cardinality(Pairs(Outgoing(c)))
  /\ AnnouncedIn(Outgoing(c)) \in Nat
  /\ Accounted(c) = wire[c].announced + AnnouncedIn(Outgoing(c)) + drops[c].pending + Noticing(c)
  /\ Pushed(c) \in Nat /\ Evicted(c) \in Nat

LEMMA NumbersNow ==
  ASSUME Types, NEW c \in Consumers
  PROVE  Numbers(c)
<1>1. Outgoing(c) \in Seq(FrameRecords)
  BY OutgoingType
<1>2. AnnouncedIn(Outgoing(c)) = Cardinality(Pairs(Outgoing(c)))
  BY DEF AnnouncedIn, Pairs
<1>3. /\ wire[c] \in WireRecords
      /\ received[c] \in Nat /\ dropped[c] \in Nat /\ drops[c].pending \in Nat
  BY DEF Types
<1>4. published \in Nat /\ pub.count \in Nat
  <2>1. emits \in Nat
    BY DeliveryAssumption DEF Types
  <2> QED
    BY <2>1 DEF Types, PubRecords
<1>5. Top(c) \in Int /\ Pushed(c) \in Nat /\ Evicted(c) \in Nat /\ Noticing(c) \in Nat
  BY <1>3, <1>4 DEF Top, One, Pushed, Evicted, Noticing
<1>6. Accounted(c) = wire[c].announced + AnnouncedIn(Outgoing(c)) + drops[c].pending + Noticing(c)
  BY DEF Accounted, Noticing
<1> QED
  BY <1>1, <1>2, <1>3, <1>4, <1>5, <1>6, EventsAreFinite, PairsAreFinite DEF Numbers

LEMMA NumbersNext ==
  ASSUME Types', NEW c \in Consumers
  PROVE  Numbers(c)'
<1>1. Outgoing(c)' \in Seq(FrameRecords)
  BY DEF Types, Outgoing
<1>2. AnnouncedIn(Outgoing(c))' = Cardinality(Pairs(Outgoing(c)'))
  BY DEF AnnouncedIn, Pairs
<1>3. /\ wire'[c] \in WireRecords
      /\ received'[c] \in Nat /\ dropped'[c] \in Nat /\ drops'[c].pending \in Nat
  BY DEF Types
<1>4. published' \in Nat /\ pub'.count \in Nat
  <2>1. emits' \in Nat
    BY DeliveryAssumption DEF Types
  <2> QED
    BY <2>1 DEF Types, PubRecords
<1>5. Top(c)' \in Int /\ Pushed(c)' \in Nat /\ Evicted(c)' \in Nat /\ Noticing(c)' \in Nat
  BY <1>3, <1>4 DEF Top, One, Pushed, Evicted, Noticing
<1>6. Accounted(c)' = wire'[c].announced + AnnouncedIn(Outgoing(c))' + drops'[c].pending + Noticing(c)'
  BY DEF Accounted, Noticing
<1> QED
  BY <1>1, <1>2, <1>3, <1>4, <1>5, <1>6, EventsAreFinite, PairsAreFinite DEF Numbers

\* What neither drops nor announces nor pushes anything keeps the account.
LEMMA LineStays ==
  ASSUME Types, Types', NEW c \in Consumers, Line(c), Outgoing(c)' = Outgoing(c),
         wire'[c] = wire[c], received'[c] = received[c], dropped'[c] = dropped[c],
         drops'[c].pending = drops[c].pending, Top(c) <= Top(c)', Bounded(c)',
         Pushed(c)' = Pushed(c), Evicted(c)' = Evicted(c), Noticing(c)' = Noticing(c)
  PROVE  Line(c)'
<1>1. Numbers(c) /\ Numbers(c)'
  BY NumbersNow, NumbersNext
<1>2. Ordered(c)'
  BY <1>1, InOrderUpTo DEF Line, Ordered, Numbers
<1>3. NoLoss(c)'
  BY DEF Line, NoLoss
<1>4. Accounted(c)' <= dropped'[c]
  BY <1>1 DEF Line, Numbers, AnnouncedIn
<1> QED
  BY <1>2, <1>3, <1>4 DEF Line

\* A step in which the publisher does nothing.
LEMMA LineWithoutPublisher ==
  ASSUME Types, Types', NEW c \in Consumers, Line(c), Outgoing(c)' = Outgoing(c),
         wire'[c] = wire[c], received'[c] = received[c], dropped'[c] = dropped[c],
         drops'[c].pending = drops[c].pending, UNCHANGED <<pub, published>>
  PROVE  Line(c)'
<1>1. /\ Top(c)' = Top(c) /\ Bounded(c)' = Bounded(c) /\ Pushed(c)' = Pushed(c)
      /\ Evicted(c)' = Evicted(c) /\ Noticing(c)' = Noticing(c)
  BY DEF Top, ToPush, Bounded, ToDrop, ToCount, Pushed, Evicted, Noticing
<1>2. Top(c) \in Int
  BY NumbersNow DEF Numbers, Top
<1>3. Top(c) <= Top(c)' /\ Bounded(c)'
  BY <1>1, <1>2 DEF Line
<1> QED
  BY <1>1, <1>3, LineStays, Zenon

\* A step of the publisher that serves c leaves the lines of the others alone.
LEMMA OtherLines ==
  ASSUME DeliveryInv, Types', NEW c \in Consumers, NEW d \in Consumers, d # c,
         pub.phase \notin {"idle", "snapshot"}, pub'.phase # "snapshot",
         pub.cur # d, pub'.cur # d, d \in pub'.todo <=> d \in pub.todo,
         Outgoing(d)' = Outgoing(d),
         wire'[d] = wire[d], received'[d] = received[d], dropped'[d] = dropped[d],
         drops'[d].pending = drops[d].pending, UNCHANGED published
  PROVE  Line(d)'
<1>1. /\ ToPush(d)' = ToPush(d) /\ ToDrop(d)' = ToDrop(d) /\ ToCount(d)' = ToCount(d)
  BY DEF ToPush, ToDrop, ToCount
<1>2. /\ Top(d)' = Top(d) /\ Bounded(d)' = Bounded(d) /\ Pushed(d)' = Pushed(d)
      /\ Evicted(d)' = Evicted(d) /\ Noticing(d)' = Noticing(d)
  BY <1>1 DEF Top, Bounded, Pushed, Evicted, Noticing
<1>3. Types /\ Line(d)
  BY DEF DeliveryInv
<1>4. Top(d) \in Int
  BY <1>3, NumbersNow DEF Numbers, Top
<1>5. Top(d) <= Top(d)' /\ Bounded(d)'
  BY <1>2, <1>3, <1>4 DEF Line
<1> QED
  BY <1>2, <1>3, <1>5, LineStays, Zenon

\* What the publisher knows stays true while it does nothing.
LEMMA PubUntouched ==
  ASSUME PubMatches, UNCHANGED pub,
         pub.phase = "retry" => HasRoom(pub.cur)'
  PROVE  PubMatches'
BY DEF PubMatches

-----------------------------------------------------------------------------
\* Connections and senders.

LEMMA ConnectionFits ==
  ASSUME DeliveryInv, NEW c \in Consumers, Register(c) \/ Close(c) \/ IntervalElapses(c)
  PROVE  DeliveryInv'
<1>1. /\ UNCHANGED <<sendCh, inFlight, received, dropped, wire, pub, published>>
      /\ \A d \in Consumers : drops'[d].pending = drops[d].pending
      /\ Types'
  <2>1. CASE Register(c)
    BY <2>1 DEF Register, countVars, boundVars, dedupVars, DeliveryInv, Types, DedupTypeOK
  <2>2. CASE Close(c)
    BY <2>2 DEF Close, countVars, boundVars, dedupVars, DeliveryInv, Types, DedupTypeOK
  <2>3. CASE IntervalElapses(c)
    <3>1. drops' = [drops EXCEPT ![c].throttled = FALSE]
      BY <2>3 DEF IntervalElapses
    <3>2. /\ drops' \in [Consumers -> [pending : Nat, throttled : BOOLEAN]]
          /\ \A d \in Consumers : drops'[d].pending = drops[d].pending
      BY <3>1 DEF DeliveryInv, Types
    <3> QED
      BY <2>3, <3>2 DEF IntervalElapses, connVars, boundVars, dedupVars, DeliveryInv, Types,
                        DedupTypeOK
  <2> QED
    BY <2>1, <2>2, <2>3
<1>2. Types'
  BY <1>1
<1>3. PubMatches'
  BY <1>1 DEF DeliveryInv, PubMatches, HasRoom
<1>4. \A d \in Consumers : Outgoing(d)' = Outgoing(d)
  BY <1>1 DEF Outgoing
<1>5. \A d \in Consumers : Line(d)'
  BY <1>1, <1>2, <1>4, LineWithoutPublisher DEF DeliveryInv
<1> QED
  BY <1>2, <1>3, <1>5 DEF DeliveryInv

LEMMA SenderTakeFits ==
  ASSUME DeliveryInv, NEW c \in Consumers, SenderTake(c)
  PROVE  DeliveryInv'
<1>1. /\ inFlight[c] = <<>> /\ sendCh[c] # <<>>
      /\ inFlight' = [inFlight EXCEPT ![c] = <<Head(sendCh[c])>>]
      /\ sendCh' = [sendCh EXCEPT ![c] = Tail(sendCh[c])]
      /\ UNCHANGED <<subscribers, conn, received, dropped, drops, wire, pub, emits, published>>
      /\ UNCHANGED dedupVars
  BY DEF SenderTake, connVars, countVars, boundVars
<1>2. /\ sendCh[c] \in Seq(FrameRecords) /\ Tail(sendCh[c]) \in Seq(FrameRecords)
      /\ Len(Tail(sendCh[c])) <= SendChCap /\ Len(Tail(sendCh[c])) <= Len(sendCh[c])
      /\ <<Head(sendCh[c])>> \in Seq(FrameRecords) /\ Len(<<Head(sendCh[c])>>) = 1
      /\ Len(sendCh[c]) \in Nat /\ Len(Tail(sendCh[c])) \in Nat /\ SendChCap \in Nat
  BY <1>1, DeliveryAssumption DEF DeliveryInv, Types
<1>3. Types'
  BY SMTT(30), <1>1, <1>2 DEF DeliveryInv, Types, dedupVars, DedupTypeOK
<1>4. PubMatches'
  <2>1. pub.phase = "retry" => HasRoom(pub.cur)'
    BY <1>1, <1>2 DEF DeliveryInv, Types, PubMatches, HasRoom
  <2> QED
    BY <1>1, <2>1, PubUntouched DEF DeliveryInv
<1>5. \A d \in Consumers : Outgoing(d)' = Outgoing(d)
  BY <1>1, <1>2, OutgoingTake DEF Outgoing, DeliveryInv, Types
<1>6. \A d \in Consumers : Line(d)'
  BY <1>1, <1>3, <1>5, LineWithoutPublisher DEF DeliveryInv
<1> QED
  BY <1>3, <1>4, <1>6 DEF DeliveryInv

LEMMA SenderWriteFits ==
  ASSUME DeliveryInv, NEW c \in Consumers, SenderWrite(c)
  PROVE  DeliveryInv'
<1> DEFINE f == Head(inFlight[c])
           q == Outgoing(c)
<1>1. /\ inFlight[c] # <<>> /\ inFlight' = [inFlight EXCEPT ![c] = <<>>]
      /\ UNCHANGED <<subscribers, conn, sendCh, received, dropped, drops, pub, emits, published>>
      /\ UNCHANGED dedupVars
      /\ wire' = CASE f.kind = "event" ->
                        [wire EXCEPT ![c].last = f.n, ![c].events = @ + 1]
                   [] f.kind = "dropped" ->
                        [wire EXCEPT ![c].announced = @ + f.n]
                   [] OTHER -> wire
  BY DEF SenderWrite, connVars, countVars, boundVars
<1>2. /\ inFlight[c] \in Seq(FrameRecords) /\ Len(inFlight[c]) = 1 /\ f \in FrameRecords
      /\ sendCh[c] \in Seq(FrameRecords) /\ f.n \in Nat
  <2>1. /\ inFlight[c] \in Seq(FrameRecords) /\ Len(inFlight[c]) <= 1
        /\ sendCh[c] \in Seq(FrameRecords)
    BY DEF DeliveryInv, Types
  <2>2. Len(inFlight[c]) = 1 /\ f \in FrameRecords
    BY <1>1, <2>1, OneFrame
  <2>3. f.n \in Nat
    BY <2>2 DEF FrameRecords, Control
  <2> QED
    BY <2>1, <2>2, <2>3
<1> HIDE DEF f
<1>3. Numbers(c) /\ wire[c] \in WireRecords
  BY NumbersNow DEF DeliveryInv, Numbers
<1>4. PICK v \in WireRecords :
        /\ wire' = [wire EXCEPT ![c] = v]
        /\ IF f.kind = "event" THEN v.last = f.n /\ v.events = wire[c].events + 1
           ELSE v.last = wire[c].last /\ v.events = wire[c].events
        /\ v.announced = wire[c].announced + Weight(f)
  <2>1. f.kind \in {"event", "dropped", "control"}
    BY <1>2 DEF FrameRecords, Control
  <2>2. CASE f.kind = "event"
    <3> DEFINE v == [wire[c] EXCEPT !.last = f.n, !.events = @ + 1]
    <3>1. /\ v \in WireRecords /\ v.last = f.n /\ v.events = wire[c].events + 1
          /\ v.announced = wire[c].announced /\ wire[c].announced \in Nat
      <4>1. wire[c].events \in Nat /\ wire[c].announced \in Nat /\ wire[c].events + 1 \in Nat
        BY <1>3 DEF WireRecords
      <4>2. v = [wire[c] EXCEPT !.last = f.n, !.events = wire[c].events + 1]
        OBVIOUS
      <4> HIDE DEF v
      <4> QED
        BY <1>2, <1>3, <4>1, <4>2 DEF WireRecords
    <3>3. Weight(f) = 0
      BY <2>2 DEF Weight
    <3>2. wire' = [wire EXCEPT ![c] = v]
      BY <1>1, <1>3, <2>2 DEF WireRecords, DeliveryInv, Types
    <3>4. v.announced = wire[c].announced + Weight(f)
      BY <3>1, <3>3
    <3> HIDE DEF v
    <3> QED
      BY <2>2, <3>1, <3>2, <3>4
  <2>3. CASE f.kind = "dropped"
    <3> DEFINE v == [wire[c] EXCEPT !.announced = @ + f.n]
    <3>1. /\ v \in WireRecords /\ v.last = wire[c].last /\ v.events = wire[c].events
          /\ v.announced = wire[c].announced + f.n /\ Weight(f) = f.n
      BY <1>2, <1>3, <2>3 DEF WireRecords, Weight
    <3>2. wire' = [wire EXCEPT ![c] = v]
      BY <1>1, <1>3, <2>3 DEF WireRecords, DeliveryInv, Types
    <3> QED
      BY <2>3, <3>1, <3>2
  <2>4. CASE f.kind = "control"
    <3>1. wire' = [wire EXCEPT ![c] = wire[c]] /\ Weight(f) = 0
      BY <1>1, <2>4 DEF Weight, DeliveryInv, Types
    <3>2. wire[c].announced = wire[c].announced + Weight(f)
      BY <1>3, <3>1 DEF WireRecords
    <3> QED
      BY <1>3, <2>4, <3>1, <3>2
  <2> QED
    BY <2>1, <2>2, <2>3, <2>4
<1>5. Types'
  <2>1. <<>> \in Seq(FrameRecords) /\ Len(<<>>) <= 1
    OBVIOUS
  <2> QED
    BY <1>1, <1>4, <2>1 DEF DeliveryInv, Types, dedupVars, DedupTypeOK
<1>6. PubMatches'
  BY <1>1 DEF DeliveryInv, PubMatches, HasRoom
<1>7. ASSUME NEW d \in Consumers, d # c
      PROVE  Line(d)'
  <2>1. Outgoing(d)' = Outgoing(d) /\ wire'[d] = wire[d]
    BY <1>1, <1>4, <1>7 DEF Outgoing, DeliveryInv, Types
  <2> QED
    BY <1>1, <1>5, <2>1, LineWithoutPublisher DEF DeliveryInv
<1>8. Line(c)'
  <2>1. /\ q \in Seq(FrameRecords) /\ Outgoing(c)' = Without(q, 1)
        /\ 1 \in DOMAIN q /\ q[1] = f
    BY <1>1, <1>2, <1>3, OutgoingWrite DEF f, Outgoing, Numbers, DeliveryInv, Types
  <2>2. wire'[c] = v /\ Numbers(c)'
    BY <1>4, <1>5, NumbersNext DEF DeliveryInv, Types
  <2>3. /\ Top(c)' = Top(c) /\ Bounded(c)' = Bounded(c) /\ Pushed(c)' = Pushed(c)
        /\ Evicted(c)' = Evicted(c) /\ Noticing(c)' = Noticing(c)
    BY <1>1 DEF Top, ToPush, Bounded, ToDrop, ToCount, Pushed, Evicted, Noticing
  <2>4. Line(c) /\ Top(c) \in Int
    BY <1>3 DEF DeliveryInv, Numbers
  <2>5. Ordered(c)'
    <3>1. InOrder(q, wire[c], Top(c))
      BY <2>4 DEF Line, Ordered
    <3>2. CASE f.kind = "event"
      BY <1>3, <1>4, <2>1, <2>2, <2>3, <2>4, <3>1, <3>2, InOrderWritten DEF Ordered
    <3>3. CASE f.kind # "event"
      <4>1. InOrder(Without(q, 1), wire[c], Top(c))
        BY <1>3, <2>1, <2>4, <3>1, InOrderWithout
      <4> QED
        BY <1>4, <2>1, <2>2, <2>3, <3>3, <4>1 DEF Ordered, InOrder
    <3> QED
      BY <3>2, <3>3
  <2>6. NoLoss(c)'
    <3> DEFINE E == Cardinality(EventsIn(q))
               W == Cardinality(EventsIn(Outgoing(c)'))
    <3>1. /\ E <= W + 1 /\ (f.kind # "event" => E <= W)
      BY <2>1, EventsAfterRemoval
    <3>2. /\ Pushed(c) <= wire[c].events + E + Evicted(c)
          /\ E \in Nat /\ W \in Nat /\ wire[c].events \in Nat
          /\ Pushed(c) \in Nat /\ Evicted(c) \in Nat
      BY <1>3, <2>2, <2>4 DEF Line, NoLoss, Numbers, WireRecords
    <3> HIDE DEF E, W
    <3>3. Pushed(c) <= v.events + W + Evicted(c)
      BY <1>4, <3>1, <3>2
    <3> QED
      BY <2>2, <2>3, <3>3 DEF NoLoss, W
  <2>7. Accounted(c)' <= dropped'[c]
    <3>1. Cardinality(Pairs(Outgoing(c)')) + Weight(f) <= Cardinality(Pairs(q))
      BY <2>1, RemovePairs
    <3>2. Weight(f) \in Nat
      BY <2>1, FrameOf
    <3>3. Accounted(c) <= dropped[c] /\ dropped'[c] = dropped[c] /\ drops'[c] = drops[c]
      BY <1>1, <2>4 DEF Line
    <3>4. /\ Accounted(c) = wire[c].announced + Cardinality(Pairs(q)) + drops[c].pending + Noticing(c)
          /\ Accounted(c)' = v.announced + Cardinality(Pairs(Outgoing(c)')) + drops[c].pending + Noticing(c)
          /\ wire[c].announced \in Nat /\ drops[c].pending \in Nat /\ Noticing(c) \in Nat
          /\ Cardinality(Pairs(q)) \in Nat /\ Cardinality(Pairs(Outgoing(c)')) \in Nat
          /\ dropped[c] \in Nat
      BY <1>3, <2>2, <2>3, <3>3 DEF Numbers, WireRecords
    <3> QED
      BY <1>4, <3>1, <3>2, <3>3, <3>4
  <2> QED
    BY <2>3, <2>4, <2>5, <2>6, <2>7 DEF Line
<1> QED
  BY <1>5, <1>6, <1>7, <1>8 DEF DeliveryInv

-----------------------------------------------------------------------------
\* The arithmetic of the account of c: of events,
LEMMA LossBalance ==
  ASSUME Types, Types', NEW c \in Consumers, Line(c), wire'[c] = wire[c],
         Pushed(c)' + Cardinality(EventsIn(Outgoing(c))) + Evicted(c)
           <= Pushed(c) + Cardinality(EventsIn(Outgoing(c)')) + Evicted(c)'
  PROVE  NoLoss(c)'
<1> DEFINE e == Cardinality(EventsIn(Outgoing(c)))
           f == Cardinality(EventsIn(Outgoing(c)'))
<1>1. Numbers(c) /\ Numbers(c)'
  BY NumbersNow, NumbersNext
<1>2. /\ e \in Nat /\ f \in Nat /\ wire[c].events \in Nat
      /\ Pushed(c) \in Nat /\ Pushed(c)' \in Nat /\ Evicted(c) \in Nat /\ Evicted(c)' \in Nat
  BY <1>1 DEF Numbers, WireRecords
<1>3. Pushed(c) <= wire[c].events + e + Evicted(c)
  BY DEF Line, NoLoss
<1>4. Pushed(c)' + e + Evicted(c) <= Pushed(c) + f + Evicted(c)'
  OBVIOUS
<1> HIDE DEF e, f
<1>5. Pushed(c)' <= wire[c].events + f + Evicted(c)'
  BY <1>2, <1>3, <1>4
<1> QED
  BY <1>5 DEF NoLoss, f

\* and of drops.
LEMMA NoticeBalance ==
  ASSUME Types, Types', NEW c \in Consumers, Line(c), wire'[c] = wire[c],
         AnnouncedIn(Outgoing(c)') + drops'[c].pending + Noticing(c)' + dropped[c]
           <= AnnouncedIn(Outgoing(c)) + drops[c].pending + Noticing(c) + dropped'[c]
  PROVE  Accounted(c)' <= dropped'[c]
<1> DEFINE a == AnnouncedIn(Outgoing(c))
           b == AnnouncedIn(Outgoing(c)')
<1>1. Numbers(c) /\ Numbers(c)'
  BY NumbersNow, NumbersNext
<1>2. /\ a \in Nat /\ b \in Nat /\ wire[c].announced \in Nat
      /\ drops[c].pending \in Nat /\ drops'[c].pending \in Nat
      /\ Noticing(c) \in Nat /\ Noticing(c)' \in Nat
      /\ dropped[c] \in Nat /\ dropped'[c] \in Nat
      /\ Accounted(c) = wire[c].announced + a + drops[c].pending + Noticing(c)
      /\ Accounted(c)' = wire[c].announced + b + drops'[c].pending + Noticing(c)'
  BY <1>1 DEF Numbers, WireRecords
<1>3. Accounted(c) <= dropped[c]
  BY DEF Line
<1>4. b + drops'[c].pending + Noticing(c)' + dropped[c]
        <= a + drops[c].pending + Noticing(c) + dropped'[c]
  OBVIOUS
<1> HIDE DEF a, b
<1> QED
  BY <1>2, <1>3, <1>4

\* A frame joins the line of c.
LEMMA LineAppend ==
  ASSUME Types, Types', NEW c \in Consumers, Line(c), wire'[c] = wire[c],
         NEW f \in FrameRecords, Outgoing(c)' = Append(Outgoing(c), f),
         Top(c) <= Top(c)', f.kind = "event" => f.n = Top(c)' /\ Top(c) < Top(c)'
  PROVE  /\ Ordered(c)'
         /\ Cardinality(EventsIn(Outgoing(c)'))
              = Cardinality(EventsIn(Outgoing(c))) + One(f.kind = "event")
         /\ AnnouncedIn(Outgoing(c)') <= AnnouncedIn(Outgoing(c)) + Weight(f)
<1> DEFINE q == Outgoing(c)
<1>1. Numbers(c) /\ Numbers(c)'
  BY NumbersNow, NumbersNext
<1>2. q \in Seq(FrameRecords) /\ wire[c] \in WireRecords /\ Top(c) \in Int /\ Top(c)' \in Int
  BY <1>1 DEF Numbers
<1>3. InOrder(q, wire[c], Top(c))
  BY DEF Line, Ordered
<1>4. Ordered(c)'
  BY <1>2, <1>3, InOrderAppend DEF Ordered
<1>5. f.kind = "event" => f \notin EventsIn(q)
  <2> SUFFICES ASSUME f.kind = "event", NEW i \in DOMAIN q, q[i] = f
               PROVE  FALSE
    BY DEF EventsIn, Range
  <2>1. q[i].n <= Top(c) /\ f.n = Top(c)' /\ Top(c) < Top(c)'
    BY <1>3 DEF InOrder
  <2> QED
    BY <1>2, <2>1
<1>6. IsFiniteSet(EventsIn(q)) /\ Cardinality(EventsIn(q)) \in Nat
  BY <1>2, EventsAreFinite
<1>7. Cardinality(EventsIn(Outgoing(c)')) = Cardinality(EventsIn(q)) + One(f.kind = "event")
  <2>1. EventsIn(Outgoing(c)') = EventsIn(q) \union (IF f.kind = "event" THEN {f} ELSE {})
    BY <1>2, AppendFrame
  <2>2. CASE f.kind = "event"
    <3>1. EventsIn(Outgoing(c)') = EventsIn(q) \union {f}
      BY <2>1, <2>2
    <3>2. Cardinality(EventsIn(q) \union {f}) = Cardinality(EventsIn(q)) + 1
      BY <1>5, <1>6, <2>2, FS_AddElement
    <3> QED
      BY <2>2, <3>1, <3>2 DEF One
  <2>3. CASE f.kind # "event"
    <3>1. EventsIn(Outgoing(c)') = EventsIn(q)
      BY <2>1, <2>3
    <3> QED
      BY <1>6, <2>3, <3>1 DEF One
  <2> QED
    BY <2>2, <2>3
<1>8. AnnouncedIn(Outgoing(c)') <= AnnouncedIn(q) + Weight(f)
  <2>1. Cardinality(Pairs(Outgoing(c)')) <= Cardinality(Pairs(q)) + Weight(f)
    BY <1>2, AppendFrame
  <2> QED
    BY <2>1 DEF AnnouncedIn, Pairs
<1> QED
  BY <1>4, <1>7, <1>8

\* Appending to the channel of c appends to its line, and to no other.
LEMMA AppendOutgoing ==
  ASSUME Types, NEW c \in Consumers, NEW f \in FrameRecords, UNCHANGED inFlight,
         sendCh' = [sendCh EXCEPT ![c] = Append(sendCh[c], f)]
  PROVE  /\ Outgoing(c)' = Append(Outgoing(c), f)
         /\ \A d \in Consumers : d # c => Outgoing(d)' = Outgoing(d)
<1>1. sendCh'[c] = Append(sendCh[c], f) /\ \A d \in Consumers : d # c => sendCh'[d] = sendCh[d]
  BY DEF Types
<1>2. inFlight[c] \in Seq(FrameRecords) /\ sendCh[c] \in Seq(FrameRecords)
  BY OutgoingType
<1>3. inFlight[c] \o Append(sendCh[c], f) = Append(inFlight[c] \o sendCh[c], f)
  BY <1>2, OutgoingAppend
<1> QED
  BY <1>1, <1>3 DEF Outgoing

\* A channel with room takes one frame more.
LEMMA AppendType ==
  ASSUME Types, NEW c \in Consumers, NEW f \in FrameRecords, HasRoom(c)
  PROVE  Append(sendCh[c], f) \in Seq(FrameRecords) /\ Len(Append(sendCh[c], f)) <= SendChCap
<1>1. /\ sendCh[c] \in Seq(FrameRecords) /\ Len(sendCh[c]) < SendChCap
      /\ Len(sendCh[c]) \in Nat /\ SendChCap \in Nat
  BY DeliveryAssumption DEF Types, HasRoom
<1>2. Len(Append(sendCh[c], f)) = Len(sendCh[c]) + 1
  BY <1>1
<1> QED
  BY <1>1, <1>2

-----------------------------------------------------------------------------
\* The publisher.

LEMMA PubType ==
  ASSUME Types
  PROVE  /\ pub \in PubRecords /\ pub.todo \subseteq Consumers
         /\ pub.cur \in Consumers \union {Nobody} /\ pub.count \in Nat
         /\ pub.enqueued \in BOOLEAN /\ pub.evicted \in BOOLEAN
BY DEF Types, PubRecords

LEMMA IdleType == Idle \in PubRecords
BY DEF Idle, PubRecords

LEMMA EmitFits ==
  ASSUME DeliveryInv, NEW t \in TraceIds \union {NoId}, Emit(t)
  PROVE  DeliveryInv'
<1>1. /\ UNCHANGED <<subscribers, conn, sendCh, inFlight, received, dropped, drops, wire>>
      /\ pub.phase = "idle" /\ pub.todo = {} /\ pub.cur = Nobody /\ pub.count = 0
      /\ emits' = emits + 1 /\ emits < MaxEmits
      /\ emits \in Nat /\ published \in Nat /\ published <= emits /\ MaxEmits \in Nat
  BY DeliveryAssumption DEF Emit, connVars, countVars, DeliveryInv, Types, PubMatches
<1>2. \A d \in Consumers : Outgoing(d)' = Outgoing(d) /\ Line(d)
  BY <1>1 DEF Outgoing, DeliveryInv
<1>3. CASE t \in TraceIds /\ SeenDuplicate(t) /\ UNCHANGED <<pub, published>>
  <2>1. DedupTypeOK'
    BY <1>3 DEF SeenDuplicate, Verdict, DedupTypeOK, DeliveryInv, Types
  <2>2. Types'
    BY <1>1, <1>3, <2>1 DEF DeliveryInv, Types
  <2>3. PubMatches'
    BY <1>1, <1>3 DEF DeliveryInv, PubMatches, HasRoom
  <2>4. \A d \in Consumers : Line(d)'
    BY <1>1, <1>2, <1>3, <2>2, LineWithoutPublisher DEF DeliveryInv
  <2> QED
    BY <2>2, <2>3, <2>4 DEF DeliveryInv
<1>4. CASE /\ IF t = NoId THEN SeenUnnamed ELSE SeenNew(t)
           /\ pub' = [pub EXCEPT !.phase = "snapshot"] /\ published' = published + 1
  <2>1. DedupTypeOK'
    <3>1. CASE t = NoId
      <4>1. SeenUnnamed
        BY <1>4, <3>1
      <4> QED
        BY <4>1 DEF SeenUnnamed, Verdict, DedupTypeOK, DeliveryInv, Types
    <3>2. CASE t # NoId
      <4>1. t \in TraceIds /\ next \in Slots /\ (next + 1) % Cap \in Slots
        BY <3>2, NextSlot DEF DeliveryInv, Types, DedupTypeOK
      <4>2. SeenNew(t)
        BY <1>4, <3>2
      <4> QED
        BY <4>1, <4>2 DEF SeenNew, Verdict, DedupTypeOK, DeliveryInv, Types
    <3> QED
      BY <3>1, <3>2
  <2>2. /\ pub' \in PubRecords /\ pub'.phase = "snapshot" /\ pub'.todo = {}
        /\ pub'.cur = Nobody /\ pub'.count = 0
    BY <1>1, <1>4 DEF DeliveryInv, Types, PubRecords
  <2>3. Types'
    BY <1>1, <1>4, <2>1, <2>2 DEF DeliveryInv, Types
  <2>4. PubMatches'
    BY <2>2 DEF PubMatches
  <2>5. ASSUME NEW d \in Consumers
        PROVE  Line(d)'
    <3>1. /\ ToPush(d)' /\ ToDrop(d)' /\ ToCount(d)'
          /\ ~ToPush(d) /\ ~ToDrop(d) /\ ~ToCount(d)
      BY <1>1, <2>2 DEF ToPush, ToDrop, ToCount
    <3>2. Top(d) \in Int /\ Top(d)' = Top(d)
      BY <1>1, <1>4, <3>1 DEF Top, One
    <3>3. Bounded(d)'
      <4>1. dropped[d] <= published /\ received[d] <= published
            /\ dropped[d] \in Nat /\ received[d] \in Nat
        BY <1>1, <1>2, <3>1 DEF Line, Bounded, One, DeliveryInv, Types
      <4> QED
        BY <1>1, <1>4, <3>1, <4>1 DEF Bounded, One
    <3>4. Pushed(d)' = Pushed(d) /\ Evicted(d)' = Evicted(d) /\ Noticing(d)' = Noticing(d)
      BY <1>1, <2>2, DeliveryAssumption DEF Pushed, Evicted, Noticing
    <3>5. Top(d) <= Top(d)'
      BY <3>2
    <3> QED
      BY <1>1, <1>2, <2>3, <3>3, <3>4, <3>5, LineStays DEF DeliveryInv
  <2> QED
    BY <2>3, <2>4, <2>5 DEF DeliveryInv
<1> QED
  BY <1>3, <1>4 DEF Emit

LEMMA SnapshotFits ==
  ASSUME DeliveryInv, Snapshot
  PROVE  DeliveryInv'
<1> DEFINE matches == {c \in subscribers : reply.id \in Routes[c]}
<1>1. /\ UNCHANGED <<subscribers, conn, sendCh, inFlight, received, dropped, drops, wire,
                     emits, published>>
      /\ UNCHANGED dedupVars
      /\ pub.phase = "snapshot" /\ pub.todo = {} /\ pub.cur = Nobody /\ pub.count = 0
      /\ published \in Nat
  <2>1. emits \in Nat
    BY DeliveryAssumption DEF DeliveryInv, Types
  <2> QED
    BY <2>1 DEF Snapshot, connVars, countVars, boundVars, DeliveryInv, Types, PubMatches
<1>2. matches \subseteq Consumers
  BY DEF DeliveryInv, Types
<1>3. /\ pub' \in PubRecords /\ pub'.cur = Nobody /\ pub'.count = 0
      /\ \/ pub'.phase = "idle" /\ pub'.todo = {}
         \/ pub'.phase = "next"
  <2>1. pub \in PubRecords
    BY DEF DeliveryInv, Types
  <2>2. CASE matches = {}
    <3>1. pub' = Idle
      BY <2>2 DEF Snapshot
    <3> QED
      BY <3>1, IdleType DEF Idle
  <2>3. CASE matches # {}
    <3>1. pub' = [pub EXCEPT !.phase = "next", !.todo = matches]
      BY <2>3 DEF Snapshot
    <3> QED
      BY <1>1, <1>2, <2>1, <3>1 DEF PubRecords
  <2> QED
    BY <2>2, <2>3
<1>4. Types'
  BY <1>1, <1>3 DEF DeliveryInv, Types, dedupVars, DedupTypeOK
<1>5. PubMatches'
  BY <1>3 DEF PubMatches
<1>6. ASSUME NEW d \in Consumers
      PROVE  Line(d)'
  <2>1. Outgoing(d)' = Outgoing(d) /\ Line(d)
    BY <1>1 DEF Outgoing, DeliveryInv
  <2>2. ToPush(d) /\ ToDrop(d) /\ ToCount(d)
    BY <1>1 DEF ToPush, ToDrop, ToCount
  <2>3. Top(d) <= Top(d)'
    BY <1>1, <2>2 DEF Top, One
  <2>4. Bounded(d)'
    BY <1>1, <2>1, <2>2 DEF Line, Bounded, One, DeliveryInv, Types
  <2>5. Pushed(d)' = Pushed(d) /\ Evicted(d)' = Evicted(d) /\ Noticing(d)' = Noticing(d)
    BY <1>1, <1>3, DeliveryAssumption DEF Pushed, Evicted, Noticing
  <2> QED
    BY <1>1, <1>4, <2>1, <2>3, <2>4, <2>5, LineStays DEF DeliveryInv
<1> QED
  BY <1>4, <1>5, <1>6 DEF DeliveryInv

LEMMA PushFits ==
  ASSUME DeliveryInv, NEW c \in Consumers, Push(c)
  PROVE  DeliveryInv'
<1>1. /\ UNCHANGED <<subscribers, conn, inFlight, received, dropped, drops, wire, emits, published>>
      /\ UNCHANGED dedupVars
      /\ pub.phase = "next" /\ c \in pub.todo /\ pub.cur = Nobody /\ pub.count = 0
      /\ c # Nobody
  BY DeliveryAssumption
  DEF Push, connVars, countVars, boundVars, DeliveryInv, PubMatches
<1>2. Types /\ pub \in PubRecords /\ Line(c) /\ Numbers(c)
  BY NumbersNow DEF DeliveryInv, Types
<1>3. /\ ToPush(c) /\ ToDrop(c) /\ ToCount(c)
  BY <1>1 DEF ToPush, ToDrop, ToCount
<1>4. CASE /\ HasRoom(c)
           /\ sendCh' = [sendCh EXCEPT ![c] = Append(@, Event(published))]
           /\ pub' = [pub EXCEPT !.phase = "count", !.cur = c, !.enqueued = TRUE,
                                 !.evicted = FALSE]
  <2> DEFINE f == Event(published)
  <2>1. /\ pub' \in PubRecords /\ pub'.phase = "count" /\ pub'.cur = c /\ pub'.todo = pub.todo
        /\ pub'.enqueued /\ ~pub'.evicted /\ pub'.count = 0
    BY <1>1, <1>2, <1>4 DEF PubRecords
  <2>2. Top(c)' = published /\ Top(c) = published - 1 /\ published \in Nat
    BY <1>1, <1>2, <1>3, <2>1 DEF Top, ToPush, One, Numbers
  <2>3. f \in FrameRecords /\ f.n = published /\ f.kind = "event"
    <3>1. published # 0
      BY <1>2, <2>2 DEF Line, Ordered, InOrder, Numbers, WireRecords
    <3> QED
      BY <2>2, <3>1 DEF Event, FrameRecords
  <2> HIDE DEF f
  <2>4. sendCh' = [sendCh EXCEPT ![c] = Append(sendCh[c], f)]
    BY <1>4 DEF f
  <2>5. Types'
    BY SMTT(30), <1>1, <1>2, <1>4, <2>1, <2>3, <2>4, AppendType DEF Types, dedupVars, DedupTypeOK
  <2>6. PubMatches'
    BY <1>1, <2>1 DEF PubMatches
  <2>7. /\ Outgoing(c)' = Append(Outgoing(c), f)
        /\ \A d \in Consumers : d # c => Outgoing(d)' = Outgoing(d)
    BY <1>1, <1>2, <2>3, <2>4, AppendOutgoing
  <2>8. Line(c)'
    <3>1. /\ Ordered(c)'
          /\ Cardinality(EventsIn(Outgoing(c)')) = Cardinality(EventsIn(Outgoing(c))) + 1
          /\ AnnouncedIn(Outgoing(c)') <= AnnouncedIn(Outgoing(c))
      <4>1. Top(c) <= Top(c)' /\ f.n = Top(c)' /\ Top(c) < Top(c)'
        BY <2>2, <2>3
      <4>2. /\ Ordered(c)'
            /\ Cardinality(EventsIn(Outgoing(c)'))
                 = Cardinality(EventsIn(Outgoing(c))) + One(f.kind = "event")
            /\ AnnouncedIn(Outgoing(c)') <= AnnouncedIn(Outgoing(c)) + Weight(f)
        BY <1>1, <1>2, <2>3, <2>5, <2>7, <4>1, LineAppend
      <4>3. AnnouncedIn(Outgoing(c)) \in Nat /\ Weight(f) = 0 /\ One(f.kind = "event") = 1
        BY <1>2, <2>3 DEF Numbers, One, Weight
      <4> QED
        BY <4>2, <4>3
    <3>2. Bounded(c)'
      BY <1>1, <1>2, <1>3, <2>1 DEF Line, Bounded, ToDrop, ToCount, One, Numbers
    <3>3. Pushed(c)' = Pushed(c) + 1 /\ Evicted(c)' = Evicted(c) /\ Noticing(c)' = Noticing(c)
      BY <1>1, <1>2, <2>1 DEF Pushed, Evicted, Noticing, One, Numbers
    <3>4. Numbers(c)'
      BY <2>5, NumbersNext
    <3>5. NoLoss(c)'
      BY SMTT(30), <1>1, <1>2, <2>5, <3>1, <3>3, <3>4, LossBalance DEF Numbers
    <3>6. Accounted(c)' <= dropped'[c]
      <4>1. /\ AnnouncedIn(Outgoing(c)) \in Nat /\ AnnouncedIn(Outgoing(c)') \in Nat
            /\ drops[c].pending \in Nat /\ Noticing(c) \in Nat /\ dropped[c] \in Nat
            /\ drops'[c] = drops[c] /\ dropped'[c] = dropped[c]
        BY <1>1, <1>2, <3>4 DEF Numbers
      <4>2. AnnouncedIn(Outgoing(c)') + drops'[c].pending + Noticing(c)' + dropped[c]
              <= AnnouncedIn(Outgoing(c)) + drops[c].pending + Noticing(c) + dropped'[c]
        BY <3>1, <3>3, <4>1
      <4> QED
        BY <1>1, <1>2, <2>5, <4>2, NoticeBalance
    <3> QED
      BY <3>1, <3>2, <3>5, <3>6 DEF Line
  <2>9. ASSUME NEW d \in Consumers, d # c
        PROVE  Line(d)'
    <3>1. d # Nobody
      BY DeliveryAssumption
    <3> QED
      BY <1>1, <2>1, <2>5, <2>7, <2>9, <3>1, OtherLines
  <2> QED
    BY <2>5, <2>6, <2>8, <2>9 DEF DeliveryInv
<1>5. CASE /\ ~HasRoom(c)
           /\ pub' = [pub EXCEPT !.phase = "evict", !.cur = c, !.enqueued = FALSE,
                                 !.evicted = FALSE]
           /\ UNCHANGED sendCh
  <2>1. /\ pub' \in PubRecords /\ pub'.phase = "evict" /\ pub'.cur = c /\ pub'.todo = pub.todo
        /\ ~pub'.enqueued /\ ~pub'.evicted /\ pub'.count = 0
    BY <1>1, <1>2, <1>5 DEF PubRecords
  <2>2. Types'
    BY <1>1, <1>2, <1>5, <2>1 DEF Types, dedupVars, DedupTypeOK
  <2>3. PubMatches'
    BY <1>1, <2>1 DEF PubMatches
  <2>4. \A d \in Consumers : Outgoing(d)' = Outgoing(d)
    BY <1>1, <1>5 DEF Outgoing
  <2>5. Line(c)'
    <3>1. ToPush(c)' /\ ToDrop(c)' /\ ToCount(c)'
      BY <1>1, <2>1 DEF ToPush, ToDrop, ToCount
    <3>2. Top(c) <= Top(c)'
      BY <1>1, <1>2, <1>3, <3>1 DEF Top, Numbers, One
    <3>3. Bounded(c)'
      BY <1>1, <1>2, <1>3, <3>1 DEF Line, Bounded
    <3>4. Pushed(c)' = Pushed(c) /\ Evicted(c)' = Evicted(c) /\ Noticing(c)' = Noticing(c)
      BY <1>1, <2>1 DEF Pushed, Evicted, Noticing, One
    <3> QED
      BY <1>1, <1>2, <2>2, <2>4, <3>2, <3>3, <3>4, LineStays
  <2>6. ASSUME NEW d \in Consumers, d # c
        PROVE  Line(d)'
    <3>1. d # Nobody
      BY DeliveryAssumption
    <3> QED
      BY <1>1, <2>1, <2>2, <2>4, <2>6, <3>1, OtherLines
  <2> QED
    BY <2>2, <2>3, <2>5, <2>6 DEF DeliveryInv
<1> QED
  BY <1>4, <1>5 DEF Push

\* The subscriber that is being served.
LEMMA Served ==
  ASSUME DeliveryInv, pub.phase \in {"evict", "retry", "drop", "notify", "count"}
  PROVE  /\ pub.cur \in Consumers /\ pub.cur \in pub.todo /\ pub.cur # Nobody
         /\ Types /\ pub \in PubRecords /\ Line(pub.cur) /\ Numbers(pub.cur)
<1>1. /\ pub.cur \in pub.todo /\ Types /\ pub \in PubRecords
  BY DEF DeliveryInv, PubMatches, Types
<1>2. pub.cur \in Consumers
  BY <1>1 DEF PubRecords
<1> QED
  BY <1>1, <1>2, DeliveryAssumption, NumbersNow DEF DeliveryInv

LEMMA EvictFits ==
  ASSUME DeliveryInv, NEW c \in Consumers, c = pub.cur, Evict
  PROVE  DeliveryInv'
<1>1. /\ UNCHANGED <<subscribers, conn, inFlight, received, dropped, drops, wire, emits, published>>
      /\ UNCHANGED dedupVars
      /\ pub.phase = "evict"
  BY DEF Evict, connVars, countVars, boundVars
<1>2. /\ c \in Consumers /\ c \in pub.todo /\ Types /\ pub \in PubRecords
      /\ Line(c) /\ Numbers(c) /\ pub.count = 0
  BY <1>1, Served DEF DeliveryInv, PubMatches
<1>3. /\ pub' \in PubRecords /\ pub'.phase = "retry" /\ pub'.cur = c /\ pub'.todo = pub.todo
      /\ pub'.count = 0
      /\ sendCh[c] # <<>> => pub'.evicted /\ sendCh' = [sendCh EXCEPT ![c] = Tail(sendCh[c])]
      /\ sendCh[c] = <<>> => pub'.evicted = pub.evicted /\ UNCHANGED sendCh
  BY <1>1, <1>2 DEF Evict, PubRecords
<1>4. ToPush(c)' /\ ToDrop(c)' /\ ToCount(c)' /\ ToPush(c) /\ ToDrop(c) /\ ToCount(c)
  BY <1>1, <1>2, <1>3 DEF ToPush, ToDrop, ToCount
<1>5. Top(c)' = Top(c) /\ Top(c) <= Top(c)'
  BY <1>1, <1>2, <1>4 DEF Top, Numbers, One
<1>6. Bounded(c)'
  BY <1>1, <1>2, <1>4 DEF Line, Bounded
<1>7. /\ Pushed(c)' = received[c] /\ Pushed(c) = received[c]
      /\ Evicted(c)' = dropped[c] + One(pub'.evicted) /\ Evicted(c) = dropped[c]
      /\ Noticing(c)' = 0 /\ Noticing(c) = 0
      /\ received[c] \in Nat /\ dropped[c] \in Nat
  BY <1>1, <1>2, <1>3 DEF Pushed, Evicted, Noticing, One, Numbers
<1>8. CASE sendCh[c] # <<>>
  <2>1. /\ sendCh[c] \in Seq(FrameRecords) /\ inFlight[c] \in Seq(FrameRecords)
        /\ sendCh' = [sendCh EXCEPT ![c] = Tail(sendCh[c])] /\ pub'.evicted
        /\ Tail(sendCh[c]) \in Seq(FrameRecords) /\ Len(Tail(sendCh[c])) = Len(sendCh[c]) - 1
        /\ Len(sendCh[c]) \in Nat /\ Len(sendCh[c]) <= SendChCap
    BY <1>2, <1>3, <1>8 DEF Types
  <2>2. Len(Tail(sendCh[c])) < SendChCap /\ Len(Tail(sendCh[c])) <= SendChCap
    BY <2>1, DeliveryAssumption
  <2>3. Types'
    BY <1>1, <1>2, <1>3, <2>1, <2>2 DEF Types, dedupVars, DedupTypeOK
  <2>4. PubMatches'
    <3>1. HasRoom(c)'
      BY <1>2, <2>1, <2>2 DEF HasRoom, Types
    <3>2. HasRoom(pub.cur)'
      BY <1>3, <3>1 DEF HasRoom
    <3> QED
      BY <1>2, <1>3, <3>2 DEF PubMatches
  <2>5. sendCh'[c] = Tail(sendCh[c]) /\ \A d \in Consumers : d # c => sendCh'[d] = sendCh[d]
    BY <1>2, <2>1 DEF Types
  <2> DEFINE q == Outgoing(c)
             p == Len(inFlight[c]) + 1
  <2>6. /\ q \in Seq(FrameRecords) /\ Outgoing(c)' = Without(q, p) /\ p \in DOMAIN q
        /\ \A d \in Consumers : d # c => Outgoing(d)' = Outgoing(d)
    <3>1. /\ inFlight[c] \o Tail(sendCh[c]) = Without(inFlight[c] \o sendCh[c], p)
          /\ p \in DOMAIN (inFlight[c] \o sendCh[c])
      BY <1>8, <2>1, OutgoingEvict
    <3>2. q = inFlight[c] \o sendCh[c] /\ inFlight' = inFlight /\ q \in Seq(FrameRecords)
      BY <1>1, <1>2 DEF Outgoing, Numbers
    <3> HIDE DEF p
    <3> QED
      BY <2>5, <3>1, <3>2 DEF Outgoing
  <2> HIDE DEF p
  <2>7. Line(c)'
    <3>1. Ordered(c)'
      BY <1>1, <1>2, <1>5, <2>6, InOrderWithout DEF Line, Ordered, Numbers
    <3>2. Numbers(c)'
      BY <1>2, <2>3, NumbersNext
    <3>3. NoLoss(c)'
      <4>1. Cardinality(EventsIn(q)) <= Cardinality(EventsIn(Outgoing(c)')) + 1
        BY <2>6, EventsAfterRemoval
      <4>2. Cardinality(EventsIn(q)) \in Nat /\ Cardinality(EventsIn(Outgoing(c)')) \in Nat
        BY <1>2, <3>2 DEF Numbers
      <4>3. One(pub'.evicted) = 1
        BY <2>1 DEF One
      <4>4. Pushed(c)' + Cardinality(EventsIn(Outgoing(c))) + Evicted(c)
              <= Pushed(c) + Cardinality(EventsIn(Outgoing(c)')) + Evicted(c)'
        BY <1>7, <4>1, <4>2, <4>3
      <4> QED
        BY <1>1, <1>2, <2>3, <4>4, LossBalance
    <3>4. Accounted(c)' <= dropped'[c]
      <4>1. Cardinality(Pairs(Outgoing(c)')) + Weight(q[p]) <= Cardinality(Pairs(q))
        BY <2>6, RemovePairs
      <4>2. Weight(q[p]) \in Nat
        BY <2>6, FrameOf
      <4>3. /\ AnnouncedIn(Outgoing(c)) = Cardinality(Pairs(q))
            /\ AnnouncedIn(Outgoing(c)') = Cardinality(Pairs(Outgoing(c)'))
            /\ AnnouncedIn(Outgoing(c)) \in Nat /\ AnnouncedIn(Outgoing(c)') \in Nat
            /\ drops[c].pending \in Nat /\ drops'[c] = drops[c] /\ dropped'[c] = dropped[c]
        BY <1>1, <1>2, <3>2 DEF Numbers
      <4>4. AnnouncedIn(Outgoing(c)') + drops'[c].pending + Noticing(c)' + dropped[c]
              <= AnnouncedIn(Outgoing(c)) + drops[c].pending + Noticing(c) + dropped'[c]
        BY <1>7, <4>1, <4>2, <4>3
      <4> QED
        BY <1>1, <1>2, <2>3, <4>4, NoticeBalance
    <3> QED
      BY <1>6, <3>1, <3>3, <3>4 DEF Line
  <2>8. ASSUME NEW d \in Consumers, d # c
        PROVE  Line(d)'
    BY <1>1, <1>2, <1>3, <2>3, <2>6, <2>8, OtherLines
  <2> QED
    BY <2>3, <2>4, <2>7, <2>8 DEF DeliveryInv
<1>9. CASE sendCh[c] = <<>>
  <2>1. UNCHANGED sendCh /\ pub'.evicted \in BOOLEAN
    BY <1>3, <1>9 DEF PubRecords
  <2>2. Types'
    BY <1>1, <1>2, <1>3, <2>1 DEF Types, dedupVars, DedupTypeOK
  <2>3. PubMatches'
    <3>1. Len(sendCh'[pub'.cur]) = 0
      BY <1>3, <1>9, <2>1
    <3>2. HasRoom(pub.cur)'
      BY <3>1, DeliveryAssumption DEF HasRoom
    <3> QED
      BY <1>2, <1>3, <3>2 DEF PubMatches
  <2>4. \A d \in Consumers : Outgoing(d)' = Outgoing(d)
    BY <1>1, <2>1 DEF Outgoing
  <2>5. Line(c)'
    <3>1. Numbers(c)'
      BY <1>2, <2>2, NumbersNext
    <3>2. Ordered(c)'
      BY <1>1, <1>2, <1>5, <2>4 DEF Line, Ordered
    <3>3. NoLoss(c)'
      <4>1. One(pub'.evicted) \in Nat /\ Cardinality(EventsIn(Outgoing(c))) \in Nat
            /\ Outgoing(c)' = Outgoing(c)
        BY <1>2, <2>1, <2>4 DEF One, Numbers
      <4>2. Pushed(c)' + Cardinality(EventsIn(Outgoing(c))) + Evicted(c)
              <= Pushed(c) + Cardinality(EventsIn(Outgoing(c)')) + Evicted(c)'
        BY <1>7, <4>1
      <4> QED
        BY <1>1, <1>2, <2>2, <4>2, LossBalance
    <3>4. Accounted(c)' <= dropped'[c]
      BY <1>1, <1>2, <1>7, <2>4, <3>1 DEF Line, Numbers, AnnouncedIn
    <3> QED
      BY <1>6, <3>2, <3>3, <3>4 DEF Line
  <2>6. ASSUME NEW d \in Consumers, d # c
        PROVE  Line(d)'
    BY <1>1, <1>2, <1>3, <2>2, <2>4, <2>6, OtherLines
  <2> QED
    BY <2>2, <2>3, <2>5, <2>6 DEF DeliveryInv
<1> QED
  BY <1>8, <1>9

LEMMA RetryFits ==
  ASSUME DeliveryInv, NEW c \in Consumers, c = pub.cur, Retry
  PROVE  DeliveryInv'
<1> DEFINE f == Event(published)
<1>1. /\ UNCHANGED <<subscribers, conn, inFlight, received, dropped, drops, wire, emits, published>>
      /\ UNCHANGED dedupVars
      /\ pub.phase = "retry"
  BY DEF Retry, connVars, countVars, boundVars
<1>2. /\ c \in Consumers /\ c \in pub.todo /\ Types /\ pub \in PubRecords
      /\ Line(c) /\ Numbers(c) /\ pub.count = 0 /\ HasRoom(c)
  BY <1>1, Served DEF DeliveryInv, PubMatches
<1>3. /\ sendCh' = [sendCh EXCEPT ![c] = Append(sendCh[c], f)]
      /\ pub' = IF pub.evicted THEN [pub EXCEPT !.enqueued = TRUE, !.phase = "drop"]
                ELSE [pub EXCEPT !.enqueued = TRUE, !.phase = "count"]
  BY <1>1, <1>2 DEF Retry, TrySent, AfterDrop, PubRecords
<1>4. /\ pub' \in PubRecords /\ pub'.cur = c /\ pub'.todo = pub.todo
      /\ pub'.count = 0 /\ pub'.enqueued /\ pub'.evicted = pub.evicted
      /\ pub'.phase = IF pub.evicted THEN "drop" ELSE "count"
  BY <1>1, <1>2, <1>3 DEF PubRecords
<1>5. ToPush(c) /\ ToDrop(c) /\ ToCount(c) /\ ~ToPush(c)' /\ ToCount(c)'
  BY <1>1, <1>2, <1>4 DEF ToPush, ToDrop, ToCount
<1>6. Top(c)' = published /\ Top(c) = published - 1 /\ published \in Nat
  BY <1>1, <1>2, <1>5 DEF Top, One, Numbers
<1>7. f \in FrameRecords /\ f.n = published /\ f.kind = "event"
  <2>1. published # 0
    BY <1>2, <1>6 DEF Line, Ordered, InOrder, Numbers, WireRecords
  <2> QED
    BY <1>6, <2>1 DEF Event, FrameRecords
<1> HIDE DEF f
<1>8. Types'
  BY <1>1, <1>2, <1>3, <1>4, <1>7, AppendType DEF Types, dedupVars, DedupTypeOK
<1>9. PubMatches'
  BY <1>2, <1>4 DEF PubMatches
<1>10. /\ Outgoing(c)' = Append(Outgoing(c), f)
       /\ \A d \in Consumers : d # c => Outgoing(d)' = Outgoing(d)
  BY <1>1, <1>2, <1>3, <1>7, AppendOutgoing
<1>11. Line(c)'
  <2>1. /\ Ordered(c)'
        /\ Cardinality(EventsIn(Outgoing(c)')) = Cardinality(EventsIn(Outgoing(c))) + 1
        /\ AnnouncedIn(Outgoing(c)') <= AnnouncedIn(Outgoing(c))
    <3>1. Top(c) <= Top(c)' /\ f.n = Top(c)' /\ Top(c) < Top(c)'
      BY <1>6, <1>7
    <3>2. /\ Ordered(c)'
          /\ Cardinality(EventsIn(Outgoing(c)'))
               = Cardinality(EventsIn(Outgoing(c))) + One(f.kind = "event")
          /\ AnnouncedIn(Outgoing(c)') <= AnnouncedIn(Outgoing(c)) + Weight(f)
      BY <1>1, <1>2, <1>7, <1>8, <1>10, <3>1, LineAppend
    <3>3. AnnouncedIn(Outgoing(c)) \in Nat /\ Weight(f) = 0 /\ One(f.kind = "event") = 1
      BY <1>2, <1>7 DEF Numbers, One, Weight
    <3> QED
      BY <3>2, <3>3
  <2>2. Bounded(c)'
    BY <1>1, <1>2, <1>5 DEF Line, Bounded, One, Numbers
  <2>3. /\ Pushed(c)' = Pushed(c) + 1 /\ Evicted(c)' = Evicted(c)
        /\ Noticing(c)' = 0 /\ Noticing(c) = 0
    BY <1>1, <1>2, <1>4 DEF Pushed, Evicted, Noticing, One, Numbers, PubRecords
  <2>4. Numbers(c)'
    BY <1>2, <1>8, NumbersNext
  <2>5. NoLoss(c)'
    BY SMTT(30), <1>1, <1>2, <1>8, <2>1, <2>3, <2>4, LossBalance DEF Numbers
  <2>6. Accounted(c)' <= dropped'[c]
    <3>1. /\ AnnouncedIn(Outgoing(c)) \in Nat /\ AnnouncedIn(Outgoing(c)') \in Nat
          /\ drops[c].pending \in Nat /\ dropped[c] \in Nat
          /\ drops'[c] = drops[c] /\ dropped'[c] = dropped[c]
      BY <1>1, <1>2, <2>4 DEF Numbers
    <3>2. AnnouncedIn(Outgoing(c)') + drops'[c].pending + Noticing(c)' + dropped[c]
            <= AnnouncedIn(Outgoing(c)) + drops[c].pending + Noticing(c) + dropped'[c]
      BY <2>1, <2>3, <3>1
    <3> QED
      BY <1>1, <1>2, <1>8, <3>2, NoticeBalance
  <2> QED
    BY <2>1, <2>2, <2>5, <2>6 DEF Line
<1>12. ASSUME NEW d \in Consumers, d # c
       PROVE  Line(d)'
  BY <1>1, <1>2, <1>4, <1>8, <1>10, <1>12, OtherLines
<1> QED
  BY <1>8, <1>9, <1>11, <1>12 DEF DeliveryInv

LEMMA PendingUpdate ==
  ASSUME NEW r \in [pending : Nat, throttled : BOOLEAN], NEW k \in Nat
  PROVE  [r EXCEPT !.pending = k] = [pending |-> k, throttled |-> r.throttled]
OBVIOUS

LEMMA RecordDropFits ==
  ASSUME DeliveryInv, NEW c \in Consumers, c = pub.cur, RecordDrop
  PROVE  DeliveryInv'
<1>1. /\ UNCHANGED <<subscribers, conn, inFlight, sendCh, received, wire, emits, published>>
      /\ UNCHANGED dedupVars
      /\ pub.phase = "drop" /\ dropped' = [dropped EXCEPT ![c] = dropped[c] + 1]
  BY DEF RecordDrop, connVars, countVars, boundVars
<1>2. /\ c \in pub.todo /\ Types /\ pub \in PubRecords
      /\ Line(c) /\ Numbers(c) /\ pub.count = 0 /\ pub.enqueued /\ pub.evicted
  BY <1>1, Served DEF DeliveryInv, PubMatches
<1>3. /\ drops[c] \in [pending : Nat, throttled : BOOLEAN]
      /\ received[c] \in Nat /\ dropped[c] \in Nat /\ published \in Nat
  BY <1>2 DEF Types, Numbers
<1>4. PICK n \in Nat, t \in BOOLEAN :
        /\ drops' = [drops EXCEPT ![c] = [pending |-> n, throttled |-> t]]
        /\ pub' = [pub EXCEPT !.phase = IF n = 0 THEN "notify" ELSE "count",
                              !.count = IF n = 0 THEN drops[c].pending + 1 ELSE 0]
        /\ n # 0 => n = drops[c].pending + 1
  <2> DEFINE k == drops[c].pending + 1
  <2>1. k \in Nat /\ k # 0
    BY <1>3
  <2>2. CASE drops[c].throttled
    <3>1. drops' = [drops EXCEPT ![c].pending = k] /\ pub' = AfterDrop(pub)
      BY <2>2 DEF RecordDrop
    <3>2. drops' = [drops EXCEPT ![c] = [pending |-> k, throttled |-> TRUE]]
      <4> HIDE DEF k
      <4>1. [drops[c] EXCEPT !.pending = k] = [pending |-> k, throttled |-> drops[c].throttled]
        BY <1>3, <2>1, PendingUpdate, Zenon
      <4>2. drops[c].throttled = TRUE
        BY <1>3, <2>2
      <4>3. drops' = [drops EXCEPT ![c] = [drops[c] EXCEPT !.pending = k]]
        BY <3>1
      <4> QED
        BY <4>1, <4>2, <4>3, Zenon
    <3>3. pub' = [pub EXCEPT !.phase = "count", !.count = 0]
      BY <1>2, <3>1 DEF AfterDrop, PubRecords
    <3> QED
      BY <2>1, <3>2, <3>3
  <2>3. CASE ~drops[c].throttled
    <3>1. /\ drops' = [drops EXCEPT ![c] = [pending |-> 0, throttled |-> TRUE]]
          /\ pub' = [pub EXCEPT !.phase = "notify", !.count = k]
      BY <2>3 DEF RecordDrop
    <3> QED
      BY <3>1
  <2> QED
    BY <2>2, <2>3
<1>5. /\ pub' \in PubRecords /\ pub'.phase \in {"notify", "count"} /\ pub'.cur = c
      /\ pub'.todo = pub.todo /\ pub'.enqueued /\ pub'.evicted
      /\ pub'.phase = "notify" <=> pub'.count # 0
      /\ pub'.count = IF n = 0 THEN drops[c].pending + 1 ELSE 0
  <2> DEFINE phase == IF n = 0 THEN "notify" ELSE "count"
             count == IF n = 0 THEN drops[c].pending + 1 ELSE 0
  <2>1. /\ phase \in {"notify", "count"} /\ count \in Nat
        /\ phase = "notify" <=> count # 0
    BY <1>3
  <2>2. pub' = [pub EXCEPT !.phase = phase, !.count = count]
    BY <1>4
  <2>3. count = IF n = 0 THEN drops[c].pending + 1 ELSE 0
    OBVIOUS
  <2> HIDE DEF phase, count
  <2>4. /\ pub' \in PubRecords /\ pub'.phase = phase /\ pub'.cur = c /\ pub'.count = count
        /\ pub'.todo = pub.todo /\ pub'.enqueued /\ pub'.evicted
    BY <1>2, <2>1, <2>2 DEF PubRecords
  <2> QED
    BY <2>1, <2>3, <2>4
<1>6. /\ dropped' \in [Consumers -> Nat] /\ dropped'[c] = dropped[c] + 1
      /\ drops' \in [Consumers -> [pending : Nat, throttled : BOOLEAN]]
      /\ drops'[c].pending = n
      /\ \A d \in Consumers : d # c => dropped'[d] = dropped[d] /\ drops'[d] = drops[d]
  BY <1>1, <1>2, <1>3, <1>4 DEF Types
<1>7. Types'
  BY <1>1, <1>2, <1>5, <1>6 DEF Types, dedupVars, DedupTypeOK
<1>8. PubMatches'
  BY <1>2, <1>5 DEF PubMatches
<1>9. \A d \in Consumers : Outgoing(d)' = Outgoing(d)
  BY <1>1 DEF Outgoing
<1>10. Line(c)'
  <2>1. /\ ~ToPush(c) /\ ~ToPush(c)' /\ ToDrop(c) /\ ~ToDrop(c)' /\ ToCount(c) /\ ToCount(c)'
    BY <1>1, <1>2, <1>5 DEF ToPush, ToDrop, ToCount
  <2>2. Ordered(c)'
    <3>1. Top(c)' = Top(c)
      BY <1>1, <2>1 DEF Top, One
    <3> QED
      BY <1>1, <1>2, <1>9, <3>1 DEF Line, Ordered
  <2>3. Bounded(c)'
    BY <1>1, <1>2, <1>3, <1>6, <2>1 DEF Line, Bounded, One
  <2>4. /\ Pushed(c)' = Pushed(c) /\ Evicted(c)' = Evicted(c)
        /\ Noticing(c)' = pub'.count /\ Noticing(c) = 0
    BY <1>1, <1>2, <1>3, <1>5, <1>6 DEF Pushed, Evicted, Noticing, One
  <2>5. NoLoss(c)'
    BY <1>1, <1>2, <1>9, <2>4 DEF Line, NoLoss
  <2>6. Accounted(c)' <= dropped'[c]
    <3>1. AnnouncedIn(Outgoing(c)) \in Nat /\ AnnouncedIn(Outgoing(c)') = AnnouncedIn(Outgoing(c))
          /\ drops[c].pending \in Nat
      BY <1>2, <1>9 DEF Numbers
    <3>2. drops'[c].pending + Noticing(c)' = drops[c].pending + 1
      BY <1>4, <1>5, <1>6, <2>4, <3>1
    <3>3. AnnouncedIn(Outgoing(c)') + drops'[c].pending + Noticing(c)' + dropped[c]
            <= AnnouncedIn(Outgoing(c)) + drops[c].pending + Noticing(c) + dropped'[c]
      BY <1>3, <1>4, <1>5, <1>6, <2>4, <3>1, <3>2
    <3> QED
      BY <1>1, <1>2, <1>7, <3>3, NoticeBalance
  <2> QED
    BY <2>2, <2>3, <2>5, <2>6 DEF Line
<1>11. ASSUME NEW d \in Consumers, d # c
       PROVE  Line(d)'
  BY <1>1, <1>2, <1>5, <1>6, <1>7, <1>9, <1>11, OtherLines
<1> QED
  BY <1>7, <1>8, <1>10, <1>11 DEF DeliveryInv

LEMMA NotifyFits ==
  ASSUME DeliveryInv, NEW c \in Consumers, c = pub.cur, Notify
  PROVE  DeliveryInv'
<1> DEFINE f == DroppedNotice(pub.count)
<1>1. /\ UNCHANGED <<subscribers, conn, inFlight, received, dropped, drops, wire, emits, published>>
      /\ UNCHANGED dedupVars
      /\ pub.phase = "notify" /\ sendCh' = [sendCh EXCEPT ![c] = TrySent(c, f)]
  BY DEF Notify, connVars, countVars, boundVars
<1>2. /\ c \in pub.todo /\ Types /\ pub \in PubRecords
      /\ Line(c) /\ Numbers(c) /\ pub.count # 0 /\ pub.enqueued
  BY <1>1, Served DEF DeliveryInv, PubMatches
<1>3. pub' = [pub EXCEPT !.phase = "count", !.count = 0]
  BY <1>2 DEF Notify, AfterDrop, PubRecords
<1>4. /\ pub' \in PubRecords /\ pub'.phase = "count" /\ pub'.cur = c
      /\ pub'.todo = pub.todo /\ pub'.enqueued /\ pub'.count = 0 /\ pub.count \in Nat
      /\ pub'.evicted = pub.evicted
  BY <1>2, <1>3 DEF PubRecords
<1>5. f \in FrameRecords /\ f.kind = "dropped" /\ f.n = pub.count
  BY <1>2, <1>4 DEF DroppedNotice, FrameRecords
<1> HIDE DEF f
<1>6. \/ sendCh' = [sendCh EXCEPT ![c] = Append(sendCh[c], f)] /\ HasRoom(c)
      \/ UNCHANGED sendCh
  BY <1>1, <1>2 DEF TrySent, Types
<1>7. Types'
  <2>1. CASE sendCh' = [sendCh EXCEPT ![c] = Append(sendCh[c], f)] /\ HasRoom(c)
    <3>1. /\ sendCh' \in [Consumers -> Seq(FrameRecords)]
          /\ \A d \in Consumers : Len(sendCh'[d]) <= SendChCap
      <4>1. Append(sendCh[c], f) \in Seq(FrameRecords) /\ Len(Append(sendCh[c], f)) <= SendChCap
        BY <1>2, <1>5, <2>1, AppendType
      <4>2. /\ sendCh \in [Consumers -> Seq(FrameRecords)]
            /\ \A d \in Consumers : Len(sendCh[d]) <= SendChCap
        BY <1>2 DEF Types
      <4>3. sendCh' \in [Consumers -> Seq(FrameRecords)]
        BY <2>1, <4>1, <4>2
      <4>4. ASSUME NEW d \in Consumers
            PROVE  sendCh'[d] = IF d = c THEN Append(sendCh[c], f) ELSE sendCh[d]
        BY <2>1, <4>2
      <4> QED
        BY <4>1, <4>2, <4>3, <4>4
    <3> QED
      BY <1>1, <1>2, <1>4, <3>1 DEF Types, dedupVars, DedupTypeOK
  <2>2. CASE UNCHANGED sendCh
    BY <1>1, <1>2, <1>4, <2>2 DEF Types, dedupVars, DedupTypeOK
  <2> QED
    BY <1>6, <2>1, <2>2
<1>8. PubMatches'
  BY <1>2, <1>4 DEF PubMatches
<1>9. /\ \/ Outgoing(c)' = Append(Outgoing(c), f)
         \/ Outgoing(c)' = Outgoing(c)
      /\ \A d \in Consumers : d # c => Outgoing(d)' = Outgoing(d)
  <2>1. CASE sendCh' = [sendCh EXCEPT ![c] = Append(sendCh[c], f)]
    BY <1>1, <1>2, <1>5, <2>1, AppendOutgoing
  <2>2. CASE UNCHANGED sendCh
    BY <1>1, <2>2 DEF Outgoing
  <2> QED
    BY <1>6, <2>1, <2>2
<1>10. Line(c)'
  <2>1. /\ ~ToPush(c) /\ ~ToPush(c)' /\ ~ToDrop(c) /\ ~ToDrop(c)' /\ ToCount(c) /\ ToCount(c)'
    BY <1>1, <1>2, <1>4 DEF ToPush, ToDrop, ToCount
  <2>2. Top(c)' = Top(c) /\ Top(c) <= Top(c)'
    BY <1>1, <1>2, <2>1 DEF Top, Numbers, One
  <2>3. /\ Ordered(c)'
        /\ Cardinality(EventsIn(Outgoing(c)')) = Cardinality(EventsIn(Outgoing(c)))
        /\ AnnouncedIn(Outgoing(c)') <= AnnouncedIn(Outgoing(c)) + pub.count
    <3>0. AnnouncedIn(Outgoing(c)) \in Nat /\ Cardinality(EventsIn(Outgoing(c))) \in Nat
      BY <1>2 DEF Numbers
    <3>1. CASE Outgoing(c)' = Append(Outgoing(c), f)
      <4>1. /\ Ordered(c)'
            /\ Cardinality(EventsIn(Outgoing(c)'))
                 = Cardinality(EventsIn(Outgoing(c))) + One(f.kind = "event")
            /\ AnnouncedIn(Outgoing(c)') <= AnnouncedIn(Outgoing(c)) + Weight(f)
        BY <1>1, <1>2, <1>5, <1>7, <2>2, <3>1, LineAppend
      <4>2. Weight(f) = pub.count /\ One(f.kind = "event") = 0
        BY <1>5 DEF Weight, One
      <4> QED
        BY <3>0, <4>1, <4>2
    <3>2. CASE Outgoing(c)' = Outgoing(c)
      <4>1. Ordered(c)'
        BY <1>1, <1>2, <2>2, <3>2 DEF Line, Ordered
      <4> QED
        BY <1>4, <3>0, <3>2, <4>1
    <3> QED
      BY <1>9, <3>1, <3>2
  <2>4. Bounded(c)'
    BY <1>1, <1>2, <2>1 DEF Line, Bounded, One
  <2>5. /\ Pushed(c)' = Pushed(c) /\ Evicted(c)' = Evicted(c)
        /\ Noticing(c)' = 0 /\ Noticing(c) = pub.count
    BY <1>1, <1>2, <1>4 DEF Pushed, Evicted, Noticing, One
  <2>6. NoLoss(c)'
    BY <1>1, <1>2, <2>3, <2>5 DEF Line, NoLoss
  <2>7. Accounted(c)' <= dropped'[c]
    <3>1. Numbers(c)'
      BY <1>7, NumbersNext
    <3>2. /\ AnnouncedIn(Outgoing(c)) \in Nat /\ AnnouncedIn(Outgoing(c)') \in Nat
          /\ drops[c].pending \in Nat /\ dropped[c] \in Nat
          /\ drops'[c] = drops[c] /\ dropped'[c] = dropped[c]
      BY <1>1, <1>2, <3>1 DEF Numbers
    <3>3. AnnouncedIn(Outgoing(c)') + drops'[c].pending + Noticing(c)' + dropped[c]
            <= AnnouncedIn(Outgoing(c)) + drops[c].pending + Noticing(c) + dropped'[c]
      BY <1>4, <2>3, <2>5, <3>2
    <3> QED
      BY <1>1, <1>2, <1>7, <3>3, NoticeBalance
  <2> QED
    BY <2>3, <2>4, <2>6, <2>7 DEF Line
<1>11. ASSUME NEW d \in Consumers, d # c
       PROVE  Line(d)'
  BY <1>1, <1>2, <1>4, <1>7, <1>9, <1>11, OtherLines
<1> QED
  BY <1>7, <1>8, <1>10, <1>11 DEF DeliveryInv

LEMMA CountFits ==
  ASSUME DeliveryInv, NEW c \in Consumers, c = pub.cur, Count
  PROVE  DeliveryInv'
<1>1. /\ UNCHANGED <<subscribers, conn, inFlight, sendCh, dropped, drops, wire, emits, published>>
      /\ UNCHANGED dedupVars
      /\ pub.phase = "count" /\ received' = [received EXCEPT ![c] = received[c] + 1]
      /\ pub' = NextMatch(pub)
  BY DEF Count, connVars, boundVars
<1>2. /\ c \in pub.todo /\ Types /\ pub \in PubRecords /\ c # Nobody
      /\ Line(c) /\ Numbers(c) /\ pub.count = 0 /\ pub.enqueued
  BY <1>1, Served DEF DeliveryInv, PubMatches
<1>3. /\ pub' \in PubRecords /\ pub'.cur = Nobody /\ pub'.count = 0
      /\ pub'.todo = pub.todo \ {c} /\ pub'.phase \in {"idle", "next"}
      /\ pub'.phase = "idle" => pub'.todo = {}
  <2> DEFINE rest == pub.todo \ {c}
  <2>1. rest \subseteq Consumers
    BY <1>2 DEF PubRecords
  <2>2. pub' = IF rest = {} THEN Idle ELSE [Idle EXCEPT !.phase = "next", !.todo = rest]
    BY <1>1 DEF NextMatch
  <2> QED
    BY <2>1, <2>2, IdleType DEF PubRecords, Idle
<1>4. /\ received' \in [Consumers -> Nat] /\ received'[c] = received[c] + 1
      /\ \A d \in Consumers : d # c => received'[d] = received[d]
      /\ received[c] \in Nat /\ dropped[c] \in Nat
  BY <1>1, <1>2 DEF Types
<1>5. Types'
  BY <1>1, <1>2, <1>3, <1>4 DEF Types, dedupVars, DedupTypeOK
<1>6. PubMatches'
  BY <1>3 DEF PubMatches
<1>7. \A d \in Consumers : Outgoing(d)' = Outgoing(d)
  BY <1>1 DEF Outgoing
<1>8. Line(c)'
  <2>1. /\ ~ToPush(c) /\ ~ToPush(c)' /\ ~ToDrop(c) /\ ~ToDrop(c)' /\ ToCount(c) /\ ~ToCount(c)'
    BY <1>1, <1>2, <1>3 DEF ToPush, ToDrop, ToCount
  <2>2. Top(c)' = Top(c)
    BY <1>1, <2>1 DEF Top, One
  <2>3. Ordered(c)'
    BY <1>1, <1>2, <1>7, <2>2 DEF Line, Ordered
  <2>4. Bounded(c)'
    BY <1>1, <1>2, <1>4, <2>1 DEF Line, Bounded, One, Numbers
  <2>5. Pushed(c)' = Pushed(c) /\ Evicted(c)' = Evicted(c) /\ Noticing(c)' = Noticing(c)
    BY <1>1, <1>2, <1>3, <1>4 DEF Pushed, Evicted, Noticing, One
  <2>6. NoLoss(c)'
    BY <1>1, <1>2, <1>7, <2>5 DEF Line, NoLoss
  <2>7. Accounted(c)' <= dropped'[c]
    <3>1. Numbers(c)'
      BY <1>5, NumbersNext
    <3> QED
      BY <1>1, <1>2, <1>7, <2>5, <3>1 DEF Line, Numbers, AnnouncedIn
  <2> QED
    BY <2>3, <2>4, <2>6, <2>7 DEF Line
<1>9. ASSUME NEW d \in Consumers, d # c
      PROVE  Line(d)'
  <2>1. d # Nobody
    BY DeliveryAssumption
  <2> QED
    BY <1>1, <1>2, <1>3, <1>4, <1>5, <1>7, <1>9, <2>1, OtherLines
<1> QED
  BY <1>5, <1>6, <1>8, <1>9 DEF DeliveryInv

LEMMA BroadcastFits ==
  ASSUME DeliveryInv, NEW targets, targets \subseteq subscribers, Broadcast(targets)
  PROVE  DeliveryInv'
<1>1. /\ UNCHANGED <<subscribers, conn, inFlight, received, dropped, drops, wire, pub, emits, published>>
      /\ UNCHANGED dedupVars
      /\ \A c \in targets : SendMuFree(c)
      /\ sendCh' = [c \in Consumers |->
                      IF c \in targets THEN TrySent(c, Control) ELSE sendCh[c]]
  BY DEF Broadcast, connVars, countVars
<1>2. Control \in FrameRecords /\ Control.kind = "control" /\ Types
  BY DEF Control, FrameRecords, DeliveryInv
<1>3. ASSUME NEW c \in Consumers
      PROVE  /\ sendCh'[c] \in Seq(FrameRecords) /\ Len(sendCh'[c]) <= SendChCap
             /\ \/ c \in targets /\ Outgoing(c)' = Append(Outgoing(c), Control)
                \/ sendCh'[c] = sendCh[c] /\ Outgoing(c)' = Outgoing(c)
  <2>1. /\ sendCh[c] \in Seq(FrameRecords) /\ Len(sendCh[c]) <= SendChCap
        /\ inFlight[c] \in Seq(FrameRecords)
    BY <1>2 DEF Types
  <2>2. CASE c \in targets /\ HasRoom(c)
    <3>1. sendCh'[c] = Append(sendCh[c], Control)
      BY <1>1, <2>2 DEF TrySent
    <3>2. inFlight[c] \o Append(sendCh[c], Control) = Append(inFlight[c] \o sendCh[c], Control)
      BY <1>2, <2>1, OutgoingAppend
    <3> QED
      BY <1>1, <1>2, <2>2, <3>1, <3>2, AppendType DEF Outgoing
  <2>3. CASE ~(c \in targets /\ HasRoom(c))
    <3>1. sendCh'[c] = sendCh[c]
      BY <1>1, <2>3 DEF TrySent
    <3> QED
      BY <1>1, <2>1, <3>1 DEF Outgoing
  <2> QED
    BY <2>2, <2>3
<1>4. Types'
  <2>1. sendCh' \in [Consumers -> Seq(FrameRecords)]
    BY <1>1, <1>3
  <2> QED
    BY <1>1, <1>2, <1>3, <2>1 DEF Types, dedupVars, DedupTypeOK
<1>5. PubMatches'
  <2>1. ASSUME pub.phase = "retry"
        PROVE  HasRoom(pub.cur)'
    <3>1. pub.cur \in Consumers /\ HasRoom(pub.cur) /\ pub.cur \notin targets
      BY <1>1, <2>1, Served DEF SendMuFree, DeliveryInv, PubMatches
    <3>2. sendCh'[pub.cur] = sendCh[pub.cur]
      BY <1>1, <3>1
    <3> QED
      BY <1>1, <3>1, <3>2 DEF HasRoom
  <2> QED
    BY <1>1, <2>1, PubUntouched DEF DeliveryInv
<1>6. ASSUME NEW c \in Consumers
      PROVE  Line(c)'
  <2>1. Line(c) /\ Numbers(c) /\ Numbers(c)'
    BY <1>2, <1>4, NumbersNow, NumbersNext DEF DeliveryInv
  <2>2. CASE Outgoing(c)' = Append(Outgoing(c), Control)
    <3>1. /\ Top(c)' = Top(c) /\ Bounded(c)' = Bounded(c) /\ Pushed(c)' = Pushed(c)
          /\ Evicted(c)' = Evicted(c) /\ Noticing(c)' = Noticing(c)
      BY <1>1 DEF Top, ToPush, Bounded, ToDrop, ToCount, Pushed, Evicted, Noticing
    <3>2. Top(c) <= Top(c)'
      BY <2>1, <3>1 DEF Numbers
    <3>3. /\ Ordered(c)'
          /\ Cardinality(EventsIn(Outgoing(c)'))
               = Cardinality(EventsIn(Outgoing(c))) + One(Control.kind = "event")
          /\ AnnouncedIn(Outgoing(c)') <= AnnouncedIn(Outgoing(c)) + Weight(Control)
      BY <1>1, <1>2, <1>4, <2>1, <2>2, <3>2, LineAppend
    <3>4. /\ Weight(Control) = 0 /\ One(Control.kind = "event") = 0
          /\ AnnouncedIn(Outgoing(c)) \in Nat /\ AnnouncedIn(Outgoing(c)') \in Nat
          /\ Cardinality(EventsIn(Outgoing(c))) \in Nat
          /\ drops[c].pending \in Nat /\ Noticing(c) \in Nat /\ dropped[c] \in Nat
          /\ drops'[c] = drops[c] /\ dropped'[c] = dropped[c]
      BY <1>1, <1>2, <2>1 DEF Weight, One, Numbers
    <3>5. /\ Cardinality(EventsIn(Outgoing(c)')) = Cardinality(EventsIn(Outgoing(c)))
          /\ AnnouncedIn(Outgoing(c)') <= AnnouncedIn(Outgoing(c))
      BY <3>3, <3>4
    <3>6. NoLoss(c)'
      BY <1>1, <2>1, <3>1, <3>5 DEF Line, NoLoss
    <3>7. Accounted(c)' <= dropped'[c]
      <4>1. AnnouncedIn(Outgoing(c)') + drops'[c].pending + Noticing(c)' + dropped[c]
              <= AnnouncedIn(Outgoing(c)) + drops[c].pending + Noticing(c) + dropped'[c]
        BY <3>1, <3>4, <3>5
      <4> QED
        BY <1>1, <1>2, <1>4, <2>1, <4>1, NoticeBalance
    <3> QED
      BY <2>1, <3>1, <3>3, <3>6, <3>7 DEF Line
  <2>3. CASE Outgoing(c)' = Outgoing(c)
    BY <1>1, <1>2, <1>4, <2>1, <2>3, LineWithoutPublisher
  <2> QED
    BY <1>3, <2>2, <2>3
<1> QED
  BY <1>4, <1>5, <1>6 DEF DeliveryInv

-----------------------------------------------------------------------------
\* The invariant holds of every reachable state.

LEMMA InitFits == Init => DeliveryInv
<1> SUFFICES ASSUME Init
             PROVE  DeliveryInv
  OBVIOUS
<1>1. DedupTypeOK
  BY CapPositive, DedupAssumption DEF Init, DedupInit, DedupTypeOK, Slots, Verdict
<1>2. /\ pub = Idle /\ published = 0 /\ emits = 0
      /\ pub.phase = "idle" /\ pub.todo = {} /\ pub.cur = Nobody /\ pub.count = 0
  BY DEF Init, Idle
<1>3. Types
  BY <1>1, <1>2, IdleType, DeliveryAssumption
     DEF Init, Types, WireRecords, DedupTypeOK
<1>4. PubMatches
  BY <1>2 DEF PubMatches
<1>5. ASSUME NEW c \in Consumers
      PROVE  Line(c)
  <2>1. /\ received[c] = 0 /\ dropped[c] = 0 /\ drops[c].pending = 0
        /\ wire[c].last = 0 /\ wire[c].events = 0 /\ wire[c].announced = 0
        /\ sendCh[c] = <<>> /\ inFlight[c] = <<>>
    BY DEF Init
  <2>2. Outgoing(c) = <<>>
    BY <2>1 DEF Outgoing
  <2>3. EventsIn(<<>>) = {} /\ Pairs(<<>>) = {}
    BY DEF EventsIn, Range, Pairs
  <2>4. Cardinality(EventsIn(Outgoing(c))) = 0 /\ AnnouncedIn(Outgoing(c)) = 0
    <3>1. Cardinality({}) = 0
      BY FS_EmptySet
    <3>2. AnnouncedIn(Outgoing(c)) = Cardinality(Pairs(Outgoing(c)))
      BY DEF AnnouncedIn, Pairs
    <3> QED
      BY <2>2, <2>3, <3>1, <3>2, Zenon
  <2>5. c # Nobody
    BY DeliveryAssumption
  <2>6. ~ToPush(c) /\ ~ToDrop(c) /\ ~ToCount(c)
    BY <1>2 DEF ToPush, ToDrop, ToCount
  <2>7. Ordered(c)
    BY <1>2, <2>1, <2>2, <2>6 DEF Ordered, InOrder, Top, One
  <2>8. Bounded(c)
    BY <1>2, <2>1, <2>6 DEF Bounded, One
  <2>9. NoLoss(c)
    BY <1>2, <2>1, <2>4, <2>5 DEF NoLoss, Pushed, Evicted, One
  <2>10. Accounted(c) <= dropped[c]
    BY <1>2, <2>1, <2>4, <2>5 DEF Accounted
  <2> QED
    BY <2>7, <2>8, <2>9, <2>10 DEF Line
<1> QED
  BY <1>3, <1>4, <1>5 DEF DeliveryInv

LEMMA StutterFits ==
  ASSUME DeliveryInv, UNCHANGED vars
  PROVE  DeliveryInv'
<1>1. /\ UNCHANGED <<ring, next, present, reply, subscribers, conn, sendCh, inFlight>>
      /\ UNCHANGED <<received, dropped, drops, wire, pub, emits, published>>
  BY DEF vars
<1>2. Types'
  BY <1>1 DEF DeliveryInv, Types, DedupTypeOK
<1>3. PubMatches'
  BY <1>1 DEF DeliveryInv, PubMatches, HasRoom
<1>4. ASSUME NEW c \in Consumers
      PROVE  Line(c)'
  <2>1. Outgoing(c)' = Outgoing(c)
    BY <1>1 DEF Outgoing
  <2> QED
    BY <1>1, <1>2, <2>1, LineWithoutPublisher DEF DeliveryInv
<1> QED
  BY <1>2, <1>3, <1>4 DEF DeliveryInv

LEMMA StepFits == DeliveryInv /\ [Next]_vars => DeliveryInv'
<1> SUFFICES ASSUME DeliveryInv, [Next]_vars
             PROVE  DeliveryInv'
  OBVIOUS
<1>1. CASE Publisher
  <2>1. CASE Snapshot
    BY <2>1, SnapshotFits
  <2>2. CASE \E c \in Consumers : Push(c)
    BY <2>2, PushFits
  <2>3. CASE Evict
    <3>1. pub.cur \in Consumers
      BY <2>3, Served DEF Evict
    <3> QED
      BY <2>3, <3>1, EvictFits
  <2>4. CASE Retry
    <3>1. pub.cur \in Consumers
      BY <2>4, Served DEF Retry
    <3> QED
      BY <2>4, <3>1, RetryFits
  <2>5. CASE RecordDrop
    <3>1. pub.cur \in Consumers
      BY <2>5, Served DEF RecordDrop
    <3> QED
      BY <2>5, <3>1, RecordDropFits
  <2>6. CASE Notify
    <3>1. pub.cur \in Consumers
      BY <2>6, Served DEF Notify
    <3> QED
      BY <2>6, <3>1, NotifyFits
  <2>7. CASE Count
    <3>1. pub.cur \in Consumers
      BY <2>7, Served DEF Count
    <3> QED
      BY <2>7, <3>1, CountFits
  <2> QED
    BY <1>1, <2>1, <2>2, <2>3, <2>4, <2>5, <2>6, <2>7 DEF Publisher
<1>2. CASE \E t \in TraceIds \union {NoId} : Emit(t)
  BY <1>2, EmitFits
<1>3. CASE BroadcastSourceStatus
  BY <1>3, BroadcastFits DEF BroadcastSourceStatus
<1>4. CASE BroadcastSubscribeError
  <2>1. PICK k \in {KeyOf[c] : c \in subscribers} :
          Broadcast({c \in subscribers : KeyOf[c] = k})
    BY <1>4 DEF BroadcastSubscribeError
  <2> DEFINE targets == {c \in subscribers : KeyOf[c] = k}
  <2>2. targets \subseteq subscribers /\ Broadcast(targets)
    BY <2>1
  <2> HIDE DEF targets
  <2> QED
    BY <2>2, BroadcastFits
<1>5. ASSUME NEW c \in Consumers,
             Register(c) \/ Close(c) \/ SenderTake(c) \/ SenderWrite(c) \/ IntervalElapses(c)
      PROVE  DeliveryInv'
  BY <1>5, ConnectionFits, SenderTakeFits, SenderWriteFits
<1>6. CASE UNCHANGED vars
  BY <1>6, StutterFits
<1> QED
  BY <1>1, <1>2, <1>3, <1>4, <1>5, <1>6 DEF Next

\* The inductive invariant that the theorems below rest on.
THEOREM DeliveryInvariant == Spec => []DeliveryInv
<1> QED
  BY InitFits, StepFits, PTL DEF Spec

-----------------------------------------------------------------------------
\* What follows from the invariant.

\* No frame that waits carries a position or a count that the emits so far do
\* not bound.
LEMMA FramesInRange ==
  ASSUME DeliveryInv, NEW c \in Consumers, NEW i \in DOMAIN Outgoing(c)
  PROVE  Outgoing(c)[i] \in Frames
<1> DEFINE q == Outgoing(c)
           f == q[i]
<1>1. Types /\ Line(c) /\ Numbers(c) /\ q \in Seq(FrameRecords)
  BY OutgoingType, NumbersNow DEF DeliveryInv
<1>2. f \in FrameRecords /\ f.n \in Nat
  BY <1>1, FrameOf
<1>3. published <= MaxEmits /\ published \in Nat /\ MaxEmits \in Nat
  BY <1>1, DeliveryAssumption DEF Types
<1>4. CASE f = Control
  BY <1>4 DEF Frames
<1>5. CASE f # Control
  <2>1. f \in [kind : {"event", "dropped"}, n : Nat \ {0}]
    BY <1>2, <1>5 DEF FrameRecords
  <2>2. f.n <= published
    <3>1. CASE f.kind = "event"
      <4>1. f.n <= Top(c)
        BY <1>1, <3>1 DEF Line, Ordered, InOrder
      <4>2. Top(c) <= published
        BY <1>3 DEF Top, One
      <4>3. Top(c) \in Int
        BY <1>3 DEF Top, One
      <4> QED
        BY <1>2, <1>3, <4>1, <4>2, <4>3
    <3>2. CASE f.kind = "dropped"
      <4>1. Cardinality(Pairs(Without(q, i))) + f.n <= Cardinality(Pairs(q))
        BY <1>1, <3>2, RemovePairs DEF Weight
      <4>2. Cardinality(Pairs(Without(q, i))) \in Nat /\ Cardinality(Pairs(q)) \in Nat
        BY <1>1, WithoutIsSeq, PairsAreFinite
      <4>3. AnnouncedIn(q) = Cardinality(Pairs(q))
        BY DEF AnnouncedIn, Pairs
      <4>4. AnnouncedIn(q) <= dropped[c] /\ dropped[c] <= published
        <5>1. /\ dropped[c] \in Nat /\ wire[c].announced \in Nat
              /\ drops[c].pending \in Nat /\ pub.count \in Nat /\ AnnouncedIn(q) \in Nat
          BY <1>1, PubType DEF Numbers, WireRecords
        <5>2. wire[c].announced + AnnouncedIn(q) + drops[c].pending
                + (IF pub.cur = c THEN pub.count ELSE 0) <= dropped[c]
          BY <1>1 DEF Line, Accounted
        <5>3. dropped[c] + One(ToDrop(c)) <= published
          BY <1>1 DEF Line, Bounded
        <5> HIDE DEF q
        <5>4. One(ToDrop(c)) \in Nat
          BY DEF One
        <5> QED
          BY <1>3, <5>1, <5>2, <5>3, <5>4
      <4>5. dropped[c] \in Nat
        BY <1>1 DEF Numbers
      <4> HIDE DEF q, f
      <4> QED
        BY <1>2, <1>3, <4>1, <4>2, <4>3, <4>4, <4>5
    <3> QED
      BY <2>1, <3>1, <3>2
  <2>3. f.n \in 1..MaxEmits
    BY <1>3, <2>1, <2>2
  <2>4. PICK k \in {"event", "dropped"}, n \in Nat \ {0} : f = [kind |-> k, n |-> n]
    BY <2>1, Zenon
  <2> QED
    BY <2>3, <2>4 DEF Frames
<1> QED
  BY <1>4, <1>5

LEMMA CountersInRange ==
  ASSUME DeliveryInv, NEW c \in Consumers
  PROVE  /\ received[c] \in 0..MaxEmits /\ dropped[c] \in 0..MaxEmits
         /\ drops[c] \in [pending : 0..MaxEmits, throttled : BOOLEAN]
         /\ wire[c] \in [last : 0..MaxEmits, events : 0..MaxEmits,
                         announced : 0..MaxEmits]
<1>1. Types /\ Line(c) /\ Numbers(c)
  BY NumbersNow DEF DeliveryInv
<1>2. published <= MaxEmits /\ published \in Nat /\ MaxEmits \in Nat
  BY <1>1, DeliveryAssumption DEF Types
<1>3. /\ received[c] \in Nat /\ dropped[c] \in Nat /\ pub.count \in Nat
      /\ drops[c] \in [pending : Nat, throttled : BOOLEAN] /\ wire[c] \in WireRecords
      /\ AnnouncedIn(Outgoing(c)) \in Nat
  BY <1>1, PubType DEF Types, Numbers
<1>4. received[c] <= published /\ dropped[c] <= published
  <2>1. /\ dropped[c] + One(ToDrop(c)) <= published
        /\ received[c] + One(ToCount(c)) <= published
    BY <1>1 DEF Line, Bounded
  <2>2. One(ToDrop(c)) \in Nat /\ One(ToCount(c)) \in Nat
    BY DEF One
  <2> QED
    BY <1>2, <1>3, <2>1, <2>2
<1>5. wire[c].announced <= dropped[c] /\ drops[c].pending <= dropped[c]
  <2>1. wire[c].announced + AnnouncedIn(Outgoing(c)) + drops[c].pending
          + (IF pub.cur = c THEN pub.count ELSE 0) <= dropped[c]
    BY <1>1 DEF Line, Accounted
  <2>2. wire[c].announced \in Nat /\ drops[c].pending \in Nat
    BY <1>3 DEF WireRecords
  <2> QED
    BY <1>3, <2>1, <2>2
<1>6. wire[c].events <= wire[c].last /\ wire[c].last <= published
  <2>1. wire[c].events <= wire[c].last /\ wire[c].last <= Top(c)
    BY <1>1 DEF Line, Ordered, InOrder
  <2>2. Top(c) <= published /\ Top(c) \in Int
    BY <1>2 DEF Top, One
  <2>3. wire[c].last \in Nat
    BY <1>3 DEF WireRecords
  <2> QED
    BY <1>2, <2>1, <2>2, <2>3
<1>7. received[c] \in 0..MaxEmits /\ dropped[c] \in 0..MaxEmits
  BY <1>2, <1>3, <1>4
<1>8. drops[c] \in [pending : 0..MaxEmits, throttled : BOOLEAN]
  <2>1. PICK n \in Nat, b \in BOOLEAN : drops[c] = [pending |-> n, throttled |-> b]
    BY <1>3, Zenon
  <2>2. n \in 0..MaxEmits
    BY <1>2, <1>3, <1>4, <1>5, <2>1
  <2> QED
    BY <2>1, <2>2
<1>9. wire[c] \in [last : 0..MaxEmits, events : 0..MaxEmits, announced : 0..MaxEmits]
  <2>1. PICK l \in Nat, e \in Nat, a \in Nat :
          wire[c] = [last |-> l, events |-> e, announced |-> a]
    BY <1>3, Zenon DEF WireRecords
  <2>2. l \in 0..MaxEmits /\ e \in 0..MaxEmits /\ a \in 0..MaxEmits
    BY <1>2, <1>3, <1>4, <1>5, <1>6, <2>1
  <2> QED
    BY <2>1, <2>2
<1> QED
  BY <1>7, <1>8, <1>9

\* Types and capacities: a send channel never holds more than its capacity and
\* its sender at most one frame, and neither a counter of a Conn nor a notice
\* exceeds the number of emits (conn.go, hub.go).
THEOREM DeliveryTypeOK == Spec => []TypeOK
<1>1. DeliveryInv => TypeOK
  <2> SUFFICES ASSUME DeliveryInv
               PROVE  TypeOK
    OBVIOUS
  <2>1. \A c \in Consumers : \A i \in DOMAIN Outgoing(c) : Outgoing(c)[i] \in Frames
    BY FramesInRange
  <2>2. \A c \in Consumers :
          /\ received[c] \in 0..MaxEmits /\ dropped[c] \in 0..MaxEmits
          /\ drops[c] \in [pending : 0..MaxEmits, throttled : BOOLEAN]
          /\ wire[c] \in [last : 0..MaxEmits, events : 0..MaxEmits,
                          announced : 0..MaxEmits]
    BY CountersInRange
  <2>3. /\ DedupTypeOK /\ subscribers \subseteq Consumers
        /\ conn \in [Consumers -> {"new", "open", "closed"}]
        /\ \A c \in Consumers : Len(sendCh[c]) <= SendChCap /\ Len(inFlight[c]) <= 1
        /\ pub \in PubRecords
    BY DEF DeliveryInv, Types
  <2>4. /\ pub.phase \in {"idle", "snapshot", "next", "evict", "retry", "drop",
                          "notify", "count"}
        /\ pub.todo \subseteq Consumers
    BY <2>3 DEF PubRecords
  <2> QED
    BY <2>1, <2>2, <2>3, <2>4 DEF TypeOK
<1> QED
  BY <1>1, DeliveryInvariant, PTL

\* PushDropOldest's second push never fails: between its eviction and that push
\* the sender can only make room, and TrySend is kept out by sendMu (conn.go).
THEOREM PushLands == Spec => []PushAlwaysLands
<1>1. DeliveryInv => PushAlwaysLands
  BY DEF DeliveryInv, PubMatches, PushAlwaysLands
<1> QED
  BY <1>1, DeliveryInvariant, PTL

\* The events a connection was sent and those that wait are in the order of
\* publication, without repetition, whatever PushDropOldest evicted (hub.go,
\* conn.go).
THEOREM DeliveredInOrder == Spec => []EventsInOrder
<1>1. DeliveryInv => EventsInOrder
  <2> SUFFICES ASSUME DeliveryInv, NEW c \in Consumers
               PROVE  LET q == Outgoing(c)
                          events == {i \in DOMAIN q : q[i].kind = "event"}
                      IN \A i \in events : /\ wire[c].last < q[i].n
                                           /\ \A j \in events : i < j => q[i].n < q[j].n
    BY Zenon DEF EventsInOrder
  <2>1. InOrder(Outgoing(c), wire[c], Top(c))
    BY DEF DeliveryInv, Line, Ordered
  <2> QED
    BY <2>1 DEF InOrder
<1> QED
  BY <1>1, DeliveryInvariant, PTL

\* Every event pushed to a subscriber is on its wire, waiting for it, or counted
\* by IncrementDropped: received, which `event status` shows, hides no loss
\* (hub.go, Publish).
THEOREM LossesAreCounted == Spec => []NoUncountedLoss
<1>1. DeliveryInv => NoUncountedLoss
  <2> SUFFICES ASSUME DeliveryInv, NEW c \in subscribers
               PROVE  Pushed(c) <= wire[c].events + Cardinality(EventsIn(Outgoing(c)))
                                   + Evicted(c)
    BY Zenon DEF NoUncountedLoss
  <2>1. c \in Consumers
    BY DEF DeliveryInv, Types
  <2> QED
    BY <2>1, Zenon DEF DeliveryInv, Line, NoLoss
<1> QED
  BY <1>1, DeliveryInvariant, PTL

\* The dropped notices written, waiting, under way and pending for a connection
\* never add up to more than the frames evicted from its channel (hub.go,
\* recordDrop).
THEOREM NoticesAreBacked == Spec => []NoticesNeverOverstate
<1>1. DeliveryInv => NoticesNeverOverstate
  BY DEF DeliveryInv, Line, NoticesNeverOverstate
<1> QED
  BY <1>1, DeliveryInvariant, PTL

-----------------------------------------------------------------------------
\* The bus uses Dedup as DedupSpec describes it: emit calls Seen, nothing else
\* touches the ring.

LEMMA DedupStep == [Next]_vars => [DedupNext]_dedupVars
<1> SUFFICES ASSUME [Next]_vars
             PROVE  [DedupNext]_dedupVars
  OBVIOUS
<1>1. CASE Publisher
  BY <1>1 DEF Publisher, Snapshot, Push, Evict, Retry, RecordDrop, Notify, Count
<1>2. ASSUME NEW t \in TraceIds \union {NoId}, Emit(t)
      PROVE  [DedupNext]_dedupVars
  BY <1>2 DEF Emit, DedupNext
<1>3. CASE BroadcastSourceStatus
  BY <1>3 DEF BroadcastSourceStatus, Broadcast
<1>4. CASE BroadcastSubscribeError
  BY <1>4 DEF BroadcastSubscribeError, Broadcast
<1>5. ASSUME NEW c \in Consumers,
             Register(c) \/ Close(c) \/ SenderTake(c) \/ SenderWrite(c) \/ IntervalElapses(c)
      PROVE  UNCHANGED dedupVars
  BY <1>5 DEF Register, Close, SenderTake, SenderWrite, IntervalElapses
<1>6. CASE UNCHANGED vars
  BY <1>6 DEF vars, dedupVars
<1> QED
  BY <1>1, <1>2, <1>3, <1>4, <1>5, <1>6 DEF Next

\* Inside the running bus, with connections coming and going and whatever is
\* evicted, an event is suppressed exactly when its trace id is among the last
\* Cap distinct ids (bus.go's emit, dedup.go's Seen).
THEOREM BusSuppressesByWindow == Spec => DedupImplementsWindow
<1>1. Init => DedupInit
  BY DEF Init
<1>2. Spec => DedupSpec
  BY <1>1, DedupStep, PTL DEF Spec, DedupSpec
<1> QED
  BY <1>2, DedupRefinesWindow, PTL

-----------------------------------------------------------------------------
\* Subscribers and matches never become infinitely many.
FinitelyMany == IsFiniteSet(subscribers) /\ IsFiniteSet(pub.todo)

\* What is behind the publisher of the at most six steps that one subscriber
\* costs it.
StepsTaken ==
  IF pub.phase = "evict" THEN 1 ELSE IF pub.phase = "retry" THEN 2
  ELSE IF pub.phase = "drop" THEN 3 ELSE IF pub.phase = "notify" THEN 4
  ELSE IF pub.phase = "count" THEN 5 ELSE 0

\* The steps that Publish can still take.
StepsLeft == 6 * Cardinality(pub.todo) - StepsTaken

\* The guards of Publisher: whatever a step of the source goroutine inside emit
\* waits for is there.
PublisherCanStep ==
  \/ pub.phase \in {"snapshot", "evict", "retry", "drop", "count"}
  \/ pub.phase = "next" /\ pub.todo # {}
  \/ pub.phase = "notify" /\ SendMuFree(pub.cur)

\* Inside Publish the source goroutine always has a step of its own to take, and
\* what is left of its steps is a number.
PublisherNeverWaits == pub.phase # "idle" => PublisherCanStep /\ StepsLeft \in Nat

\* Nobody else moves the source goroutine inside emit, and its own steps use up
\* StepsLeft, which the snapshot fixes.
PublishAdvances ==
  pub.phase # "idle" =>
    /\ Publisher => pub'.phase # "snapshot" /\ (pub.phase = "snapshot" \/ StepsLeft' < StepsLeft)
    /\ ~Publisher => pub' = pub

\* Between two subscribers there is one whose turn it is.
SomebodyIsNext == pub.phase = "next" => pub.todo # {}

\* What the two theorems about a Publish under way rest on.
NeverWaitsInv == DeliveryInv /\ FinitelyMany /\ SomebodyIsNext

\* The bus starts without subscribers and matches.
LEMMA FinitelyManyInit == Init => FinitelyMany
BY FS_EmptySet DEF Init, FinitelyMany, Idle

\* One element more or less keeps a set finite.
LEMMA SmallerSets ==
  ASSUME NEW S, IsFiniteSet(S)
  PROVE  \A x : IsFiniteSet(S \ {x}) /\ IsFiniteSet(S \union {x})
<1> SUFFICES ASSUME NEW x PROVE IsFiniteSet(S \ {x}) /\ IsFiniteSet(S \union {x})
  OBVIOUS
<1>1. IsFiniteSet(S \ {x})
  BY FS_RemoveElement
<1>2. IsFiniteSet(S \union {x})
  BY FS_AddElement
<1> QED
  BY <1>1, <1>2

\* The next subscriber's turn: what the last one leaves of the steps.
LEMMA NextTurn ==
  ASSUME NEW p \in PubRecords, IsFiniteSet(p.todo), p.cur \in p.todo
  PROVE  /\ NextMatch(p).todo = p.todo \ {p.cur}
         /\ NextMatch(p).phase = IF p.todo \ {p.cur} = {} THEN "idle" ELSE "next"
         /\ IsFiniteSet(NextMatch(p).todo)
         /\ Cardinality(NextMatch(p).todo) = Cardinality(p.todo) - 1
         /\ Cardinality(p.todo) \in Nat
<1>1. /\ NextMatch(p).todo = p.todo \ {p.cur}
      /\ NextMatch(p).phase = IF p.todo \ {p.cur} = {} THEN "idle" ELSE "next"
  BY DEF NextMatch, Idle
<1>2. /\ IsFiniteSet(p.todo \ {p.cur})
      /\ Cardinality(p.todo \ {p.cur}) = Cardinality(p.todo) - 1
  BY FS_RemoveElement
<1> QED
  BY <1>1, <1>2, FS_CardinalityType

\* A step of the publisher uses up what is left and keeps the matches finite.
LEMMA PublisherStep ==
  ASSUME DeliveryInv, FinitelyMany, Publisher
  PROVE  /\ pub.phase # "idle"
         /\ IsFiniteSet(pub'.todo) /\ subscribers' = subscribers /\ SomebodyIsNext'
         /\ pub'.phase # "snapshot"
         /\ pub.phase = "snapshot" \/ StepsLeft' < StepsLeft
<1>0. /\ pub \in PubRecords /\ Cardinality(pub.todo) \in Nat /\ IsFiniteSet(pub.todo)
  BY FS_CardinalityType DEF DeliveryInv, Types, FinitelyMany
<1>1. CASE Snapshot
  <2>1. IsFiniteSet({c \in subscribers : reply.id \in Routes[c]})
    BY FS_Subset DEF FinitelyMany
  <2>2. /\ pub.phase = "snapshot" /\ subscribers' = subscribers
        /\ pub'.todo \in {{}, {c \in subscribers : reply.id \in Routes[c]}}
        /\ pub'.phase = IF pub'.todo = {} THEN "idle" ELSE "next"
    BY <1>0, <1>1 DEF Snapshot, connVars, Idle, PubRecords
  <2> QED
    BY <2>1, <2>2, FS_EmptySet DEF SomebodyIsNext
<1>2. ASSUME NEW c \in Consumers, Push(c)
      PROVE  /\ pub.phase = "next" /\ subscribers' = subscribers
             /\ pub'.todo = pub.todo /\ pub'.phase \in {"evict", "count"}
  BY <1>0, <1>2 DEF Push, connVars, PubRecords
<1>3. ASSUME pub.phase \in {"evict", "retry", "drop", "notify", "count"}
      PROVE  pub.cur \in pub.todo
  BY <1>3, Served
<1>4. CASE Evict
  <2>1. /\ pub.phase = "evict" /\ subscribers' = subscribers
        /\ pub'.todo = pub.todo /\ pub'.phase = "retry"
    BY <1>0, <1>4 DEF Evict, connVars, PubRecords
  <2> QED
    BY <1>0, <2>1 DEF StepsLeft, StepsTaken, SomebodyIsNext
<1>5. ASSUME NEW p \in PubRecords, p.todo = pub.todo, p.cur \in pub.todo,
             pub' = AfterDrop(p), pub.phase \in {"drop", "notify"},
             subscribers' = subscribers
      PROVE  /\ IsFiniteSet(pub'.todo) /\ pub'.phase # "snapshot" /\ StepsLeft' < StepsLeft
             /\ SomebodyIsNext'
  <2>1. CASE p.enqueued
    <3>1. pub'.todo = pub.todo /\ pub'.phase = "count"
      BY <1>5, <2>1 DEF AfterDrop, PubRecords
    <3> QED
      BY <1>0, <1>5, <3>1 DEF StepsLeft, StepsTaken, SomebodyIsNext
  <2>2. CASE ~p.enqueued
    <3>1. /\ IsFiniteSet(pub'.todo) /\ Cardinality(pub'.todo) = Cardinality(pub.todo) - 1
          /\ pub'.phase \in {"idle", "next"} /\ SomebodyIsNext'
      BY <1>0, <1>5, <2>2, NextTurn DEF AfterDrop, SomebodyIsNext
    <3> QED
      BY <1>0, <1>5, <3>1 DEF StepsLeft, StepsTaken, SomebodyIsNext
  <2> QED
    BY <2>1, <2>2
<1>6. CASE Retry
  <2>1. /\ pub.phase = "retry" /\ subscribers' = subscribers /\ HasRoom(pub.cur)
        /\ pub' = IF pub.evicted THEN [pub EXCEPT !.enqueued = TRUE, !.phase = "drop"]
                  ELSE [pub EXCEPT !.enqueued = TRUE, !.phase = "count"]
    BY <1>0, <1>6 DEF Retry, connVars, AfterDrop, PubRecords, DeliveryInv, PubMatches
  <2>2. pub'.todo = pub.todo /\ pub'.phase \in {"drop", "count"}
    BY <1>0, <2>1 DEF PubRecords
  <2> QED
    BY <1>0, <2>1, <2>2 DEF StepsLeft, StepsTaken, SomebodyIsNext
<1>7. CASE RecordDrop
  <2>1. /\ pub.phase = "drop" /\ subscribers' = subscribers
        /\ \/ pub' = AfterDrop(pub)
           \/ pub' = [pub EXCEPT !.phase = "notify", !.count = drops[pub.cur].pending + 1]
    BY <1>7 DEF RecordDrop, connVars
  <2>2. CASE pub' = AfterDrop(pub)
    BY <1>0, <1>3, <1>5, <2>1, <2>2
  <2>3. CASE pub' = [pub EXCEPT !.phase = "notify", !.count = drops[pub.cur].pending + 1]
    <3>1. pub'.todo = pub.todo /\ pub'.phase = "notify"
      BY <1>0, <2>3 DEF PubRecords
    <3> QED
      BY <1>0, <2>1, <3>1 DEF StepsLeft, StepsTaken, SomebodyIsNext
  <2> QED
    BY <2>1, <2>2, <2>3
<1>8. CASE Notify
  <2> DEFINE p == [pub EXCEPT !.count = 0]
  <2>1. p \in PubRecords /\ p.todo = pub.todo /\ p.cur = pub.cur
    BY <1>0 DEF PubRecords
  <2>2. pub.phase = "notify" /\ subscribers' = subscribers /\ pub' = AfterDrop(p)
    BY <1>8 DEF Notify, connVars
  <2> HIDE DEF p
  <2> QED
    BY <1>3, <1>5, <2>1, <2>2
<1>9. CASE Count
  <2>1. pub.phase = "count" /\ subscribers' = subscribers /\ pub' = NextMatch(pub)
    BY <1>9 DEF Count, connVars
  <2>2. /\ IsFiniteSet(pub'.todo) /\ Cardinality(pub'.todo) = Cardinality(pub.todo) - 1
        /\ pub'.phase \in {"idle", "next"} /\ SomebodyIsNext'
    BY <1>0, <1>3, <2>1, NextTurn DEF SomebodyIsNext
  <2> QED
    BY <1>0, <2>1, <2>2 DEF StepsLeft, StepsTaken, SomebodyIsNext
<1>10. ASSUME NEW c \in Consumers, Push(c)
       PROVE  /\ IsFiniteSet(pub'.todo) /\ pub'.phase # "snapshot" /\ StepsLeft' < StepsLeft
              /\ SomebodyIsNext'
  BY <1>0, <1>2, <1>10 DEF StepsLeft, StepsTaken, SomebodyIsNext
<1> QED
  BY <1>0, <1>1, <1>2, <1>4, <1>6, <1>7, <1>8, <1>9, <1>10
  DEF Publisher, Evict, Retry, RecordDrop, Notify, Count, connVars

\* Anybody else leaves a Publish under way alone; connections only come and go.
LEMMA OthersStep ==
  ASSUME DeliveryInv, FinitelyMany, SomebodyIsNext, [Next]_vars, ~Publisher
  PROVE  /\ IsFiniteSet(subscribers') /\ IsFiniteSet(pub'.todo) /\ SomebodyIsNext'
         /\ pub.phase # "idle" => pub' = pub
<1>0. /\ pub \in PubRecords /\ IsFiniteSet(pub.todo) /\ IsFiniteSet(subscribers)
  BY DEF DeliveryInv, Types, FinitelyMany
<1>1. CASE \E t \in TraceIds \union {NoId} : Emit(t)
  <2>1. /\ pub.phase = "idle" /\ subscribers' = subscribers
        /\ pub' \in {pub, [pub EXCEPT !.phase = "snapshot"]}
    BY <1>1 DEF Emit, connVars
  <2>2. pub'.todo = pub.todo /\ SomebodyIsNext'
    BY <1>0, <2>1 DEF PubRecords, SomebodyIsNext
  <2> QED
    BY <1>0, <2>1, <2>2
<1>2. CASE BroadcastSourceStatus
  BY <1>0, <1>2 DEF BroadcastSourceStatus, Broadcast, SomebodyIsNext, connVars
<1>3. CASE BroadcastSubscribeError
  BY <1>0, <1>3 DEF BroadcastSubscribeError, Broadcast, SomebodyIsNext, connVars
<1>4. ASSUME NEW c \in Consumers, Register(c)
      PROVE  pub' = pub /\ IsFiniteSet(subscribers')
  BY <1>0, <1>4, SmallerSets DEF Register
<1>5. ASSUME NEW c \in Consumers, Close(c)
      PROVE  pub' = pub /\ IsFiniteSet(subscribers')
  BY <1>0, <1>5, SmallerSets DEF Close
<1>6. ASSUME NEW c \in Consumers, SenderTake(c) \/ SenderWrite(c) \/ IntervalElapses(c)
      PROVE  pub' = pub /\ subscribers' = subscribers
  BY <1>6 DEF SenderTake, SenderWrite, IntervalElapses, connVars
<1>7. pub' = pub => SomebodyIsNext'
  BY DEF SomebodyIsNext
<1>8. CASE UNCHANGED vars
  BY <1>0, <1>7, <1>8 DEF vars
<1> QED
  BY <1>0, <1>1, <1>2, <1>3, <1>4, <1>5, <1>6, <1>7, <1>8 DEF Next

\* Hub.Register and Hub.Unregister move one connection at a time, so that the snapshot
\* Publish takes is finite however many consumers there may be.
THEOREM PublisherIsFinite == Spec => []NeverWaitsInv
<1>1. Init => NeverWaitsInv
  BY InitFits, FinitelyManyInit DEF NeverWaitsInv, SomebodyIsNext, Init, Idle
<1>2. NeverWaitsInv /\ [Next]_vars => NeverWaitsInv'
  <2> SUFFICES ASSUME NeverWaitsInv, [Next]_vars
               PROVE  NeverWaitsInv'
    OBVIOUS
  <2>1. DeliveryInv'
    BY StepFits DEF NeverWaitsInv
  <2>2. FinitelyMany' /\ SomebodyIsNext'
    BY PublisherStep, OthersStep DEF NeverWaitsInv, FinitelyMany
  <2> QED
    BY <2>1, <2>2 DEF NeverWaitsInv
<1> QED
  BY <1>1, <1>2, PTL DEF Spec

\* Hub.Publish, PushDropOldest and recordDrop wait for nobody: with every queue full,
\* every sender goroutine stuck in a write and every peer silent, the source goroutine
\* inside emit still has a step to take (the sendMu that TrySend wants is free), and
\* only a natural number of them.
THEOREM PublishNeverWaits == Spec => []PublisherNeverWaits
<1>1. NeverWaitsInv => PublisherNeverWaits
  <2> SUFFICES ASSUME NeverWaitsInv, pub.phase # "idle"
               PROVE  PublisherCanStep /\ StepsLeft \in Nat
    BY DEF PublisherNeverWaits
  <2>1. /\ pub \in PubRecords /\ Cardinality(pub.todo) \in Nat /\ IsFiniteSet(pub.todo)
    BY FS_CardinalityType DEF NeverWaitsInv, DeliveryInv, Types, FinitelyMany
  <2>2. pub.phase \in {"evict", "retry", "drop", "notify", "count"} => Cardinality(pub.todo) >= 1
    <3>1. pub.phase \in {"evict", "retry", "drop", "notify", "count"} => pub.todo # {}
      BY Served DEF NeverWaitsInv
    <3> QED
      BY <2>1, <3>1, FS_EmptySet
  <2>3. StepsLeft \in Nat
    BY <2>1, <2>2 DEF StepsLeft, StepsTaken
  <2> QED
    BY <2>1, <2>3 DEF NeverWaitsInv, SomebodyIsNext, PubRecords, PublisherCanStep, SendMuFree
<1> QED
  BY <1>1, PublisherIsFinite, PTL

\* Once Publish has taken its snapshot, each of its steps uses up at least one of that
\* number, and no connection, broadcast or timer gives it more to do: with weak fairness
\* of the source goroutine alone, Publish returns (PublishTerminates).
THEOREM PublishMovesOn == Spec => [][PublishAdvances]_vars
<1>1. NeverWaitsInv /\ [Next]_vars => [PublishAdvances]_vars
  BY PublisherStep, OthersStep DEF NeverWaitsInv, PublishAdvances
<1> QED
  BY <1>1, PublisherIsFinite, PTL DEF Spec
=============================================================================
