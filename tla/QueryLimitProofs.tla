--------------------------- MODULE QueryLimitProofs ---------------------------
(***************************************************************************)
(* The query limiter, for any number of addresses, buckets and hashes, any *)
(* limits from two on and any widths of integers: its chains stay intact,  *)
(* no address gets more answers in a period than the highest limit and one *)
(* more, and an address that was silent for long enough is answered.       *)
(*                                                                         *)
(* Of the chains the inductive invariant is Chained: what ChainsIntact     *)
(* says of the buckets in use, and of the heads of the chains that each is *)
(* in use, in the chain of its own hash, and has none before it.           *)
(* Reachability is stated by closed sets (OnChain); that a bucket is still *)
(* reached after a step is shown by making of any set that is closed after *)
(* the step one that was closed before.                                    *)
(*                                                                         *)
(* Of the limits it is Inv: as long as the intervals of the watched        *)
(* address fit in an int, its bucket has gone without a query for as long  *)
(* as the address was silent (MineOK), and the answers of a window are in  *)
(* the count of the bucket, all but the one that was forgiven when a first *)
(* period was over (WindowOK, Fits).  So much time cannot pass within a    *)
(* window that the bucket expires, because every limit is two or more.     *)
(***************************************************************************)
EXTENDS QueryLimit, TLAPS

\* The table is one, and the buckets that are free are blank
TableOK(q) ==
    /\ q \in Table
    /\ \A b \in Bucket : ~Used(q, b) => q.buckets[b] = Null

HeadOK(q, h) ==
    q.bucketHashes[h] # NULL =>
        /\ Used(q, q.bucketHashes[h])
        /\ q.buckets[q.bucketHashes[h]].hash = h
        /\ q.buckets[q.bucketHashes[h]].prev = NULL

LinksOK(q, b) ==
    LET x == q.buckets[b]
    IN  /\ x.hash = HashFor[x.address]
        /\ x.prev = NULL => q.bucketHashes[x.hash] = b
        /\ x.prev # NULL => q.buckets[x.prev].next = b
        /\ x.next # NULL => /\ Used(q, x.next)
                            /\ q.buckets[x.next].prev = b
                            /\ q.buckets[x.next].hash = x.hash

Reached(q, b) == b \in OnChain(q, q.buckets[b].hash)

\* No address has two buckets
Unique(q) ==
    \A b, c \in Bucket :
        Used(q, b) /\ q.buckets[b].address = q.buckets[c].address => b = c

Chained(q) ==
    /\ TableOK(q)
    /\ \A h \in Hash : HeadOK(q, h)
    /\ \A b \in Bucket : Used(q, b) => LinksOK(q, b)
    /\ \A b \in Bucket : Used(q, b) => Reached(q, b)
    /\ Unique(q)

\* Closed under next, with the head of the chain
ClosedSet(q, h, S) ==
    /\ q.bucketHashes[h] # NULL => q.bucketHashes[h] \in S
    /\ \A c \in S : q.buckets[c].next # NULL => q.buckets[c].next \in S

Without(q, a) == \A c \in Bucket : q.buckets[c].address # a

-----------------------------------------------------------------------------
\* Types and shapes

\* A bucket is no NULL, a used one is not blank, and neither has a link
LEMMA Shape ==
    /\ NULL \notin Bucket
    /\ Null \in LeakyBucket
    /\ Null.address = NoAddress /\ Null.prev = NULL /\ Null.next = NULL
    /\ Null.hash \in Hash
<1>1. 0 \in Burst
  BY LimitAssumption DEF Burst
<1> QED
  BY <1>1, TableAssumption, LimitAssumption DEF NULL, Bucket, Null, LeakyBucket, Hash

\* What being reached means, in terms of closed sets
LEMMA ReachedByClosed ==
    ASSUME NEW q, NEW b \in Bucket
    PROVE  Reached(q, b) <=>
               \A S \in SUBSET Bucket : ClosedSet(q, q.buckets[b].hash, S) => b \in S
BY DEF Reached, OnChain, ClosedSet

\* Signed gives a value of its width
LEMMA SignedChar ==
    ASSUME NEW x \in Int
    PROVE  Signed(x, CharRange) \in Burst
<1> DEFINE bits == x % CharRange
<1>1. CharRange \in Nat \ {0}
  BY LimitAssumption
<1>2. bits \in 0..(CharRange - 1)
  BY <1>1
<1> HIDE DEF bits
<1>3. (IF 2 * bits >= CharRange THEN bits - CharRange ELSE bits) \in Burst
  BY <1>1, <1>2 DEF Burst
<1> QED
  BY <1>3 DEF Signed, bits

\* An interval is an integer
LEMMA IntervalInt ==
    ASSUME NEW x \in LeakyBucket
    PROVE  Interval(x) \in Int
<1>1. x.age \in Int /\ IntRange \in Nat \ {0}
  BY LimitAssumption DEF LeakyBucket
<1>2. x.age % IntRange \in Int
  BY <1>1
<1> QED
  BY <1>1, <1>2 DEF Interval, Signed

\* RateLimit only changes the age and the burst of a bucket
LEMMA RateLimitShape ==
    ASSUME NEW x \in LeakyBucket, NEW k \in Query
    PROVE  /\ RateLimit(x, k) \in LeakyBucket
           /\ RateLimit(x, k).address = x.address /\ RateLimit(x, k).hash = x.hash
           /\ RateLimit(x, k).prev = x.prev /\ RateLimit(x, k).next = x.next
<1> DEFINE f == Forgiven(x)
           expired == Quotient(Interval(x))
           age == Remainder(Interval(x)) % IntRange
<1>1. Interval(x) \in Int /\ Period \in Nat \ {0} /\ IntRange \in Nat \ {0}
  BY IntervalInt, LimitAssumption
<1>2. expired \in Int
  BY <1>1 DEF Quotient
<1>3. Remainder(Interval(x)) \in Int
  BY <1>1, <1>2 DEF Remainder
<1>4. age \in 0..(IntRange - 1)
  BY <1>1, <1>3
<1>5. x.burst \in Int /\ 0 \in Burst /\ 0 \in 0..(IntRange - 1)
  BY LimitAssumption DEF LeakyBucket, Burst
<1>6. Signed(x.burst - expired, CharRange) \in Burst
  BY <1>2, <1>5, SignedChar
<1>7. /\ f \in LeakyBucket
      /\ f.address = x.address /\ f.hash = x.hash /\ f.prev = x.prev /\ f.next = x.next
  <2>1. f = IF expired > x.burst
            THEN [x EXCEPT !.burst = 0, !.age = 0]
            ELSE [x EXCEPT !.burst = Signed(@ - expired, CharRange), !.age = age]
    BY DEF Forgiven
  <2> HIDE DEF f, expired, age
  <2> QED
    BY <1>4, <1>5, <1>6, <2>1 DEF LeakyBucket
<1>8. f.burst + 1 \in Int
  BY <1>7 DEF LeakyBucket, Burst
<1>9. Signed(f.burst + 1, CharRange) \in Burst
  BY <1>8, SignedChar
<1>10. RateLimit(x, k) = IF Allows(x, k)
                         THEN [f EXCEPT !.burst = Signed(@ + 1, CharRange)] ELSE f
  BY DEF RateLimit
<1> HIDE DEF f
<1> QED
  BY <1>7, <1>9, <1>10 DEF LeakyBucket

\* and so does the time that passes
LEMMA OlderShape ==
    ASSUME NEW x \in LeakyBucket
    PROVE  /\ Older(x) \in LeakyBucket
           /\ Older(x).address = x.address /\ Older(x).hash = x.hash
           /\ Older(x).prev = x.prev /\ Older(x).next = x.next
<1>1. x.age \in 0..(IntRange - 1) /\ IntRange \in Nat \ {0}
  BY LimitAssumption DEF LeakyBucket
<1>2. (x.age + 1) % IntRange \in 0..(IntRange - 1)
  BY <1>1
<1> QED
  BY <1>2 DEF Older, LeakyBucket

-----------------------------------------------------------------------------
\* What keeps the chains

\* A step that leaves the links and the addresses alone leaves the chains so
LEMMA SameLinks ==
    ASSUME NEW q, Chained(q), NEW r, TableOK(r),
           r.bucketHashes = q.bucketHashes,
           \A b \in Bucket : /\ r.buckets[b].address = q.buckets[b].address
                             /\ r.buckets[b].hash = q.buckets[b].hash
                             /\ r.buckets[b].prev = q.buckets[b].prev
                             /\ r.buckets[b].next = q.buckets[b].next
    PROVE  Chained(r)
<1>1. /\ \A h \in Hash : r.bucketHashes[h] \in Bucket \cup {NULL}
      /\ \A b \in Bucket : /\ r.buckets[b].prev \in Bucket \cup {NULL}
                           /\ r.buckets[b].next \in Bucket \cup {NULL}
                           /\ r.buckets[b].hash \in Hash
  BY DEF TableOK, Table, LeakyBucket
<1>2. \A b \in Bucket : Used(r, b) <=> Used(q, b)
  BY DEF Used
<1>3. \A h \in Hash : HeadOK(r, h)
  BY <1>1, <1>2 DEF HeadOK, Chained
<1>4. \A b \in Bucket : Used(r, b) => LinksOK(r, b)
  BY <1>1, <1>2 DEF LinksOK, Chained
<1>5. \A b \in Bucket : Used(r, b) => Reached(r, b)
  <2>1. \A h \in Hash, S \in SUBSET Bucket : ClosedSet(r, h, S) <=> ClosedSet(q, h, S)
    BY DEF ClosedSet
  <2> QED
    BY <1>1, <1>2, <2>1, ReachedByClosed DEF Chained
<1>6. Unique(r)
  BY <1>2 DEF Unique, Chained
<1> QED
  BY <1>3, <1>4, <1>5, <1>6 DEF Chained

\* The neighbours of a bucket in use are others than it, and than each other
LEMMA Neighbours ==
    ASSUME NEW q, Chained(q), NEW b \in Bucket, Used(q, b)
    PROVE  LET x == q.buckets[b]
           IN  /\ x.prev # b /\ x.next # b
               /\ x.prev = x.next => x.prev = NULL
<1> DEFINE x == q.buckets[b]
           p == x.prev
           S == Bucket \ {b, p}
<1>1. /\ \A h \in Hash : q.bucketHashes[h] \in Bucket \cup {NULL}
      /\ \A c \in Bucket : /\ q.buckets[c].prev \in Bucket \cup {NULL}
                           /\ q.buckets[c].next \in Bucket \cup {NULL}
                           /\ q.buckets[c].hash \in Hash
  BY DEF Chained, TableOK, Table, LeakyBucket
<1>2. \A c \in Bucket : q.buckets[c].next # NULL =>
          Used(q, c) /\ q.buckets[q.buckets[c].next].prev = c
  BY Shape DEF Chained, TableOK, LinksOK
<1>3. LinksOK(q, b)
  BY DEF Chained
<1>4. p # NULL => Used(q, p)
  BY <1>1, <1>2, <1>3, Shape DEF LinksOK, Used
<1>5. ASSUME p # NULL, p = b \/ x.next = p
      PROVE  FALSE
  <2>1. q.buckets[p].prev \in {b, p}
    BY <1>1, <1>2, <1>5
  <2>2. ClosedSet(q, x.hash, S)
    <3>1. ASSUME q.bucketHashes[x.hash] # NULL
          PROVE  q.bucketHashes[x.hash] \in S
      <4>1. q.buckets[q.bucketHashes[x.hash]].prev = NULL
        BY <1>1, <3>1 DEF Chained, HeadOK
      <4> QED
        BY <1>1, <1>5, <2>1, <3>1, <4>1, Shape
    <3>2. ASSUME NEW c \in S, q.buckets[c].next # NULL
          PROVE  q.buckets[c].next \in S
      BY <1>1, <1>2, <2>1, <3>2
    <3> QED
      BY <3>1, <3>2 DEF ClosedSet
  <2>3. Reached(q, b)
    BY DEF Chained
  <2> QED
    BY <2>2, <2>3, ReachedByClosed
<1>6. x.next = b => p = b
  BY <1>2, Shape
<1> QED
  BY <1>5, <1>6, Shape

-----------------------------------------------------------------------------
\* A bucket taken out

\* Unlinked field by field
LEMMA UnlinkedShape ==
    ASSUME NEW q, Chained(q), NEW b \in Bucket, Used(q, b)
    PROVE  LET x == q.buckets[b]
               r == Unlinked(q, b)
           IN  /\ TableOK(r)
               /\ ~Used(r, b)
               /\ r.bucketHashes = IF x.prev = NULL
                                   THEN [q.bucketHashes EXCEPT ![x.hash] = x.next]
                                   ELSE q.bucketHashes
               /\ \A c \in Bucket \ {b} :
                    /\ r.buckets[c].address = q.buckets[c].address
                    /\ r.buckets[c].hash = q.buckets[c].hash
                    /\ r.buckets[c].next = IF c = x.prev THEN x.next ELSE q.buckets[c].next
                    /\ r.buckets[c].prev = IF c = x.next THEN x.prev ELSE q.buckets[c].prev
<1> DEFINE x == q.buckets[b]
           r == Unlinked(q, b)
<1>1. /\ q.bucketHashes \in [Hash -> Bucket \cup {NULL}]
      /\ q.buckets \in [Bucket -> LeakyBucket]
      /\ x \in LeakyBucket
      /\ x.hash \in Hash
      /\ x.prev \in Bucket \cup {NULL} /\ x.next \in Bucket \cup {NULL}
  BY DEF Chained, TableOK, Table, LeakyBucket
<1>2. x.prev # b /\ x.next # b /\ (x.prev = x.next => x.prev = NULL)
  BY Neighbours
<1> HIDE DEF x
<1>3. /\ r.bucketHashes = IF x.prev = NULL
                          THEN [q.bucketHashes EXCEPT ![x.hash] = x.next]
                          ELSE q.bucketHashes
      /\ r = [bucketHashes |-> r.bucketHashes, buckets |-> r.buckets]
      /\ r.buckets = [c \in Bucket |->
            CASE c = b -> Null
              [] c # b /\ c = x.prev -> [q.buckets[c] EXCEPT !.next = x.next]
              [] c # b /\ c # x.prev /\ c = x.next -> [q.buckets[c] EXCEPT !.prev = x.prev]
              [] OTHER -> q.buckets[c]]
  BY DEF Unlinked, x
<1> HIDE DEF r
<1>4. r.buckets[b] = Null
  BY <1>3
<1>5. ASSUME NEW c \in Bucket \ {b}
      PROVE  /\ r.buckets[c] \in LeakyBucket
             /\ r.buckets[c].address = q.buckets[c].address
             /\ r.buckets[c].hash = q.buckets[c].hash
             /\ r.buckets[c].next = IF c = x.prev THEN x.next ELSE q.buckets[c].next
             /\ r.buckets[c].prev = IF c = x.next THEN x.prev ELSE q.buckets[c].prev
             /\ ~Used(q, c) => r.buckets[c] = q.buckets[c]
  <2>1. CASE c = x.prev
    <3>1. r.buckets[c] = [q.buckets[c] EXCEPT !.next = x.next] /\ c # x.next
      BY <1>2, <1>3, <2>1, Shape
    <3>2. Used(q, c)
      <4>1. q.buckets[c].next = b
        BY <2>1, Shape DEF Chained, LinksOK, x
      <4> QED
        BY <4>1, Shape DEF Chained, TableOK
    <3> QED
      BY <1>1, <2>1, <3>1, <3>2 DEF LeakyBucket
  <2>2. CASE c # x.prev /\ c = x.next
    <3>1. r.buckets[c] = [q.buckets[c] EXCEPT !.prev = x.prev]
      BY <1>3, <2>2
    <3>2. Used(q, c)
      BY <2>2, Shape DEF Chained, LinksOK, x
    <3> QED
      BY <1>1, <2>2, <3>1, <3>2 DEF LeakyBucket
  <2>3. CASE c # x.prev /\ c # x.next
    <3>1. r.buckets[c] = q.buckets[c]
      BY <1>3, <2>3
    <3> QED
      BY <1>1, <2>3, <3>1
  <2> QED
    BY <2>1, <2>2, <2>3
<1>6. TableOK(r)
  <2>1. r.bucketHashes \in [Hash -> Bucket \cup {NULL}]
    BY <1>1, <1>3
  <2>2. r.buckets \in [Bucket -> LeakyBucket]
    <3>1. \A c \in Bucket : r.buckets[c] \in LeakyBucket
      BY <1>4, <1>5, Shape
    <3>2. r.buckets = [c \in Bucket |-> r.buckets[c]]
      BY <1>3
    <3> QED
      BY <3>1, <3>2
  <2>3. \A c \in Bucket : ~Used(r, c) => r.buckets[c] = Null
    BY <1>4, <1>5 DEF Used, Chained, TableOK
  <2> QED
    BY <1>3, <2>1, <2>2, <2>3 DEF TableOK, Table
<1>7. ~Used(r, b)
  BY <1>4, Shape DEF Used
<1> QED
  BY <1>3, <1>5, <1>6, <1>7 DEF x, r

\* The chains are intact when a bucket was taken out
LEMMA UnlinkedChained ==
    ASSUME NEW q, Chained(q), NEW b \in Bucket, Used(q, b)
    PROVE  /\ Chained(Unlinked(q, b)) /\ ~Used(Unlinked(q, b), b)
           /\ \A c \in Bucket \ {b} :
                Unlinked(q, b).buckets[c].address = q.buckets[c].address
<1> DEFINE x == q.buckets[b]
           r == Unlinked(q, b)
           p == x.prev
           n == x.next
<1>1. /\ TableOK(r) /\ ~Used(r, b)
      /\ r.bucketHashes = IF p = NULL THEN [q.bucketHashes EXCEPT ![x.hash] = n]
                          ELSE q.bucketHashes
      /\ \A c \in Bucket \ {b} :
           /\ r.buckets[c].address = q.buckets[c].address
           /\ r.buckets[c].hash = q.buckets[c].hash
           /\ r.buckets[c].next = IF c = p THEN n ELSE q.buckets[c].next
           /\ r.buckets[c].prev = IF c = n THEN p ELSE q.buckets[c].prev
  BY UnlinkedShape
<1>2. p # b /\ n # b /\ (p = n => p = NULL)
  BY Neighbours
<1> HIDE DEF r
<1>3. /\ q.bucketHashes \in [Hash -> Bucket \cup {NULL}]
      /\ \A c \in Bucket : /\ q.buckets[c].prev \in Bucket \cup {NULL}
                           /\ q.buckets[c].next \in Bucket \cup {NULL}
                           /\ q.buckets[c].hash \in Hash
      /\ NULL \notin Bucket
  BY Shape DEF Chained, TableOK, Table, LeakyBucket
<1>4. \A c \in Bucket \ {b} : Used(r, c) <=> Used(q, c)
  BY <1>1 DEF Used
\* the links before the step
<1>5. \A c \in Bucket : q.buckets[c].next # NULL =>
          /\ Used(q, c) /\ Used(q, q.buckets[c].next)
          /\ q.buckets[q.buckets[c].next].prev = c
          /\ q.buckets[q.buckets[c].next].hash = q.buckets[c].hash
  BY Shape DEF Chained, TableOK, LinksOK
<1>6. \A c \in Bucket : Used(q, c) =>
          /\ q.buckets[c].hash = HashFor[q.buckets[c].address]
          /\ q.buckets[c].prev = NULL => q.bucketHashes[q.buckets[c].hash] = c
          /\ q.buckets[c].prev # NULL => q.buckets[q.buckets[c].prev].next = c
  BY DEF Chained, LinksOK
<1>7. \A h \in Hash : q.bucketHashes[h] # NULL =>
          /\ Used(q, q.bucketHashes[h])
          /\ q.buckets[q.bucketHashes[h]].hash = h
          /\ q.buckets[q.bucketHashes[h]].prev = NULL
  BY DEF Chained, HeadOK
\* and the heads after it
<1>8. /\ p = NULL => q.bucketHashes[x.hash] = b
      /\ \A h \in Hash :
           r.bucketHashes[h] = IF q.bucketHashes[h] = b THEN n ELSE q.bucketHashes[h]
  BY <1>1, <1>3, <1>6, <1>7
<1>9. ASSUME NEW h \in Hash PROVE HeadOK(r, h)
  <2>1. CASE q.bucketHashes[h] = b
    <3>1. r.bucketHashes[h] = n /\ p = NULL /\ x.hash = h
      BY <1>3, <1>7, <1>8, <2>1
    <3> QED
      BY <1>1, <1>2, <1>3, <1>4, <1>5, <3>1 DEF HeadOK
  <2>2. CASE q.bucketHashes[h] # b
    <3>1. r.bucketHashes[h] = q.bucketHashes[h]
      BY <1>8, <2>2
    <3>2. q.bucketHashes[h] # NULL => q.bucketHashes[h] # n
      BY <1>3, <1>5, <1>7
    <3> QED
      <4> DEFINE d == q.bucketHashes[h]
      <4>1. d # NULL => /\ Used(q, d) /\ q.buckets[d].hash = h /\ q.buckets[d].prev = NULL
                        /\ d \in Bucket \ {b} /\ d # n
        BY <1>3, <1>7, <2>2, <3>2
      <4> HIDE DEF d
      <4>2. d # NULL => /\ Used(r, d) /\ r.buckets[d].hash = h /\ r.buckets[d].prev = NULL
        BY <1>1, <1>4, <4>1
      <4>3. r.bucketHashes[h] = d
        BY <3>1 DEF d
      <4> QED
        BY <4>2, <4>3 DEF HeadOK
  <2> QED
    BY <2>1, <2>2
<1>10. ASSUME NEW c \in Bucket, Used(r, c) PROVE LinksOK(r, c)
  <2>1. c # b /\ Used(q, c)
    BY <1>1, <1>4, <1>10
  <2>2. r.buckets[c].hash = HashFor[r.buckets[c].address]
    BY <1>1, <1>6, <2>1
  <2>3. ASSUME r.buckets[c].prev = NULL
        PROVE  r.bucketHashes[r.buckets[c].hash] = c
    <3>1. CASE c = n
      <4>1. p = NULL
        BY <1>1, <2>1, <2>3, <3>1
      <4>2. q.bucketHashes[x.hash] = b
        BY <1>8, <4>1
      <4>3. r.bucketHashes[x.hash] = n
        BY <1>3, <1>8, <4>2
      <4>4. n # NULL /\ q.buckets[n].hash = x.hash
        BY <1>3, <1>5, <2>1, <3>1
      <4>5. r.buckets[c].hash = q.buckets[c].hash
        BY <1>1, <2>1
      <4> QED
        BY <3>1, <4>3, <4>4, <4>5
    <3>2. CASE c # n
      BY <1>1, <1>3, <1>6, <1>8, <2>1, <2>3, <3>2
    <3> QED
      BY <3>1, <3>2
  <2>4. ASSUME r.buckets[c].prev # NULL
        PROVE  r.buckets[r.buckets[c].prev].next = c
    <3>1. CASE c = n
      BY <1>1, <1>2, <1>3, <2>1, <2>4, <3>1
    <3>2. CASE c # n
      <4>1. /\ r.buckets[c].prev = q.buckets[c].prev
            /\ q.buckets[q.buckets[c].prev].next = c
            /\ q.buckets[c].prev \in Bucket
        BY <1>1, <1>3, <1>6, <2>1, <2>4, <3>2
      <4>2. p # NULL => q.buckets[p].next = b
        BY <1>6
      <4>3. q.buckets[c].prev # b /\ q.buckets[c].prev # p
        BY <2>1, <3>2, <4>1, <4>2, <1>3
      <4> QED
        BY <1>1, <4>1, <4>3
    <3> QED
      BY <3>1, <3>2
  <2>5. ASSUME r.buckets[c].next # NULL
        PROVE  /\ Used(r, r.buckets[c].next)
               /\ r.buckets[r.buckets[c].next].prev = c
               /\ r.buckets[r.buckets[c].next].hash = r.buckets[c].hash
    <3>1. CASE c = p
      <4>1. q.buckets[c].next = b
        BY <1>3, <1>6, <3>1
      <4>2. q.buckets[b].hash = q.buckets[c].hash
        BY <1>3, <1>5, <4>1
      <4>3. r.buckets[c].next = n /\ n # NULL /\ n \in Bucket
        BY <1>1, <1>3, <2>1, <2>5, <3>1
      <4>4. Used(q, n) /\ q.buckets[n].hash = q.buckets[b].hash
        BY <1>5, <4>3
      <4>5. /\ Used(r, n) /\ r.buckets[n].prev = p
            /\ r.buckets[n].hash = q.buckets[n].hash
            /\ r.buckets[c].hash = q.buckets[c].hash
        BY <1>1, <1>2, <1>4, <2>1, <4>3, <4>4
      <4> QED
        BY <3>1, <4>2, <4>3, <4>4, <4>5
    <3>2. CASE c # p
      <4>1. r.buckets[c].next = q.buckets[c].next /\ q.buckets[c].next \in Bucket
        BY <1>1, <1>3, <2>1, <2>5, <3>2
      <4>2. q.buckets[c].next # b /\ q.buckets[c].next # n
        BY <1>3, <1>5, <2>1, <3>2, <4>1
      <4> QED
        BY <1>1, <1>4, <1>5, <2>1, <2>5, <4>1, <4>2
    <3> QED
      BY <3>1, <3>2
  <2> QED
    BY <2>2, <2>3, <2>4, <2>5 DEF LinksOK
<1>11. ASSUME NEW c \in Bucket, Used(r, c) PROVE Reached(r, c)
  <2> DEFINE h == q.buckets[c].hash
  <2>1. c # b /\ Used(q, c) /\ Reached(q, c) /\ r.buckets[c].hash = h /\ h \in Hash
    BY <1>1, <1>3, <1>4, <1>11 DEF Chained
  <2>2. SUFFICES ASSUME NEW T \in SUBSET Bucket, ClosedSet(r, h, T)
                 PROVE  c \in T
    BY <2>1, ReachedByClosed
  \* the set that was closed before
  <2> DEFINE met == q.bucketHashes[h] = b \/ p \in T
             S == IF met THEN T \cup {b} ELSE T \ {b}
  <2>3. \A e \in T : r.buckets[e].next # NULL => r.buckets[e].next \in T
    BY <2>2 DEF ClosedSet
  <2>4. met => n = NULL \/ n \in T
    BY <1>1, <1>2, <1>8, <2>1, <2>2, <2>3 DEF ClosedSet
  <2>5. q.bucketHashes[h] # NULL => q.bucketHashes[h] \in S
    BY <1>8, <2>1, <2>2 DEF ClosedSet
  <2>6. ASSUME NEW e \in S, q.buckets[e].next # NULL
        PROVE  q.buckets[e].next \in S
    <3>1. CASE e = b
      BY <2>4, <2>6, <3>1
    <3>2. CASE e # b /\ e = p
      <4>1. q.buckets[e].next = b
        BY <1>3, <1>6, <3>2
      <4> QED
        BY <3>2, <4>1
    <3>3. CASE e # b /\ e # p
      <4>1. e \in T /\ q.buckets[e].next \in T
        BY <1>1, <2>3, <2>6, <3>3
      <4>2. q.buckets[e].next # b
        BY <1>5, <2>6, <3>3
      <4> QED
        BY <4>1, <4>2
    <3> QED
      BY <3>1, <3>2, <3>3
  <2>7. S \in SUBSET Bucket
    OBVIOUS
  <2> HIDE DEF S
  <2>8. c \in S
    BY <2>1, <2>5, <2>6, <2>7, ReachedByClosed DEF ClosedSet
  <2> QED
    BY <2>1, <2>8 DEF S
<1>12. Unique(r)
  <2>1. Unique(q)
    BY DEF Chained
  <2> QED
    BY <1>1, <1>4, <2>1 DEF Unique, Used
<1> QED
  BY <1>1, <1>9, <1>10, <1>11, <1>12 DEF Chained, r

-----------------------------------------------------------------------------
\* A bucket put in

\* The chains are intact when a free bucket was given to an address that has
\* none, and it is in use then
LEMMA LinkedChained ==
    ASSUME NEW q, Chained(q), NEW b \in Bucket, ~Used(q, b),
           NEW a \in Address, Without(q, a)
    PROVE  Chained(Linked(q, b, a)) /\ Used(Linked(q, b, a), b)
<1> DEFINE r == Linked(q, b, a)
           g == HashFor[a]
           d == q.bucketHashes[g]
<1>1. /\ q.bucketHashes \in [Hash -> Bucket \cup {NULL}]
      /\ q.buckets \in [Bucket -> LeakyBucket]
      /\ \A c \in Bucket : /\ q.buckets[c].prev \in Bucket \cup {NULL}
                           /\ q.buckets[c].next \in Bucket \cup {NULL}
                           /\ q.buckets[c].hash \in Hash
      /\ q.buckets[b] = Null
      /\ \A c \in Bucket : ~Used(q, c) => q.buckets[c] = Null
      /\ g \in Hash /\ d \in Bucket \cup {NULL} /\ d # b
      /\ NULL \notin Bucket /\ Null \in LeakyBucket
      /\ Null.prev = NULL /\ Null.next = NULL
  <2>1. g \in Hash
    BY TableAssumption DEF Hash
  <2>2. q.bucketHashes \in [Hash -> Bucket \cup {NULL}] /\ q.buckets \in [Bucket -> LeakyBucket]
    BY DEF Chained, TableOK, Table
  <2>3. \A c \in Bucket : ~Used(q, c) => q.buckets[c] = Null
    BY DEF Chained, TableOK
  <2>4. d # NULL => Used(q, d)
    BY <2>1 DEF Chained, HeadOK
  <2> QED
    BY <2>1, <2>2, <2>3, <2>4, Shape DEF LeakyBucket
<1>2. /\ r.bucketHashes = [q.bucketHashes EXCEPT ![g] = b]
      /\ r = [bucketHashes |-> r.bucketHashes, buckets |-> r.buckets]
      /\ r.buckets = [c \in Bucket |->
            CASE c = b -> [Null EXCEPT !.address = a, !.hash = g, !.next = d]
              [] c # b /\ c = d -> [q.buckets[c] EXCEPT !.prev = b]
              [] OTHER -> q.buckets[c]]
  BY DEF Linked
<1> HIDE DEF r, d, g
<1>3. /\ r.buckets[b] \in LeakyBucket
      /\ r.buckets[b].address = a /\ r.buckets[b].hash = g
      /\ r.buckets[b].next = d /\ r.buckets[b].prev = NULL
  <2>1. r.buckets[b] = [Null EXCEPT !.address = a, !.hash = g, !.next = d]
    BY <1>2
  <2> QED
    BY <1>1, <2>1 DEF LeakyBucket
<1>4. d # NULL => Used(q, d) /\ q.buckets[d].hash = g /\ q.buckets[d].prev = NULL
  BY <1>1 DEF Chained, HeadOK, d
<1>5. ASSUME NEW c \in Bucket \ {b}
      PROVE  /\ r.buckets[c] \in LeakyBucket
             /\ r.buckets[c].address = q.buckets[c].address
             /\ r.buckets[c].hash = q.buckets[c].hash
             /\ r.buckets[c].next = q.buckets[c].next
             /\ r.buckets[c].prev = IF c = d THEN b ELSE q.buckets[c].prev
             /\ ~Used(q, c) => r.buckets[c] = q.buckets[c]
  <2>1. CASE c = d
    <3>1. r.buckets[c] = [q.buckets[c] EXCEPT !.prev = b]
      BY <1>2, <2>1
    <3>2. Used(q, c)
      BY <1>1, <1>4, <2>1
    <3> QED
      BY <1>1, <2>1, <3>1, <3>2 DEF LeakyBucket
  <2>2. CASE c # d
    <3>1. r.buckets[c] = q.buckets[c]
      BY <1>2, <2>2
    <3> QED
      BY <1>1, <2>2, <3>1
  <2> QED
    BY <2>1, <2>2
<1>6. a # NoAddress
  BY TableAssumption
<1>7. Used(r, b) /\ \A c \in Bucket \ {b} : Used(r, c) <=> Used(q, c)
  BY <1>3, <1>5, <1>6 DEF Used
<1>8. TableOK(r)
  <2>1. r.bucketHashes \in [Hash -> Bucket \cup {NULL}]
    BY <1>1, <1>2
  <2>2. r.buckets \in [Bucket -> LeakyBucket]
    <3>1. \A c \in Bucket : r.buckets[c] \in LeakyBucket
      BY <1>3, <1>5
    <3>2. r.buckets = [c \in Bucket |-> r.buckets[c]]
      BY <1>2
    <3> QED
      BY <3>1, <3>2
  <2>3. \A c \in Bucket : ~Used(r, c) => r.buckets[c] = Null
    BY <1>1, <1>5, <1>7
  <2> QED
    BY <1>2, <2>1, <2>2, <2>3 DEF TableOK, Table
\* the links and heads before the step
<1>9. \A c \in Bucket : Used(q, c) =>
          /\ q.buckets[c].hash = HashFor[q.buckets[c].address]
          /\ q.buckets[c].prev = NULL => q.bucketHashes[q.buckets[c].hash] = c
          /\ q.buckets[c].prev # NULL => q.buckets[q.buckets[c].prev].next = c
          /\ q.buckets[c].next # NULL =>
                /\ Used(q, q.buckets[c].next)
                /\ q.buckets[q.buckets[c].next].prev = c
                /\ q.buckets[q.buckets[c].next].hash = q.buckets[c].hash
  BY DEF Chained, LinksOK
<1>10. ASSUME NEW h \in Hash PROVE HeadOK(r, h)
  <2>1. CASE h = g
    BY <1>1, <1>2, <1>3, <1>7, <2>1 DEF HeadOK
  <2>2. CASE h # g
    <3>1. r.bucketHashes[h] = q.bucketHashes[h]
      BY <1>1, <1>2, <2>2
    <3>2. q.bucketHashes[h] # NULL =>
              /\ Used(q, q.bucketHashes[h])
              /\ q.buckets[q.bucketHashes[h]].hash = h
              /\ q.buckets[q.bucketHashes[h]].prev = NULL
      BY DEF Chained, HeadOK
    <3>3. q.bucketHashes[h] # NULL => q.bucketHashes[h] \in Bucket \ {b, d}
      BY <1>1, <1>4, <2>2, <3>2
    <3> QED
      BY <1>5, <1>7, <3>1, <3>2, <3>3 DEF HeadOK
  <2> QED
    BY <2>1, <2>2
<1>11. ASSUME NEW c \in Bucket, Used(r, c) PROVE LinksOK(r, c)
  <2>1. CASE c = b
    <3>1. r.bucketHashes[g] = b
      BY <1>1, <1>2
    <3>2. d # NULL => /\ Used(r, d) /\ r.buckets[d].prev = b /\ r.buckets[d].hash = g
      BY <1>1, <1>4, <1>5, <1>7
    <3> QED
      BY <1>3, <2>1, <3>1, <3>2 DEF LinksOK, g
  <2>2. CASE c # b
    <3>1. Used(q, c)
      BY <1>7, <1>11, <2>2
    <3>2. r.buckets[c].hash = HashFor[r.buckets[c].address]
      BY <1>5, <1>9, <2>2, <3>1
    <3>3. r.buckets[c].prev = NULL => r.bucketHashes[r.buckets[c].hash] = c
      BY <1>1, <1>2, <1>5, <1>9, <2>2, <3>1 DEF d
    <3>4. ASSUME r.buckets[c].prev # NULL
          PROVE  r.buckets[r.buckets[c].prev].next = c
      <4>1. CASE c = d
        BY <1>3, <1>5, <2>2, <4>1
      <4>2. CASE c # d
        <5>1. r.buckets[c].prev = q.buckets[c].prev /\ q.buckets[c].prev \in Bucket
          BY <1>1, <1>5, <2>2, <3>4, <4>2
        <5>2. q.buckets[q.buckets[c].prev].next = c
          BY <1>9, <3>1, <3>4, <5>1
        <5>3. q.buckets[c].prev # b
          BY <1>1, <5>2
        <5> QED
          BY <1>5, <5>1, <5>2, <5>3
      <4> QED
        BY <4>1, <4>2
    <3>5. ASSUME r.buckets[c].next # NULL
          PROVE  /\ Used(r, r.buckets[c].next)
                 /\ r.buckets[r.buckets[c].next].prev = c
                 /\ r.buckets[r.buckets[c].next].hash = r.buckets[c].hash
      <4>1. r.buckets[c].next = q.buckets[c].next /\ q.buckets[c].next \in Bucket
        BY <1>1, <1>5, <2>2, <3>5
      <4>2. /\ Used(q, q.buckets[c].next)
            /\ q.buckets[q.buckets[c].next].prev = c
            /\ q.buckets[q.buckets[c].next].hash = q.buckets[c].hash
        BY <1>9, <3>1, <3>5, <4>1
      <4>3. q.buckets[c].next # b /\ q.buckets[c].next # d
        BY <1>1, <1>4, <4>1, <4>2
      <4> QED
        BY <1>5, <1>7, <2>2, <4>1, <4>2, <4>3
    <3> QED
      BY <3>2, <3>3, <3>4, <3>5 DEF LinksOK
  <2> QED
    BY <2>1, <2>2
<1>12. ASSUME NEW c \in Bucket, Used(r, c) PROVE Reached(r, c)
  <2>1. SUFFICES ASSUME NEW T \in SUBSET Bucket, ClosedSet(r, r.buckets[c].hash, T)
                 PROVE  c \in T
    BY ReachedByClosed
  <2>2. CASE c = b
    BY <1>1, <1>2, <1>3, <2>1, <2>2 DEF ClosedSet
  <2>3. CASE c # b
    <3> DEFINE h == q.buckets[c].hash
    <3>1. Used(q, c) /\ Reached(q, c) /\ r.buckets[c].hash = h /\ h \in Hash
      BY <1>1, <1>5, <1>7, <1>12, <2>3 DEF Chained
    \* what is closed after the step was closed before it
    <3>2. q.bucketHashes[h] # NULL => q.bucketHashes[h] \in T
      <4>1. CASE h = g
        <5>1. r.bucketHashes[g] = b
          BY <1>1, <1>2
        <5>2. b \in T
          BY <1>1, <2>1, <3>1, <4>1, <5>1 DEF ClosedSet
        <5>3. d # NULL => d \in T
          BY <1>3, <2>1, <5>2 DEF ClosedSet
        <5> QED
          BY <4>1, <5>3 DEF d
      <4>2. CASE h # g
        BY <1>1, <1>2, <2>1, <3>1, <4>2 DEF ClosedSet
      <4> QED
        BY <4>1, <4>2
    <3>3. \A e \in T : q.buckets[e].next # NULL => q.buckets[e].next \in T
      BY <1>1, <1>5, <2>1 DEF ClosedSet
    <3>4. ClosedSet(q, h, T)
      BY <3>2, <3>3 DEF ClosedSet
    <3> QED
      BY <3>1, <3>4, ReachedByClosed
  <2> QED
    BY <2>2, <2>3
<1>13. Unique(r)
  <2>1. Unique(q)
    BY DEF Chained
  <2> QED
    BY <1>3, <1>5, <1>7, <2>1 DEF Unique, Without
<1> QED
  BY <1>7, <1>8, <1>10, <1>11, <1>12, <1>13 DEF Chained, r

-----------------------------------------------------------------------------
\* The theorem

\* An address whose chain does not have it has no bucket at all
LEMMA NotFound ==
    ASSUME NEW q, Chained(q), NEW a \in Address, Found(q, a) = {}
    PROVE  Without(q, a)
<1> SUFFICES ASSUME NEW c \in Bucket, q.buckets[c].address = a
             PROVE  FALSE
  BY DEF Without
<1>1. Used(q, c)
  BY TableAssumption DEF Used
<1>2. q.buckets[c].hash = HashFor[a] /\ c \in OnChain(q, q.buckets[c].hash)
  BY <1>1 DEF Chained, LinksOK, Reached
<1> QED
  BY <1>2 DEF Found

\* The bucket taken for an address is free or was taken out
LEMMA TakenChained ==
    ASSUME NEW q, Chained(q), NEW b \in Bucket, NEW a \in Address, Found(q, a) = {}
    PROVE  Chained(Taken(q, b, a)) /\ Used(Taken(q, b, a), b)
<1>1. Without(q, a)
  BY NotFound
<1>2. CASE ~Used(q, b)
  BY <1>1, <1>2, LinkedChained DEF Taken
<1>3. CASE Used(q, b)
  <2> DEFINE r == Unlinked(q, b)
  <2>1. Chained(r) /\ ~Used(r, b)
    BY <1>3, UnlinkedChained
  <2>2. Without(r, a)
    <3>1. \A c \in Bucket \ {b} : r.buckets[c].address = q.buckets[c].address
      BY <1>3, UnlinkedChained
    <3>2. r.buckets[b].address # a
      BY <2>1, TableAssumption DEF Used
    <3> QED
      BY <1>1, <3>1, <3>2 DEF Without
  <2> HIDE DEF r
  <2>3. Chained(Linked(r, b, a)) /\ Used(Linked(r, b, a), b)
    BY <2>1, <2>2, LinkedChained
  <2> QED
    BY <1>3, <2>3 DEF Taken, r
<1> QED
  BY <1>2, <1>3

\* Charging an address leaves its bucket where it is
LEMMA ChargedChained ==
    ASSUME NEW q, Chained(q), NEW b \in Bucket, Used(q, b), NEW k \in Query
    PROVE  Chained([q EXCEPT !.buckets[b] = RateLimit(q.buckets[b], k)])
<1> DEFINE r == [q EXCEPT !.buckets[b] = RateLimit(q.buckets[b], k)]
<1>1. q \in Table /\ q.buckets[b] \in LeakyBucket
  BY DEF Chained, TableOK, Table
<1>2. /\ RateLimit(q.buckets[b], k) \in LeakyBucket
      /\ RateLimit(q.buckets[b], k).address = q.buckets[b].address
      /\ RateLimit(q.buckets[b], k).hash = q.buckets[b].hash
      /\ RateLimit(q.buckets[b], k).prev = q.buckets[b].prev
      /\ RateLimit(q.buckets[b], k).next = q.buckets[b].next
  BY <1>1, RateLimitShape
<1>3. /\ r \in Table
      /\ r.bucketHashes = q.bucketHashes
      /\ \A c \in Bucket : r.buckets[c] = IF c = b THEN RateLimit(q.buckets[b], k)
                                          ELSE q.buckets[c]
  BY <1>1, <1>2 DEF Table
<1> HIDE DEF r
<1>4. TableOK(r)
  BY <1>2, <1>3 DEF TableOK, Chained, Used
<1>5. Chained(r)
  BY <1>2, <1>3, <1>4, SameLinks
<1> QED
  BY <1>5 DEF r

\* The chains are intact at first
LEMMA InitChained == Init => Chained(querylimit)
<1> SUFFICES ASSUME Init PROVE Chained(querylimit)
  OBVIOUS
<1>1. /\ querylimit \in Table
      /\ \A h \in Hash : querylimit.bucketHashes[h] = NULL
      /\ \A b \in Bucket : querylimit.buckets[b] = Null
  BY Shape DEF Init, Table
<1>2. \A b \in Bucket : ~Used(querylimit, b)
  BY <1>1, Shape DEF Used
<1> QED
  BY <1>1, <1>2 DEF Chained, TableOK, HeadOK, Unique

\* and after every step
LEMMA NextChained == Chained(querylimit) /\ [Next]_vars => Chained(querylimit')
<1> SUFFICES ASSUME Chained(querylimit), [Next]_vars
             PROVE  Chained(querylimit')
  OBVIOUS
<1>1. ASSUME NEW a \in Address, NEW k \in Query, RateLimitAddress(a, k)
      PROVE  Chained(querylimit')
  <2>1. ASSUME NEW b \in Found(querylimit, a), Charge(querylimit, b, a, k)
        PROVE  Chained(querylimit')
    <3>1. b \in Bucket /\ Used(querylimit, b)
      BY TableAssumption DEF Found, OnChain, Used
    <3> QED
      BY <2>1, <3>1, ChargedChained DEF Charge
  <2>2. ASSUME Found(querylimit, a) = {},
               NEW b \in Available(querylimit, k),
               Charge(Taken(querylimit, b, a), b, a, k)
        PROVE  Chained(querylimit')
    <3> DEFINE q == Taken(querylimit, b, a)
    <3>1. b \in Bucket
      BY DEF Available
    <3>2. Chained(q) /\ Used(q, b)
      BY <2>2, <3>1, TakenChained
    <3>3. querylimit' = [q EXCEPT !.buckets[b] = RateLimit(q.buckets[b], k)]
      BY <2>2 DEF Charge
    <3> HIDE DEF q
    <3> QED
      BY <3>1, <3>2, <3>3, ChargedChained
  <2> QED
    BY <1>1, <2>1, <2>2 DEF RateLimitAddress
<1>2. CASE Tick
  <2> DEFINE q == querylimit
             r == querylimit'
  <2>1. q \in Table /\ \A b \in Bucket : ~Used(q, b) => q.buckets[b] = Null
    BY DEF Chained, TableOK
  <2>2. r = [q EXCEPT !.buckets = [b \in Bucket |-> Older(q.buckets[b])]]
    BY <1>2 DEF Tick
  <2> HIDE DEF q, r
  <2>3. \A b \in Bucket : r.buckets[b] = Older(q.buckets[b]) /\ q.buckets[b] \in LeakyBucket
    BY <2>1, <2>2 DEF Table
  <2>4. \A b \in Bucket : ~Used(q, b) => r.buckets[b] = q.buckets[b]
    BY <2>3 DEF Older, Used
  <2>5. ASSUME NEW b \in Bucket
        PROVE  /\ r.buckets[b] \in LeakyBucket
               /\ r.buckets[b].address = q.buckets[b].address
               /\ r.buckets[b].hash = q.buckets[b].hash
               /\ r.buckets[b].prev = q.buckets[b].prev
               /\ r.buckets[b].next = q.buckets[b].next
    BY <2>3, OlderShape
  <2>6. r \in Table /\ r.bucketHashes = q.bucketHashes
    BY <2>1, <2>2, <2>5 DEF Table
  <2>7. TableOK(r)
    BY <2>1, <2>4, <2>5, <2>6 DEF TableOK, Used
  <2>8. Chained(q)
    BY DEF q
  <2>9. Chained(r)
    BY <2>5, <2>6, <2>7, <2>8, SameLinks
  <2> QED
    BY <2>9 DEF r
<1>3. CASE UNCHANGED vars
  <2>1. querylimit' = querylimit
    BY <1>3 DEF vars
  <2> QED
    BY <2>1
<1> QED
  BY <1>1, <1>2, <1>3 DEF Next

\* The chains are what the search of a query relies on
LEMMA ChainedIsIntact == Chained(querylimit) => ChainsIntact
<1> SUFFICES ASSUME Chained(querylimit), NEW b \in Bucket, Used(querylimit, b)
             PROVE  LET x == querylimit.buckets[b]
                    IN  /\ x.hash = HashFor[x.address]
                        /\ b \in OnChain(querylimit, x.hash)
                        /\ x.prev = NULL <=> querylimit.bucketHashes[x.hash] = b
                        /\ \A c \in Bucket :
                            /\ querylimit.buckets[c].address = x.address => c = b
                            /\ querylimit.buckets[c].next = b <=> x.prev = c
  BY DEF ChainsIntact
<1> DEFINE q == querylimit
           x == q.buckets[b]
<1>1. /\ NULL \notin Bucket
      /\ x.hash \in Hash /\ x.prev \in Bucket \cup {NULL}
      /\ \A c \in Bucket : q.buckets[c].next \in Bucket \cup {NULL}
  BY Shape DEF Chained, TableOK, Table, LeakyBucket
<1>2. LinksOK(q, b) /\ Reached(q, b) /\ HeadOK(q, x.hash) /\ Unique(q)
  BY <1>1 DEF Chained
<1>3. x.prev = NULL <=> q.bucketHashes[x.hash] = b
  BY <1>1, <1>2 DEF LinksOK, HeadOK
<1>4. ASSUME NEW c \in Bucket
      PROVE  /\ q.buckets[c].address = x.address => c = b
             /\ q.buckets[c].next = b <=> x.prev = c
  <2>1. q.buckets[c].next = b => x.prev = c
    <3>1. q.buckets[c].next = b => Used(q, c)
      BY <1>1, Shape DEF Chained, TableOK
    <3> QED
      BY <1>1, <3>1 DEF Chained, LinksOK
  <2>2. x.prev = c => q.buckets[c].next = b
    BY <1>1, <1>2 DEF LinksOK
  <2> QED
    BY <1>2, <2>1, <2>2 DEF Unique
<1> QED
  BY <1>2, <1>3, <1>4 DEF LinksOK, Reached

\* Whatever addresses ask and however buckets are taken and expire, each
\* bucket in use is found by its address's queries, no address has two, and
\* no chain runs in a circle
THEOREM ChainsStayIntact == Spec => []ChainsIntact
<1>1. Init => Chained(querylimit)
  BY InitChained
<1>2. Chained(querylimit) /\ [Next]_vars => Chained(querylimit)'
  BY NextChained
<1>3. Chained(querylimit) => ChainsIntact
  BY ChainedIsIntact
<1> QED
  BY <1>1, <1>2, <1>3, PTL DEF Spec

-----------------------------------------------------------------------------
\* Numbers: limits, widths and periods

LEMMA MinOfTwo ==
    ASSUME NEW a \in Int, NEW b \in Int
    PROVE  Min({a, b}) = IF a <= b THEN a ELSE b
<1>1. \E x \in {a, b} : \A y \in {a, b} : x <= y
  OBVIOUS
<1> QED
  BY <1>1 DEF Min

\* The highest limit fits in a signed char
LEMMA MostBurstFacts ==
    /\ MostBurst \in Nat /\ MostBurst > 1 /\ 2 * MostBurst < CharRange /\ CharRange \in Nat
    /\ \A k \in Query : BurstOf[k] \in Nat /\ BurstOf[k] > 1 /\ BurstOf[k] <= MostBurst
<1> DEFINE S == {BurstOf[k] : k \in Query}
<1>1. PICK m \in Query : \A j \in Query : BurstOf[j] <= BurstOf[m]
  BY LimitAssumption
<1>2. \A k \in Query : BurstOf[k] \in Nat /\ BurstOf[k] > 1 /\ 2 * BurstOf[k] < CharRange
  BY LimitAssumption
<1>3. BurstOf[m] \in S /\ \A x \in S : BurstOf[m] >= x
  BY <1>1, <1>2
<1>4. MostBurst = Max(S)
  BY DEF MostBurst
<1> HIDE DEF S
<1>5. MostBurst \in S /\ \A x \in S : MostBurst >= x
  BY <1>3, <1>4 DEF Max
<1>6. CharRange \in Nat
  BY LimitAssumption
<1> QED
  BY <1>2, <1>5, <1>6 DEF S

LEMMA SignedFits ==
    ASSUME NEW x \in Nat, NEW range \in Nat, 2 * x < range
    PROVE  Signed(x, range) = x
<1>1. x % range = x
  <2>1. x < range /\ range > 0
    OBVIOUS
  <2> QED
    BY <2>1
<1> QED
  BY <1>1 DEF Signed

\* Periods that fit in a time
LEMMA Periods ==
    ASSUME NEW x \in Nat
    PROVE  /\ Quotient(x) \in Nat /\ Remainder(x) \in 0..(Period - 1) /\ Remainder(x) <= x
           /\ x < Period => Quotient(x) = 0 /\ Remainder(x) = x
           /\ x >= Period /\ x < 2 * Period => Quotient(x) = 1 /\ Remainder(x) = x - Period
           /\ \A m \in Nat : x >= Period * m => Quotient(x) >= m
<1> DEFINE q == x \div Period
           r == x % Period
<1>1. Period \in Nat /\ Period > 0
  BY LimitAssumption
<1>2. q \in Nat /\ r \in 0..(Period - 1) /\ x = Period * q + r
  BY <1>1
<1>3. Quotient(x) = q
  BY DEF Quotient
<1> HIDE DEF q, r
<1>4. q * Period = Period * q /\ Period * q \in Nat
  BY <1>1, <1>2
<1>5. Remainder(x) = r
  BY <1>1, <1>2, <1>3, <1>4 DEF Remainder
<1>6. q >= 1 => Period * q >= Period
  BY <1>1, <1>2
<1>7. q >= 2 => Period * q >= 2 * Period
  BY <1>1, <1>2
<1>8. ASSUME x < Period PROVE q = 0
  BY <1>1, <1>2, <1>4, <1>6, <1>8
<1>9. ASSUME x >= Period, x < 2 * Period PROVE q = 1
  <2>1. q # 0
    <3> SUFFICES ASSUME q = 0 PROVE FALSE
      OBVIOUS
    <3>1. Period * q = 0
      BY <1>1
    <3> QED
      BY <1>1, <1>2, <1>9, <3>1
  <2>2. ~(q >= 2)
    BY <1>1, <1>2, <1>4, <1>7, <1>9
  <2> QED
    BY <1>2, <2>1, <2>2
<1>10. ASSUME NEW m \in Nat, x >= Period * m
       PROVE  q >= m
  <2> SUFFICES ASSUME q + 1 <= m PROVE FALSE
    BY <1>2
  <2>1. Period * (q + 1) <= Period * m
    BY <1>1, <1>2
  <2>2. Period * (q + 1) = Period * q + Period
    BY <1>1, <1>2
  <2>3. Period * m \in Nat
    BY <1>1
  <2> QED
    BY <1>1, <1>2, <1>4, <1>10, <2>1, <2>2, <2>3
<1>11. Period * 1 = Period
  BY <1>1
<1> QED
  BY <1>1, <1>2, <1>3, <1>4, <1>5, <1>8, <1>9, <1>10, <1>11

\* An interval that is not negative is an age
LEMMA IntervalFacts ==
    ASSUME NEW x \in LeakyBucket
    PROVE  /\ Interval(x) \in Int
           /\ Interval(x) >= 0 => Interval(x) = x.age /\ 2 * x.age < IntRange
           /\ 2 * x.age < IntRange => Interval(x) = x.age
<1>1. x.age \in Nat /\ x.age < IntRange /\ IntRange \in Nat
  BY LimitAssumption DEF LeakyBucket
<1>2. x.age % IntRange = x.age
  BY <1>1
<1>3. Interval(x) = IF 2 * x.age >= IntRange THEN x.age - IntRange ELSE x.age
  BY <1>2 DEF Interval, Signed
<1> QED
  BY <1>1, <1>3

-----------------------------------------------------------------------------
\* What a query does to a bucket whose interval is an int

\* Whole periods are forgiven, at most all answers, and what is left of the
\* interval is less than a period
LEMMA ForgivenFacts ==
    ASSUME NEW x \in LeakyBucket, Interval(x) >= 0, x.burst \in 0..MostBurst
    PROVE  LET f == Forgiven(x)
               i == Interval(x)
           IN  /\ f \in LeakyBucket /\ f.burst \in 0..x.burst
               /\ Interval(f) \in 0..(Period - 1) /\ Interval(f) <= i
               /\ i < Period => f.burst = x.burst /\ Interval(f) = i
               /\ i >= Period /\ i < 2 * Period /\ x.burst > 0 =>
                     f.burst = x.burst - 1 /\ Interval(f) = i - Period
               /\ \A m \in Nat : i >= Period * m => f.burst = 0 \/ f.burst <= x.burst - m
<1> DEFINE f == Forgiven(x)
           i == Interval(x)
           q == Quotient(i)
           r == Remainder(i)
<1>1. i \in Nat /\ 2 * i < IntRange /\ IntRange \in Nat /\ IntRange > 0
  BY IntervalFacts, LimitAssumption DEF LeakyBucket
<1>2. /\ q \in Nat /\ r \in 0..(Period - 1) /\ r <= i
      /\ i < Period => q = 0 /\ r = i
      /\ i >= Period /\ i < 2 * Period => q = 1 /\ r = i - Period
      /\ \A m \in Nat : i >= Period * m => q >= m
  BY <1>1, Periods
<1>3. /\ x.burst \in Nat /\ x.burst <= MostBurst /\ 2 * MostBurst < CharRange
      /\ CharRange \in Nat /\ MostBurst \in Nat /\ Period \in Nat /\ Period > 0
  BY MostBurstFacts, LimitAssumption
<1>4. f = IF q > x.burst
          THEN [x EXCEPT !.burst = 0, !.age = 0]
          ELSE [x EXCEPT !.burst = Signed(x.burst - q, CharRange), !.age = r % IntRange]
  BY DEF Forgiven
<1> HIDE DEF f, i, q, r
<1>5. r % IntRange = r /\ r \in 0..(IntRange - 1) /\ 2 * r < IntRange
  BY <1>1, <1>2, <1>3
<1>6. CASE q > x.burst
  <2>1. 0 \in 0..(IntRange - 1) /\ 0 \in Burst
    BY <1>1, LimitAssumption DEF Burst
  <2>2. f \in LeakyBucket /\ f.burst = 0 /\ f.age = 0
    BY <1>4, <1>6, <2>1 DEF LeakyBucket
  <2>3. Interval(f) = 0
    BY <1>1, <2>2, IntervalFacts
  <2>4. ~(i < Period) /\ ~(i >= Period /\ i < 2 * Period /\ x.burst > 0)
    BY <1>2, <1>3, <1>6
  <2> QED
    BY <1>1, <1>3, <2>2, <2>3, <2>4 DEF f, i
<1>7. CASE ~(q > x.burst)
  <2>1. x.burst - q \in Nat /\ 2 * (x.burst - q) < CharRange
    BY <1>2, <1>3, <1>7
  <2>2. Signed(x.burst - q, CharRange) = x.burst - q /\ x.burst - q \in Burst
    BY <1>2, <1>3, <2>1, SignedFits, SignedChar
  <2>3. f \in LeakyBucket /\ f.burst = x.burst - q /\ f.age = r
    BY <1>4, <1>5, <1>7, <2>2 DEF LeakyBucket
  <2>4. Interval(f) = r
    BY <1>5, <2>3, IntervalFacts
  <2>5. ASSUME NEW m \in Nat, i >= Period * m
        PROVE  f.burst <= x.burst - m
    <3>1. q >= m
      BY <1>2, <2>5
    <3> QED
      BY <1>2, <1>3, <2>3, <3>1
  <2>6. i < Period => f.burst = x.burst
    BY <1>2, <1>3, <2>3
  <2>7. i >= Period /\ i < 2 * Period => f.burst = x.burst - 1
    BY <1>2, <1>3, <2>3
  <2>8. f.burst \in 0..x.burst
    BY <1>2, <1>3, <2>1, <2>3
  <2> QED
    BY <1>2, <2>3, <2>4, <2>5, <2>6, <2>7, <2>8 DEF f, i
<1> QED
  BY <1>6, <1>7

\* One answer more is counted where one is allowed
LEMMA ChargedFacts ==
    ASSUME NEW x \in LeakyBucket, Interval(x) >= 0, x.burst \in 0..MostBurst,
           NEW k \in Query
    PROVE  LET f == Forgiven(x)
               y == RateLimit(x, k)
           IN  /\ Interval(y) = Interval(f) /\ y.burst \in 0..MostBurst
               /\ y.burst = IF Allows(x, k) THEN f.burst + 1 ELSE f.burst
<1> DEFINE f == Forgiven(x)
           y == RateLimit(x, k)
<1>1. f \in LeakyBucket /\ f.burst \in 0..x.burst
  BY ForgivenFacts
<1>2. /\ MostBurst \in Nat /\ 2 * MostBurst < CharRange /\ CharRange \in Nat
      /\ BurstOf[k] \in Nat /\ BurstOf[k] <= MostBurst
  BY MostBurstFacts
<1>3. Allows(x, k) <=> f.burst < BurstOf[k]
  BY DEF Allows
<1>4. y = IF Allows(x, k) THEN [f EXCEPT !.burst = Signed(f.burst + 1, CharRange)] ELSE f
  BY DEF RateLimit
<1> HIDE DEF f, y
<1>5. f.burst \in Nat /\ f.burst <= MostBurst
  BY <1>1, <1>2
<1>6. CASE Allows(x, k)
  <2>1. f.burst + 1 \in Nat /\ f.burst + 1 <= MostBurst
    BY <1>2, <1>3, <1>5, <1>6
  <2>2. Signed(f.burst + 1, CharRange) = f.burst + 1
    BY <1>2, <2>1, SignedFits
  <2>3. y = [f EXCEPT !.burst = f.burst + 1]
    BY <1>4, <1>6, <2>2
  <2>4. y.burst = f.burst + 1 /\ y.age = f.age
    BY <1>1, <2>3 DEF LeakyBucket
  <2>5. Interval(y) = Interval(f)
    BY <2>4 DEF Interval
  <2> QED
    BY <1>6, <2>1, <2>4, <2>5 DEF f, y
<1>7. CASE ~Allows(x, k)
  <2>1. y = f
    BY <1>4, <1>7
  <2> QED
    BY <1>5, <1>7, <2>1 DEF f, y
<1> QED
  BY <1>6, <1>7

\* What time does to it
LEMMA OlderFacts ==
    ASSUME NEW x \in LeakyBucket, x.address # NoAddress
    PROVE  /\ Older(x).burst = x.burst
           /\ Interval(x) >= 0 /\ Interval(Older(x)) >= 0 =>
                 Interval(Older(x)) = Interval(x) + 1
<1> DEFINE y == Older(x)
<1>1. x.age \in Nat /\ x.age < IntRange /\ IntRange \in Nat /\ IntRange > 1
  BY LimitAssumption DEF LeakyBucket
<1>2. y = [x EXCEPT !.age = (x.age + 1) % IntRange]
  BY DEF Older
<1>3. y \in LeakyBucket
  BY OlderShape
<1> HIDE DEF y
<1>4. y.burst = x.burst /\ y.age = (x.age + 1) % IntRange
  BY <1>2 DEF LeakyBucket
<1>5. ASSUME Interval(x) >= 0
      PROVE  y.age = x.age + 1 /\ Interval(x) = x.age
  <2>1. 2 * x.age < IntRange /\ Interval(x) = x.age
    BY <1>5, IntervalFacts
  <2> DEFINE n == x.age + 1
  <2>2. n \in Nat /\ n < IntRange
    BY <1>1, <2>1
  <2>3. y.age = n % IntRange
    BY <1>4
  <2> HIDE DEF n
  <2>4. n % IntRange = n
    BY <1>1, <2>2
  <2> QED
    BY <2>1, <2>3, <2>4 DEF n
<1>6. Interval(y) >= 0 => Interval(y) = y.age
  BY <1>3, IntervalFacts
<1> QED
  BY <1>4, <1>5, <1>6 DEF y

\* A bucket taken is blank but for the address, and others keep their counts
LEMMA TakenFacts ==
    ASSUME NEW q, Chained(q), NEW b \in Bucket, NEW a \in Address, Found(q, a) = {}
    PROVE  LET r == Taken(q, b, a)
           IN  /\ r.buckets[b].address = a /\ r.buckets[b].burst = 0 /\ r.buckets[b].age = 0
               /\ \A c \in Bucket \ {b} :
                     /\ r.buckets[c].address = q.buckets[c].address
                     /\ r.buckets[c].burst = q.buckets[c].burst
                     /\ r.buckets[c].age = q.buckets[c].age
<1> DEFINE u == IF Used(q, b) THEN Unlinked(q, b) ELSE q
           r == Taken(q, b, a)
<1>1. \A c \in Bucket : q.buckets[c] \in LeakyBucket
  BY DEF Chained, TableOK, Table
<1>2. \A c \in Bucket : u.buckets[c] \in LeakyBucket
  <2>1. Chained(u)
    BY UnlinkedChained
  <2> HIDE DEF u
  <2> QED
    BY <2>1 DEF Chained, TableOK, Table
<1>3. ASSUME NEW c \in Bucket \ {b}
      PROVE  /\ u.buckets[c].address = q.buckets[c].address
             /\ u.buckets[c].burst = q.buckets[c].burst
             /\ u.buckets[c].age = q.buckets[c].age
  <2> DEFINE x == q.buckets[b]
  <2>1. \/ u.buckets[c] = q.buckets[c]
        \/ u.buckets[c] = [q.buckets[c] EXCEPT !.next = x.next]
        \/ u.buckets[c] = [q.buckets[c] EXCEPT !.prev = x.prev]
    BY DEF Unlinked
  <2> HIDE DEF u, x
  <2> QED
    BY <1>1, <2>1 DEF LeakyBucket
<1>4. r = Linked(u, b, a)
  BY DEF Taken
<1> HIDE DEF u, r
<1>5. /\ r.buckets[b] = [Null EXCEPT !.address = a, !.hash = HashFor[a],
                                     !.next = u.bucketHashes[HashFor[a]]]
      /\ \A c \in Bucket \ {b} :
           r.buckets[c] = u.buckets[c] \/ r.buckets[c] = [u.buckets[c] EXCEPT !.prev = b]
  BY <1>4 DEF Linked
<1>6. /\ r.buckets[b].address = a /\ r.buckets[b].burst = 0 /\ r.buckets[b].age = 0
  BY <1>5 DEF Null
<1>7. ASSUME NEW c \in Bucket \ {b}
      PROVE  /\ r.buckets[c].address = u.buckets[c].address
             /\ r.buckets[c].burst = u.buckets[c].burst
             /\ r.buckets[c].age = u.buckets[c].age
  BY <1>2, <1>5 DEF LeakyBucket
<1> QED
  BY <1>3, <1>6, <1>7 DEF r

-----------------------------------------------------------------------------
\* The invariant of the limits

ScalarsOK ==
    /\ silence \in 0..(Period * MostBurst)
    /\ window \in [age : 0..Period, count : 0..(MostBurst + 2)]
    /\ {wrapped, refused} \subseteq BOOLEAN

\* The bucket of the watched address has gone without a query for as long as
\* the address has been silent
MineOK(q, s) ==
    \A b \in Bucket : q.buckets[b].address = Watched =>
        q.buckets[b].burst \in 0..MostBurst /\ s <= Interval(q.buckets[b])

\* The answers of a window are in the count of the bucket; all but one of them
\* are once a period was forgiven since the window began
Fits(x, w) ==
    \/ w.count <= x.burst /\ Interval(x) <= Period - 1 + w.age
    \/ w.count <= x.burst + 1 /\ Interval(x) <= w.age - 1

\* While a window lasts the watched address keeps its bucket
WindowOK(q, w) ==
    /\ w.count <= MostBurst + 1
    /\ w.age < Period =>
          /\ w.count >= 1
          /\ \E b \in Bucket : q.buckets[b].address = Watched /\ Fits(q.buckets[b], w)

Inv ==
    /\ Chained(querylimit)
    /\ ScalarsOK
    /\ ~refused
    /\ ~wrapped => MineOK(querylimit, silence) /\ WindowOK(querylimit, window)

\* The numbers the invariant compares
LEMMA Numbers ==
    /\ Period \in Nat /\ Period > 0 /\ IntRange \in Nat /\ IntRange > 1
    /\ Period * MostBurst \in Nat /\ MostBurst \in Nat /\ MostBurst > 1
<1>1. Period \in Nat /\ Period > 0 /\ IntRange \in Nat /\ IntRange > 1
  BY LimitAssumption
<1>2. MostBurst \in Nat /\ MostBurst > 1
  BY MostBurstFacts
<1> QED
  BY <1>1, <1>2

\* What a query without an answer does to a window, and one with an answer to
\* a window that goes on
LEMMA FitsStep ==
    ASSUME NEW x \in LeakyBucket, Interval(x) >= 0, x.burst \in 0..MostBurst,
           NEW k \in Query,
           NEW w \in [age : 0..Period, count : 0..(MostBurst + 2)],
           w.age < Period, w.count >= 1, Fits(x, w)
    PROVE  LET y == RateLimit(x, k)
               v == [w EXCEPT !.count = Min({w.count + 1, MostBurst + 2})]
           IN  /\ ~Allows(x, k) => Fits(y, w)
               /\ Allows(x, k) => Fits(y, v) /\ v.count <= MostBurst + 1 /\ v.count >= 1
                                  /\ v.age = w.age
<1> DEFINE f == Forgiven(x)
           y == RateLimit(x, k)
           i == Interval(x)
           v == [w EXCEPT !.count = Min({w.count + 1, MostBurst + 2})]
<1>1. /\ f.burst \in 0..x.burst
      /\ Interval(f) \in 0..(Period - 1)
      /\ i < Period => f.burst = x.burst /\ Interval(f) = i
      /\ i >= Period /\ i < 2 * Period /\ x.burst > 0 =>
            f.burst = x.burst - 1 /\ Interval(f) = i - Period
  BY ForgivenFacts
<1>2. /\ Interval(y) = Interval(f) /\ y.burst \in 0..MostBurst
      /\ y.burst = IF Allows(x, k) THEN f.burst + 1 ELSE f.burst
  BY ChargedFacts
<1>3. i \in Int /\ i >= 0
  BY IntervalFacts
<1>4. /\ w.age \in Nat /\ w.age < Period
      /\ w.count \in Nat /\ w.count >= 1 /\ w.count <= MostBurst + 2
      /\ Period \in Nat /\ MostBurst \in Nat /\ x.burst \in Nat /\ x.burst <= MostBurst
  BY Numbers
<1>5. v.age = w.age /\ v.count = IF w.count + 1 <= MostBurst + 2 THEN w.count + 1
                                 ELSE MostBurst + 2
  BY <1>4, MinOfTwo
<1>6. \/ w.count <= x.burst /\ i <= Period - 1 + w.age
      \/ w.count <= x.burst + 1 /\ i <= w.age - 1
  BY DEF Fits
<1> HIDE DEF f, y, i, v
<1>7. \/ i < Period /\ y.burst = (IF Allows(x, k) THEN x.burst + 1 ELSE x.burst) /\ Interval(y) = i
      \/ /\ i >= Period /\ w.count <= x.burst /\ Interval(y) <= w.age - 1
         /\ y.burst = (IF Allows(x, k) THEN x.burst ELSE x.burst - 1)
  <2>1. CASE i < Period
    BY <1>1, <1>2, <2>1
  <2>2. CASE i >= Period
    <3>1. w.count <= x.burst /\ i <= Period - 1 + w.age /\ i < 2 * Period /\ x.burst > 0
      BY <1>3, <1>4, <1>6, <2>2
    <3>2. f.burst = x.burst - 1 /\ Interval(f) = i - Period
      BY <1>1, <2>2, <3>1
    <3>3. Interval(y) <= w.age - 1
      BY <1>2, <1>3, <1>4, <3>1, <3>2
    <3>4. y.burst = IF Allows(x, k) THEN x.burst ELSE x.burst - 1
      BY <1>2, <1>4, <3>2
    <3> QED
      BY <2>2, <3>1, <3>3, <3>4
  <2> QED
    BY <1>3, <1>4, <2>1, <2>2
<1>8. Interval(y) \in Int /\ y.burst \in Nat /\ y.burst <= MostBurst
  BY <1>1, <1>2, <1>4
<1>9. ASSUME ~Allows(x, k)
      PROVE  Fits(y, w)
  <2>1. CASE i < Period
    <3>1. y.burst = x.burst /\ Interval(y) = i
      BY <1>3, <1>4, <1>7, <1>9, <2>1
    <3> QED
      BY <1>6, <3>1 DEF Fits
  <2>2. CASE i >= Period
    <3>1. w.count <= y.burst + 1 /\ Interval(y) <= w.age - 1
      BY <1>3, <1>4, <1>7, <1>9, <2>2
    <3> QED
      BY <3>1 DEF Fits
  <2> QED
    BY <1>3, <1>4, <2>1, <2>2
<1>10. ASSUME Allows(x, k)
       PROVE  Fits(y, v) /\ v.count <= MostBurst + 1 /\ v.count >= 1
  <2>1. \/ w.count + 1 <= y.burst /\ Interval(y) <= Period - 1 + w.age
        \/ w.count + 1 <= y.burst + 1 /\ Interval(y) <= w.age - 1
    <3>1. CASE i < Period
      <4>1. y.burst = x.burst + 1 /\ Interval(y) = i
        BY <1>3, <1>4, <1>7, <1>10, <3>1
      <4> QED
        BY <1>3, <1>4, <1>6, <4>1
    <3>2. CASE i >= Period
      <4>1. w.count <= x.burst /\ y.burst = x.burst /\ Interval(y) <= w.age - 1
        BY <1>3, <1>4, <1>7, <1>10, <3>2
      <4> QED
        BY <1>4, <4>1
    <3> QED
      BY <1>3, <1>4, <3>1, <3>2
  <2>2. w.count + 1 <= MostBurst + 1
    BY <1>4, <1>8, <2>1
  <2>3. v.count = w.count + 1
    BY <1>4, <1>5, <2>2
  <2>4. Fits(y, v)
    BY <1>5, <2>1, <2>3 DEF Fits
  <2> QED
    BY <1>4, <2>2, <2>3, <2>4
<1> QED
  BY <1>5, <1>9, <1>10 DEF y, v

\* An answer that begins a window is in the count of its bucket
LEMMA FitsFresh ==
    ASSUME NEW x \in LeakyBucket, Interval(x) >= 0, x.burst \in 0..MostBurst,
           NEW k \in Query, Allows(x, k)
    PROVE  Fits(RateLimit(x, k), [age |-> 0, count |-> 1])
<1>1. Forgiven(x).burst \in 0..x.burst /\ Interval(Forgiven(x)) \in 0..(Period - 1)
  BY ForgivenFacts
<1>2. /\ Interval(RateLimit(x, k)) = Interval(Forgiven(x))
      /\ RateLimit(x, k).burst = Forgiven(x).burst + 1
  BY ChargedFacts
<1>3. x.burst \in Nat /\ Period \in Nat
  BY Numbers
<1>4. 1 <= RateLimit(x, k).burst /\ Interval(RateLimit(x, k)) <= Period - 1 + 0
  BY <1>1, <1>2, <1>3
<1> QED
  BY <1>4 DEF Fits

\* The numbers keep their types, whatever the query and the clock do
LEMMA ObservedScalars ==
    ASSUME NEW a \in Address, NEW k \in Query, NEW answered \in BOOLEAN,
           ScalarsOK, Observed(a, k, answered)
    PROVE  ScalarsOK'
<1>1. silence' \in 0..(Period * MostBurst)
  <2>1. 0 \in 0..(Period * MostBurst)
    BY Numbers
  <2> QED
    BY <2>1 DEF Observed, ScalarsOK
<1>2. window' \in [age : 0..Period, count : 0..(MostBurst + 2)]
  <2>1. CASE window' = [age |-> 0, count |-> 1]
    <3>1. 0 \in 0..Period /\ 1 \in 0..(MostBurst + 2)
      BY Numbers
    <3> QED
      BY <2>1, <3>1
  <2>2. CASE window' = [window EXCEPT !.count = Min({window.count + 1, MostBurst + 2})]
    <3>1. window \in [age : 0..Period, count : 0..(MostBurst + 2)]
      BY DEF ScalarsOK
    <3>2. window.count \in Nat /\ MostBurst \in Nat
      BY <3>1, Numbers
    <3>3. Min({window.count + 1, MostBurst + 2}) \in 0..(MostBurst + 2)
      BY <3>2, MinOfTwo
    <3> QED
      BY <2>2, <3>1, <3>3
  <2>3. CASE window' = window
    BY <2>3 DEF ScalarsOK
  <2> QED
    BY <2>1, <2>2, <2>3 DEF Observed
<1>3. {wrapped', refused'} \subseteq BOOLEAN
  BY DEF Observed, ScalarsOK
<1> QED
  BY <1>1, <1>2, <1>3 DEF ScalarsOK

\* An address charged in its bucket: the table may be one in which the bucket
\* was taken for it
LEMMA ChargeLimits ==
    ASSUME NEW q, Chained(q), NEW b \in Bucket, NEW a \in Address, NEW k \in Query,
           q.buckets[b].address = a,
           ScalarsOK, ~wrapped,
           MineOK(q, IF a = Watched THEN 0 ELSE silence), WindowOK(q, window),
           a = Watched /\ silence >= Enough(k) => Allows(q.buckets[b], k),
           Charge(q, b, a, k)
    PROVE  ~refused' /\ MineOK(querylimit', silence') /\ WindowOK(querylimit', window')
<1> DEFINE x == q.buckets[b]
           y == RateLimit(x, k)
           r == querylimit'
           W == [age : 0..Period, count : 0..(MostBurst + 2)]
<1>1. q \in Table /\ x \in LeakyBucket
  BY DEF Chained, TableOK, Table
<1>2. y \in LeakyBucket /\ y.address = a
  BY <1>1, RateLimitShape
<1>3. r.buckets[b] = y /\ \A c \in Bucket \ {b} : r.buckets[c] = q.buckets[c]
  BY <1>1 DEF Charge, Table
<1>4. Observed(a, k, Allows(x, k))
  BY DEF Charge
<1>5. ~refused'
  BY <1>4 DEF Observed
<1>6. ASSUME NEW c \in Bucket \ {b}, a = Watched
      PROVE  q.buckets[c].address # Watched
  <2>1. Unique(q) /\ Used(q, b)
    BY TableAssumption DEF Chained, Used
  <2> QED
    BY <1>6, <2>1 DEF Unique
<1>7. silence \in Nat /\ window \in W /\ Period \in Nat /\ MostBurst \in Nat
  BY Numbers DEF ScalarsOK
<1>8. CASE a # Watched
  <2>1. silence' = silence /\ window' = window
    BY <1>4, <1>8 DEF Observed
  <2>2. MineOK(r, silence)
    BY <1>2, <1>3, <1>8 DEF MineOK
  <2>3. WindowOK(r, window)
    <3>1. ASSUME NEW c \in Bucket, q.buckets[c].address = Watched
          PROVE  r.buckets[c] = q.buckets[c]
      BY <1>3, <1>8, <3>1
    <3> HIDE DEF r
    <3> QED
      BY <3>1 DEF WindowOK
  <2> QED
    BY <1>5, <2>1, <2>2, <2>3
<1>9. CASE a = Watched
  <2>1. Interval(x) >= 0 /\ x.burst \in 0..MostBurst
    BY <1>9 DEF MineOK
  <2>2. Interval(y) >= 0 /\ y.burst \in 0..MostBurst
    <3>1. Interval(Forgiven(x)) \in 0..(Period - 1)
      BY <1>1, <2>1, ForgivenFacts
    <3>2. Interval(y) = Interval(Forgiven(x)) /\ y.burst \in 0..MostBurst
      BY <1>1, <2>1, ChargedFacts
    <3> QED
      BY <3>1, <3>2
  <2>3. silence' = 0
    BY <1>4, <1>9 DEF Observed
  <2>4. MineOK(r, 0)
    BY <1>3, <1>6, <1>9, <2>2 DEF MineOK
  <2>5. window.count <= MostBurst + 1
    BY DEF WindowOK
  <2>6. ASSUME window.age < Period
        PROVE  window.count >= 1 /\ Fits(x, window)
    <3>1. PICK c \in Bucket : q.buckets[c].address = Watched /\ Fits(q.buckets[c], window)
      BY <2>6 DEF WindowOK
    <3>2. c = b
      BY <1>6, <1>9, <3>1
    <3> QED
      BY <2>6, <3>1, <3>2 DEF WindowOK
  <2>7. ASSUME Fits(y, window'), window'.count >= 1, window'.count <= MostBurst + 1
        PROVE  WindowOK(r, window')
    BY <1>2, <1>3, <1>9, <2>7 DEF WindowOK
  <2>8. CASE Allows(x, k) /\ window' = [age |-> 0, count |-> 1]
    <3>1. Fits(y, [age |-> 0, count |-> 1])
      BY <1>1, <2>1, <2>8, FitsFresh
    <3>2. window'.count = 1 /\ 1 <= MostBurst + 1
      BY <1>7, <2>8
    <3>3. WindowOK(r, window')
      BY <2>7, <2>8, <3>1, <3>2
    <3> QED
      BY <1>5, <2>3, <2>4, <3>3
  <2>9. CASE /\ Allows(x, k) /\ window.age < Period
             /\ window' = [window EXCEPT !.count = Min({window.count + 1, MostBurst + 2})]
    <3>1. window.count >= 1 /\ Fits(x, window) /\ window \in W
      BY <1>7, <2>6, <2>9
    <3>2. Fits(y, window') /\ window'.count <= MostBurst + 1 /\ window'.count >= 1
      BY <1>1, <2>1, <2>9, <3>1, FitsStep
    <3>3. WindowOK(r, window')
      BY <2>7, <3>2
    <3> QED
      BY <1>5, <2>3, <2>4, <3>3
  <2>10. CASE ~Allows(x, k)
    <3>1. window' = window
      BY <1>4, <2>10 DEF Observed
    <3>2. CASE window.age < Period
      <4>1. window.count >= 1 /\ Fits(x, window) /\ window \in W
        BY <1>7, <2>6, <3>2
      <4>2. Fits(y, window)
        BY <1>1, <2>1, <2>10, <3>2, <4>1, FitsStep
      <4>3. WindowOK(r, window')
        BY <2>5, <2>7, <3>1, <4>1, <4>2
      <4> QED
        BY <1>5, <2>3, <2>4, <4>3
    <3>3. CASE ~(window.age < Period)
      <4>1. WindowOK(r, window')
        BY <2>5, <3>1, <3>3 DEF WindowOK
      <4> QED
        BY <1>5, <2>3, <2>4, <4>1
    <3> QED
      BY <3>2, <3>3
  <2>11. \/ Allows(x, k) /\ window' = [age |-> 0, count |-> 1]
         \/ /\ Allows(x, k) /\ window.age < Period
            /\ window' = [window EXCEPT !.count = Min({window.count + 1, MostBurst + 2})]
         \/ ~Allows(x, k)
    BY <1>4, <1>9 DEF Observed
  <2> QED
    BY <2>8, <2>9, <2>10, <2>11
<1> QED
  BY <1>8, <1>9

\* The bucket of the watched address is not taken from it while a window
\* lasts: less than two periods passed since an answer was forgiven, and every
\* limit is two or more
LEMMA TakenLimits ==
    ASSUME Chained(querylimit), ScalarsOK,
           MineOK(querylimit, silence), WindowOK(querylimit, window),
           NEW a \in Address, NEW k \in Query, Found(querylimit, a) = {},
           NEW b \in Available(querylimit, k)
    PROVE  LET q == Taken(querylimit, b, a)
           IN  /\ MineOK(q, IF a = Watched THEN 0 ELSE silence) /\ WindowOK(q, window)
               /\ Allows(q.buckets[b], k)
<1> DEFINE o == querylimit
           q == Taken(querylimit, b, a)
<1>1. b \in Bucket /\ o \in Table /\ Unique(o)
  BY DEF Available, Chained, TableOK
<1>2. Without(o, a)
  BY NotFound
<1>3. /\ q.buckets[b].address = a /\ q.buckets[b].burst = 0 /\ q.buckets[b].age = 0
      /\ \A c \in Bucket \ {b} :
            /\ q.buckets[c].address = o.buckets[c].address
            /\ q.buckets[c].burst = o.buckets[c].burst
            /\ Interval(q.buckets[c]) = Interval(o.buckets[c])
  <2>1. /\ q.buckets[b].address = a /\ q.buckets[b].burst = 0 /\ q.buckets[b].age = 0
        /\ \A c \in Bucket \ {b} :
              /\ q.buckets[c].address = o.buckets[c].address
              /\ q.buckets[c].burst = o.buckets[c].burst
              /\ q.buckets[c].age = o.buckets[c].age
    BY <1>1, TakenFacts
  <2> HIDE DEF q, o
  <2> QED
    BY <2>1 DEF Interval
<1>4. q.buckets[b] \in LeakyBucket
  <2>1. Chained(q)
    BY <1>1, TakenChained
  <2> QED
    BY <1>1, <2>1 DEF Chained, TableOK, Table
<1> HIDE DEF q, o
<1>5. Interval(q.buckets[b]) = 0
  BY <1>3, <1>4, IntervalFacts, Numbers
<1>6. Allows(q.buckets[b], k)
  <2>1. Forgiven(q.buckets[b]).burst \in 0..0
    BY <1>3, <1>4, <1>5, ForgivenFacts, Numbers
  <2>2. BurstOf[k] > 1 /\ BurstOf[k] \in Nat
    BY MostBurstFacts
  <2> QED
    BY <2>1, <2>2 DEF Allows
<1>7. CASE a = Watched
  <2>1. \A c \in Bucket : o.buckets[c].address # Watched
    BY <1>2, <1>7 DEF Without
  <2>2. MineOK(q, 0)
    BY <1>3, <1>5, <2>1, Numbers DEF MineOK
  <2>3. WindowOK(q, window)
    BY <2>1 DEF WindowOK, o
  <2> QED
    BY <1>6, <1>7, <2>2, <2>3 DEF q
<1>8. CASE a # Watched
  <2>1. MineOK(o, silence) /\ WindowOK(o, window)
    BY DEF o
  <2>2. MineOK(q, silence)
    BY <1>3, <1>8, <2>1 DEF MineOK
  <2>3. WindowOK(q, window)
    <3>1. SUFFICES ASSUME window.age < Period
                   PROVE  \E c \in Bucket : /\ q.buckets[c].address = Watched
                                            /\ Fits(q.buckets[c], window)
      BY <2>1 DEF WindowOK
    <3>2. PICK c \in Bucket : o.buckets[c].address = Watched /\ Fits(o.buckets[c], window)
      BY <2>1, <3>1 DEF WindowOK
    <3>3. ASSUME c = b
          PROVE  FALSE
      <4> DEFINE i == Interval(o.buckets[b])
      <4>1. Used(o, b)
        BY <3>2, <3>3, TableAssumption DEF Used
      <4>2. i > BurstOf[k] * Period \/ i < 0
        BY <4>1 DEF Available, Expired, o
      <4>3. silence <= i /\ silence \in Nat /\ window.age \in Nat
        BY <1>1, <2>1, <3>2, <3>3, Numbers DEF MineOK, ScalarsOK
      <4>4. i \in Int
        BY <1>1, IntervalInt DEF Table
      <4>5. i <= Period - 1 + window.age \/ i <= window.age - 1
        BY <3>2, <3>3 DEF Fits
      <4> HIDE DEF i
      <4>6. Period \in Nat /\ Period > 0 /\ BurstOf[k] \in Nat /\ BurstOf[k] >= 2
        BY Numbers, MostBurstFacts
      <4>7. BurstOf[k] * Period >= 2 * Period /\ BurstOf[k] * Period \in Nat
        BY <4>6
      <4> QED
        BY <3>1, <4>2, <4>3, <4>4, <4>5, <4>6, <4>7
    <3>4. q.buckets[c].address = Watched /\ Fits(q.buckets[c], window)
      BY <1>3, <3>2, <3>3 DEF Fits
    <3> QED
      BY <3>4
  <2> QED
    BY <1>6, <1>8, <2>2, <2>3 DEF q
<1> QED
  BY <1>7, <1>8

\* Enough ticks of silence forgive so much that an answer is allowed
LEMMA EnoughIsAllowed ==
    ASSUME NEW x \in LeakyBucket, x.burst \in 0..MostBurst, NEW k \in Query,
           silence \in Nat, silence <= Interval(x), silence >= Enough(k)
    PROVE  Allows(x, k)
<1> DEFINE m == MostBurst - BurstOf[k] + 1
           f == Forgiven(x)
<1>1. /\ BurstOf[k] \in Nat /\ BurstOf[k] > 1 /\ BurstOf[k] <= MostBurst /\ MostBurst \in Nat
      /\ Period \in Nat
  BY MostBurstFacts, Numbers
<1>2. m \in Nat /\ Period * m \in Nat /\ m = MostBurst - BurstOf[k] + 1
  BY <1>1
<1>3. silence >= Period * m
  BY DEF Enough
<1> HIDE DEF m
<1>4. Interval(x) \in Int /\ Interval(x) >= 0 /\ Interval(x) >= Period * m
  BY <1>2, <1>3, IntervalFacts
<1>5. f.burst \in 0..x.burst /\ (f.burst = 0 \/ f.burst <= x.burst - m)
  BY <1>2, <1>4, ForgivenFacts
<1> HIDE DEF f
<1>6. f.burst < BurstOf[k]
  BY <1>1, <1>2, <1>5
<1> QED
  BY <1>6 DEF Allows, f

\* A query keeps the limits
LEMMA RateLimitKeeps ==
    ASSUME Inv, NEW a \in Address, NEW k \in Query, RateLimitAddress(a, k)
    PROVE  /\ ScalarsOK' /\ ~refused'
           /\ ~wrapped' => MineOK(querylimit', silence') /\ WindowOK(querylimit', window')
<1>1. Chained(querylimit) /\ ScalarsOK
  BY DEF Inv
<1>2. ~wrapped => MineOK(querylimit, silence) /\ WindowOK(querylimit, window)
  BY DEF Inv
<1>3. ASSUME NEW b \in Found(querylimit, a), Charge(querylimit, b, a, k)
      PROVE  /\ ScalarsOK' /\ ~refused' /\ wrapped' = wrapped
             /\ ~wrapped => MineOK(querylimit', silence') /\ WindowOK(querylimit', window')
  <2> DEFINE x == querylimit.buckets[b]
  <2>1. b \in Bucket /\ x.address = a
    BY DEF Found, OnChain
  <2>2. Observed(a, k, Allows(x, k)) /\ Allows(x, k) \in BOOLEAN
    BY <1>3 DEF Charge, Allows
  <2>3. x \in LeakyBucket
    BY <1>1, <2>1 DEF Chained, TableOK, Table
  <2>4. silence \in Nat
    BY <1>1, Numbers DEF ScalarsOK
  <2>5. ScalarsOK'
    BY <1>1, <2>2, ObservedScalars
  <2>6. wrapped' = wrapped /\ (wrapped => ~refused')
    BY <2>2 DEF Observed
  <2>7. ASSUME ~wrapped
        PROVE  /\ ~refused'
               /\ MineOK(querylimit', silence') /\ WindowOK(querylimit', window')
    <3>1. MineOK(querylimit, silence) /\ WindowOK(querylimit, window)
      BY <1>2, <2>7
    <3>2. a = Watched => x.burst \in 0..MostBurst /\ silence <= Interval(x)
      BY <2>1, <3>1 DEF MineOK
    <3>3. a = Watched /\ silence >= Enough(k) => Allows(x, k)
      BY <2>3, <2>4, <3>2, EnoughIsAllowed
    <3>4. MineOK(querylimit, IF a = Watched THEN 0 ELSE silence)
      <4>1. \A c \in Bucket : Interval(querylimit.buckets[c]) \in Int
        BY <1>1, IntervalInt DEF Chained, TableOK, Table
      <4> QED
        BY <2>4, <3>1, <4>1 DEF MineOK
    <3> QED
      BY <1>1, <1>3, <2>1, <2>7, <3>1, <3>3, <3>4, ChargeLimits
  <2> QED
    BY <2>5, <2>6, <2>7
<1>4. ASSUME Found(querylimit, a) = {}, NEW b \in Available(querylimit, k),
             Charge(Taken(querylimit, b, a), b, a, k)
      PROVE  /\ ScalarsOK' /\ ~refused' /\ wrapped' = wrapped
             /\ ~wrapped => MineOK(querylimit', silence') /\ WindowOK(querylimit', window')
  <2> DEFINE q == Taken(querylimit, b, a)
             x == q.buckets[b]
  <2>1. b \in Bucket
    BY DEF Available
  <2>2. Chained(q)
    BY <1>1, <1>4, <2>1, TakenChained
  <2>3. x.address = a
    BY <1>1, <1>4, <2>1, TakenFacts
  <2>4. Charge(q, b, a, k)
    BY <1>4
  <2>5. ~wrapped => /\ MineOK(q, IF a = Watched THEN 0 ELSE silence) /\ WindowOK(q, window)
                    /\ Allows(x, k)
    BY <1>1, <1>2, <1>4, TakenLimits
  <2> HIDE DEF q
  <2>6. Observed(a, k, Allows(x, k)) /\ Allows(x, k) \in BOOLEAN
    BY <2>4 DEF Charge, Allows
  <2>7. ScalarsOK'
    BY <1>1, <2>6, ObservedScalars
  <2>8. wrapped' = wrapped /\ (wrapped => ~refused')
    BY <2>6 DEF Observed
  <2>9. ASSUME ~wrapped
        PROVE  /\ ~refused'
               /\ MineOK(querylimit', silence') /\ WindowOK(querylimit', window')
    BY <1>1, <2>1, <2>2, <2>3, <2>4, <2>5, <2>9, ChargeLimits
  <2> QED
    BY <2>7, <2>8, <2>9
<1>5. ASSUME Found(querylimit, a) = {}, Available(querylimit, k) = {},
             Observed(a, k, FALSE), UNCHANGED querylimit
      PROVE  /\ ScalarsOK' /\ ~refused' /\ wrapped' = wrapped
             /\ ~wrapped => MineOK(querylimit', silence') /\ WindowOK(querylimit', window')
  <2>1. ScalarsOK'
    BY <1>1, <1>5, ObservedScalars
  <2>2. wrapped' = wrapped /\ ~refused' /\ window' = window
    BY <1>5 DEF Observed
  <2>3. ASSUME ~wrapped
        PROVE  MineOK(querylimit', silence') /\ WindowOK(querylimit', window')
    <3>1. WindowOK(querylimit', window')
      BY <1>2, <1>5, <2>2, <2>3
    <3>2. CASE a = Watched
      <4>1. \A c \in Bucket : querylimit.buckets[c].address # Watched
        BY <1>1, <1>5, <3>2, NotFound DEF Without
      <4> QED
        BY <1>5, <3>1, <4>1 DEF MineOK
    <3>3. CASE a # Watched
      <4>1. silence' = silence
        BY <1>5, <3>3 DEF Observed
      <4> QED
        BY <1>2, <1>5, <2>3, <3>1, <4>1
    <3> QED
      BY <3>2, <3>3
  <2> QED
    BY <2>1, <2>2, <2>3
<1>6. \/ \E b \in Found(querylimit, a) : Charge(querylimit, b, a, k)
      \/ /\ Found(querylimit, a) = {}
         /\ \E b \in Available(querylimit, k) : Charge(Taken(querylimit, b, a), b, a, k)
      \/ /\ Found(querylimit, a) = {} /\ Available(querylimit, k) = {}
         /\ Observed(a, k, FALSE) /\ UNCHANGED querylimit
  BY DEF RateLimitAddress
<1>7. CASE \E b \in Found(querylimit, a) : Charge(querylimit, b, a, k)
  BY <1>3, <1>7
<1>8. CASE /\ Found(querylimit, a) = {}
           /\ \E b \in Available(querylimit, k) : Charge(Taken(querylimit, b, a), b, a, k)
  BY <1>4, <1>8
<1>9. CASE /\ Found(querylimit, a) = {} /\ Available(querylimit, k) = {}
           /\ Observed(a, k, FALSE) /\ UNCHANGED querylimit
  BY <1>5, <1>9
<1> QED
  BY <1>6, <1>7, <1>8, <1>9

\* Time keeps the limits: an interval grows with the silence and the window
LEMMA TickKeeps ==
    ASSUME Inv, Tick
    PROVE  /\ ScalarsOK' /\ ~refused'
           /\ ~wrapped' => MineOK(querylimit', silence') /\ WindowOK(querylimit', window')
<1> DEFINE q == querylimit
           r == querylimit'
<1>1. /\ q \in Table
      /\ r = [q EXCEPT !.buckets = [b \in Bucket |-> Older(q.buckets[b])]]
  BY DEF Inv, Chained, TableOK, Tick
<1>2. \A b \in Bucket : r.buckets[b] = Older(q.buckets[b]) /\ q.buckets[b] \in LeakyBucket
  BY <1>1 DEF Table
<1>3. /\ silence \in Nat /\ silence <= Period * MostBurst
      /\ window \in [age : 0..Period, count : 0..(MostBurst + 2)]
  BY Numbers DEF Inv, ScalarsOK
<1>4. silence' = IF silence + 1 <= Period * MostBurst THEN silence + 1 ELSE Period * MostBurst
  <2> DEFINE m == Period * MostBurst
  <2>1. silence' = Min({silence + 1, m})
    BY DEF Tick
  <2>2. m \in Int /\ silence + 1 \in Int
    BY <1>3, Numbers
  <2> HIDE DEF m
  <2>3. silence' = IF silence + 1 <= m THEN silence + 1 ELSE m
    BY <2>1, <2>2, MinOfTwo
  <2> QED
    BY <2>3 DEF m
<1>5. /\ window' \in [age : 0..Period, count : 0..(MostBurst + 2)]
      /\ window'.count = window.count
      /\ window'.age < Period => window'.age = window.age + 1 /\ window.age < Period
  <2> DEFINE n == Min({window.age + 1, Period})
  <2>1. window' = [window EXCEPT !.age = n]
    BY DEF Tick
  <2>2. window.age \in 0..Period
    BY <1>3
  <2>3. n = IF window.age + 1 <= Period THEN window.age + 1 ELSE Period
    BY <2>2, Numbers, MinOfTwo
  <2> HIDE DEF n
  <2>4. n \in 0..Period /\ (n < Period => n = window.age + 1 /\ window.age < Period)
    BY <2>2, <2>3, Numbers
  <2> QED
    BY <1>3, <2>1, <2>4
<1>6. wrapped' \in BOOLEAN /\ refused' = FALSE
  BY DEF Tick
<1>7. ScalarsOK'
  <2>1. silence' \in 0..(Period * MostBurst)
    BY <1>3, <1>4, Numbers
  <2> QED
    BY <1>5, <1>6, <2>1 DEF ScalarsOK
<1>8. ASSUME ~wrapped'
      PROVE  MineOK(r, silence') /\ WindowOK(r, window')
  <2>1. /\ ~wrapped
        /\ \A b \in Bucket : q.buckets[b].address = Watched => ~(Interval(r.buckets[b]) < 0)
    BY <1>8 DEF Tick
  <2>2. MineOK(q, silence) /\ WindowOK(q, window)
    BY <2>1 DEF Inv
  <2> HIDE DEF q, r
  <2>3. \A b \in Bucket : r.buckets[b] \in LeakyBucket /\ r.buckets[b].address = q.buckets[b].address
    BY <1>2, OlderShape
  <2>4. ASSUME NEW b \in Bucket, q.buckets[b].address = Watched
        PROVE  /\ q.buckets[b].burst \in 0..MostBurst /\ silence <= Interval(q.buckets[b])
               /\ r.buckets[b].burst = q.buckets[b].burst
               /\ Interval(r.buckets[b]) = Interval(q.buckets[b]) + 1
               /\ Interval(q.buckets[b]) \in Int
    <3>1. q.buckets[b].burst \in 0..MostBurst /\ silence <= Interval(q.buckets[b])
      BY <2>2, <2>4 DEF MineOK
    <3>2. /\ q.buckets[b] \in LeakyBucket /\ r.buckets[b] \in LeakyBucket
          /\ r.buckets[b] = Older(q.buckets[b]) /\ q.buckets[b].address # NoAddress
      BY <1>2, <2>3, <2>4, TableAssumption
    <3>3. Interval(q.buckets[b]) \in Int /\ Interval(r.buckets[b]) \in Int
      BY <3>2, IntervalInt
    <3>4. Interval(q.buckets[b]) >= 0 /\ Interval(r.buckets[b]) >= 0
      BY <1>3, <2>1, <2>4, <3>1, <3>3
    <3> QED
      BY <3>1, <3>2, <3>3, <3>4, OlderFacts
  <2>5. MineOK(r, silence')
    <3> SUFFICES ASSUME NEW b \in Bucket, r.buckets[b].address = Watched
                 PROVE  r.buckets[b].burst \in 0..MostBurst /\ silence' <= Interval(r.buckets[b])
      BY DEF MineOK
    <3>1. q.buckets[b].address = Watched
      BY <2>3
    <3>2. silence' <= silence + 1
      BY <1>3, <1>4, Numbers
    <3>3. silence' \in Int
      BY <1>3, <1>4, Numbers
    <3> QED
      BY <1>3, <2>4, <3>1, <3>2, <3>3
  <2>6. WindowOK(r, window')
    <3>1. window'.count <= MostBurst + 1
      BY <1>5, <2>2 DEF WindowOK
    <3>2. ASSUME window'.age < Period
          PROVE  /\ window'.count >= 1
                 /\ \E b \in Bucket : r.buckets[b].address = Watched /\ Fits(r.buckets[b], window')
      <4>1. window'.age = window.age + 1 /\ window.age < Period /\ window.age \in Nat
        BY <1>3, <1>5, <3>2, Numbers
      <4>2. PICK b \in Bucket : q.buckets[b].address = Watched /\ Fits(q.buckets[b], window)
        BY <2>2, <4>1 DEF WindowOK
      <4>3. \/ window.count <= q.buckets[b].burst /\ Interval(q.buckets[b]) <= Period - 1 + window.age
            \/ window.count <= q.buckets[b].burst + 1 /\ Interval(q.buckets[b]) <= window.age - 1
        BY <4>2 DEF Fits
      <4> DEFINE w == window'
                 y == r.buckets[b]
                 i == Interval(q.buckets[b])
                 u == q.buckets[b].burst
      <4>4. /\ y.burst = u /\ Interval(y) = i + 1 /\ i \in Int /\ u \in Int
            /\ w.count = window.count /\ w.age = window.age + 1
            /\ Period \in Nat
        BY <1>5, <2>4, <4>1, <4>2, Numbers
      <4> HIDE DEF w, y, i, u
      <4>5. \/ window.count <= u /\ i <= Period - 1 + window.age
            \/ window.count <= u + 1 /\ i <= window.age - 1
        BY <4>3 DEF i, u
      <4>6. \/ w.count <= y.burst /\ Interval(y) <= Period - 1 + w.age
            \/ w.count <= y.burst + 1 /\ Interval(y) <= w.age - 1
        BY <4>1, <4>4, <4>5
      <4>7. Fits(y, w)
        BY <4>6 DEF Fits
      <4>8. w.count >= 1
        BY <2>2, <4>1, <4>4 DEF WindowOK
      <4> QED
        BY <2>3, <4>2, <4>7, <4>8 DEF w, y
    <3> QED
      BY <3>1, <3>2 DEF WindowOK
  <2> QED
    BY <2>5, <2>6
<1> QED
  BY <1>6, <1>7, <1>8

\* Whatever addresses ask and however the buckets change hands, the table, the
\* counts of the watched address and its window stay as the invariant says
THEOREM Invariant == Spec => []Inv
<1>1. Init => Inv
  <2> SUFFICES ASSUME Init PROVE Inv
    OBVIOUS
  <2>1. Chained(querylimit)
    BY InitChained
  <2>2. ScalarsOK
    <3>1. /\ Period * MostBurst \in 0..(Period * MostBurst)
          /\ Period \in 0..Period /\ 0 \in 0..(MostBurst + 2)
      BY Numbers
    <3> QED
      BY <3>1 DEF Init, ScalarsOK
  <2>3. \A b \in Bucket : querylimit.buckets[b].address # Watched
    BY TableAssumption DEF Init, Null
  <2>4. WindowOK(querylimit, window)
    BY Numbers DEF Init, WindowOK
  <2> QED
    BY <2>1, <2>2, <2>3, <2>4 DEF Inv, Init, MineOK
<1>2. Inv /\ [Next]_vars => Inv'
  <2> SUFFICES ASSUME Inv, [Next]_vars
               PROVE  Inv'
    OBVIOUS
  <2>1. Chained(querylimit')
    BY NextChained DEF Inv
  <2>2. /\ ScalarsOK' /\ ~refused'
        /\ ~wrapped' => MineOK(querylimit', silence') /\ WindowOK(querylimit', window')
    <3>1. CASE \E a \in Address, k \in Query : RateLimitAddress(a, k)
      BY <3>1, RateLimitKeeps
    <3>2. CASE Tick
      BY <3>2, TickKeeps
    <3>3. CASE UNCHANGED vars
      BY <3>3 DEF vars, Inv, ScalarsOK
    <3> QED
      BY <3>1, <3>2, <3>3 DEF Next
  <2> QED
    BY <2>1, <2>2 DEF Inv
<1> QED
  BY <1>1, <1>2, PTL DEF Spec

\* The table and the numbers keep their types, and free buckets are blank
THEOREM TypeCorrect == Spec => []TypeOK
<1>1. Inv => TypeOK
  BY DEF Inv, Chained, TableOK, ScalarsOK, TypeOK
<1> QED
  BY <1>1, Invariant, PTL

\* In a period no address gets more answers than the highest limit and one
\* more, also when its bucket is taken from it
THEOREM Bounded == Spec => []AnswersBounded
<1>1. Inv => AnswersBounded
  BY DEF Inv, WindowOK, AnswersBounded
<1> QED
  BY <1>1, Invariant, PTL

\* An address that was silent for long enough is answered
THEOREM Answered == Spec => []SilentIsAnswered
<1>1. Inv => SilentIsAnswered
  BY DEF Inv, SilentIsAnswered
<1> QED
  BY <1>1, Invariant, PTL

=============================================================================
