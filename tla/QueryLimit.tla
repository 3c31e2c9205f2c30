------------------------------ MODULE QueryLimit ------------------------------
(***************************************************************************)
(* The limiter of status and info queries (sv_main.c).  Each address that  *)
(* has asked lately has a bucket: how many answers it was given (burst)    *)
(* and when the last of them began to be forgiven (lastTime), one per      *)
(* period.  The buckets are an array; those in use are in doubly linked    *)
(* chains, one per hash.  An address without a bucket takes the first that *)
(* is free or expired.                                                     *)
(*                                                                         *)
(* A time is kept as its age, com_uFrameTime - lastTime, of which the code *)
(* only looks at the lowest bits, as an int.  Addresses of the local       *)
(* network, which are not limited, and the limits for all addresses        *)
(* together (infoBucket, statusBucket) are left out.                       *)
(***************************************************************************)
EXTENDS Integers, FiniteSetsExt

CONSTANTS
    Address,    \* the addresses that ask
    NoAddress,  \* NA_BAD: a bucket that is free
    MaxBuckets, \* max_buckets
    MaxHashes,  \* max_hashes, 4096 in the code
    HashFor,    \* SVC_HashForAddress
    Query,      \* the kinds of queries
    BurstOf,    \* answers in a row, by kind: 2 for status, 4 for info
    Period,     \* sv_queryIgnoreTime, in the ticks of the clock
    IntRange,   \* 2^32, the values of an int
    CharRange,  \* 2^8, the values of a signed char
    Watched     \* the address whose queries and answers are followed

ASSUME TableAssumption ==
    /\ NoAddress \notin Address /\ Watched \in Address
    /\ MaxBuckets \in Nat /\ MaxHashes \in Nat \ {0}
    /\ HashFor \in [Address -> 0..(MaxHashes - 1)]

\* Each kind is answered twice in a row at least, one kind most often, and
\* that number fits in a signed char
ASSUME LimitAssumption ==
    /\ Period \in Nat \ {0} /\ IntRange \in Nat \ {0, 1} /\ CharRange \in Nat \ {0}
    /\ BurstOf \in [Query -> Nat \ {0, 1}]
    /\ \E k \in Query : \A j \in Query : BurstOf[j] <= BurstOf[k]
    /\ \A k \in Query : 2 * BurstOf[k] < CharRange

VARIABLES
    querylimit, \* bucketHashes and buckets
    silence,    \* ticks since Watched last asked, up to the most that matter
    window,     \* answers to Watched since one of them, within a period
    wrapped,    \* whether an interval of Watched was no int
    refused     \* whether Watched was refused an answer after enough silence

vars == <<querylimit, silence, window, wrapped, refused>>

Hash == 0..(MaxHashes - 1)

\* Buckets are numbered; 0 is NULL
Bucket == 1..MaxBuckets

NULL == 0

Null == [address |-> NoAddress, age |-> 0, burst |-> 0, hash |-> 0,
         prev |-> NULL, next |-> NULL]

Used(q, b) == q.buckets[b].address # NoAddress

\* The value of an int, or of a signed char, with these bits
Signed(x, range) ==
    LET bits == x % range IN IF 2 * bits >= range THEN bits - range ELSE bits

Interval(bucket) == Signed(bucket.age, IntRange)

\* Division and remainder of C, which round towards 0
Quotient(x) == IF x >= 0 THEN x \div Period ELSE -((-x) \div Period)

Remainder(x) == x - Quotient(x) * Period

\* The values of burst, a signed char
Burst == {n \in -CharRange..CharRange : -CharRange <= 2 * n /\ 2 * n < CharRange}

\* leakyBucket_t
LeakyBucket == [address : Address \cup {NoAddress},
                age : 0..(IntRange - 1), burst : Burst, hash : Hash,
                prev : Bucket \cup {NULL}, next : Bucket \cup {NULL}]

\* queryLimit_t
Table == [bucketHashes : [Hash -> Bucket \cup {NULL}],
          buckets : [Bucket -> LeakyBucket]]

MostBurst == Max({BurstOf[k] : k \in Query})

\* Ticks after which a query of a kind is due an answer, whatever was
\* answered before
Enough(k) == Period * (MostBurst - BurstOf[k] + 1)

TypeOK ==
    /\ querylimit \in Table
    /\ silence \in 0..(Period * MostBurst)
    /\ window \in [age : 0..Period, count : 0..(MostBurst + 2)]
    /\ {wrapped, refused} \subseteq BOOLEAN
    \* free buckets are blank
    /\ \A b \in Bucket : ~Used(querylimit, b) => querylimit.buckets[b] = Null

-----------------------------------------------------------------------------
\* The chains

\* The buckets that one meets from the head of a chain: those in every set
\* that has the head and with a bucket the next
OnChain(q, h) ==
    {b \in Bucket : \A S \in SUBSET Bucket :
        /\ q.bucketHashes[h] # NULL => q.bucketHashes[h] \in S
        /\ \A c \in S : q.buckets[c].next # NULL => q.buckets[c].next \in S
        => b \in S}

\* Mutant: the bucket after the one taken out still names it as the one before
UnlinkedForward(q, b) ==
    LET x == q.buckets[b]
    IN  [bucketHashes |-> IF x.prev = NULL THEN [q.bucketHashes EXCEPT ![x.hash] = x.next]
                          ELSE q.bucketHashes,
         buckets |-> [c \in Bucket |->
            IF c = b THEN Null
            ELSE IF c = x.prev THEN [q.buckets[c] EXCEPT !.next = x.next]
            ELSE q.buckets[c]]]

\* A bucket taken out of its chain and wiped
Unlinked(q, b) ==
    LET x == q.buckets[b]
    IN  [bucketHashes |-> IF x.prev = NULL THEN [q.bucketHashes EXCEPT ![x.hash] = x.next]
                          ELSE q.bucketHashes,
         buckets |-> [c \in Bucket |->
            CASE c = b -> Null
              [] c # b /\ c = x.prev -> [q.buckets[c] EXCEPT !.next = x.next]
              [] c # b /\ c # x.prev /\ c = x.next -> [q.buckets[c] EXCEPT !.prev = x.prev]
              [] OTHER -> q.buckets[c]]]

\* A free bucket put at the head of the chain of an address
Linked(q, b, a) ==
    LET head == q.bucketHashes[HashFor[a]]
    IN  [bucketHashes |-> [q.bucketHashes EXCEPT ![HashFor[a]] = b],
         buckets |-> [c \in Bucket |->
            CASE c = b -> [Null EXCEPT !.address = a, !.hash = HashFor[a], !.next = head]
              [] c # b /\ c = head -> [q.buckets[c] EXCEPT !.prev = b]
              [] OTHER -> q.buckets[c]]]

\* The limits are those of the query that looks for a bucket, whatever the
\* bucket was used for
Expired(q, b, k) ==
    /\ Used(q, b)
    /\ \/ Interval(q.buckets[b]) > BurstOf[k] * Period
       \/ Interval(q.buckets[b]) < 0

Available(q, k) == {b \in Bucket : ~Used(q, b) \/ Expired(q, b, k)}

Found(q, a) == {b \in OnChain(q, HashFor[a]) : q.buckets[b].address = a}

\* The first bucket that is free or expired, given to an address
Taken(q, b, a) == Linked(IF Used(q, b) THEN Unlinked(q, b) ELSE q, b, a)

\* Mutant: burst has the width of expired
ForgivenWide(bucket) ==
    LET interval == Interval(bucket)
        expired == Quotient(interval)
    IN  IF expired > bucket.burst
        THEN [bucket EXCEPT !.burst = 0, !.age = 0]
        ELSE [bucket EXCEPT !.burst = @ - expired, !.age = Remainder(interval) % IntRange]

\* Mutant: lastTime stays, and the same periods are forgiven again
ForgivenAgain(bucket) ==
    LET expired == Quotient(Interval(bucket))
    IN  IF expired > bucket.burst
        THEN [bucket EXCEPT !.burst = 0, !.age = 0]
        ELSE [bucket EXCEPT !.burst = Signed(@ - expired, CharRange)]

\* Mutant: however many periods passed, one answer is forgiven
ForgivenOne(bucket) ==
    LET interval == Interval(bucket)
        expired == Quotient(interval)
    IN  IF expired > bucket.burst
        THEN [bucket EXCEPT !.burst = 0, !.age = 0]
        ELSE [bucket EXCEPT !.burst = @ - Min({expired, 1}),
                            !.age = Remainder(interval) % IntRange]

\* SVC_RateLimit: the bucket afterwards; an answer is allowed if there were
\* less than the limit
Forgiven(bucket) ==
    LET interval == Interval(bucket)
        expired == Quotient(interval)
    IN  IF expired > bucket.burst
        THEN [bucket EXCEPT !.burst = 0, !.age = 0]
        ELSE [bucket EXCEPT !.burst = Signed(@ - expired, CharRange),
                            !.age = Remainder(interval) % IntRange]

Allows(bucket, k) == Forgiven(bucket).burst < BurstOf[k]

RateLimit(bucket, k) ==
    LET f == Forgiven(bucket)
    IN  IF Allows(bucket, k) THEN [f EXCEPT !.burst = Signed(@ + 1, CharRange)] ELSE f

-----------------------------------------------------------------------------

\* The query's effect on what the properties look at
Observed(a, k, answered) ==
    /\ silence' = IF a = Watched THEN 0 ELSE silence
    /\ IF a = Watched /\ answered
       THEN \/ window' = [age |-> 0, count |-> 1]
            \/ /\ window.age < Period
               /\ window' = [window EXCEPT !.count = Min({@ + 1, MostBurst + 2})]
       ELSE UNCHANGED window
    /\ refused' = /\ a = Watched /\ ~answered /\ silence >= Enough(k) /\ ~wrapped
                  /\ Found(querylimit, a) # {} \/ Available(querylimit, k) # {}
    /\ UNCHANGED wrapped

\* An address is charged for its query in its bucket
Charge(q, b, a, k) ==
    /\ querylimit' = [q EXCEPT !.buckets[b] = RateLimit(q.buckets[b], k)]
    /\ Observed(a, k, Allows(q.buckets[b], k))

\* SVC_RateLimitAddress: SVC_BucketForAddress finds the bucket of the address,
\* takes one for it, or has none, by which the query is refused
RateLimitAddress(a, k) ==
    \/ \E b \in Found(querylimit, a) : Charge(querylimit, b, a, k)
    \/ /\ Found(querylimit, a) = {}
       /\ \E b \in Available(querylimit, k) :
            /\ \A c \in Available(querylimit, k) : b <= c
            /\ Charge(Taken(querylimit, b, a), b, a, k)
    \/ /\ Found(querylimit, a) = {} /\ Available(querylimit, k) = {}
       /\ Observed(a, k, FALSE)
       /\ UNCHANGED querylimit

\* A free bucket has no age
Older(x) ==
    IF x.address = NoAddress THEN x ELSE [x EXCEPT !.age = (x.age + 1) % IntRange]

\* The next frame: com_uFrameTime
Tick ==
    /\ querylimit' = [querylimit EXCEPT !.buckets =
           [b \in Bucket |-> Older(querylimit.buckets[b])]]
    /\ silence' = Min({silence + 1, Period * MostBurst})
    /\ window' = [window EXCEPT !.age = Min({@ + 1, Period})]
    /\ wrapped' = \/ wrapped
                  \/ \E b \in Bucket : /\ querylimit.buckets[b].address = Watched
                                      /\ Interval(querylimit'.buckets[b]) < 0
    /\ refused' = FALSE

\* SVC_RateLimitInit
Init ==
    /\ querylimit = [bucketHashes |-> [h \in Hash |-> NULL],
                     buckets |-> [b \in Bucket |-> Null]]
    /\ silence = Period * MostBurst
    /\ window = [age |-> Period, count |-> 0]
    /\ wrapped = FALSE /\ refused = FALSE

Next ==
    \/ \E a \in Address, k \in Query : RateLimitAddress(a, k)
    \/ Tick

Spec == Init /\ [][Next]_vars

-----------------------------------------------------------------------------
\* Properties

\* Each bucket in use is in the chain of its address's hash, where the next
\* query of the address finds it, and no address has two, although buckets
\* are taken out of one chain and put into another all the time.  The bucket
\* before it is the only one it is next to, and there is none before the head,
\* so that no chain runs in a circle and the search for an address ends.
ChainsIntact ==
    \A b \in {c \in Bucket : Used(querylimit, c)} :
        LET x == querylimit.buckets[b]
        IN  /\ x.hash = HashFor[x.address]
            /\ b \in OnChain(querylimit, x.hash)
            /\ x.prev = NULL <=> querylimit.bucketHashes[x.hash] = b
            /\ \A c \in Bucket :
                /\ querylimit.buckets[c].address = x.address => c = b
                /\ querylimit.buckets[c].next = b <=> x.prev = c

\* In one period an address is not answered more often than the highest
\* limit, and once more for the period that passed, also when its bucket is
\* given to another address and it takes a new one.  Not claimed once an
\* interval did not fit in an int.
AnswersBounded == ~wrapped => window.count <= MostBurst + 1

\* An address that has been silent for long enough is answered, if it has a
\* bucket or there is one to take, unless an interval did not fit in an int
SilentIsAnswered == ~refused

=============================================================================
