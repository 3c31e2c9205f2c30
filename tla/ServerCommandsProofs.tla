------------------------- MODULE ServerCommandsProofs -------------------------
(***************************************************************************)
(* What the ring of server commands promises, for any ring, commands and   *)
(* rules of replacing them, and any number of messages, losses and maps:   *)
(* that commands are executed in order and before the snapshots that       *)
(* follow them, that the keys of the client's messages are still in the    *)
(* ring when they are needed, and that what was sent is not touched.       *)
(*                                                                         *)
(* The properties except a client that is being dropped, one for which an  *)
(* acknowledge was discarded, and one for which a gamestate overtook       *)
(* commands.  None of these is ever undone, so that a step that ends in a  *)
(* client they do not apply to began in one, and the inductive invariant,  *)
(* Orderly, speaks of such clients alone.  It says what the ring holds     *)
(* (RingOK), that what may not be lost was executed or is in the ring      *)
(* (Complete), and what the messages on their way hold (MessageOK, AckOK). *)
(***************************************************************************)
EXTENDS ServerCommands, SequenceTheorems, FiniteSetTheorems,
        WellFoundedInduction, TLAPS

-----------------------------------------------------------------------------
(* The inductive invariant.                                                *)

Client == [reliableSequence : Nat, reliableAcknowledge : Nat, reliableSent : Nat,
           reliableCommands : [0..(Capacity - 1) -> Nat],
           added : Seq([command : Command, type : {0, 1}]), state : State,
           gamestateSent : BOOLEAN, delayDropMsg : BOOLEAN, level : Nat,
           gamestates : Nat, discarded : BOOLEAN]

ClientTyped(cl) ==
    cl \in Client /\ cl.reliableCommands \in [0..(Capacity - 1) -> 0..Len(cl.added)]

MessageSet == [first : Nat \ {0}, ids : Seq(Nat), given : Nat]

GamestateSet == [sequence : Nat, level : Nat]

AckSet == [acknowledge : Nat, key : Nat, level : Nat]

Remote == [serverCommandSequence : Nat, executed : Seq(Nat), level : Nat,
           seen : Nat, raced : BOOLEAN]

Typed ==
    /\ ClientTyped(client) /\ remote \in Remote /\ toClient \in Seq(MessageSet)
    /\ gamestates \in Seq(GamestateSet) /\ toServer \in Seq(AckSet)

\* Nothing is sent that is not in the ring, and the ring is not overrun
Counters ==
    /\ client.reliableSent <= client.reliableSequence
    /\ Staying => Pending(client) <= Capacity

-----------------------------------------------------------------------------
(* The rest holds of a client that stays, for which nothing was discarded   *)
(* and no gamestate overtook commands.  It speaks of the numbers            *)
(* acknowledged (a), sent (s) and last (q), the ring, the history (added),  *)
(* the client's end (r) and the messages in both directions (tc and ts), so *)
(* that it can be stated of the middle of a step.                           *)

TypeIn(added, id) == IF id = 0 THEN 0 ELSE added[id].type

SupersededIn(added, id) ==
    \E later \in (id + 1)..Len(added) :
        Supersedes(added[later].command, added[id].command)

ExecutedBy(r, id) == \E k \in 1..Len(r.executed) : r.executed[k] = id

\* What may not be lost
Needed(added, id) == TypeIn(added, id) # 0 /\ ~SupersededIn(added, id)

LastOf(executed) == IF executed = << >> THEN 0 ELSE executed[Len(executed)]

\* The commands not acknowledged are in the ring, in the order they were
\* given.  When it is full all that may be lost was removed.
RingOK(a, s, q, ring, added) ==
    /\ a <= s /\ s <= q /\ q - a <= Capacity
    /\ \A i \in (a + 1)..q : ring[Slot(i)] \in 1..Len(added)
    /\ \A i, j \in (a + 1)..q : i < j => ring[Slot(i)] < ring[Slot(j)]
    /\ q - a = Capacity => \A i \in (s + 1)..q : TypeIn(added, ring[Slot(i)]) # 0

\* The client has executed what it says, in order, and nothing of what is to
\* come; the last one is in the ring under its number, if that was not used
\* again
RemoteOK(a, s, q, ring, added, r) ==
    /\ a <= r.serverCommandSequence /\ r.serverCommandSequence <= s
    /\ \A k \in 1..Len(r.executed) : r.executed[k] \in 1..Len(added)
    /\ \A k, l \in 1..Len(r.executed) : k < l => r.executed[k] < r.executed[l]
    /\ \A k \in 1..Len(r.executed), i \in (r.serverCommandSequence + 1)..q :
          r.executed[k] < ring[Slot(i)]
    /\ r.serverCommandSequence > q - Capacity =>
          LastOf(r.executed) = ring[Slot(r.serverCommandSequence)]

\* What is needed was executed or is in the ring to be executed
Complete(q, ring, added, r) ==
    \A id \in 1..Len(added) : Needed(added, id) =>
        \/ ExecutedBy(r, id)
        \/ \E i \in (r.serverCommandSequence + 1)..q : ring[Slot(i)] = id

\* A message repeats the ring from a number that was acknowledged on, and a
\* snapshot in it comes after what is needed
MessageOK(m, a, s, ring, added, r) ==
    /\ m.first - 1 <= a /\ m.first + Len(m.ids) - 1 <= s
    /\ \A k \in 1..Len(m.ids) : m.first + k - 1 > r.serverCommandSequence =>
          m.ids[k] = ring[Slot(m.first + k - 1)]
    /\ m.given <= Len(added)
    /\ \A id \in 1..m.given : Needed(added, id) =>
          \/ ExecutedBy(r, id)
          \/ \E k \in 1..Len(m.ids) :
                m.first + k - 1 > r.serverCommandSequence /\ m.ids[k] = id

\* A message of the client acknowledges no less than the one before it
AckOK(p, a, q, ring, r) ==
    /\ a <= p.acknowledge /\ p.acknowledge <= r.serverCommandSequence
    /\ p.acknowledge > q - Capacity => p.key = ring[Slot(p.acknowledge)]

SeenOK(added, r) ==
    /\ r.seen <= Len(added)
    /\ \A id \in 1..r.seen : Needed(added, id) => ExecutedBy(r, id)

Orderly(a, s, q, ring, added, r, tc, ts) ==
    /\ RingOK(a, s, q, ring, added)
    /\ RemoteOK(a, s, q, ring, added, r)
    /\ Complete(q, ring, added, r)
    /\ SeenOK(added, r)
    /\ \A k \in 1..Len(tc) : MessageOK(tc[k], a, s, ring, added, r)
    /\ \A k \in 1..Len(ts) : AckOK(ts[k], a, q, ring, r)
    /\ \A k, l \in 1..Len(ts) : k < l => ts[k].acknowledge <= ts[l].acknowledge

Undisturbed == Staying /\ ~client.discarded /\ ~remote.raced

Inv ==
    /\ Typed /\ Counters
    /\ Undisturbed =>
          Orderly(client.reliableAcknowledge, client.reliableSent,
                  client.reliableSequence, client.reliableCommands, client.added,
                  remote, toClient, toServer)

-----------------------------------------------------------------------------
(* Slots, and the largest and least of some numbers.                       *)

LEMMA SlotType ==
    ASSUME NEW i \in Int
    PROVE  Slot(i) \in 0..(Capacity - 1)
BY CapacityAssumption DEF Slot

LEMMA SlotOrdered ==
    ASSUME NEW i \in Int, NEW j \in Int, i <= j, j - i < Capacity, Slot(i) = Slot(j)
    PROVE  i = j
<1> DEFINE a == i \div Capacity
           b == j \div Capacity
<1>1. /\ i = Capacity * a + (i % Capacity) /\ j = Capacity * b + (j % Capacity)
      /\ a \in Int /\ b \in Int
  BY CapacityAssumption
<1>2. i % Capacity = j % Capacity
  BY DEF Slot
<1>3. j - i = Capacity * (b - a)
  <2> HIDE DEF a, b
  <2> QED
    BY <1>1, <1>2, CapacityAssumption
<1>4. Capacity * (b - a) < Capacity /\ Capacity * (b - a) >= 0
  BY <1>3
<1> HIDE DEF a, b
<1>5. b - a < 1 /\ b - a >= 0
  BY <1>1, <1>4, CapacityAssumption
<1> QED
  BY <1>1, <1>2, <1>5

\* Two numbers less than a ring apart have slots of their own
LEMMA SlotUnique ==
    ASSUME NEW i \in Int, NEW j \in Int, i - j < Capacity, j - i < Capacity,
           Slot(i) = Slot(j)
    PROVE  i = j
BY SlotOrdered

\* The slot after the slot of a number is that of the next
LEMMA SlotNext ==
    ASSUME NEW i \in Int
    PROVE  Slot(Slot(i) + 1) = Slot(i + 1)
<1> DEFINE a == i \div Capacity
           x == i % Capacity
           b == (x + 1) \div Capacity
           y == (x + 1) % Capacity
           c == (i + 1) \div Capacity
           z == (i + 1) % Capacity
<1>1. /\ i = Capacity * a + x /\ x + 1 = Capacity * b + y
      /\ i + 1 = Capacity * c + z
      /\ a \in Int /\ b \in Int /\ c \in Int /\ x \in Int
      /\ y \in 0..(Capacity - 1) /\ z \in 0..(Capacity - 1)
  BY CapacityAssumption
<1> HIDE DEF a, x, b, y, c, z
<1>2. z - y = Capacity * (a + b - c)
  BY <1>1, CapacityAssumption
<1>3. a + b - c = 0
  <2> DEFINE d == a + b - c
  <2>1. d \in Int /\ Capacity * d < Capacity /\ Capacity * d > 0 - Capacity
    BY <1>1, <1>2, CapacityAssumption
  <2> HIDE DEF d
  <2>2. d < 1 /\ d > 0 - 1
    BY <2>1, CapacityAssumption
  <2> QED
    BY <2>1, <2>2 DEF d
<1> QED
  BY <1>1, <1>2, <1>3, CapacityAssumption DEF Slot, x, y, z

LEMMA LeastElement ==
    ASSUME NEW S \in SUBSET Nat, S # {}
    PROVE  \E x \in S : \A y \in S : x <= y
<1> DEFINE R == {ss \in Nat \X Nat : ss[1] < ss[2]}
<1>1. IsWellFoundedOn(R, Nat)
  BY NatLessThanWellFounded DEF OpToRel
<1>2. PICK x \in S : \A y \in S : ~(<<y, x>> \in R)
  <2> HIDE DEF R
  <2> QED
    BY <1>1, WFMin
<1>3. \A y \in S : x <= y
  <2> TAKE y \in S
  <2>1. x \in Nat /\ y \in Nat /\ <<y, x>> \in Nat \X Nat
    OBVIOUS
  <2>2. <<y, x>> \notin R => ~(y < x)
    BY <2>1
  <2> QED
    BY <1>2, <2>1, <2>2
<1> QED
  BY <1>3

LEMMA MinOfNumbers ==
    ASSUME NEW S \in SUBSET Nat, S # {}
    PROVE  Min(S) \in S /\ \A y \in S : Min(S) <= y
BY LeastElement DEF Min

LEMMA MaxOfNumbers ==
    ASSUME NEW n \in Nat, NEW S \in SUBSET (0..n), S # {}
    PROVE  Max(S) \in S /\ \A y \in S : Max(S) >= y
<1> DEFINE T == {x \in 0..n : n - x \in S}
<1>1. PICK y \in S : TRUE
  OBVIOUS
<1>2. T \in SUBSET Nat /\ T # {}
  <2>1. n - y \in 0..n /\ n - (n - y) = y
    BY <1>1
  <2>2. n - y \in T
    BY <1>1, <2>1
  <2>3. \A x \in T : x \in Nat
    OBVIOUS
  <2> HIDE DEF T
  <2> QED
    BY <2>2, <2>3
<1> HIDE DEF T
<1>3. PICK x \in T : \A z \in T : x <= z
  BY <1>2, LeastElement
<1>4. n - x \in S /\ x \in 0..n
  BY <1>3 DEF T
<1>5. ASSUME NEW w \in S
      PROVE  n - x >= w
  <2>1. n - w \in 0..n /\ n - (n - w) = w /\ w \in 0..n
    BY <1>5
  <2>2. n - w \in T
    BY <2>1 DEF T
  <2>3. x <= n - w
    BY <1>3, <2>2
  <2> QED
    BY <1>4, <2>1, <2>3
<1> QED
  BY <1>4, <1>5 DEF Max

-----------------------------------------------------------------------------
(* How many of a set of numbers are no larger than one of them.            *)

Rank(K, i) == Cardinality({j \in K : j <= i})

LEMMA RankOne ==
    ASSUME NEW s \in Nat, NEW q \in Nat, NEW K \in SUBSET ((s + 1)..q), NEW i \in K
    PROVE  /\ IsFiniteSet({j \in K : j <= i})
           /\ Rank(K, i) \in 1..Cardinality(K) /\ s + Rank(K, i) <= i
<1> DEFINE L == {j \in K : j <= i}
<1>1. IsFiniteSet((s + 1)..q) /\ IsFiniteSet((s + 1)..i)
      /\ Cardinality((s + 1)..i) = i - s /\ i \in (s + 1)..q
  BY FS_Interval
<1>2. IsFiniteSet(K)
  BY <1>1, FS_Subset
<1>3. L \in SUBSET K /\ L \in SUBSET ((s + 1)..i) /\ i \in L
  <2>1. ASSUME NEW j \in L
        PROVE  j \in (s + 1)..i
    BY <1>1
  <2>2. i \in L
    BY <1>1
  <2> QED
    BY <2>1, <2>2
<1> HIDE DEF L
<1>4. /\ IsFiniteSet(L) /\ Cardinality(L) <= Cardinality(K)
      /\ Cardinality(L) <= i - s
  <2>1. IsFiniteSet(L) /\ Cardinality(L) <= Cardinality(K)
    BY <1>2, <1>3, FS_Subset
  <2>2. Cardinality(L) <= Cardinality((s + 1)..i)
    BY <1>1, <1>3, FS_Subset
  <2> QED
    BY <1>1, <2>1, <2>2
<1>5. Cardinality(L) \in Nat /\ Cardinality(K) \in Nat /\ Cardinality(L) # 0
  BY <1>2, <1>3, <1>4, FS_CardinalityType, FS_EmptySet
<1> QED
  BY <1>1, <1>4, <1>5 DEF L, Rank

LEMMA RankLess ==
    ASSUME NEW s \in Nat, NEW q \in Nat, NEW K \in SUBSET ((s + 1)..q),
           NEW i \in K, NEW j \in K, i < j
    PROVE  Rank(K, i) < Rank(K, j)
<1> DEFINE L == {k \in K : k <= i}
           M == {k \in K : k <= j}
<1>1. IsFiniteSet(M) /\ IsFiniteSet(L)
  BY RankOne
<1>2. L \in SUBSET M /\ L # M
  <2>1. \A k \in K : k \in Int
    OBVIOUS
  <2>2. j \in M /\ j \notin L
    BY <2>1
  <2>3. ASSUME NEW k \in L
        PROVE  k \in M
    BY <2>1
  <2> QED
    BY <2>2, <2>3
<1> HIDE DEF L, M
<1>3. Cardinality(L) <= Cardinality(M) /\ Cardinality(L) # Cardinality(M)
  BY <1>1, <1>2, FS_Subset
<1>4. Cardinality(L) \in Nat /\ Cardinality(M) \in Nat
  BY <1>1, FS_CardinalityType
<1> QED
  BY <1>3, <1>4 DEF L, M, Rank

LEMMA RankOnto ==
    ASSUME NEW s \in Nat, NEW q \in Nat, NEW K \in SUBSET ((s + 1)..q)
    PROVE  /\ Cardinality(K) \in Nat
           /\ s <= q => s + Cardinality(K) <= q
           /\ K = (s + 1)..q /\ s <= q => Cardinality(K) = q - s
           /\ \A r \in 1..Cardinality(K) : \E i \in K : Rank(K, i) = r
<1>1. IsFiniteSet((s + 1)..q)
      /\ Cardinality((s + 1)..q) = IF s + 1 > q THEN 0 ELSE q - s
  BY FS_Interval
<1>2. /\ IsFiniteSet(K) /\ Cardinality(K) \in Nat
      /\ Cardinality(K) <= Cardinality((s + 1)..q)
  BY <1>1, FS_Subset, FS_CardinalityType
<1> DEFINE n == Cardinality(K)
           f == [i \in K |-> Rank(K, i)]
<1>3. f \in [K -> 1..n]
  BY RankOne
<1>4. \A i, j \in K : f[i] = f[j] => i = j
  <2> SUFFICES ASSUME NEW i \in K, NEW j \in K, f[i] = f[j]
               PROVE  i = j
    OBVIOUS
  <2>1. Rank(K, i) = Rank(K, j) /\ Rank(K, i) \in Nat
    <3>1. Rank(K, i) \in 1..Cardinality(K)
      BY RankOne
    <3> QED
      BY <1>2, <3>1
  <2>2. i \in Nat /\ j \in Nat
    OBVIOUS
  <2>3. ~(i < j) /\ ~(j < i)
    BY <2>1, RankLess
  <2> QED
    BY <2>2, <2>3
<1>5. f \in Injection(K, 1..n)
  BY <1>3, <1>4 DEF Injection, IsInjective
<1>6. IsFiniteSet(1..n) /\ Cardinality(1..n) = n
  BY <1>2, FS_Interval
<1> HIDE DEF f, n
<1>7. f \in Surjection(K, 1..n)
  BY <1>5, <1>6, FS_Injection DEF n
<1>8. \A r \in 1..n : \E i \in K : f[i] = r
  BY <1>7 DEF Surjection
<1>9. \A r \in 1..n : \E i \in K : Rank(K, i) = r
  BY <1>8 DEF f
<1> QED
  BY <1>1, <1>2, <1>9 DEF n

-----------------------------------------------------------------------------
(* How the ring changes when a command is added, before any of it is sent   *)
(* again.                                                                   *)

Rings == [0..(Capacity - 1) -> Nat]

History == Seq([command : Command, type : {0, 1}])

\* What was sent and is still in the ring stays, what was not sent stays in
\* order, what is needed of it stays, and what was added is there.
Grown(s, q, ring, added, q2, ring2, added2) ==
    /\ q2 \in Nat /\ s <= q2 /\ ring2 \in Rings /\ added2 \in History
    /\ Len(added) <= Len(added2)
    /\ \A id \in 1..Len(added) : added2[id] = added[id]
    /\ \A i \in Nat : i <= s /\ i > q - Capacity /\ i > q2 - Capacity =>
          ring2[Slot(i)] = ring[Slot(i)]
    /\ \A i, j \in (s + 1)..q2 : i < j => ring2[Slot(i)] < ring2[Slot(j)]
    /\ \A i \in (s + 1)..q2 :
          \/ ring2[Slot(i)] \in (Len(added) + 1)..Len(added2)
          \/ \E j \in (s + 1)..q : ring2[Slot(i)] = ring[Slot(j)]
    /\ \A j \in (s + 1)..q :
          Needed(added2, ring[Slot(j)]) =>
              \E i \in (s + 1)..q2 : ring2[Slot(i)] = ring[Slot(j)]
    /\ \A id \in (Len(added) + 1)..Len(added2) :
          \E i \in (s + 1)..q2 : ring2[Slot(i)] = id

CompactedRing(ring, s, K) ==
    [x \in 0..(Capacity - 1) |->
        IF \E i \in K : Slot(s + Rank(K, i)) = x
        THEN ring[Slot(Max({i \in K : Slot(s + Rank(K, i)) = x}))]
        ELSE ring[x]]

LEMMA CompactedRingType ==
    ASSUME NEW s \in Nat, NEW q \in Nat, NEW K \in SUBSET ((s + 1)..q), NEW D,
           NEW ring \in [0..(Capacity - 1) -> D]
    PROVE  CompactedRing(ring, s, K) \in [0..(Capacity - 1) -> D]
<1> SUFFICES ASSUME NEW x \in 0..(Capacity - 1)
             PROVE  (IF \E i \in K : Slot(s + Rank(K, i)) = x
                     THEN ring[Slot(Max({i \in K : Slot(s + Rank(K, i)) = x}))]
                     ELSE ring[x]) \in D
  BY DEF CompactedRing
<1> DEFINE S == {i \in K : Slot(s + Rank(K, i)) = x}
<1>1. CASE \E i \in K : Slot(s + Rank(K, i)) = x
  <2>1. S # {} /\ S \in SUBSET (0..q)
    <3>1. PICK i \in K : i \in S
      BY <1>1
    <3>2. \A j \in S : j \in 0..q
      OBVIOUS
    <3> HIDE DEF S
    <3> QED
      BY <3>1, <3>2
  <2> HIDE DEF S
  <2>2. Max(S) \in 0..q
    BY <2>1, MaxOfNumbers
  <2>3. Slot(Max(S)) \in 0..(Capacity - 1)
    BY <2>2, SlotType
  <2> QED
    BY <1>1, <2>3 DEF S
<1>2. CASE ~(\E i \in K : Slot(s + Rank(K, i)) = x)
  BY <1>2
<1> QED
  BY <1>1, <1>2

LEMMA CompactedRingAt ==
    ASSUME NEW s \in Nat, NEW q \in Nat, s <= q, q - s <= Capacity,
           NEW K \in SUBSET ((s + 1)..q), NEW ring
    PROVE  /\ \A i \in K : /\ s + Rank(K, i) \in (s + 1)..(s + Cardinality(K))
                           /\ CompactedRing(ring, s, K)[Slot(s + Rank(K, i))] = ring[Slot(i)]
           /\ \A i \in Nat : i <= s /\ i > s + Cardinality(K) - Capacity =>
                 CompactedRing(ring, s, K)[Slot(i)] = ring[Slot(i)]
<1>1. /\ Cardinality(K) \in Nat /\ s + Cardinality(K) <= q
      /\ \A i \in K : /\ Rank(K, i) \in 1..Cardinality(K) /\ Rank(K, i) \in Nat
                      /\ i \in Nat /\ i \in 0..q
  <2>1. Cardinality(K) \in Nat /\ s + Cardinality(K) <= q
    BY RankOnto
  <2>2. \A i \in K : Rank(K, i) \in 1..Cardinality(K)
    BY RankOne
  <2> QED
    BY <2>1, <2>2
<1>2. ASSUME NEW i \in K
      PROVE  /\ s + Rank(K, i) \in (s + 1)..(s + Cardinality(K))
             /\ CompactedRing(ring, s, K)[Slot(s + Rank(K, i))] = ring[Slot(i)]
  <2> DEFINE x == Slot(s + Rank(K, i))
             S == {j \in K : Slot(s + Rank(K, j)) = x}
  <2>1. x \in 0..(Capacity - 1)
    BY <1>1, SlotType
  <2>2. ASSUME NEW j \in S
        PROVE  j = i
    <3>1. /\ j \in K /\ Slot(s + Rank(K, j)) = Slot(s + Rank(K, i))
          /\ Rank(K, j) \in 1..Cardinality(K) /\ Rank(K, i) \in 1..Cardinality(K)
          /\ Rank(K, j) \in Nat /\ Rank(K, i) \in Nat
      BY <1>1
    <3>2. /\ (s + Rank(K, j)) - (s + Rank(K, i)) < Capacity
          /\ (s + Rank(K, i)) - (s + Rank(K, j)) < Capacity
      BY <1>1, <3>1, CapacityAssumption
    <3>3. s + Rank(K, j) = s + Rank(K, i)
      <4> DEFINE k == s + Rank(K, j)
                 l == s + Rank(K, i)
      <4>1. k \in Int /\ l \in Int /\ k - l < Capacity /\ l - k < Capacity
            /\ Slot(k) = Slot(l)
        BY <3>1, <3>2
      <4> HIDE DEF k, l
      <4>2. k = l
        BY <4>1, SlotUnique
      <4> QED
        BY <4>2 DEF k, l
    <3>4. Rank(K, j) = Rank(K, i)
      BY <3>1, <3>3
    <3>5. i < j => Rank(K, i) < Rank(K, j)
      BY <3>1, RankLess
    <3>6. j < i => Rank(K, j) < Rank(K, i)
      BY <3>1, RankLess
    <3> HIDE DEF S
    <3> QED
      BY <1>1, <3>1, <3>4, <3>5, <3>6
  <2>3. S # {} /\ S \in SUBSET (0..q)
    <3>1. i \in S
      OBVIOUS
    <3> QED
      BY <1>1, <3>1
  <2>4. Max(S) = i
    <3> HIDE DEF S
    <3> QED
      BY <2>2, <2>3, MaxOfNumbers
  <2>5. CompactedRing(ring, s, K)[x] = ring[Slot(Max(S))]
    BY <2>1 DEF CompactedRing
  <2> HIDE DEF S
  <2> QED
    BY <1>1, <2>4, <2>5
<1>3. ASSUME NEW i \in Nat, i <= s, i > s + Cardinality(K) - Capacity
      PROVE  CompactedRing(ring, s, K)[Slot(i)] = ring[Slot(i)]
  <2>1. ASSUME NEW j \in K, Slot(s + Rank(K, j)) = Slot(i)
        PROVE  FALSE
    <3> DEFINE k == s + Rank(K, j)
    <3>1. k \in Int /\ k - i < Capacity /\ i - k < Capacity /\ k > i
      BY <1>1, <1>3, CapacityAssumption
    <3> HIDE DEF k
    <3>2. k = i
      BY <2>1, <3>1, SlotUnique DEF k
    <3> QED
      BY <3>1, <3>2
  <2>2. Slot(i) \in 0..(Capacity - 1)
    BY SlotType
  <2> QED
    BY <2>1, <2>2 DEF CompactedRing
<1> QED
  BY <1>2, <1>3

\* What is not sent must not be lost
NoneLost(s, q, ring, added) ==
    \A i \in (s + 1)..q : TypeIn(added, ring[Slot(i)]) # 0

\* Only what may be lost is removed
LEMMA CompactedGrown ==
    ASSUME NEW s \in Nat, NEW q \in Nat, s <= q, q - s <= Capacity,
           NEW ring \in Rings, NEW added \in History,
           \A i, j \in (s + 1)..q : i < j => ring[Slot(i)] < ring[Slot(j)],
           NEW K \in SUBSET ((s + 1)..q),
           \A i \in (s + 1)..q : i \in K <=> TypeIn(added, ring[Slot(i)]) # 0
    PROVE  /\ s + Cardinality(K) \in Nat /\ s + Cardinality(K) <= q
           /\ Grown(s, q, ring, added,
                    s + Cardinality(K), CompactedRing(ring, s, K), added)
           /\ K = (s + 1)..q => s + Cardinality(K) = q
           /\ NoneLost(s, s + Cardinality(K), CompactedRing(ring, s, K), added)
<1> DEFINE q2 == s + Cardinality(K)
           ring2 == CompactedRing(ring, s, K)
<1>1. K \in SUBSET ((s + 1)..q)
  OBVIOUS
<1>2. /\ Cardinality(K) \in Nat /\ q2 \in Nat /\ s <= q2 /\ q2 <= q
      /\ K = (s + 1)..q => q2 = q
  <2>1. /\ Cardinality(K) \in Nat
        /\ s <= q => s + Cardinality(K) <= q
        /\ K = (s + 1)..q /\ s <= q => Cardinality(K) = q - s
    BY RankOnto
  <2> HIDE DEF ring2
  <2> QED
    BY <2>1
<1>3. ring2 \in Rings
  BY <1>1, CompactedRingType DEF Rings
<1>4. /\ \A i \in K : s + Rank(K, i) \in (s + 1)..q2
                      /\ ring2[Slot(s + Rank(K, i))] = ring[Slot(i)]
      /\ \A i \in Nat : i <= s /\ i > q2 - Capacity => ring2[Slot(i)] = ring[Slot(i)]
  <2>1. ASSUME NEW i \in K
        PROVE  /\ s + Rank(K, i) \in (s + 1)..q2
               /\ ring2[Slot(s + Rank(K, i))] = ring[Slot(i)]
    <3>1. s + Rank(K, i) \in (s + 1)..(s + Cardinality(K))
      BY CompactedRingAt
    <3>2. CompactedRing(ring, s, K)[Slot(s + Rank(K, i))] = ring[Slot(i)]
      BY CompactedRingAt
    <3> QED
      BY <3>1, <3>2
  <2>2. ASSUME NEW i \in Nat, i <= s, i > q2 - Capacity
        PROVE  ring2[Slot(i)] = ring[Slot(i)]
    <3>1. i > s + Cardinality(K) - Capacity
      <4> HIDE DEF ring2
      <4> QED
        BY <1>2, <2>2, CapacityAssumption
    <3>2. CompactedRing(ring, s, K)[Slot(i)] = ring[Slot(i)]
      BY <2>2, <3>1, CompactedRingAt
    <3> QED
      BY <3>2
  <2> HIDE DEF q2, ring2
  <2> QED
    BY <2>1, <2>2
<1>5. ASSUME NEW k \in (s + 1)..q2
      PROVE  \E i \in K : k = s + Rank(K, i)
  <2>1. k - s \in 1..Cardinality(K)
    BY <1>2
  <2>2. PICK i \in K : Rank(K, i) = k - s
    BY <1>1, <2>1, RankOnto
  <2>3. k = s + (k - s)
    OBVIOUS
  <2> QED
    BY <2>2, <2>3
<1> HIDE DEF q2, ring2
<1>6. ASSUME NEW k \in (s + 1)..q2, NEW l \in (s + 1)..q2, k < l
      PROVE  ring2[Slot(k)] < ring2[Slot(l)]
  <2>1. PICK i \in K : k = s + Rank(K, i)
    BY <1>5
  <2>2. PICK j \in K : l = s + Rank(K, j)
    BY <1>5
  <2>3. i \in (s + 1)..q /\ j \in (s + 1)..q
    BY <1>1
  <2>4. Rank(K, i) \in 1..Cardinality(K) /\ Rank(K, j) \in 1..Cardinality(K)
    BY <1>1, RankOne
  <2>5. Rank(K, i) < Rank(K, j)
    BY <1>2, <1>6, <2>1, <2>2, <2>4
  <2>6. i < j
    <3>1. i # j
      BY <2>4, <2>5, <1>2
    <3>2. ~(j < i)
      <4> SUFFICES ASSUME j < i
                   PROVE  FALSE
        OBVIOUS
      <4>1. Rank(K, j) < Rank(K, i)
        BY <1>1, RankLess
      <4> QED
        BY <1>2, <2>4, <2>5, <4>1
    <3> QED
      BY <2>3, <3>1, <3>2
  <2> QED
    BY <1>4, <2>1, <2>2, <2>3, <2>6
<1>7. ASSUME NEW k \in (s + 1)..q2
      PROVE  \E i \in K : ring2[Slot(k)] = ring[Slot(i)]
  BY <1>4, <1>5
<1>8. ASSUME NEW j \in (s + 1)..q, Needed(added, ring[Slot(j)])
      PROVE  \E i \in (s + 1)..q2 : ring2[Slot(i)] = ring[Slot(j)]
  <2>1. j \in K
    BY <1>8 DEF Needed
  <2> QED
    BY <1>4, <2>1
<1>9. NoneLost(s, q2, ring2, added)
  BY <1>7 DEF NoneLost
<1>10. Grown(s, q, ring, added, q2, ring2, added)
  <2>1. Len(added) \in Nat
    BY LenProperties DEF History
  <2>2. \A i \in Nat : i <= s /\ i > q - Capacity /\ i > q2 - Capacity =>
           ring2[Slot(i)] = ring[Slot(i)]
    BY <1>4
  <2>3. \A i \in (s + 1)..q2 : \E j \in (s + 1)..q : ring2[Slot(i)] = ring[Slot(j)]
    BY <1>1, <1>7
  <2>4. (Len(added) + 1)..Len(added) = {}
    BY <2>1
  <2> QED
    BY <1>2, <1>3, <1>6, <1>8, <2>1, <2>2, <2>3, <2>4 DEF Grown
<1> QED
  BY <1>2, <1>9, <1>10 DEF q2, ring2

\* The numbers from v on take the commands of the numbers after them
ShiftedRing(ring, v, q) ==
    [x \in 0..(Capacity - 1) |->
        IF \E i \in v..(q - 1) : Slot(i) = x THEN ring[Slot(x + 1)] ELSE ring[x]]

LEMMA ShiftedRingType ==
    ASSUME NEW v \in Nat, NEW q \in Nat, NEW D, NEW ring \in [0..(Capacity - 1) -> D]
    PROVE  ShiftedRing(ring, v, q) \in [0..(Capacity - 1) -> D]
<1> SUFFICES ASSUME NEW x \in 0..(Capacity - 1)
             PROVE  (IF \E i \in v..(q - 1) : Slot(i) = x
                     THEN ring[Slot(x + 1)] ELSE ring[x]) \in D
  BY DEF ShiftedRing
<1>1. x + 1 \in Int
  BY CapacityAssumption
<1>2. Slot(x + 1) \in 0..(Capacity - 1)
  BY <1>1, SlotType
<1> QED
  BY <1>2

LEMMA ShiftedRingAt ==
    ASSUME NEW q \in Nat, NEW v \in Nat, v <= q, q - v < Capacity, NEW ring
    PROVE  /\ \A i \in Nat : v <= i /\ i < q =>
                 ShiftedRing(ring, v, q)[Slot(i)] = ring[Slot(i + 1)]
           /\ \A i \in Nat : i < v /\ i > q - Capacity =>
                 ShiftedRing(ring, v, q)[Slot(i)] = ring[Slot(i)]
<1>1. ASSUME NEW i \in Nat, v <= i, i < q
      PROVE  ShiftedRing(ring, v, q)[Slot(i)] = ring[Slot(i + 1)]
  <2>1. i \in v..(q - 1) /\ Slot(i) \in 0..(Capacity - 1) /\ Slot(Slot(i) + 1) = Slot(i + 1)
    BY <1>1, SlotType, SlotNext
  <2>2. ShiftedRing(ring, v, q)[Slot(i)] = ring[Slot(Slot(i) + 1)]
    BY <2>1 DEF ShiftedRing
  <2> QED
    BY <2>1, <2>2
<1>2. ASSUME NEW i \in Nat, i < v, i > q - Capacity
      PROVE  ShiftedRing(ring, v, q)[Slot(i)] = ring[Slot(i)]
  <2>1. ASSUME NEW j \in v..(q - 1), Slot(j) = Slot(i)
        PROVE  FALSE
    <3>1. j \in Int /\ j - i < Capacity /\ i - j < Capacity /\ i # j
      BY <1>2, CapacityAssumption
    <3> QED
      BY <2>1, <3>1, SlotUnique
  <2>2. Slot(i) \in 0..(Capacity - 1)
    BY SlotType
  <2> QED
    BY <2>1, <2>2 DEF ShiftedRing
<1> QED
  BY <1>1, <1>2

\* A command is put under a number
Put(ring, q, id) == [ring EXCEPT ![Slot(q)] = id]

LEMMA PutType ==
    ASSUME NEW q \in Nat, NEW D, NEW ring \in [0..(Capacity - 1) -> D], NEW id \in D
    PROVE  Put(ring, q, id) \in [0..(Capacity - 1) -> D]
BY SlotType DEF Put

LEMMA PutAt ==
    ASSUME NEW q \in Nat, NEW ring \in Rings, NEW id
    PROVE  /\ Put(ring, q, id)[Slot(q)] = id
           /\ \A i \in Nat : i < q /\ i > q - Capacity =>
                 Put(ring, q, id)[Slot(i)] = ring[Slot(i)]
<1>1. Slot(q) \in 0..(Capacity - 1)
  BY SlotType
<1>2. ASSUME NEW i \in Nat, i < q, i > q - Capacity
      PROVE  Slot(i) \in 0..(Capacity - 1) /\ Slot(i) # Slot(q)
  <2>1. i - q < Capacity /\ q - i < Capacity /\ i # q
    BY <1>2, CapacityAssumption
  <2> QED
    BY <2>1, SlotType, SlotUnique
<1> QED
  BY <1>1, <1>2 DEF Put, Rings

LEMMA HistoryGrows ==
    ASSUME NEW added \in History, NEW e \in [command : Command, type : {0, 1}]
    PROVE  /\ Append(added, e) \in History
           /\ Len(added) \in Nat /\ Len(Append(added, e)) = Len(added) + 1
           /\ Append(added, e)[Len(added) + 1] = e
           /\ \A id \in 1..Len(added) : Append(added, e)[id] = added[id]
BY AppendProperties, LenProperties DEF History

\* A command under a new number
LEMMA StoredGrown ==
    ASSUME NEW s \in Nat, NEW q \in Nat, s <= q, q + 1 - s <= Capacity,
           NEW ring \in Rings, NEW added \in History,
           \A i \in (s + 1)..q : ring[Slot(i)] \in 1..Len(added),
           \A i, j \in (s + 1)..q : i < j => ring[Slot(i)] < ring[Slot(j)],
           NEW e \in [command : Command, type : {0, 1}]
    PROVE  Grown(s, q, ring, added, q + 1,
                 Put(ring, q + 1, Len(added) + 1), Append(added, e))
<1> DEFINE n == Len(added)
           added2 == Append(added, e)
           q2 == q + 1
           ring2 == Put(ring, q2, n + 1)
<1>1. /\ added2 \in History /\ n \in Nat /\ Len(added2) = n + 1
      /\ \A id \in 1..n : added2[id] = added[id]
  BY HistoryGrows
<1>2. /\ ring2 \in Rings /\ ring2[Slot(q2)] = n + 1
      /\ \A i \in Nat : i < q2 /\ i > q2 - Capacity => ring2[Slot(i)] = ring[Slot(i)]
  <2>1. n + 1 \in Nat /\ q2 \in Nat
    BY <1>1
  <2> HIDE DEF n, q2, added2
  <2>2. ring2 \in Rings
    BY <2>1, PutType DEF Rings
  <2> QED
    BY <2>1, <2>2, PutAt
<1>3. \A i \in (s + 1)..q : ring2[Slot(i)] = ring[Slot(i)] /\ ring[Slot(i)] \in 1..n
  <2> SUFFICES ASSUME NEW i \in (s + 1)..q
               PROVE  ring2[Slot(i)] = ring[Slot(i)]
    OBVIOUS
  <2>1. i \in Nat /\ i < q2 /\ i > q2 - Capacity
    BY CapacityAssumption
  <2> HIDE DEF ring2, q2
  <2> QED
    BY <1>2, <2>1
<1>4. \A i \in (s + 1)..q2 : i \in (s + 1)..q \/ i = q2
  OBVIOUS
<1>5. q2 \in Nat /\ s <= q2 /\ q < q2 /\ q2 \in (s + 1)..q2
      /\ \A i \in (s + 1)..q : i \in (s + 1)..q2
  OBVIOUS
<1>6. (n + 1)..Len(added2) = {n + 1}
  BY <1>1
<1> HIDE DEF n, q2, added2, ring2
<1>7. \A i, j \in (s + 1)..q2 : i < j => ring2[Slot(i)] < ring2[Slot(j)]
  <2> SUFFICES ASSUME NEW i \in (s + 1)..q2, NEW j \in (s + 1)..q2, i < j
               PROVE  ring2[Slot(i)] < ring2[Slot(j)]
    OBVIOUS
  <2>1. i \in (s + 1)..q
    BY <1>4, <1>5
  <2>2. CASE j = q2
    <3>1. ring2[Slot(i)] \in 1..n
      BY <1>3, <2>1
    <3> QED
      BY <1>1, <1>2, <2>2, <3>1
  <2>3. CASE j \in (s + 1)..q
    BY <1>3, <2>1, <2>3
  <2> QED
    BY <1>4, <2>2, <2>3
<1>8. ASSUME NEW i \in Nat, i <= s, i > q2 - Capacity
      PROVE  ring2[Slot(i)] = ring[Slot(i)]
  BY <1>2, <1>5, <1>8
<1>9. \A i \in (s + 1)..q2 :
          \/ ring2[Slot(i)] \in (n + 1)..Len(added2)
          \/ \E j \in (s + 1)..q : ring2[Slot(i)] = ring[Slot(j)]
  BY <1>2, <1>3, <1>4, <1>6
<1>10. \A id \in (n + 1)..Len(added2) : \E i \in (s + 1)..q2 : ring2[Slot(i)] = id
  BY <1>2, <1>5, <1>6
<1>11. \A j \in (s + 1)..q : \E i \in (s + 1)..q2 : ring2[Slot(i)] = ring[Slot(j)]
  BY <1>3, <1>5
<1>12. Grown(s, q, ring, added, q2, ring2, added2)
  <2>1. n <= Len(added2)
    BY <1>1
  <2> QED
    BY <1>1, <1>2, <1>5, <1>7, <1>8, <1>9, <1>10, <1>11, <2>1 DEF Grown, n
<1> QED
  BY <1>12 DEF n, q2, added2, ring2

\* A command in the place of one that it makes obsolete
LEMMA ReplacedGrown ==
    ASSUME NEW s \in Nat, NEW q \in Nat, s <= q, q - s <= Capacity,
           NEW ring \in Rings, NEW added \in History,
           \A i \in (s + 1)..q : ring[Slot(i)] \in 1..Len(added),
           \A i, j \in (s + 1)..q : i < j => ring[Slot(i)] < ring[Slot(j)],
           NEW e \in [command : Command, type : {0, 1}],
           NEW v \in Nat, s < v, v <= q, Supersedes(e.command, added[ring[Slot(v)]].command)
    PROVE  Grown(s, q, ring, added, q,
                 Put(ShiftedRing(ring, v, q), q, Len(added) + 1),
                 Append(added, e))
<1> DEFINE n == Len(added)
           added2 == Append(added, e)
           mid == ShiftedRing(ring, v, q)
           ring2 == Put(mid, q, n + 1)
<1>1. /\ added2 \in History /\ n \in Nat /\ Len(added2) = n + 1
      /\ added2[n + 1] = e
      /\ \A id \in 1..n : added2[id] = added[id]
  BY HistoryGrows
<1>2. /\ mid \in Rings
      /\ \A i \in Nat : v <= i /\ i < q => mid[Slot(i)] = ring[Slot(i + 1)]
      /\ \A i \in Nat : i < v /\ i > q - Capacity => mid[Slot(i)] = ring[Slot(i)]
  <2>1. ring \in [0..(Capacity - 1) -> Nat]
    BY DEF Rings
  <2>4. q - v < Capacity
    BY CapacityAssumption
  <2>2. ShiftedRing(ring, v, q) \in [0..(Capacity - 1) -> Nat]
    BY <2>1, ShiftedRingType
  <2>3. /\ \A i \in Nat : v <= i /\ i < q =>
                 ShiftedRing(ring, v, q)[Slot(i)] = ring[Slot(i + 1)]
        /\ \A i \in Nat : i < v /\ i > q - Capacity =>
                 ShiftedRing(ring, v, q)[Slot(i)] = ring[Slot(i)]
    BY <2>4, ShiftedRingAt
  <2> QED
    BY <2>2, <2>3 DEF Rings
<1> HIDE DEF mid
<1>3. /\ ring2 \in Rings /\ ring2[Slot(q)] = n + 1
      /\ \A i \in Nat : i < q /\ i > q - Capacity => ring2[Slot(i)] = mid[Slot(i)]
  <2>1. n + 1 \in Nat
    BY <1>1
  <2> HIDE DEF n, added2
  <2>2. ring2 \in Rings
    BY <1>2, <2>1, PutType DEF Rings
  <2> QED
    BY <1>2, <2>1, <2>2, PutAt
<1>4. v \in Nat /\ s < v /\ v <= q /\ q \in (s + 1)..q
  OBVIOUS
<1> HIDE DEF n, added2, ring2
<1>5. \A i \in (s + 1)..q : i < v => ring2[Slot(i)] = ring[Slot(i)]
  <2> SUFFICES ASSUME NEW i \in (s + 1)..q, i < v
               PROVE  ring2[Slot(i)] = ring[Slot(i)]
    OBVIOUS
  <2>1. i \in Nat /\ i < q /\ i > q - Capacity
    BY <1>4, CapacityAssumption
  <2> QED
    BY <1>2, <1>3, <2>1
<1>6. \A i \in (s + 1)..q : v <= i /\ i < q => ring2[Slot(i)] = ring[Slot(i + 1)]
  <2> SUFFICES ASSUME NEW i \in (s + 1)..q, v <= i, i < q
               PROVE  ring2[Slot(i)] = ring[Slot(i + 1)]
    OBVIOUS
  <2>1. i \in Nat /\ i > q - Capacity
    BY CapacityAssumption
  <2> QED
    BY <1>2, <1>3, <2>1
<1>7. \A i \in (s + 1)..q : i < q => \E k \in (s + 1)..q :
          /\ ring2[Slot(i)] = ring[Slot(k)] /\ k = IF i < v THEN i ELSE i + 1
  <2> SUFFICES ASSUME NEW i \in (s + 1)..q, i < q
               PROVE  \E k \in (s + 1)..q :
                         ring2[Slot(i)] = ring[Slot(k)] /\ k = IF i < v THEN i ELSE i + 1
    OBVIOUS
  <2>1. CASE i < v
    BY <1>5, <2>1
  <2>2. CASE ~(i < v)
    <3>1. v <= i /\ i + 1 \in (s + 1)..q
      BY <1>4, <2>2
    <3> QED
      BY <1>6, <2>2, <3>1
  <2> QED
    BY <2>1, <2>2
<1>8. (n + 1)..Len(added2) = {n + 1}
  BY <1>1
<1>9. \A i, j \in (s + 1)..q : i < j => ring2[Slot(i)] < ring2[Slot(j)]
  <2> SUFFICES ASSUME NEW i \in (s + 1)..q, NEW j \in (s + 1)..q, i < j
               PROVE  ring2[Slot(i)] < ring2[Slot(j)]
    OBVIOUS
  <2>1. PICK k \in (s + 1)..q :
           ring2[Slot(i)] = ring[Slot(k)] /\ k = IF i < v THEN i ELSE i + 1
    BY <1>7
  <2>2. CASE j = q
    <3>1. ring2[Slot(i)] \in 1..n
      BY <2>1 DEF n
    <3> QED
      BY <1>1, <1>3, <2>2, <3>1
  <2>3. CASE j < q
    <3>1. PICK l \in (s + 1)..q :
             ring2[Slot(j)] = ring[Slot(l)] /\ l = IF j < v THEN j ELSE j + 1
      BY <1>7, <2>3
    <3>2. k < l
      BY <1>4, <2>1, <3>1
    <3> QED
      BY <2>1, <3>1, <3>2
  <2> QED
    BY <2>2, <2>3
<1>10. ASSUME NEW i \in Nat, i <= s, i > q - Capacity
       PROVE  ring2[Slot(i)] = ring[Slot(i)]
  <2>1. i < v /\ i < q
    BY <1>4, <1>10
  <2> QED
    BY <1>2, <1>3, <1>10, <2>1
<1>11. \A i \in (s + 1)..q :
          \/ ring2[Slot(i)] \in (n + 1)..Len(added2)
          \/ \E j \in (s + 1)..q : ring2[Slot(i)] = ring[Slot(j)]
  <2> SUFFICES ASSUME NEW i \in (s + 1)..q
               PROVE  \/ ring2[Slot(i)] \in (n + 1)..Len(added2)
                      \/ \E j \in (s + 1)..q : ring2[Slot(i)] = ring[Slot(j)]
    OBVIOUS
  <2>1. CASE i = q
    BY <1>3, <1>8, <2>1
  <2>2. CASE i # q
    <3>1. i < q
      BY <2>2
    <3> QED
      BY <1>7, <3>1
  <2> QED
    BY <2>1, <2>2
<1>12. \A id \in (n + 1)..Len(added2) : \E i \in (s + 1)..q : ring2[Slot(i)] = id
  BY <1>3, <1>4, <1>8
<1>13. \A j \in (s + 1)..q :
          Needed(added2, ring[Slot(j)]) =>
              \E i \in (s + 1)..q : ring2[Slot(i)] = ring[Slot(j)]
  <2> SUFFICES ASSUME NEW j \in (s + 1)..q, Needed(added2, ring[Slot(j)])
               PROVE  \E i \in (s + 1)..q : ring2[Slot(i)] = ring[Slot(j)]
    OBVIOUS
  <2>1. CASE j < v
    BY <1>5, <2>1
  <2>2. CASE j = v
    <3> DEFINE id == ring[Slot(v)]
    <3>1. id \in 1..n /\ id \in Int
      BY DEF n
    <3>2. Supersedes(added2[n + 1].command, added2[id].command)
      <4>1. added2[id] = added[id]
        BY <1>1, <3>1
      <4>2. added2[n + 1].command = e.command
        BY <1>1
      <4> QED
        BY <4>1, <4>2
    <3>3. n + 1 \in (id + 1)..Len(added2)
      BY <1>1, <3>1
    <3>4. SupersededIn(added2, id)
      BY <3>2, <3>3 DEF SupersededIn
    <3> QED
      BY <2>2, <3>4 DEF Needed
  <2>3. CASE j > v
    <3> DEFINE i == j - 1
    <3>1. i \in (s + 1)..q /\ v <= i /\ i < q /\ i + 1 = j
      BY <1>4, <2>3
    <3> HIDE DEF i
    <3> QED
      BY <1>6, <3>1
  <2> QED
    BY <1>4, <2>1, <2>2, <2>3
<1>14. Grown(s, q, ring, added, q, ring2, added2)
  <2>1. n <= Len(added2)
    BY <1>1
  <2> QED
    BY <1>1, <1>3, <1>9, <1>10, <1>11, <1>12, <1>13, <2>1 DEF Grown, n
<1> QED
  BY <1>14 DEF n, added2, ring2, mid

\* Two changes, the first of which adds nothing
LEMMA GrownTwice ==
    ASSUME NEW s \in Nat, NEW q \in Nat, NEW ring, NEW added \in History,
           NEW q1, NEW ring1, q1 <= q, Grown(s, q, ring, added, q1, ring1, added),
           NEW q2, NEW ring2, NEW added2,
           Grown(s, q1, ring1, added, q2, ring2, added2),
           \A j \in (s + 1)..q : ring[Slot(j)] \in 1..Len(added)
    PROVE  Grown(s, q, ring, added, q2, ring2, added2)
<1>1. /\ Len(added) \in Nat /\ q1 \in Nat /\ q2 \in Nat
      /\ (Len(added) + 1)..Len(added) = {} /\ added2 \in History
      /\ Len(added2) \in Nat
  BY LenProperties DEF Grown, History
<1>2. \A i \in (s + 1)..q1 : \E j \in (s + 1)..q : ring1[Slot(i)] = ring[Slot(j)]
  BY <1>1 DEF Grown
<1>3. ASSUME NEW i \in (s + 1)..q2
      PROVE  \/ ring2[Slot(i)] \in (Len(added) + 1)..Len(added2)
             \/ \E j \in (s + 1)..q : ring2[Slot(i)] = ring[Slot(j)]
  <2>1. \/ ring2[Slot(i)] \in (Len(added) + 1)..Len(added2)
        \/ \E k \in (s + 1)..q1 : ring2[Slot(i)] = ring1[Slot(k)]
    BY DEF Grown
  <2> QED
    BY <1>2, <2>1
<1>4. ASSUME NEW j \in (s + 1)..q, Needed(added2, ring[Slot(j)])
      PROVE  \E i \in (s + 1)..q2 : ring2[Slot(i)] = ring[Slot(j)]
  <2> DEFINE id == ring[Slot(j)]
  <2>1. id \in 1..Len(added) /\ id \in Nat
    OBVIOUS
  <2>2. \A k \in 1..Len(added) : added2[k] = added[k]
    BY DEF Grown
  <2>3. Needed(added, id)
    <3>1. TypeIn(added, id) # 0
      BY <1>4, <2>1, <2>2 DEF Needed, TypeIn
    <3>2. ASSUME SupersededIn(added, id)
          PROVE  FALSE
      <4>1. PICK later \in (id + 1)..Len(added) :
               Supersedes(added[later].command, added[id].command)
        BY <3>2 DEF SupersededIn
      <4>2. later \in (id + 1)..Len(added2) /\ later \in 1..Len(added)
        BY <1>1, <2>1 DEF Grown
      <4>3. added2[later] = added[later] /\ added2[id] = added[id]
        BY <2>1, <2>2, <4>2
      <4>4. SupersededIn(added2, id)
        BY <4>1, <4>2, <4>3 DEF SupersededIn
      <4> QED
        BY <1>4, <4>4 DEF Needed
    <3> QED
      BY <3>1, <3>2 DEF Needed
  <2>4. PICK k \in (s + 1)..q1 : ring1[Slot(k)] = id
    BY <2>3 DEF Grown
  <2> HIDE DEF id
  <2>5. \E i \in (s + 1)..q2 : ring2[Slot(i)] = ring1[Slot(k)]
    BY <1>4, <2>4 DEF Grown, id
  <2> QED
    BY <2>4, <2>5 DEF id
<1>5. ASSUME NEW i \in Nat, i <= s, i > q - Capacity, i > q2 - Capacity
      PROVE  ring2[Slot(i)] = ring[Slot(i)]
  <2>1. i > q1 - Capacity
    BY <1>1, <1>5, CapacityAssumption
  <2>2. ring1[Slot(i)] = ring[Slot(i)]
    BY <1>5, <2>1 DEF Grown
  <2>3. ring2[Slot(i)] = ring1[Slot(i)]
    BY <1>5, <2>1 DEF Grown
  <2> QED
    BY <2>2, <2>3
<1> QED
  BY <1>3, <1>4, <1>5 DEF Grown

-----------------------------------------------------------------------------
(* SV_AddServerCommand in terms of what it does to the ring.               *)

Kept(cl) == {i \in Unsent(cl) : Type(cl, At(cl, i)) # 0}

\* A client_t with another ring and history
With(cl, q, ring, added, d) ==
    [cl EXCEPT !.reliableSequence = q, !.reliableCommands = ring,
               !.added = added, !.delayDropMsg = d]

\* What adding a command leaves alone
SameClient(cl, n) ==
    /\ n.reliableAcknowledge = cl.reliableAcknowledge
    /\ n.reliableSent = cl.reliableSent /\ n.state = cl.state
    /\ n.gamestateSent = cl.gamestateSent /\ n.level = cl.level
    /\ n.gamestates = cl.gamestates /\ n.discarded = cl.discarded
    /\ cl.delayDropMsg => n.delayDropMsg

LEMMA WithFields ==
    ASSUME NEW cl \in Client, NEW q, NEW ring, NEW added, NEW d
    PROVE  /\ With(cl, q, ring, added, d).reliableSequence = q
           /\ With(cl, q, ring, added, d).reliableCommands = ring
           /\ With(cl, q, ring, added, d).added = added
           /\ With(cl, q, ring, added, d).delayDropMsg = d
           /\ With(cl, q, ring, added, d).reliableAcknowledge = cl.reliableAcknowledge
           /\ With(cl, q, ring, added, d).reliableSent = cl.reliableSent
           /\ With(cl, q, ring, added, d).state = cl.state
           /\ With(cl, q, ring, added, d).gamestateSent = cl.gamestateSent
           /\ With(cl, q, ring, added, d).level = cl.level
           /\ With(cl, q, ring, added, d).gamestates = cl.gamestates
           /\ With(cl, q, ring, added, d).discarded = cl.discarded
BY DEF With, Client

LEMMA WithTyped ==
    ASSUME NEW cl \in Client, NEW q \in Nat, NEW added \in History,
           NEW ring \in [0..(Capacity - 1) -> 0..Len(added)], NEW d \in BOOLEAN
    PROVE  ClientTyped(With(cl, q, ring, added, d))
<1>1. ring \in [0..(Capacity - 1) -> Nat]
  BY LenProperties DEF History
<1>2. With(cl, q, ring, added, d) \in Client
  BY <1>1 DEF With, Client, History
<1>3. With(cl, q, ring, added, d).reliableCommands = ring
      /\ With(cl, q, ring, added, d).added = added
  BY WithFields
<1> QED
  BY <1>2, <1>3 DEF ClientTyped

LEMMA WithTwice ==
    ASSUME NEW cl \in Client, NEW q1, NEW ring1, NEW added1, NEW d1,
           NEW q, NEW ring, NEW added, NEW d
    PROVE  With(With(cl, q1, ring1, added1, d1), q, ring, added, d)
           = With(cl, q, ring, added, d)
BY DEF With, Client

LEMMA WithDelayed ==
    ASSUME NEW cl \in Client, NEW q, NEW ring, NEW added, NEW d
    PROVE  [With(cl, q, ring, added, d) EXCEPT !.delayDropMsg = TRUE]
           = With(cl, q, ring, added, TRUE)
BY DEF With, Client

WithItself(cl) ==
    With(cl, cl.reliableSequence, cl.reliableCommands, cl.added, cl.delayDropMsg)

LEMMA WithNothing ==
    ASSUME NEW cl \in Client
    PROVE  cl = WithItself(cl)
BY DEF WithItself, With, Client

LEMMA CompactedWith ==
    ASSUME NEW cl \in Client
    PROVE  Compacted(cl) =
             With(cl, cl.reliableSent + Cardinality(Kept(cl)),
                  CompactedRing(cl.reliableCommands, cl.reliableSent, Kept(cl)),
                  cl.added, cl.delayDropMsg)
<1> DEFINE s == cl.reliableSent
           K == Kept(cl)
           ring2 == CompactedRing(cl.reliableCommands, s, K)
<1>1. Compacted(cl) =
        [cl EXCEPT
           !.reliableCommands =
              [x \in 0..(Capacity - 1) |->
                  IF \E i \in K : Slot(s + Rank(K, i)) = x
                  THEN At(cl, Max({i \in K : Slot(s + Rank(K, i)) = x}))
                  ELSE @[x]],
           !.reliableSequence = s + Cardinality(K)]
  BY DEF Compacted, Kept, Rank
<1>2. ring2 =
        [x \in 0..(Capacity - 1) |->
            IF \E i \in K : Slot(s + Rank(K, i)) = x
            THEN At(cl, Max({i \in K : Slot(s + Rank(K, i)) = x}))
            ELSE cl.reliableCommands[x]]
  BY DEF CompactedRing, At
<1>3. Compacted(cl) = [cl EXCEPT !.reliableCommands = ring2,
                                 !.reliableSequence = s + Cardinality(K)]
  BY <1>1, <1>2
<1> HIDE DEF K, ring2
<1>4. [cl EXCEPT !.reliableCommands = ring2, !.reliableSequence = s + Cardinality(K)]
      = With(cl, s + Cardinality(K), ring2, cl.added, cl.delayDropMsg)
  BY DEF With, Client
<1> QED
  BY <1>3, <1>4 DEF K, ring2

\* What MadeRoom does to the numbers and the ring
RoomMade(s, q, ring, added, c, q2, ring2) ==
    \/ q2 = q + 1 /\ ring2 = ring
    \/ /\ q2 = q
       /\ \E v \in Nat : /\ s < v /\ v <= q
                         /\ Supersedes(c, added[ring[Slot(v)]].command)
                         /\ ring2 = ShiftedRing(ring, v, q)

LEMMA MadeRoomWith ==
    ASSUME NEW cl \in Client, NEW c
    PROVE  \E q2, ring2 :
              /\ MadeRoom(cl, c) = With(cl, q2, ring2, cl.added, cl.delayDropMsg)
              /\ RoomMade(cl.reliableSent, cl.reliableSequence, cl.reliableCommands,
                          cl.added, c, q2, ring2)
<1> DEFINE s == cl.reliableSent
           q == cl.reliableSequence
           ring == cl.reliableCommands
<1>1. CASE Obsolete(cl, c) = {}
  <2>1. MadeRoom(cl, c) = [cl EXCEPT !.reliableSequence = q + 1]
    BY <1>1 DEF MadeRoom
  <2>2. [cl EXCEPT !.reliableSequence = q + 1]
        = With(cl, q + 1, ring, cl.added, cl.delayDropMsg)
    BY DEF With, Client
  <2>3. RoomMade(s, q, ring, cl.added, c, q + 1, ring)
    BY DEF RoomMade
  <2> QED
    BY <2>1, <2>2, <2>3
<1>2. CASE Obsolete(cl, c) # {}
  <2> DEFINE v == Min(Obsolete(cl, c))
             ring2 == ShiftedRing(ring, v, q)
  <2>1. s \in Nat /\ q \in Nat
    BY DEF Client
  <2>2. Obsolete(cl, c) \in SUBSET Nat
    BY <2>1 DEF Obsolete, Unsent
  <2>3. v \in Obsolete(cl, c)
    BY <1>2, <2>2, MinOfNumbers
  <2>4. /\ v \in Nat /\ s < v /\ v <= q
        /\ Supersedes(c, cl.added[ring[Slot(v)]].command)
    <3> HIDE DEF v, ring2
    <3>1. v \in Unsent(cl) /\ Supersedes(c, cl.added[At(cl, v)].command)
      BY <2>3 DEF Obsolete
    <3> QED
      BY <2>1, <3>1 DEF Unsent, At
  <2>5. MadeRoom(cl, c) = [cl EXCEPT !.reliableCommands = ring2]
    BY <1>2 DEF MadeRoom, ShiftedRing
  <2>6. [cl EXCEPT !.reliableCommands = ring2]
        = With(cl, q, ring2, cl.added, cl.delayDropMsg)
    <3> HIDE DEF ring2
    <3> QED
      BY DEF With, Client
  <2>7. RoomMade(s, q, ring, cl.added, c, q, ring2)
    <3> HIDE DEF v, s, q, ring
    <3> QED
      BY <2>4 DEF RoomMade
  <2> HIDE DEF ring2
  <2> QED
    BY <2>5, <2>6, <2>7
<1> QED
  BY <1>1, <1>2

\* What Compacted does, when it is called
CompactedTo(cl, q1, ring1) ==
    \/ /\ Crowded(cl) /\ q1 = cl.reliableSent + Cardinality(Kept(cl))
       /\ ring1 = CompactedRing(cl.reliableCommands, cl.reliableSent, Kept(cl))
    \/ ~Crowded(cl) /\ q1 = cl.reliableSequence /\ ring1 = cl.reliableCommands

\* The command that is added and what becomes of delayDropMsg
EntryAdded(cl, c, type, q2, e, d) ==
    /\ ~(Crowded(cl) /\ type = 0)
    /\ \/ /\ q2 - cl.reliableAcknowledge = Capacity + 1
          /\ e = [command |-> Disconnect, type |-> 1] /\ d = TRUE
       \/ /\ q2 - cl.reliableAcknowledge # Capacity + 1
          /\ e = [command |-> c, type |-> type] /\ d = cl.delayDropMsg

\* The command under the last number, if that is not one of type 0 that finds
\* the ring crowded
AddedTo(cl, c, type, n) ==
    \E q1, ring1 :
      /\ CompactedTo(cl, q1, ring1)
      /\ \/ /\ Crowded(cl) /\ type = 0
            /\ n = With(cl, q1, ring1, cl.added, cl.delayDropMsg)
         \/ \E q2, ring2, e, d, sup :
              /\ RoomMade(cl.reliableSent, q1, ring1, cl.added, sup, q2, ring2)
              /\ EntryAdded(cl, c, type, q2, e, d)
              /\ sup = c
              /\ n = With(cl, q2, Put(ring2, q2, Len(cl.added) + 1),
                          Append(cl.added, e), d)

LEMMA StoredWith ==
    ASSUME NEW cl \in Client, NEW q, NEW ring, NEW d, NEW c, NEW type
    PROVE  Stored(With(cl, q, ring, cl.added, d), c, type) =
             With(cl, q, Put(ring, q, Len(cl.added) + 1),
                  Append(cl.added, [command |-> c, type |-> type]), d)
<1> DEFINE n == With(cl, q, ring, cl.added, d)
           ring2 == Put(ring, q, Len(cl.added) + 1)
           added2 == Append(cl.added, [command |-> c, type |-> type])
<1>1. /\ n.reliableSequence = q /\ n.added = cl.added /\ n.reliableCommands = ring
  BY WithFields
<1>2. Stored(n, c, type) = [n EXCEPT !.added = added2, !.reliableCommands = ring2]
  <2> HIDE DEF n
  <2> QED
    BY <1>1 DEF Stored, Put
<1> HIDE DEF ring2, added2
<1>3. [n EXCEPT !.added = added2, !.reliableCommands = ring2]
      = With(cl, q, ring2, added2, d)
  BY DEF With, Client
<1> QED
  BY <1>2, <1>3 DEF n, ring2, added2

LEMMA KeptSubset ==
    ASSUME NEW cl
    PROVE  Kept(cl) \in SUBSET ((cl.reliableSent + 1)..cl.reliableSequence)
BY DEF Kept, Unsent

LEMMA CompactedToType ==
    ASSUME NEW cl, ClientTyped(cl), NEW q1, NEW ring1, CompactedTo(cl, q1, ring1)
    PROVE  /\ q1 \in Nat /\ ring1 \in [0..(Capacity - 1) -> 0..Len(cl.added)]
           /\ cl.reliableSent <= cl.reliableSequence =>
                 cl.reliableSent <= q1 /\ q1 <= cl.reliableSequence
<1> DEFINE s == cl.reliableSent
           q == cl.reliableSequence
           ring == cl.reliableCommands
           K == Kept(cl)
<1>1. /\ s \in Nat /\ q \in Nat /\ ring \in [0..(Capacity - 1) -> 0..Len(cl.added)]
      /\ K \in SUBSET ((s + 1)..q)
  BY KeptSubset DEF ClientTyped, Client
<1> HIDE DEF s, q, ring, K
<1>2. Cardinality(K) \in Nat /\ (s <= q => s + Cardinality(K) <= q)
  BY <1>1, RankOnto
<1>3. CompactedRing(ring, s, K) \in [0..(Capacity - 1) -> 0..Len(cl.added)]
  BY <1>1, CompactedRingType
<1>4. \/ q1 = s + Cardinality(K) /\ ring1 = CompactedRing(ring, s, K)
      \/ q1 = q /\ ring1 = ring
  BY DEF CompactedTo, s, q, ring, K
<1>5. q1 \in Nat /\ (s <= q => s <= q1 /\ q1 <= q)
  BY <1>1, <1>2, <1>4
<1>6. ring1 \in [0..(Capacity - 1) -> 0..Len(cl.added)]
  BY <1>1, <1>3, <1>4
<1> QED
  BY <1>5, <1>6 DEF s, q

LEMMA RoomMadeNumbers ==
    ASSUME NEW s \in Nat, NEW q \in Nat, NEW ring, NEW added, NEW c, NEW q2, NEW ring2,
           RoomMade(s, q, ring, added, c, q2, ring2)
    PROVE  q2 \in Nat /\ (q2 = q \/ q2 = q + 1) /\ (s <= q => s < q2)
BY DEF RoomMade

LEMMA RoomMadeType ==
    ASSUME NEW s \in Nat, NEW q \in Nat, NEW D,
           NEW ring \in [0..(Capacity - 1) -> D], NEW added, NEW c, NEW q2, NEW ring2,
           RoomMade(s, q, ring, added, c, q2, ring2)
    PROVE  ring2 \in [0..(Capacity - 1) -> D]
<1>1. ASSUME NEW v \in Nat
      PROVE  ShiftedRing(ring, v, q) \in [0..(Capacity - 1) -> D]
  BY ShiftedRingType
<1> QED
  BY <1>1 DEF RoomMade

LEMMA AddedForm ==
    ASSUME NEW cl, ClientTyped(cl), NEW c, NEW type
    PROVE  AddedTo(cl, c, type, Added(cl, c, type))
<1> DEFINE cm == IF Crowded(cl) THEN Compacted(cl) ELSE cl
           room == MadeRoom(cm, c)
           n == Added(cl, c, type)
<1>1. \E q1, ring1 : /\ CompactedTo(cl, q1, ring1)
                     /\ cm = With(cl, q1, ring1, cl.added, cl.delayDropMsg)
  <2>1. ASSUME Crowded(cl)
        PROVE  \E q1, ring1 : /\ CompactedTo(cl, q1, ring1)
                              /\ cm = With(cl, q1, ring1, cl.added, cl.delayDropMsg)
    <3>1. cm = Compacted(cl)
      BY <2>1
    <3> HIDE DEF cm
    <3> QED
      BY <2>1, <3>1, CompactedWith DEF CompactedTo, ClientTyped
  <2>2. ASSUME ~Crowded(cl)
        PROVE  \E q1, ring1 : /\ CompactedTo(cl, q1, ring1)
                              /\ cm = With(cl, q1, ring1, cl.added, cl.delayDropMsg)
    <3>1. cm = cl
      BY <2>2
    <3> HIDE DEF cm
    <3> QED
      BY <2>2, <3>1, WithNothing DEF CompactedTo, WithItself, ClientTyped
  <2> HIDE DEF cm
  <2> QED
    BY <2>1, <2>2
<1>2. PICK q1, ring1 : /\ CompactedTo(cl, q1, ring1)
                       /\ cm = With(cl, q1, ring1, cl.added, cl.delayDropMsg)
  <2> HIDE DEF cm
  <2> QED
    BY <1>1
<1>3. n = IF Crowded(cl) /\ type = 0
          THEN cm
          ELSE IF Pending(room) = Capacity + 1
          THEN Stored([room EXCEPT !.delayDropMsg = TRUE], Disconnect, 1)
          ELSE Stored(room, c, type)
  BY DEF Added
<1> HIDE DEF n, cm, room
<1>4. CASE Crowded(cl) /\ type = 0
  <2>1. n = With(cl, q1, ring1, cl.added, cl.delayDropMsg)
    BY <1>2, <1>3, <1>4
  <2> QED
    BY <1>2, <1>4, <2>1 DEF AddedTo, n
<1>5. CASE ~(Crowded(cl) /\ type = 0)
  <2>1. cl \in Client /\ cl.delayDropMsg \in BOOLEAN /\ cl.added \in History
    BY DEF ClientTyped, Client, History
  <2>2. q1 \in Nat /\ ring1 \in [0..(Capacity - 1) -> 0..Len(cl.added)]
    BY <1>2, CompactedToType
  <2>3. cm \in Client
    <3>1. ClientTyped(With(cl, q1, ring1, cl.added, cl.delayDropMsg))
      BY <2>1, <2>2, WithTyped
    <3> QED
      BY <1>2, <3>1 DEF ClientTyped
  <2>4. /\ cm.reliableSequence = q1 /\ cm.reliableCommands = ring1
        /\ cm.added = cl.added /\ cm.delayDropMsg = cl.delayDropMsg
        /\ cm.reliableSent = cl.reliableSent
    BY <1>2, <2>1, WithFields
  <2>5. PICK q2, ring2 :
           /\ room = With(cm, q2, ring2, cm.added, cm.delayDropMsg)
           /\ RoomMade(cm.reliableSent, cm.reliableSequence, cm.reliableCommands,
                       cm.added, c, q2, ring2)
    BY <2>3, MadeRoomWith DEF room
  <2>6. RoomMade(cl.reliableSent, q1, ring1, cl.added, c, q2, ring2)
    BY <2>4, <2>5
  <2>7. room = With(cl, q2, ring2, cl.added, cl.delayDropMsg)
    <3>1. room = With(cm, q2, ring2, cl.added, cl.delayDropMsg)
      BY <2>4, <2>5
    <3>2. cm = With(cl, q1, ring1, cl.added, cl.delayDropMsg)
      BY <1>2
    <3> QED
      BY <2>1, <3>1, <3>2, WithTwice
  <2>8. Pending(room) = q2 - cl.reliableAcknowledge
    BY <2>1, <2>7, WithFields DEF Pending
  <2>9. CASE q2 - cl.reliableAcknowledge = Capacity + 1
    <3> DEFINE e == [command |-> Disconnect, type |-> 1]
    <3>1. n = Stored([room EXCEPT !.delayDropMsg = TRUE], Disconnect, 1)
      BY <1>3, <1>5, <2>8, <2>9
    <3>2. [room EXCEPT !.delayDropMsg = TRUE] = With(cl, q2, ring2, cl.added, TRUE)
      BY <2>1, <2>7, WithDelayed
    <3>3. n = With(cl, q2, Put(ring2, q2, Len(cl.added) + 1), Append(cl.added, e), TRUE)
      <4>1. PICK d : d = TRUE
        OBVIOUS
      <4>2. Stored(With(cl, q2, ring2, cl.added, d), Disconnect, 1) =
              With(cl, q2, Put(ring2, q2, Len(cl.added) + 1), Append(cl.added, e), d)
        BY <2>1, StoredWith
      <4> QED
        BY <3>1, <3>2, <4>1, <4>2
    <3>4. EntryAdded(cl, c, type, q2, e, TRUE)
      BY <1>5, <2>9 DEF EntryAdded
    <3> HIDE DEF e
    <3> QED
      BY <1>2, <2>6, <3>3, <3>4 DEF AddedTo, n
  <2>10. CASE q2 - cl.reliableAcknowledge # Capacity + 1
    <3> DEFINE e == [command |-> c, type |-> type]
    <3>1. n = Stored(room, c, type)
      BY <1>3, <1>5, <2>8, <2>10
    <3>2. n = With(cl, q2, Put(ring2, q2, Len(cl.added) + 1), Append(cl.added, e),
                   cl.delayDropMsg)
      BY <2>1, <2>7, <3>1, StoredWith
    <3>3. EntryAdded(cl, c, type, q2, e, cl.delayDropMsg)
      BY <1>5, <2>10 DEF EntryAdded
    <3> HIDE DEF e
    <3> QED
      BY <1>2, <2>6, <3>2, <3>3 DEF AddedTo, n
  <2> QED
    BY <2>9, <2>10
<1> QED
  BY <1>4, <1>5
LEMMA EntryType ==
    ASSUME NEW cl, ClientTyped(cl), NEW c \in Command, NEW type \in {0, 1},
           NEW q2, NEW e, NEW d, EntryAdded(cl, c, type, q2, e, d)
    PROVE  /\ e \in [command : Command, type : {0, 1}] /\ d \in BOOLEAN
           /\ cl.delayDropMsg => d
           /\ Crowded(cl) => e.type # 0
           /\ ~d => /\ q2 - cl.reliableAcknowledge # Capacity + 1
                    /\ e.command = c
<1>1. Disconnect \in Command
  BY CommandAssumption
<1>2. cl.delayDropMsg \in BOOLEAN
  BY DEF ClientTyped, Client
<1>3. CASE /\ q2 - cl.reliableAcknowledge = Capacity + 1
           /\ e = [command |-> Disconnect, type |-> 1] /\ d = TRUE
  BY <1>1, <1>3
<1>4. CASE /\ q2 - cl.reliableAcknowledge # Capacity + 1
           /\ e = [command |-> c, type |-> type] /\ d = cl.delayDropMsg
  <2>1. Crowded(cl) => type # 0
    BY DEF EntryAdded
  <2>2. e.type = type /\ e.command = c /\ e \in [command : Command, type : {0, 1}]
    BY <1>4
  <2> QED
    BY <1>2, <1>4, <2>1, <2>2
<1> QED
  BY <1>3, <1>4 DEF EntryAdded

LEMMA AddedTyped ==
    ASSUME NEW cl, ClientTyped(cl), cl.reliableSent <= cl.reliableSequence,
           NEW c \in Command, NEW type \in {0, 1}
    PROVE  /\ ClientTyped(Added(cl, c, type)) /\ SameClient(cl, Added(cl, c, type))
           /\ Added(cl, c, type).reliableSent <= Added(cl, c, type).reliableSequence
<1> DEFINE n == Added(cl, c, type)
           m == Len(cl.added)
<1>1. /\ cl \in Client /\ cl.added \in History /\ cl.delayDropMsg \in BOOLEAN
      /\ cl.reliableSent \in Nat /\ cl.reliableSequence \in Nat /\ m \in Nat
      /\ cl.reliableCommands \in [0..(Capacity - 1) -> 0..m]
  BY LenProperties DEF ClientTyped, Client, History
<1>2. AddedTo(cl, c, type, n)
  BY AddedForm
<1> HIDE DEF n, m
<1>3. PICK q1, ring1 :
        /\ CompactedTo(cl, q1, ring1)
        /\ \/ /\ Crowded(cl) /\ type = 0
              /\ n = With(cl, q1, ring1, cl.added, cl.delayDropMsg)
           \/ \E q2, ring2, e, d, sup :
                /\ RoomMade(cl.reliableSent, q1, ring1, cl.added, sup, q2, ring2)
                /\ EntryAdded(cl, c, type, q2, e, d)
                /\ sup = c
                /\ n = With(cl, q2, Put(ring2, q2, Len(cl.added) + 1),
                            Append(cl.added, e), d)
  BY <1>2 DEF AddedTo
<1>4. /\ q1 \in Nat /\ ring1 \in [0..(Capacity - 1) -> 0..m]
      /\ cl.reliableSent <= q1
  BY <1>3, CompactedToType DEF m
<1>5. ASSUME n = With(cl, q1, ring1, cl.added, cl.delayDropMsg)
      PROVE  /\ ClientTyped(n) /\ SameClient(cl, n) /\ n.reliableSent <= n.reliableSequence
  <2>1. ClientTyped(n)
    BY <1>1, <1>4, <1>5, WithTyped DEF m
  <2> QED
    BY <1>1, <1>4, <1>5, <2>1, WithFields DEF SameClient
<1>6. ASSUME NEW q2, NEW ring2, NEW e, NEW d,
             RoomMade(cl.reliableSent, q1, ring1, cl.added, c, q2, ring2),
             EntryAdded(cl, c, type, q2, e, d),
             n = With(cl, q2, Put(ring2, q2, m + 1), Append(cl.added, e), d)
      PROVE  /\ ClientTyped(n) /\ SameClient(cl, n) /\ n.reliableSent <= n.reliableSequence
  <2>1. /\ q2 \in Nat /\ cl.reliableSent <= q2
        /\ ring2 \in [0..(Capacity - 1) -> 0..m]
    <3>1. q2 \in Nat /\ cl.reliableSent <= q2
      BY <1>1, <1>4, <1>6, RoomMadeNumbers
    <3> DEFINE s == cl.reliableSent
               D == 0..m
               added == cl.added
    <3>2. /\ s \in Nat /\ ring1 \in [0..(Capacity - 1) -> D] /\ q1 \in Nat
          /\ RoomMade(s, q1, ring1, added, c, q2, ring2)
      BY <1>1, <1>4, <1>6
    <3> HIDE DEF s, D, added
    <3>3. ring2 \in [0..(Capacity - 1) -> D]
      BY <3>2, RoomMadeType
    <3> QED
      BY <3>1, <3>3 DEF D
  <2>2. /\ e \in [command : Command, type : {0, 1}] /\ d \in BOOLEAN
        /\ cl.delayDropMsg => d
    BY <1>6, EntryType
  <2>3. Append(cl.added, e) \in History /\ Len(Append(cl.added, e)) = m + 1
    BY <1>1, <2>2, HistoryGrows DEF m
  <2>4. ring2 \in [0..(Capacity - 1) -> 0..(m + 1)] /\ m + 1 \in 0..(m + 1)
    BY <1>1, <2>1
  <2>5. Put(ring2, q2, m + 1) \in [0..(Capacity - 1) -> 0..(m + 1)]
    BY <2>1, <2>4, PutType
  <2>6. ClientTyped(n)
    BY <1>1, <1>6, <2>1, <2>2, <2>3, <2>5, WithTyped
  <2> QED
    BY <1>1, <1>6, <2>1, <2>2, <2>6, WithFields DEF SameClient
<1>7. /\ ClientTyped(n) /\ SameClient(cl, n) /\ n.reliableSent <= n.reliableSequence
  BY <1>3, <1>5, <1>6 DEF m
<1> QED
  BY <1>7 DEF n

\* No more than the ring holds is pending; when the ring was full it did not
\* shrink, and when it is, all that is not sent must not be lost
Room(a, s, q, q2, ring2, added2) ==
    /\ q2 - a <= Capacity
    /\ q - a = Capacity => q2 >= q
    /\ q2 - a = Capacity => \A i \in (s + 1)..q2 : TypeIn(added2, ring2[Slot(i)]) # 0

\* What was sent is not touched
LEMMA AddedKeeps ==
    ASSUME NEW cl, ClientTyped(cl), cl.reliableAcknowledge <= cl.reliableSent,
           cl.reliableSent <= cl.reliableSequence, Pending(cl) <= Capacity,
           NEW c \in Command, NEW type \in {0, 1},
           NEW i \in Nat, i <= cl.reliableSent,
           i > cl.reliableSequence - Capacity,
           i > Added(cl, c, type).reliableSequence - Capacity
    PROVE  Added(cl, c, type).reliableCommands[Slot(i)] = cl.reliableCommands[Slot(i)]
<1> DEFINE n == Added(cl, c, type)
           a == cl.reliableAcknowledge
           s == cl.reliableSent
           q == cl.reliableSequence
           ring == cl.reliableCommands
           K == Kept(cl)
<1>1. /\ cl \in Client /\ cl.added \in History
      /\ a \in Nat /\ s \in Nat /\ q \in Nat /\ a <= s /\ s <= q /\ i <= s
      /\ q - a <= Capacity /\ i > q - Capacity /\ i > n.reliableSequence - Capacity
      /\ ring \in Rings /\ K \in SUBSET ((s + 1)..q)
  BY KeptSubset DEF ClientTyped, Client, History, Pending, Rings
<1>2. AddedTo(cl, c, type, n)
  BY AddedForm
<1> HIDE DEF n
<1>3. PICK q1, ring1 :
        /\ CompactedTo(cl, q1, ring1)
        /\ \/ /\ Crowded(cl) /\ type = 0
              /\ n = With(cl, q1, ring1, cl.added, cl.delayDropMsg)
           \/ \E q2, ring2, e, d, sup :
                /\ RoomMade(cl.reliableSent, q1, ring1, cl.added, sup, q2, ring2)
                /\ EntryAdded(cl, c, type, q2, e, d)
                /\ sup = c
                /\ n = With(cl, q2, Put(ring2, q2, Len(cl.added) + 1),
                            Append(cl.added, e), d)
  BY <1>2 DEF AddedTo
<1>4. /\ q1 \in Nat /\ ring1 \in [0..(Capacity - 1) -> 0..Len(cl.added)]
      /\ s <= q1 /\ q1 <= q
  BY <1>1, <1>3, CompactedToType
<1>5. ring1 \in Rings
  BY <1>1, <1>4, LenProperties DEF Rings, History
<1>6. \/ q1 = s + Cardinality(K) /\ ring1 = CompactedRing(ring, s, K)
      \/ q1 = q /\ ring1 = ring
  BY <1>3 DEF CompactedTo
<1> DEFINE added == cl.added
<1>11. q1 \in Nat
  BY <1>4
<1> HIDE DEF a, s, q, ring, K, added
<1>7. ring1[Slot(i)] = ring[Slot(i)]
  <2>1. q - s <= Capacity /\ i > q1 - Capacity
    BY <1>1, <1>4, CapacityAssumption
  <2>2. i > s + Cardinality(K) - Capacity => CompactedRing(ring, s, K)[Slot(i)] = ring[Slot(i)]
    BY <1>1, <2>1, CompactedRingAt
  <2>3. CASE q1 = s + Cardinality(K) /\ ring1 = CompactedRing(ring, s, K)
    <3>1. i > s + Cardinality(K) - Capacity
      <4> DEFINE k == s + Cardinality(K)
      <4>1. q1 = k
        BY <2>3
      <4> HIDE DEF k
      <4>2. i > q1 - Capacity
        BY <2>1
      <4>3. i > k - Capacity
        BY <4>1, <4>2
      <4>4. Cardinality(K) \in Nat /\ s \in Nat /\ Capacity \in Nat
        BY <1>1, RankOnto, CapacityAssumption
      <4> QED
        BY <4>3, <4>4 DEF k
    <3> QED
      BY <2>2, <2>3, <3>1
  <2> QED
    BY <1>6, <2>3
<1>8. CASE n = With(cl, q1, ring1, cl.added, cl.delayDropMsg)
  <2>1. n.reliableCommands = ring1
    BY <1>1, <1>8, WithFields
  <2> QED
    BY <1>7, <2>1 DEF n, ring
<1>9. ASSUME NEW q2, NEW ring2, NEW e, NEW d,
             RoomMade(s, q1, ring1, cl.added, c, q2, ring2),
             n = With(cl, q2, Put(ring2, q2, Len(cl.added) + 1), Append(cl.added, e), d)
      PROVE  n.reliableCommands[Slot(i)] = ring[Slot(i)]
  <2>1. q2 \in Nat /\ s < q2 /\ (q2 = q1 \/ q2 = q1 + 1)
    BY <1>1, <1>4, <1>9, RoomMadeNumbers
  <2>6. ring2 \in Rings
    <3>1. ring1 \in [0..(Capacity - 1) -> Nat] /\ s \in Nat /\ q1 \in Nat
          /\ RoomMade(s, q1, ring1, added, c, q2, ring2)
      BY <1>1, <1>4, <1>5, <1>9 DEF Rings, added
    <3> QED
      BY <3>1, RoomMadeType DEF Rings
  <2>2. /\ n.reliableCommands = Put(ring2, q2, Len(cl.added) + 1)
        /\ n.reliableSequence = q2
    BY <1>1, <1>9, WithFields
  <2>3. i < q2 /\ i > q2 - Capacity
    BY <1>1, <2>1, <2>2
  <2>4. n.reliableCommands[Slot(i)] = ring2[Slot(i)]
    <3>1. Put(ring2, q2, Len(cl.added) + 1)[Slot(i)] = ring2[Slot(i)]
      BY <2>1, <2>3, <2>6, PutAt
    <3> QED
      BY <2>2, <3>1
  <2>5. ring2[Slot(i)] = ring1[Slot(i)]
    <3>1. CASE ring2 = ring1
      BY <3>1
    <3>2. ASSUME NEW v \in Nat, s < v, v <= q1, ring2 = ShiftedRing(ring1, v, q1)
          PROVE  ring2[Slot(i)] = ring1[Slot(i)]
      <4>1. q1 - v < Capacity /\ i < v /\ i > q1 - Capacity
        BY <1>1, <1>4, <3>2, CapacityAssumption
      <4>2. q1 \in Nat /\ v \in Nat /\ v <= q1 /\ q1 - v < Capacity
        BY <1>11, <3>2, <4>1
      <4>3. \A j \in Nat : j < v /\ j > q1 - Capacity =>
                ShiftedRing(ring1, v, q1)[Slot(j)] = ring1[Slot(j)]
        BY ONLY <4>2, ShiftedRingAt
      <4>4. ShiftedRing(ring1, v, q1)[Slot(i)] = ring1[Slot(i)]
        BY <4>1, <4>3
      <4> QED
        BY <3>2, <4>4
    <3> QED
      BY <1>9, <3>1, <3>2 DEF RoomMade
  <2> QED
    BY <1>7, <2>4, <2>5
<1>10. n.reliableCommands[Slot(i)] = ring[Slot(i)]
  BY <1>3, <1>8, <1>9 DEF s, n, ring
<1> QED
  BY <1>10 DEF n, ring

LEMMA GrownNot ==
    ASSUME NEW s \in Nat, NEW q \in Nat, s <= q, NEW ring \in Rings, NEW added \in History,
           \A i, j \in (s + 1)..q : i < j => ring[Slot(i)] < ring[Slot(j)]
    PROVE  Grown(s, q, ring, added, q, ring, added)
<1>1. Len(added) \in Nat /\ (Len(added) + 1)..Len(added) = {}
  BY LenProperties DEF History
<1> QED
  BY <1>1 DEF Grown

\* What Compacted leaves
LEMMA CompactedToGrown ==
    ASSUME NEW cl, ClientTyped(cl), NEW q1, NEW ring1, CompactedTo(cl, q1, ring1),
           RingOK(cl.reliableAcknowledge, cl.reliableSent, cl.reliableSequence,
                  cl.reliableCommands, cl.added)
    PROVE  /\ Grown(cl.reliableSent, cl.reliableSequence, cl.reliableCommands, cl.added,
                    q1, ring1, cl.added)
           /\ q1 <= cl.reliableSequence
           /\ Pending(cl) = Capacity => q1 = cl.reliableSequence
           /\ Crowded(cl) => \A i \in (cl.reliableSent + 1)..q1 :
                                TypeIn(cl.added, ring1[Slot(i)]) # 0
           /\ ~Crowded(cl) => q1 = cl.reliableSequence
<1> DEFINE a == cl.reliableAcknowledge
           s == cl.reliableSent
           q == cl.reliableSequence
           ring == cl.reliableCommands
           added == cl.added
           K == Kept(cl)
<1>1. /\ a \in Nat /\ s \in Nat /\ q \in Nat /\ ring \in Rings /\ added \in History
      /\ K \in SUBSET ((s + 1)..q)
  BY KeptSubset DEF ClientTyped, Client, History, Rings
<1>2. /\ a <= s /\ s <= q /\ q - a <= Capacity
      /\ \A i, j \in (s + 1)..q : i < j => ring[Slot(i)] < ring[Slot(j)]
      /\ q - a = Capacity => \A i \in (s + 1)..q : TypeIn(added, ring[Slot(i)]) # 0
  <2>1. a <= s /\ s <= q /\ q - a <= Capacity
    BY DEF RingOK
  <2>2. \A i \in (s + 1)..q : i \in (a + 1)..q
    BY <1>1, <2>1
  <2> QED
    BY <2>1, <2>2 DEF RingOK
<1>3. \A i \in (s + 1)..q : i \in K <=> TypeIn(added, ring[Slot(i)]) # 0
  BY DEF Kept, Unsent, At, Type, TypeIn
<1>4. CASE /\ Crowded(cl) /\ q1 = s + Cardinality(K)
           /\ ring1 = CompactedRing(ring, s, K)
  <2> HIDE DEF a, s, q, ring, added, K
  <2>1. q - s <= Capacity
    BY <1>1, <1>2, CapacityAssumption
  <2>2. /\ s + Cardinality(K) <= q
        /\ Grown(s, q, ring, added, s + Cardinality(K), CompactedRing(ring, s, K), added)
        /\ K = (s + 1)..q => s + Cardinality(K) = q
        /\ \A i \in (s + 1)..(s + Cardinality(K)) :
              TypeIn(added, CompactedRing(ring, s, K)[Slot(i)]) # 0
    <3>1. \A i, j \in (s + 1)..q : i < j => ring[Slot(i)] < ring[Slot(j)]
      BY <1>2
    <3>2. s \in Nat /\ q \in Nat /\ s <= q /\ ring \in Rings /\ added \in History
      BY <1>1, <1>2
    <3>3. K \in SUBSET ((s + 1)..q)
      BY <1>1
    <3>4. s + Cardinality(K) <= q
      BY <1>3, <2>1, <3>1, <3>2, <3>3, CompactedGrown
    <3>5. Grown(s, q, ring, added, s + Cardinality(K), CompactedRing(ring, s, K), added)
      BY <1>3, <2>1, <3>1, <3>2, <3>3, CompactedGrown
    <3>6. K = (s + 1)..q => s + Cardinality(K) = q
      BY <1>3, <2>1, <3>1, <3>2, <3>3, CompactedGrown
    <3>7. NoneLost(s, s + Cardinality(K), CompactedRing(ring, s, K), added)
      BY <1>3, <2>1, <3>1, <3>2, <3>3, CompactedGrown
    <3> QED
      BY <3>4, <3>5, <3>6, <3>7 DEF NoneLost
  <2>3. q - a = Capacity => K = (s + 1)..q
    BY <1>1, <1>2, <1>3
  <2>4. Pending(cl) = q - a
    BY DEF Pending, q, a
  <2> QED
    BY <1>4, <2>2, <2>3, <2>4 DEF s, q, ring, added
<1>5. CASE ~Crowded(cl) /\ q1 = q /\ ring1 = ring
  <2>1. Grown(s, q, ring, added, q, ring, added)
    <3> HIDE DEF a, s, q, ring, added, K
    <3> QED
      BY <1>1, <1>2, GrownNot
  <2> QED
    BY <1>1, <1>5, <2>1
<1> QED
  BY <1>4, <1>5 DEF CompactedTo

LEMMA HalfRing ==
    ASSUME Capacity \div 2 >= Capacity
    PROVE  FALSE
BY CapacityAssumption

LEMMA AddedGrown ==
    ASSUME NEW cl, ClientTyped(cl), NEW c \in Command, NEW type \in {0, 1},
           RingOK(cl.reliableAcknowledge, cl.reliableSent, cl.reliableSequence,
                  cl.reliableCommands, cl.added),
           ~Added(cl, c, type).delayDropMsg
    PROVE  /\ Grown(cl.reliableSent, cl.reliableSequence, cl.reliableCommands, cl.added,
                    Added(cl, c, type).reliableSequence,
                    Added(cl, c, type).reliableCommands, Added(cl, c, type).added)
           /\ Room(cl.reliableAcknowledge, cl.reliableSent, cl.reliableSequence,
                   Added(cl, c, type).reliableSequence,
                   Added(cl, c, type).reliableCommands, Added(cl, c, type).added)
<1> DEFINE n == Added(cl, c, type)
           a == cl.reliableAcknowledge
           s == cl.reliableSent
           q == cl.reliableSequence
           ring == cl.reliableCommands
           added == cl.added
<1>1. /\ cl \in Client /\ a \in Nat /\ s \in Nat /\ q \in Nat
      /\ ring \in Rings /\ added \in History /\ Len(added) \in Nat
  BY LenProperties DEF ClientTyped, Client, History, Rings
<1>2. /\ a <= s /\ s <= q /\ q - a <= Capacity
      /\ \A i \in (s + 1)..q : ring[Slot(i)] \in 1..Len(added)
  <2>1. a <= s /\ s <= q /\ q - a <= Capacity
    BY DEF RingOK
  <2>2. \A i \in (s + 1)..q : i \in (a + 1)..q
    BY <1>1, <2>1
  <2> QED
    BY <2>1, <2>2 DEF RingOK
<1>3. AddedTo(cl, c, type, n)
  BY AddedForm
<1>4. ~n.delayDropMsg
  OBVIOUS
<1> HIDE DEF n
<1>5. PICK q1, ring1 :
        /\ CompactedTo(cl, q1, ring1)
        /\ \/ /\ Crowded(cl) /\ type = 0
              /\ n = With(cl, q1, ring1, cl.added, cl.delayDropMsg)
           \/ \E q2, ring2, e, d, sup :
                /\ RoomMade(cl.reliableSent, q1, ring1, cl.added, sup, q2, ring2)
                /\ EntryAdded(cl, c, type, q2, e, d)
                /\ sup = c
                /\ n = With(cl, q2, Put(ring2, q2, Len(cl.added) + 1),
                            Append(cl.added, e), d)
  BY <1>3 DEF AddedTo
<1>6. q1 \in Nat /\ s <= q1 /\ ring1 \in Rings
  <2>1. q1 \in Nat /\ s <= q1 /\ ring1 \in [0..(Capacity - 1) -> 0..Len(added)]
    BY <1>2, <1>5, CompactedToType
  <2> QED
    BY <1>1, <2>1 DEF Rings
<1>7. /\ Grown(s, q, ring, added, q1, ring1, added) /\ q1 <= q
      /\ Pending(cl) = Capacity => q1 = q
      /\ Crowded(cl) => \A i \in (s + 1)..q1 : TypeIn(added, ring1[Slot(i)]) # 0
      /\ ~Crowded(cl) => q1 = q
  BY <1>5, CompactedToGrown
<1>8. /\ Pending(cl) = q - a
      /\ ~Crowded(cl) => q - a < Capacity \div 2
  <2>1. Pending(cl) = q - a /\ q - a \in Int /\ Capacity \div 2 \in Int
    BY <1>1, CapacityAssumption DEF Pending
  <2> QED
    BY <2>1 DEF Crowded
<1> HIDE DEF a, s, q, ring, added
<1>9. /\ \A i \in (s + 1)..q1 : ring1[Slot(i)] \in 1..Len(added)
      /\ \A i, j \in (s + 1)..q1 : i < j => ring1[Slot(i)] < ring1[Slot(j)]
  <2>1. (Len(added) + 1)..Len(added) = {}
    BY <1>1
  <2> QED
    BY <1>2, <1>7, <2>1 DEF Grown
<1>10. CASE Crowded(cl) /\ n = With(cl, q1, ring1, cl.added, cl.delayDropMsg)
  <2>1. n.reliableSequence = q1 /\ n.reliableCommands = ring1 /\ n.added = added
    BY <1>1, <1>10, WithFields DEF added
  <2>2. Room(a, s, q, q1, ring1, added)
    BY <1>1, <1>2, <1>6, <1>7, <1>8, <1>10, CapacityAssumption DEF Room
  <2>3. /\ Grown(s, q, ring, added, n.reliableSequence, n.reliableCommands, n.added)
        /\ Room(a, s, q, n.reliableSequence, n.reliableCommands, n.added)
    BY <1>7, <2>1, <2>2
  <2> QED
    BY <2>3 DEF n, a, s, q, ring, added
<1>11. ASSUME NEW q2, NEW ring2, NEW e, NEW d,
              RoomMade(s, q1, ring1, added, c, q2, ring2),
              EntryAdded(cl, c, type, q2, e, d),
              n = With(cl, q2, Put(ring2, q2, Len(added) + 1), Append(added, e), d)
       PROVE  /\ Grown(s, q, ring, added, n.reliableSequence, n.reliableCommands, n.added)
              /\ Room(a, s, q, n.reliableSequence, n.reliableCommands, n.added)
  <2> DEFINE ring3 == Put(ring2, q2, Len(added) + 1)
             added3 == Append(added, e)
  <2>12. n = With(cl, q2, ring3, added3, d)
    BY <1>11
  <2>1. /\ n.reliableSequence = q2 /\ n.reliableCommands = ring3 /\ n.added = added3
        /\ n.delayDropMsg = d
    <3> HIDE DEF ring3, added3
    <3> QED
      BY <1>1, <2>12, WithFields
  <2>2. /\ e \in [command : Command, type : {0, 1}] /\ d \in BOOLEAN
        /\ Crowded(cl) => e.type # 0
        /\ ~d => q2 - cl.reliableAcknowledge # Capacity + 1 /\ e.command = c
    BY <1>11, EntryType
  <2>3. e.command = c /\ q2 - a # Capacity + 1
    BY <1>4, <2>1, <2>2 DEF a
  <2>4. q2 \in Nat /\ (q2 = q1 \/ q2 = q1 + 1) /\ s < q2
    BY <1>1, <1>6, <1>11, RoomMadeNumbers
  <2>5. q2 - a <= Capacity
    BY <1>1, <1>2, <1>6, <1>7, <2>3, <2>4, CapacityAssumption
  <2>6. /\ added3 \in History /\ Len(added3) = Len(added) + 1
        /\ added3[Len(added) + 1] = e
        /\ \A id \in 1..Len(added) : added3[id] = added[id]
    BY <1>1, <2>2, HistoryGrows
  <2>7. Grown(s, q1, ring1, added, q2, ring3, added3)
    <3>1. CASE q2 = q1 + 1 /\ ring2 = ring1
      <4>1. q1 + 1 - s <= Capacity
        BY <1>1, <1>2, <1>6, <2>5, <3>1, CapacityAssumption
      <4>2. Grown(s, q1, ring1, added, q1 + 1, Put(ring1, q1 + 1, Len(added) + 1),
                  Append(added, e))
        BY <1>1, <1>6, <1>9, <2>2, <4>1, StoredGrown
      <4> QED
        BY <3>1, <4>2
    <3>2. ASSUME q2 = q1, NEW v \in Nat, s < v, v <= q1,
                 Supersedes(c, added[ring1[Slot(v)]].command),
                 ring2 = ShiftedRing(ring1, v, q1)
          PROVE  Grown(s, q1, ring1, added, q2, ring3, added3)
      <4>1. q1 - s <= Capacity
        BY <1>1, <1>2, <1>6, <1>7, CapacityAssumption
      <4>2. Supersedes(e.command, added[ring1[Slot(v)]].command)
        BY <2>3, <3>2
      <4>3. Grown(s, q1, ring1, added, q1,
                  Put(ShiftedRing(ring1, v, q1), q1, Len(added) + 1), Append(added, e))
        BY <1>1, <1>6, <1>9, <2>2, <3>2, <4>1, <4>2, ReplacedGrown
      <4> QED
        BY <3>2, <4>3
    <3> QED
      BY <1>11, <3>1, <3>2 DEF RoomMade
  <2> HIDE DEF ring3, added3
  <2>8. Grown(s, q, ring, added, q2, ring3, added3)
    BY <1>1, <1>2, <1>7, <2>7, GrownTwice
  <2>9. q - a = Capacity => q2 >= q
    BY <1>1, <1>6, <1>7, <1>8, <2>4
  <2>10. ASSUME q2 - a = Capacity, NEW i \in (s + 1)..q2
         PROVE  TypeIn(added3, ring3[Slot(i)]) # 0
    <3>1. Crowded(cl)
      <4>1. ASSUME ~Crowded(cl)
            PROVE  FALSE
        <5>1. q - a < Capacity \div 2 /\ q1 = q
          BY <1>7, <1>8, <4>1
        <5>2. Capacity <= Capacity \div 2
          BY <1>1, <1>6, <2>4, <2>10, <5>1, CapacityAssumption
        <5> QED
          BY <5>2, HalfRing, CapacityAssumption
      <4> QED
        BY <4>1
    <3>2. CASE ring3[Slot(i)] \in (Len(added) + 1)..Len(added3)
      <4>1. ring3[Slot(i)] = Len(added) + 1 /\ ring3[Slot(i)] # 0
        BY <1>1, <2>6, <3>2
      <4>2. added3[ring3[Slot(i)]].type # 0
        BY <2>2, <2>6, <3>1, <4>1
      <4> QED
        BY <4>1, <4>2 DEF TypeIn
    <3>3. ASSUME NEW j \in (s + 1)..q1, ring3[Slot(i)] = ring1[Slot(j)]
          PROVE  TypeIn(added3, ring3[Slot(i)]) # 0
      <4>1. TypeIn(added, ring1[Slot(j)]) # 0 /\ ring1[Slot(j)] \in 1..Len(added)
        BY <1>7, <1>9, <3>1
      <4>2. added3[ring1[Slot(j)]] = added[ring1[Slot(j)]]
        BY <2>6, <4>1
      <4> QED
        BY <3>3, <4>1, <4>2 DEF TypeIn
    <3>4. \/ ring3[Slot(i)] \in (Len(added) + 1)..Len(added3)
          \/ \E j \in (s + 1)..q1 : ring3[Slot(i)] = ring1[Slot(j)]
      BY <2>7 DEF Grown
    <3> QED
      BY <3>2, <3>3, <3>4
  <2>11. Room(a, s, q, q2, ring3, added3)
    BY <2>5, <2>9, <2>10 DEF Room
  <2> QED
    BY <2>1, <2>8, <2>11
<1>12. CASE \E q2, ring2, e, d, sup :
                /\ RoomMade(cl.reliableSent, q1, ring1, cl.added, sup, q2, ring2)
                /\ EntryAdded(cl, c, type, q2, e, d)
                /\ sup = c
                /\ n = With(cl, q2, Put(ring2, q2, Len(cl.added) + 1),
                            Append(cl.added, e), d)
  <2>1. PICK q2, ring2, e, d :
                /\ RoomMade(s, q1, ring1, added, c, q2, ring2)
                /\ EntryAdded(cl, c, type, q2, e, d)
                /\ n = With(cl, q2, Put(ring2, q2, Len(added) + 1),
                            Append(added, e), d)
    BY <1>12 DEF s, added
  <2>2. /\ Grown(s, q, ring, added, n.reliableSequence, n.reliableCommands, n.added)
        /\ Room(a, s, q, n.reliableSequence, n.reliableCommands, n.added)
    BY <1>11, <2>1
  <2> QED
    BY <2>2 DEF n, a, s, q, ring, added
<1> QED
  BY <1>5, <1>10, <1>12

-----------------------------------------------------------------------------
(* What every step does to the invariant: first the adding of a command.   *)

LEMMA NeededBefore ==
    ASSUME NEW s \in Nat, NEW q \in Nat, NEW ring, NEW added \in History,
           NEW q2, NEW ring2, NEW added2, Grown(s, q, ring, added, q2, ring2, added2),
           NEW id \in 1..Len(added), Needed(added2, id)
    PROVE  Needed(added, id)
<1>1. /\ Len(added) \in Nat /\ Len(added2) \in Nat /\ Len(added) <= Len(added2)
      /\ \A k \in 1..Len(added) : added2[k] = added[k]
  BY LenProperties DEF Grown, History
<1>2. TypeIn(added, id) # 0
  BY <1>1 DEF Needed, TypeIn
<1>3. ASSUME SupersededIn(added, id)
      PROVE  FALSE
  <2>1. PICK later \in (id + 1)..Len(added) :
           Supersedes(added[later].command, added[id].command)
    BY <1>3 DEF SupersededIn
  <2>2. later \in (id + 1)..Len(added2) /\ later \in 1..Len(added)
    BY <1>1
  <2>3. added2[later] = added[later] /\ added2[id] = added[id]
    BY <1>1, <2>2
  <2>4. SupersededIn(added2, id)
    BY <2>1, <2>2, <2>3 DEF SupersededIn
  <2> QED
    BY <2>4 DEF Needed
<1> QED
  BY <1>2, <1>3 DEF Needed

LEMMA GrownOrderly ==
    ASSUME NEW a \in Nat, NEW s \in Nat, NEW q \in Nat, NEW ring \in Rings,
           NEW added \in History, NEW r \in Remote, NEW tc \in Seq(MessageSet),
           NEW ts \in Seq(AckSet), Orderly(a, s, q, ring, added, r, tc, ts),
           NEW q2, NEW ring2, NEW added2, Grown(s, q, ring, added, q2, ring2, added2),
           Room(a, s, q, q2, ring2, added2)
    PROVE  Orderly(a, s, q2, ring2, added2, r, tc, ts)
<1> DEFINE scs == r.serverCommandSequence
<1>1. /\ RingOK(a, s, q, ring, added) /\ RemoteOK(a, s, q, ring, added, r)
      /\ Complete(q, ring, added, r) /\ SeenOK(added, r)
  BY DEF Orderly
<1>2. /\ q2 \in Nat /\ s <= q2 /\ q2 - a <= Capacity
      /\ a <= s /\ s <= q /\ q - a <= Capacity
      /\ (q - a = Capacity => q2 >= q)
      /\ Len(added) \in Nat /\ Len(added2) \in Nat /\ Len(added) <= Len(added2)
      /\ \A k \in 1..Len(added) : added2[k] = added[k]
      /\ scs \in Nat /\ a <= scs /\ scs <= s
  BY <1>1, LenProperties DEF Grown, Room, RingOK, RemoteOK, Remote, History
<1>3. ASSUME NEW i \in Nat, a < i, i <= s
      PROVE  ring2[Slot(i)] = ring[Slot(i)] /\ i \in (a + 1)..q
  <2>1. i > q - Capacity /\ i > q2 - Capacity
    BY <1>2, <1>3, CapacityAssumption
  <2> QED
    BY <1>2, <1>3, <2>1 DEF Grown
<1>4. ASSUME NEW i \in Nat, a <= i, i <= s, i > q2 - Capacity
      PROVE  ring2[Slot(i)] = ring[Slot(i)] /\ i > q - Capacity
  <2>1. i > q - Capacity
    BY <1>2, <1>4, CapacityAssumption
  <2> QED
    BY <1>2, <1>4, <2>1 DEF Grown
<1>5. ASSUME NEW i \in (s + 1)..q2
      PROVE  \/ ring2[Slot(i)] \in (Len(added) + 1)..Len(added2)
             \/ \E j \in (s + 1)..q : /\ ring2[Slot(i)] = ring[Slot(j)]
                                      /\ j \in (a + 1)..q
  <2>1. \/ ring2[Slot(i)] \in (Len(added) + 1)..Len(added2)
        \/ \E j \in (s + 1)..q : ring2[Slot(i)] = ring[Slot(j)]
    BY DEF Grown
  <2>2. \A j \in (s + 1)..q : j \in (a + 1)..q
    BY <1>2
  <2> QED
    BY <2>1, <2>2
<1>6. \A i \in (a + 1)..q : ring[Slot(i)] \in 1..Len(added)
  BY <1>1 DEF RingOK
<1>7. \A i, j \in (a + 1)..q : i < j => ring[Slot(i)] < ring[Slot(j)]
  BY <1>1 DEF RingOK
<1>8. \A i, j \in (s + 1)..q2 : i < j => ring2[Slot(i)] < ring2[Slot(j)]
  BY DEF Grown
<1> HIDE DEF scs
<1>9. ASSUME NEW i \in (a + 1)..q2
      PROVE  ring2[Slot(i)] \in 1..Len(added2)
  <2>1. CASE i <= s
    <3>1. i \in Nat /\ a < i
      BY <1>2
    <3>2. ring[Slot(i)] \in 1..Len(added)
      BY <1>3, <1>6, <2>1, <3>1
    <3> QED
      BY <1>2, <1>3, <2>1, <3>1, <3>2
  <2>2. CASE i > s
    <3>1. i \in (s + 1)..q2
      BY <1>2, <2>2
    <3>2. CASE ring2[Slot(i)] \in (Len(added) + 1)..Len(added2)
      BY <1>2, <3>2
    <3>3. ASSUME NEW j \in (a + 1)..q, ring2[Slot(i)] = ring[Slot(j)]
          PROVE  ring2[Slot(i)] \in 1..Len(added2)
      <4>1. ring[Slot(j)] \in 1..Len(added)
        BY <1>6
      <4> QED
        BY <1>2, <3>3, <4>1
    <3> QED
      BY <1>5, <3>1, <3>2, <3>3
  <2> QED
    BY <1>2, <2>1, <2>2
<1>10. ASSUME NEW i \in (a + 1)..q2, NEW j \in (a + 1)..q2, i < j
       PROVE  ring2[Slot(i)] < ring2[Slot(j)]
  <2>1. i \in Nat /\ j \in Nat /\ a < i /\ a < j
    BY <1>2
  <2>2. CASE j <= s
    <3>1. i <= s
      BY <1>2, <1>10, <2>1, <2>2
    <3>2. /\ ring2[Slot(i)] = ring[Slot(i)] /\ i \in (a + 1)..q
          /\ ring2[Slot(j)] = ring[Slot(j)] /\ j \in (a + 1)..q
      BY <1>3, <2>1, <2>2, <3>1
    <3> QED
      BY <1>7, <1>10, <3>2
  <2>3. CASE j > s /\ i <= s
    <3>1. j \in (s + 1)..q2
      BY <1>2, <2>3
    <3>2. ring2[Slot(i)] = ring[Slot(i)] /\ i \in (a + 1)..q
      BY <1>3, <2>1, <2>3
    <3>3. ring[Slot(i)] \in 1..Len(added)
      BY <1>6, <3>2
    <3>4. CASE ring2[Slot(j)] \in (Len(added) + 1)..Len(added2)
      BY <1>2, <3>2, <3>3, <3>4
    <3>5. ASSUME NEW k \in (s + 1)..q, k \in (a + 1)..q, ring2[Slot(j)] = ring[Slot(k)]
          PROVE  ring2[Slot(i)] < ring2[Slot(j)]
      <4>1. i < k
        BY <1>2, <2>3
      <4> QED
        BY <1>7, <3>2, <3>5, <4>1
    <3> QED
      BY <1>5, <3>1, <3>4, <3>5
  <2>4. CASE i > s
    <3>1. i \in (s + 1)..q2 /\ j \in (s + 1)..q2
      BY <1>2, <1>10, <2>4
    <3> QED
      BY <1>8, <1>10, <3>1
  <2> QED
    BY <1>2, <2>1, <2>2, <2>3, <2>4
<1>11. RingOK(a, s, q2, ring2, added2)
  BY <1>2, <1>9, <1>10 DEF RingOK, Room
<1>12. RemoteOK(a, s, q2, ring2, added2, r)
  <2>1. ASSUME NEW k \in 1..Len(r.executed)
        PROVE  r.executed[k] \in 1..Len(added2) /\ r.executed[k] \in 1..Len(added)
    <3>1. r.executed[k] \in 1..Len(added)
      BY <1>1 DEF RemoteOK
    <3> QED
      BY <1>2, <3>1
  <2>2. ASSUME NEW k \in 1..Len(r.executed), NEW i \in (scs + 1)..q2
        PROVE  r.executed[k] < ring2[Slot(i)]
    <3>1. \A j \in (scs + 1)..q : r.executed[k] < ring[Slot(j)]
      BY <1>1 DEF RemoteOK, scs
    <3>2. CASE i <= s
      <4>1. i \in Nat /\ a < i /\ i \in (scs + 1)..q
        BY <1>2, <3>2
      <4>2. ring2[Slot(i)] = ring[Slot(i)]
        BY <1>3, <3>2, <4>1
      <4> QED
        BY <3>1, <4>1, <4>2
    <3>3. CASE i > s
      <4>1. i \in (s + 1)..q2
        BY <1>2, <3>3
      <4>2. CASE ring2[Slot(i)] \in (Len(added) + 1)..Len(added2)
        <5>1. r.executed[k] \in 1..Len(added)
          BY <2>1
        <5> DEFINE x == r.executed[k]
                   y == ring2[Slot(i)]
                   n == Len(added)
        <5>2. x \in 1..n /\ y \in (n + 1)..Len(added2) /\ n \in Nat
          BY <1>2, <4>2, <5>1
        <5> HIDE DEF x, y, n
        <5>3. x < y
          BY <5>2
        <5> QED
          BY <5>3 DEF x, y
      <4>3. ASSUME NEW j \in (s + 1)..q, ring2[Slot(i)] = ring[Slot(j)]
            PROVE  r.executed[k] < ring2[Slot(i)]
        <5>1. j \in (scs + 1)..q
          BY <1>2
        <5> QED
          BY <3>1, <4>3, <5>1
      <4> QED
        BY <1>5, <4>1, <4>2, <4>3
    <3> QED
      BY <1>2, <3>2, <3>3
  <2>3. ASSUME scs > q2 - Capacity
        PROVE  LastOf(r.executed) = ring2[Slot(scs)]
    <3>1. ring2[Slot(scs)] = ring[Slot(scs)] /\ scs > q - Capacity
      BY <1>2, <1>4, <2>3
    <3>2. LastOf(r.executed) = ring[Slot(scs)]
      BY <1>1, <3>1 DEF RemoteOK, scs
    <3> QED
      BY <3>1, <3>2
  <2>4. \A k, l \in 1..Len(r.executed) : k < l => r.executed[k] < r.executed[l]
    BY <1>1 DEF RemoteOK
  <2> QED
    BY <1>2, <2>1, <2>2, <2>3, <2>4 DEF RemoteOK, scs
<1>13. ASSUME NEW i \in (scs + 1)..q, Needed(added2, ring[Slot(i)])
       PROVE  \E k \in (scs + 1)..q2 : ring2[Slot(k)] = ring[Slot(i)]
  <2>1. CASE i <= s
    <3>1. i \in Nat /\ a < i /\ i \in (scs + 1)..q2
      BY <1>2, <2>1
    <3> QED
      BY <1>3, <2>1, <3>1
  <2>2. CASE i > s
    <3>1. i \in (s + 1)..q
      BY <1>2, <2>2
    <3>2. PICK k \in (s + 1)..q2 : ring2[Slot(k)] = ring[Slot(i)]
      BY <1>13, <3>1 DEF Grown
    <3>3. k \in (scs + 1)..q2
      BY <1>2
    <3> QED
      BY <3>2, <3>3
  <2>3. i \in Int /\ s \in Int
    BY <1>2
  <2> QED
    BY <2>1, <2>2, <2>3
<1>14. Complete(q2, ring2, added2, r)
  <2> SUFFICES ASSUME NEW id \in 1..Len(added2), Needed(added2, id), ~ExecutedBy(r, id)
               PROVE  \E i \in (scs + 1)..q2 : ring2[Slot(i)] = id
    BY DEF Complete, scs
  <2>1. CASE id \in 1..Len(added)
    <3>1. Needed(added, id)
      BY <2>1, NeededBefore
    <3>2. PICK i \in (scs + 1)..q : ring[Slot(i)] = id
      BY <1>1, <2>1, <3>1 DEF Complete, scs
    <3> QED
      BY <1>13, <3>2
  <2>2. CASE id \in (Len(added) + 1)..Len(added2)
    <3>1. PICK i \in (s + 1)..q2 : ring2[Slot(i)] = id
      BY <2>2 DEF Grown
    <3>2. i \in (scs + 1)..q2
      BY <1>2
    <3> QED
      BY <3>1, <3>2
  <2> QED
    BY <1>2, <2>1, <2>2
<1>15. SeenOK(added2, r)
  <2>1. r.seen <= Len(added) /\ r.seen \in Nat
    BY <1>1 DEF SeenOK, Remote
  <2>2. ASSUME NEW id \in 1..r.seen, Needed(added2, id)
        PROVE  ExecutedBy(r, id)
    <3>1. id \in 1..Len(added)
      BY <1>2, <2>1
    <3>2. Needed(added, id)
      BY <2>2, <3>1, NeededBefore
    <3> QED
      BY <1>1, <3>2 DEF SeenOK
  <2>3. r.seen <= Len(added2)
    BY <1>2, <2>1
  <2> QED
    BY <2>2, <2>3 DEF SeenOK
<1>16. ASSUME NEW k \in 1..Len(tc)
       PROVE  MessageOK(tc[k], a, s, ring2, added2, r)
  <2> DEFINE m == tc[k]
  <2>1. /\ m \in MessageSet /\ MessageOK(m, a, s, ring, added, r)
        /\ m.first \in Nat /\ m.given \in Nat /\ Len(m.ids) \in Nat
    <3>1. m \in MessageSet
      BY ElementOfSeq
    <3>2. MessageOK(m, a, s, ring, added, r)
      BY DEF Orderly
    <3>3. m.first \in Nat /\ m.given \in Nat /\ m.ids \in Seq(Nat)
      BY <3>1 DEF MessageSet
    <3> HIDE DEF m
    <3> QED
      BY <3>1, <3>2, <3>3, LenProperties
  <2> HIDE DEF m
  <2>5. m.first - 1 <= a /\ m.first + Len(m.ids) - 1 <= s
    BY <2>1 DEF MessageOK
  <2>2. ASSUME NEW l \in 1..Len(m.ids), m.first + l - 1 > scs
        PROVE  m.ids[l] = ring2[Slot(m.first + l - 1)]
    <3> DEFINE i == m.first + l - 1
    <3>1. i \in Nat /\ a < i /\ i <= s
      <4> DEFINE f == m.first
                 n == Len(m.ids)
      <4>1. /\ f \in Nat /\ n \in Nat /\ l \in 1..n /\ f + l - 1 > scs
            /\ f - 1 <= a /\ f + n - 1 <= s
        BY <2>1, <2>2, <2>5
      <4> HIDE DEF f, n
      <4>2. f + l - 1 \in Nat /\ a < f + l - 1 /\ f + l - 1 <= s
        BY <1>2, <4>1
      <4> QED
        BY <4>2 DEF f
    <3>2. m.ids[l] = ring[Slot(m.first + l - 1)]
      BY <2>1, <2>2 DEF MessageOK, scs
    <3>3. m.ids[l] = ring[Slot(i)]
      BY <3>2
    <3> HIDE DEF i
    <3>4. m.ids[l] = ring2[Slot(i)]
      BY <1>3, <3>1, <3>3
    <3> QED
      BY <3>4 DEF i
  <2>3. m.given <= Len(added) /\ m.given <= Len(added2)
    BY <1>2, <2>1 DEF MessageOK
  <2>4. ASSUME NEW id \in 1..m.given, Needed(added2, id)
        PROVE  \/ ExecutedBy(r, id)
               \/ \E l \in 1..Len(m.ids) : m.first + l - 1 > scs /\ m.ids[l] = id
    <3>1. id \in 1..Len(added)
      BY <1>2, <2>1, <2>3
    <3>2. Needed(added, id)
      BY <2>4, <3>1, NeededBefore
    <3> QED
      BY <2>1, <3>2 DEF MessageOK, scs
  <2>6. MessageOK(m, a, s, ring2, added2, r)
    BY <2>2, <2>3, <2>4, <2>5 DEF MessageOK, scs
  <2> QED
    BY <2>6 DEF m
<1>17. ASSUME NEW k \in 1..Len(ts)
       PROVE  AckOK(ts[k], a, q2, ring2, r)
  <2> DEFINE p == ts[k]
  <2>1. p \in AckSet /\ AckOK(p, a, q, ring, r)
    BY ElementOfSeq DEF Orderly
  <2> HIDE DEF p
  <2>2. p.acknowledge \in Nat /\ a <= p.acknowledge /\ p.acknowledge <= scs
    BY <2>1 DEF AckSet, AckOK, scs
  <2>3. ASSUME p.acknowledge > q2 - Capacity
        PROVE  p.key = ring2[Slot(p.acknowledge)]
    <3>1. p.acknowledge <= s
      BY <1>2, <2>2
    <3>2. /\ ring2[Slot(p.acknowledge)] = ring[Slot(p.acknowledge)]
          /\ p.acknowledge > q - Capacity
      BY <1>4, <2>2, <2>3, <3>1
    <3> QED
      BY <2>1, <3>2 DEF AckOK
  <2>4. AckOK(p, a, q2, ring2, r)
    BY <2>2, <2>3 DEF AckOK, scs
  <2> QED
    BY <2>4 DEF p
<1>18. \A k, l \in 1..Len(ts) : k < l => ts[k].acknowledge <= ts[l].acknowledge
  BY DEF Orderly
<1> QED
  BY <1>11, <1>12, <1>14, <1>15, <1>16, <1>17, <1>18 DEF Orderly

\* A message repeats what is not acknowledged, with or without a snapshot
MessageOf(m, a, last, ring) ==
    /\ m.first = a + 1 /\ Len(m.ids) = last - a
    /\ \A k \in 1..(last - a) : m.ids[k] = ring[Slot(a + k)]

LEMMA SentOrderly ==
    ASSUME NEW a \in Nat, NEW s \in Nat, NEW q \in Nat, NEW ring \in Rings,
           NEW added \in History, NEW r \in Remote, NEW tc \in Seq(MessageSet),
           NEW ts \in Seq(AckSet), Orderly(a, s, q, ring, added, r, tc, ts),
           NEW m \in MessageSet, NEW last \in Nat, a <= last, last <= q,
           MessageOf(m, a, last, ring),
           m.given = 0 \/ (last = q /\ m.given = Len(added))
    PROVE  Orderly(a, q, q, ring, added, r, Append(tc, m), ts)
<1> DEFINE scs == r.serverCommandSequence
<1>1. /\ RingOK(a, s, q, ring, added) /\ RemoteOK(a, s, q, ring, added, r)
      /\ Complete(q, ring, added, r) /\ SeenOK(added, r)
  BY DEF Orderly
<1>2. /\ a <= s /\ s <= q /\ q - a <= Capacity /\ Len(added) \in Nat
      /\ scs \in Nat /\ a <= scs /\ scs <= s /\ scs <= q
  BY <1>1, LenProperties DEF RingOK, RemoteOK, Remote, History
<1>3. RingOK(a, q, q, ring, added)
  BY <1>1, <1>2 DEF RingOK
<1>4. RemoteOK(a, q, q, ring, added, r)
  BY <1>1, <1>2 DEF RemoteOK, scs
<1>5. ASSUME NEW k \in 1..Len(tc)
      PROVE  MessageOK(tc[k], a, q, ring, added, r)
  <2>1. MessageOK(tc[k], a, s, ring, added, r)
    BY DEF Orderly
  <2>2. tc[k] \in MessageSet
    BY ElementOfSeq
  <2>3. tc[k].first \in Nat /\ Len(tc[k].ids) \in Nat
    BY <2>2, LenProperties DEF MessageSet
  <2>4. tc[k].first + Len(tc[k].ids) - 1 <= q
    BY <1>2, <2>1, <2>3 DEF MessageOK
  <2> QED
    BY <2>1, <2>4 DEF MessageOK
<1>6. MessageOK(m, a, q, ring, added, r)
  <2>1. /\ m.first = a + 1 /\ Len(m.ids) = last - a
        /\ \A k \in 1..(last - a) : m.ids[k] = ring[Slot(a + k)]
    BY DEF MessageOf
  <2>2. m.first - 1 <= a /\ m.first + Len(m.ids) - 1 <= q
    BY <2>1
  <2>3. \A k \in 1..Len(m.ids) : m.ids[k] = ring[Slot(m.first + k - 1)]
    <3> SUFFICES ASSUME NEW k \in 1..(last - a)
                 PROVE  m.ids[k] = ring[Slot(m.first + k - 1)]
      BY <2>1
    <3>1. m.first + k - 1 = a + k
      BY <2>1
    <3> QED
      BY <2>1, <3>1
  <2>4. m.given <= Len(added)
    BY <1>2
  <2>5. ASSUME NEW id \in 1..m.given, Needed(added, id), ~ExecutedBy(r, id)
        PROVE  \E k \in 1..Len(m.ids) : m.first + k - 1 > scs /\ m.ids[k] = id
    <3>1. last = q /\ id \in 1..Len(added)
      BY <1>2
    <3>2. PICK i \in (scs + 1)..q : ring[Slot(i)] = id
      BY <1>1, <2>5, <3>1 DEF Complete, scs
    <3> DEFINE k == i - a
    <3>3. k \in 1..(last - a) /\ a + k = i /\ m.first + k - 1 > scs
      BY <1>2, <2>1, <3>1
    <3>4. m.ids[k] = id
      BY <2>1, <3>2, <3>3
    <3> HIDE DEF k
    <3> QED
      BY <2>1, <3>3, <3>4
  <2> QED
    BY <2>2, <2>3, <2>4, <2>5 DEF MessageOK, scs
<1>7. ASSUME NEW k \in 1..Len(Append(tc, m))
      PROVE  MessageOK(Append(tc, m)[k], a, q, ring, added, r)
  <2>1. k \in 1..Len(tc) \/ k = Len(tc) + 1
    BY AppendProperties, LenProperties
  <2>2. CASE k \in 1..Len(tc)
    <3>1. Append(tc, m)[k] = tc[k]
      BY <2>2, AppendProperties
    <3> QED
      BY <1>5, <2>2, <3>1
  <2>3. CASE k = Len(tc) + 1
    <3>1. Append(tc, m)[k] = m
      BY <2>3, AppendProperties
    <3> QED
      BY <1>6, <3>1
  <2> QED
    BY <2>1, <2>2, <2>3
<1>8. /\ \A k \in 1..Len(ts) : AckOK(ts[k], a, q, ring, r)
      /\ \A k, l \in 1..Len(ts) : k < l => ts[k].acknowledge <= ts[l].acknowledge
  BY DEF Orderly
<1> QED
  BY <1>1, <1>3, <1>4, <1>7, <1>8 DEF Orderly

LEMMA TailTyped ==
    ASSUME NEW S, NEW t \in Seq(S), t # << >>
    PROVE  /\ Tail(t) \in Seq(S) /\ 1 \in 1..Len(t) /\ Head(t) = t[1] /\ t[1] \in S
           /\ Head(t) \in S
           /\ \A k \in 1..Len(Tail(t)) : k + 1 \in 1..Len(t) /\ Tail(t)[k] = t[k + 1]
<1>1. /\ Tail(t) \in Seq(S) /\ Len(Tail(t)) = Len(t) - 1 /\ Head(t) \in S
      /\ \A k \in 1..Len(Tail(t)) : Tail(t)[k] = t[k + 1]
  BY HeadTailProperties
<1>2. Len(t) \in Nat /\ Len(t) # 0
  BY EmptySeq, LenProperties
<1>3. 1 \in 1..Len(t)
  BY <1>2
<1>4. t[1] \in S
  BY <1>3, ElementOfSeq
<1>5. Head(t) = t[1]
  BY <1>3
<1> QED
  BY <1>1, <1>2, <1>3, <1>4, <1>5

LEMMA ReceivedOrderly ==
    ASSUME NEW a, NEW s, NEW q, NEW ring, NEW added, NEW r, NEW tc \in Seq(MessageSet),
           NEW ts, Orderly(a, s, q, ring, added, r, tc, ts), tc # << >>
    PROVE  Orderly(a, s, q, ring, added, r, Tail(tc), ts)
<1>1. \A k \in 1..Len(Tail(tc)) : k + 1 \in 1..Len(tc) /\ Tail(tc)[k] = tc[k + 1]
  BY TailTyped
<1>2. \A k \in 1..Len(Tail(tc)) : MessageOK(Tail(tc)[k], a, s, ring, added, r)
  BY <1>1 DEF Orderly
<1> QED
  BY <1>2 DEF Orderly

LEMMA LostOrderly ==
    ASSUME NEW a, NEW s, NEW q, NEW ring, NEW added, NEW r, NEW tc,
           NEW ts \in Seq(AckSet), Orderly(a, s, q, ring, added, r, tc, ts), ts # << >>
    PROVE  Orderly(a, s, q, ring, added, r, tc, Tail(ts))
<1>1. \A k \in 1..Len(Tail(ts)) : k + 1 \in 1..Len(ts) /\ Tail(ts)[k] = ts[k + 1]
  BY TailTyped
<1>2. \A k \in 1..Len(Tail(ts)) : AckOK(Tail(ts)[k], a, q, ring, r)
  BY <1>1 DEF Orderly
<1>3. ASSUME NEW k \in 1..Len(Tail(ts)), NEW l \in 1..Len(Tail(ts)), k < l
      PROVE  Tail(ts)[k].acknowledge <= Tail(ts)[l].acknowledge
  <2>1. k + 1 < l + 1
    BY <1>3
  <2>2. ts[k + 1].acknowledge <= ts[l + 1].acknowledge
    BY <1>1, <2>1 DEF Orderly
  <2> QED
    BY <1>1, <2>2
<1> QED
  BY <1>2, <1>3 DEF Orderly

LEMMA AckedOrderly ==
    ASSUME NEW a \in Nat, NEW s \in Nat, NEW q \in Nat, NEW ring \in Rings,
           NEW added \in History, NEW r \in Remote, NEW tc \in Seq(MessageSet),
           NEW ts \in Seq(AckSet), Orderly(a, s, q, ring, added, r, tc, ts),
           ts # << >>, NEW b, b = ts[1].acknowledge, q - b < Capacity
    PROVE  Orderly(b, s, q, ring, added, r, tc, Tail(ts))
<1> DEFINE scs == r.serverCommandSequence
<1>1. /\ RingOK(a, s, q, ring, added) /\ RemoteOK(a, s, q, ring, added, r)
      /\ Complete(q, ring, added, r) /\ SeenOK(added, r)
  BY DEF Orderly
<1>2. /\ a <= s /\ s <= q /\ scs \in Nat /\ a <= scs /\ scs <= s
  BY <1>1 DEF RingOK, RemoteOK, Remote
<1>3. b \in Nat /\ a <= b /\ b <= scs /\ 1 \in 1..Len(ts)
  <2>1. ts[1] \in AckSet /\ 1 \in 1..Len(ts)
    BY TailTyped
  <2>2. AckOK(ts[1], a, q, ring, r)
    BY <2>1 DEF Orderly
  <2> QED
    BY <2>1, <2>2 DEF AckOK, AckSet, scs
<1>4. RingOK(b, s, q, ring, added)
  <2>1. \A i \in (b + 1)..q : i \in (a + 1)..q
    BY <1>2, <1>3
  <2>2. q - b # Capacity
    BY <1>3, CapacityAssumption
  <2>3. b <= s /\ s <= q /\ q - b <= Capacity
    BY <1>2, <1>3, CapacityAssumption
  <2> QED
    BY <1>1, <2>1, <2>2, <2>3 DEF RingOK
<1>5. RemoteOK(b, s, q, ring, added, r)
  BY <1>1, <1>3 DEF RemoteOK, scs
<1>6. ASSUME NEW k \in 1..Len(tc)
      PROVE  MessageOK(tc[k], b, s, ring, added, r)
  <2>1. MessageOK(tc[k], a, s, ring, added, r)
    BY DEF Orderly
  <2>2. tc[k] \in MessageSet
    BY ElementOfSeq
  <2>3. tc[k].first \in Nat
    BY <2>2 DEF MessageSet
  <2>4. tc[k].first - 1 <= b
    BY <1>3, <2>1, <2>3 DEF MessageOK
  <2> QED
    BY <2>1, <2>4 DEF MessageOK
<1>7. ASSUME NEW k \in 1..Len(ts)
      PROVE  AckOK(ts[k], b, q, ring, r)
  <2>1. AckOK(ts[k], a, q, ring, r)
    BY DEF Orderly
  <2>2. b <= ts[k].acknowledge
    <3>1. CASE k = 1
      BY <1>3, <3>1
    <3>2. CASE k # 1
      <4>1. 1 < k
        BY <3>2
      <4> QED
        BY <1>3, <4>1 DEF Orderly
    <3> QED
      BY <3>1, <3>2
  <2> QED
    BY <2>1, <2>2 DEF AckOK
<1>8. \A k, l \in 1..Len(ts) : k < l => ts[k].acknowledge <= ts[l].acknowledge
  BY DEF Orderly
<1>9. Orderly(b, s, q, ring, added, r, tc, ts)
  BY <1>1, <1>4, <1>5, <1>6, <1>7, <1>8 DEF Orderly
<1> QED
  BY <1>9, LostOrderly

\* The client executes the next n commands of the ring
Executing(r, r2, n, ring) ==
    /\ r2.serverCommandSequence = r.serverCommandSequence + n
    /\ Len(r2.executed) = Len(r.executed) + n
    /\ \A k \in 1..Len(r.executed) : r2.executed[k] = r.executed[k]
    /\ \A k \in 1..n : r2.executed[Len(r.executed) + k] =
                          ring[Slot(r.serverCommandSequence + k)]

\* What was needed and to come was executed, or is still to come
LEMMA ExecutingMore ==
    ASSUME NEW r \in Remote, NEW r2 \in Remote, NEW n \in Nat, NEW ring,
           Executing(r, r2, n, ring), NEW id
    PROVE  /\ ExecutedBy(r, id) => ExecutedBy(r2, id)
           /\ \A i \in (r.serverCommandSequence + 1)..r2.serverCommandSequence :
                 ring[Slot(i)] = id => ExecutedBy(r2, id)
<1> DEFINE scs == r.serverCommandSequence
           e == Len(r.executed)
<1>1. e \in Nat /\ scs \in Nat /\ Len(r2.executed) = e + n
      /\ r2.serverCommandSequence = scs + n
  BY LenProperties DEF Remote, Executing
<1>2. ASSUME ExecutedBy(r, id)
      PROVE  ExecutedBy(r2, id)
  <2>1. PICK k \in 1..e : r.executed[k] = id
    BY <1>2 DEF ExecutedBy
  <2>2. k \in 1..Len(r2.executed)
    BY <1>1
  <2>3. r2.executed[k] = id
    BY <2>1 DEF Executing
  <2> QED
    BY <2>2, <2>3 DEF ExecutedBy
<1>3. ASSUME NEW i \in (scs + 1)..r2.serverCommandSequence, ring[Slot(i)] = id
      PROVE  ExecutedBy(r2, id)
  <2> DEFINE k == i - scs
  <2>1. k \in 1..n /\ scs + k = i /\ e + k \in 1..Len(r2.executed)
    <3>1. i \in (scs + 1)..(scs + n)
      BY <1>1
    <3> HIDE DEF e, scs
    <3> QED
      BY <1>1, <3>1
  <2>2. r2.executed[e + k] = ring[Slot(scs + k)]
    BY <2>1 DEF Executing
  <2> HIDE DEF k, e, scs
  <2>3. r2.executed[e + k] = id
    BY <1>3, <2>1, <2>2
  <2> QED
    BY <2>1, <2>3 DEF ExecutedBy
<1> QED
  BY <1>2, <1>3

LEMMA ExecutedOrderly ==
    ASSUME NEW a \in Nat, NEW s \in Nat, NEW q \in Nat, NEW ring \in Rings,
           NEW added \in History, NEW r \in Remote, NEW tc \in Seq(MessageSet),
           NEW ts \in Seq(AckSet), Orderly(a, s, q, ring, added, r, tc, ts),
           NEW r2 \in Remote, NEW n \in Nat, Executing(r, r2, n, ring),
           r2.serverCommandSequence <= s, SeenOK(added, r2)
    PROVE  Orderly(a, s, q, ring, added, r2, tc, ts)
<1> DEFINE scs == r.serverCommandSequence
           scs2 == r2.serverCommandSequence
           e == Len(r.executed)
           e2 == Len(r2.executed)
<1>1. /\ RingOK(a, s, q, ring, added) /\ RemoteOK(a, s, q, ring, added, r)
      /\ Complete(q, ring, added, r)
  BY DEF Orderly
<1>2. /\ a <= s /\ s <= q /\ scs \in Nat /\ a <= scs /\ scs <= s
      /\ scs2 = scs + n /\ scs2 <= s /\ e \in Nat /\ e2 = e + n /\ scs2 \in Nat
      /\ Len(added) \in Nat
  BY <1>1, LenProperties DEF RingOK, RemoteOK, Remote, Executing, History
<1>3. /\ \A i \in (a + 1)..q : ring[Slot(i)] \in 1..Len(added)
      /\ \A i, j \in (a + 1)..q : i < j => ring[Slot(i)] < ring[Slot(j)]
  BY <1>1 DEF RingOK
\* A command is one of those executed before or of those that were to come
<1>4. ASSUME NEW k \in 1..e2
      PROVE  \/ k \in 1..e /\ r2.executed[k] = r.executed[k]
             \/ \E i \in (scs + 1)..scs2 : /\ r2.executed[k] = ring[Slot(i)]
                                           /\ i = scs + (k - e) /\ i \in (a + 1)..q
  <2>1. CASE k \in 1..e
    BY <2>1 DEF Executing
  <2>2. CASE k > e
    <3> DEFINE l == k - e
               i == scs + l
    <3>1. l \in 1..n /\ e + l = k
      BY <1>2, <2>2
    <3>2. i \in (scs + 1)..scs2 /\ i \in (a + 1)..q /\ i = scs + (k - e)
      <4> HIDE DEF scs, scs2, e, l
      <4> QED
        BY <1>2, <3>1 DEF l
    <3>3. r2.executed[e + l] = ring[Slot(scs + l)]
      BY <3>1 DEF Executing
    <3>4. r2.executed[k] = ring[Slot(i)]
      BY <3>1, <3>3
    <3> HIDE DEF l, i
    <3> QED
      BY <3>2, <3>4
  <2> QED
    BY <1>2, <2>1, <2>2
<1>5. /\ \A k \in 1..e : r.executed[k] \in 1..Len(added)
      /\ \A k, l \in 1..e : k < l => r.executed[k] < r.executed[l]
      /\ \A k \in 1..e, i \in (scs + 1)..q : r.executed[k] < ring[Slot(i)]
      /\ scs > q - Capacity => LastOf(r.executed) = ring[Slot(scs)]
  BY <1>1 DEF RemoteOK
<1> HIDE DEF scs, scs2, e, e2
<1>6. ASSUME NEW k \in 1..e2
      PROVE  r2.executed[k] \in 1..Len(added)
  BY <1>3, <1>4, <1>5
<1>7. ASSUME NEW k \in 1..e2, NEW l \in 1..e2, k < l
      PROVE  r2.executed[k] < r2.executed[l]
  <2>1. CASE k \in 1..e /\ r2.executed[k] = r.executed[k]
    <3>1. CASE l \in 1..e /\ r2.executed[l] = r.executed[l]
      BY <1>5, <1>7, <2>1, <3>1
    <3>2. ASSUME NEW j \in (scs + 1)..scs2, r2.executed[l] = ring[Slot(j)]
          PROVE  r2.executed[k] < r2.executed[l]
      <4>1. j \in (scs + 1)..q
        BY <1>2
      <4> QED
        BY <1>5, <2>1, <3>2, <4>1
    <3> QED
      BY <1>4, <3>1, <3>2
  <2>2. ASSUME NEW i \in (scs + 1)..scs2, r2.executed[k] = ring[Slot(i)],
               i = scs + (k - e), i \in (a + 1)..q
        PROVE  r2.executed[k] < r2.executed[l]
    <3>1. CASE l \in 1..e
      <4>2. /\ k \in Nat /\ e \in Nat /\ scs \in Nat
            /\ scs + 1 <= i /\ i = scs + (k - e)
        BY <1>2, <2>2
      <4>3. k > e
        BY <4>2
      <4>1. k > e /\ k < l
        BY <1>7, <4>3
      <4> QED
        BY <1>2, <3>1, <4>1
    <3>2. ASSUME NEW j \in (scs + 1)..scs2, r2.executed[l] = ring[Slot(j)],
                 j = scs + (l - e), j \in (a + 1)..q
          PROVE  r2.executed[k] < r2.executed[l]
      <4>1. i < j
        BY <1>2, <1>7, <2>2, <3>2
      <4>2. ring[Slot(i)] < ring[Slot(j)]
        BY <1>3, <2>2, <3>2, <4>1
      <4> QED
        BY <2>2, <3>2, <4>2
    <3> QED
      BY <1>4, <3>1, <3>2
  <2> QED
    BY <1>4, <2>1, <2>2
<1>8. ASSUME NEW k \in 1..e2, NEW j \in (scs2 + 1)..q
      PROVE  r2.executed[k] < ring[Slot(j)]
  <2>1. j \in (scs + 1)..q /\ j \in (a + 1)..q
    BY <1>2
  <2>2. CASE k \in 1..e /\ r2.executed[k] = r.executed[k]
    BY <1>5, <2>1, <2>2
  <2>3. ASSUME NEW i \in (scs + 1)..scs2, r2.executed[k] = ring[Slot(i)],
               i \in (a + 1)..q
        PROVE  r2.executed[k] < ring[Slot(j)]
    <3>1. i < j
      BY <1>2
    <3> QED
      BY <1>3, <2>1, <2>3, <3>1
  <2> QED
    BY <1>4, <2>2, <2>3
<1>9. ASSUME scs2 > q - Capacity
      PROVE  LastOf(r2.executed) = ring[Slot(scs2)]
  <2>1. CASE n = 0
    <3>1. e2 = e /\ scs2 = scs
      BY <1>2, <2>1
    <3>2. r2.executed = << >> <=> e2 = 0
      BY EmptySeq, LenProperties DEF Remote, e2
    <3>3. r.executed = << >> <=> e = 0
      BY EmptySeq, LenProperties DEF Remote, e
    <3>4. CASE e = 0
      BY <1>5, <1>9, <3>1, <3>2, <3>3, <3>4 DEF LastOf
    <3>5. CASE e # 0
      <4>1. e \in 1..e /\ r2.executed[e] = r.executed[e]
        <5>1. e \in 1..e
          BY <1>2, <3>5
        <5> QED
          BY <5>1 DEF Executing, e
      <4> QED
        BY <1>5, <1>9, <3>1, <3>2, <3>3, <3>5, <4>1 DEF LastOf, e, e2
    <3> QED
      BY <3>4, <3>5
  <2>2. CASE n # 0
    <3>1. e2 \in 1..e2 /\ n \in 1..n /\ e2 = e + n /\ scs2 = scs + n
      BY <1>2, <2>2
    <3>2. r2.executed[e2] = ring[Slot(scs2)]
      BY <3>1 DEF Executing, e, scs
    <3>3. r2.executed # << >>
      BY <3>1, EmptySeq DEF Remote, e2
    <3> QED
      BY <3>2, <3>3 DEF LastOf, e2
  <2> QED
    BY <2>1, <2>2
<1>10. RemoteOK(a, s, q, ring, added, r2)
  <2>1. a <= scs2 /\ scs2 <= s
    BY <1>2
  <2> QED
    BY <1>6, <1>7, <1>8, <1>9, <2>1 DEF RemoteOK, e2, scs2
<1>11. Complete(q, ring, added, r2)
  <2> SUFFICES ASSUME NEW id \in 1..Len(added), Needed(added, id), ~ExecutedBy(r2, id)
               PROVE  \E i \in (scs2 + 1)..q : ring[Slot(i)] = id
    BY DEF Complete, scs2
  <2>1. ~ExecutedBy(r, id)
    BY ExecutingMore
  <2>2. PICK i \in (scs + 1)..q : ring[Slot(i)] = id
    BY <1>1, <2>1 DEF Complete, scs
  <2>3. ~(i \in (scs + 1)..scs2)
    BY <2>2, ExecutingMore DEF scs, scs2
  <2>4. i \in (scs2 + 1)..q
    BY <1>2, <2>3
  <2> QED
    BY <2>2, <2>4
<1>12. ASSUME NEW j \in 1..Len(tc)
       PROVE  MessageOK(tc[j], a, s, ring, added, r2)
  <2> DEFINE m == tc[j]
  <2>1. MessageOK(m, a, s, ring, added, r)
    BY DEF Orderly
  <2>2. m.first \in Nat /\ m.given \in Nat
    <3>1. m \in MessageSet
      BY ElementOfSeq
    <3> HIDE DEF m
    <3> QED
      BY <3>1 DEF MessageSet
  <2>7. Len(m.ids) \in Nat
    <3>1. m \in MessageSet
      BY ElementOfSeq
    <3> HIDE DEF m
    <3> QED
      BY <3>1, LenProperties DEF MessageSet
  <2> HIDE DEF m
  <2>3. ASSUME NEW k \in 1..Len(m.ids)
        PROVE  m.first + k - 1 \in Int
               /\ (m.first + k - 1 > scs2 => m.first + k - 1 > scs)
    BY <1>2, <2>2, <2>7
  <2>4. \A k \in 1..Len(m.ids) : m.first + k - 1 > scs =>
           m.ids[k] = ring[Slot(m.first + k - 1)]
    BY <2>1 DEF MessageOK, scs
  <2>5. ASSUME NEW id \in 1..m.given, Needed(added, id), ~ExecutedBy(r2, id)
        PROVE  \E k \in 1..Len(m.ids) : m.first + k - 1 > scs2 /\ m.ids[k] = id
    <3>1. ~ExecutedBy(r, id)
      BY <2>5, ExecutingMore
    <3>2. PICK k \in 1..Len(m.ids) : m.first + k - 1 > scs /\ m.ids[k] = id
      BY <2>1, <2>5, <3>1 DEF MessageOK, scs
    <3> DEFINE i == m.first + k - 1
    <3>3. ring[Slot(i)] = id /\ i > scs /\ i \in Int
      BY <2>3, <2>4, <3>2
    <3> HIDE DEF i
    <3>4. ~(i \in (scs + 1)..scs2)
      BY <2>5, <3>3, ExecutingMore DEF scs, scs2
    <3>5. i > scs2
      BY <1>2, <3>3, <3>4
    <3> QED
      BY <3>2, <3>5 DEF i
  <2>6. MessageOK(m, a, s, ring, added, r2)
    <3>1. /\ m.first - 1 <= a /\ m.first + Len(m.ids) - 1 <= s
          /\ m.given <= Len(added)
      BY <2>1 DEF MessageOK
    <3> QED
      BY <2>3, <2>4, <2>5, <3>1 DEF MessageOK, scs2
  <2> QED
    BY <2>6 DEF m
<1>13. ASSUME NEW k \in 1..Len(ts)
       PROVE  AckOK(ts[k], a, q, ring, r2)
  <2>1. AckOK(ts[k], a, q, ring, r)
    BY DEF Orderly
  <2>2. ts[k].acknowledge \in Nat
    <3>1. ts[k] \in AckSet
      BY ElementOfSeq
    <3> QED
      BY <3>1 DEF AckSet
  <2>3. ts[k].acknowledge <= scs2
    <3>1. ts[k].acknowledge <= scs
      BY <2>1 DEF AckOK, scs
    <3> QED
      BY <1>2, <2>2, <3>1
  <2>4. AckOK(ts[k], a, q, ring, r) =>
            (ts[k].acknowledge <= scs2 => AckOK(ts[k], a, q, ring, r2))
    BY DEF AckOK, scs2
  <2> QED
    BY <2>1, <2>3, <2>4
<1>14. \A k, l \in 1..Len(ts) : k < l => ts[k].acknowledge <= ts[l].acknowledge
  BY DEF Orderly
<1> QED
  BY <1>1, <1>10, <1>11, <1>12, <1>13, <1>14 DEF Orderly

\* The client acknowledges the last command it executed
LEMMA AnsweredOrderly ==
    ASSUME NEW a \in Nat, NEW s \in Nat, NEW q \in Nat, NEW ring,
           NEW added, NEW r \in Remote, NEW tc,
           NEW ts \in Seq(AckSet), Orderly(a, s, q, ring, added, r, tc, ts),
           NEW p \in AckSet, p.acknowledge = r.serverCommandSequence,
           p.key = LastOf(r.executed)
    PROVE  Orderly(a, s, q, ring, added, r, tc, Append(ts, p))
<1> DEFINE ts2 == Append(ts, p)
           n == Len(ts)
<1>1. /\ n \in Nat /\ Len(ts2) = n + 1 /\ ts2[n + 1] = p
      /\ \A k \in 1..n : ts2[k] = ts[k]
  BY AppendProperties, LenProperties
<1>2. AckOK(p, a, q, ring, r)
  BY DEF Orderly, AckOK, RemoteOK, Remote
<1>3. \A k \in 1..n : AckOK(ts[k], a, q, ring, r)
  BY DEF Orderly
<1>4. \A k, l \in 1..n : k < l => ts[k].acknowledge <= ts[l].acknowledge
  BY DEF Orderly
<1>5. \A k \in 1..n : ts[k].acknowledge <= p.acknowledge
  BY <1>3 DEF AckOK
<1> HIDE DEF ts2, n
<1>6. \A k \in 1..(n + 1) : k \in 1..n \/ k = n + 1
  BY <1>1
<1>7. ASSUME NEW k \in 1..(n + 1)
      PROVE  AckOK(ts2[k], a, q, ring, r)
  BY <1>1, <1>2, <1>3, <1>6
<1>8. ASSUME NEW k \in 1..(n + 1), NEW l \in 1..(n + 1), k < l
      PROVE  ts2[k].acknowledge <= ts2[l].acknowledge
  <2>1. k \in 1..n
    BY <1>1, <1>8
  <2> QED
    BY <1>1, <1>4, <1>5, <1>6, <1>8, <2>1
<1> QED
  BY <1>1, <1>7, <1>8 DEF Orderly, ts2

-----------------------------------------------------------------------------
(* The invariant as a fact about a client_t, and what the server's          *)
(* functions do to it.                                                      *)

Stays(cl) == Connected(cl) /\ ~cl.delayDropMsg

Calm(cl, r) == Stays(cl) /\ ~cl.discarded /\ ~r.raced

InOrder(cl, r, tc, ts) ==
    Orderly(cl.reliableAcknowledge, cl.reliableSent, cl.reliableSequence,
            cl.reliableCommands, cl.added, r, tc, ts)

ClientInv(cl, r, tc, ts) ==
    /\ ClientTyped(cl)
    /\ cl.reliableSent <= cl.reliableSequence
    /\ Stays(cl) => Pending(cl) <= Capacity
    /\ Calm(cl, r) => InOrder(cl, r, tc, ts)

LEMMA InvIsClientInv ==
    Inv <=> Typed /\ ClientInv(client, remote, toClient, toServer)
BY DEF Inv, Typed, Counters, ClientInv, Stays, Calm, InOrder, Undisturbed, Staying

LEMMA ClientFacts ==
    ASSUME NEW cl, ClientTyped(cl)
    PROVE  /\ cl \in Client /\ cl.reliableAcknowledge \in Nat /\ cl.reliableSent \in Nat
           /\ cl.reliableSequence \in Nat /\ cl.reliableCommands \in Rings
           /\ cl.added \in History /\ Len(cl.added) \in Nat /\ cl.state \in State
           /\ cl.delayDropMsg \in BOOLEAN /\ cl.discarded \in BOOLEAN
           /\ cl.gamestateSent \in BOOLEAN /\ cl.level \in Nat /\ cl.gamestates \in Nat
BY LenProperties DEF ClientTyped, Client, Rings, History

\* The same client, in another state or map
LEMMA SameInv ==
    ASSUME NEW cl, NEW r, NEW tc, NEW ts, ClientInv(cl, r, tc, ts),
           NEW n, ClientTyped(n),
           n.reliableAcknowledge = cl.reliableAcknowledge,
           n.reliableSent = cl.reliableSent, n.reliableSequence = cl.reliableSequence,
           n.reliableCommands = cl.reliableCommands, n.added = cl.added,
           n.delayDropMsg = cl.delayDropMsg, n.discarded = cl.discarded,
           Connected(n) => Connected(cl)
    PROVE  ClientInv(n, r, tc, ts)
<1>1. Stays(n) => Stays(cl)
  BY DEF Stays
<1>2. Calm(n, r) => Calm(cl, r)
  BY <1>1 DEF Calm
<1>3. Pending(n) = Pending(cl)
  BY DEF Pending
<1>4. InOrder(cl, r, tc, ts) => InOrder(n, r, tc, ts)
  BY DEF InOrder
<1> QED
  BY <1>1, <1>2, <1>3, <1>4 DEF ClientInv

LEMMA AddedPending ==
    ASSUME NEW cl, ClientTyped(cl), cl.reliableSent <= cl.reliableSequence,
           Pending(cl) <= Capacity, NEW c \in Command, NEW type \in {0, 1},
           ~Added(cl, c, type).delayDropMsg
    PROVE  Pending(Added(cl, c, type)) <= Capacity
<1> DEFINE n == Added(cl, c, type)
           a == cl.reliableAcknowledge
           s == cl.reliableSent
           q == cl.reliableSequence
<1>1. /\ cl \in Client /\ a \in Nat /\ s \in Nat /\ q \in Nat /\ s <= q
      /\ q - a <= Capacity
  BY ClientFacts DEF Pending
<1>2. AddedTo(cl, c, type, n) /\ ~n.delayDropMsg
  BY AddedForm
<1> HIDE DEF n
<1>3. PICK q1, ring1 :
        /\ CompactedTo(cl, q1, ring1)
        /\ \/ /\ Crowded(cl) /\ type = 0
              /\ n = With(cl, q1, ring1, cl.added, cl.delayDropMsg)
           \/ \E q2, ring2, e, d, sup :
                /\ RoomMade(cl.reliableSent, q1, ring1, cl.added, sup, q2, ring2)
                /\ EntryAdded(cl, c, type, q2, e, d)
                /\ sup = c
                /\ n = With(cl, q2, Put(ring2, q2, Len(cl.added) + 1),
                            Append(cl.added, e), d)
  BY <1>2 DEF AddedTo
<1>4. q1 \in Nat /\ q1 <= q
  BY <1>1, <1>3, CompactedToType
<1>5. CASE n = With(cl, q1, ring1, cl.added, cl.delayDropMsg)
  <2>1. Pending(n) = q1 - a
    BY <1>1, <1>5, WithFields DEF Pending
  <2>2. q1 - a <= Capacity
    BY <1>1, <1>4, CapacityAssumption
  <2> QED
    BY <2>1, <2>2 DEF n
<1>6. CASE \E q2, ring2, e, d, sup :
                /\ RoomMade(cl.reliableSent, q1, ring1, cl.added, sup, q2, ring2)
                /\ EntryAdded(cl, c, type, q2, e, d)
                /\ sup = c
                /\ n = With(cl, q2, Put(ring2, q2, Len(cl.added) + 1),
                            Append(cl.added, e), d)
  <2>1. PICK q2, ring2, e, d :
                /\ RoomMade(s, q1, ring1, cl.added, c, q2, ring2)
                /\ EntryAdded(cl, c, type, q2, e, d)
                /\ n = With(cl, q2, Put(ring2, q2, Len(cl.added) + 1),
                            Append(cl.added, e), d)
    BY <1>6
  <2> DEFINE ring3 == Put(ring2, q2, Len(cl.added) + 1)
             added3 == Append(cl.added, e)
  <2>2. n = With(cl, q2, ring3, added3, d)
    BY <2>1
  <2> HIDE DEF ring3, added3
  <2>3. n.delayDropMsg = d /\ n.reliableSequence = q2 /\ n.reliableAcknowledge = a
    BY <1>1, <2>2, WithFields
  <2>4. ~d => q2 - a # Capacity + 1
    BY <2>1, EntryType
  <2>5. q2 \in Nat /\ (q2 = q1 \/ q2 = q1 + 1)
    BY <1>1, <1>4, <2>1, RoomMadeNumbers
  <2>6. q2 - a <= Capacity
    BY <1>1, <1>2, <1>4, <2>3, <2>4, <2>5, CapacityAssumption
  <2> QED
    BY <2>3, <2>6 DEF Pending, n
<1> QED
  BY <1>3, <1>5, <1>6

LEMMA AddedInv ==
    ASSUME NEW cl, NEW r \in Remote, NEW tc \in Seq(MessageSet), NEW ts \in Seq(AckSet),
           ClientInv(cl, r, tc, ts), NEW c \in Command, NEW type \in {0, 1}
    PROVE  ClientInv(Added(cl, c, type), r, tc, ts)
<1> DEFINE n == Added(cl, c, type)
<1>1. ClientTyped(cl) /\ cl.reliableSent <= cl.reliableSequence
  BY DEF ClientInv
<1>2. ClientTyped(n) /\ SameClient(cl, n) /\ n.reliableSent <= n.reliableSequence
  BY <1>1, AddedTyped
<1>3. Stays(n) => Stays(cl)
  BY <1>2 DEF Stays, SameClient, Connected
<1>4. Calm(n, r) => Calm(cl, r)
  BY <1>2, <1>3 DEF Calm, SameClient
<1>5. ASSUME Stays(n)
      PROVE  Pending(n) <= Capacity
  <2>1. Pending(cl) <= Capacity /\ ~n.delayDropMsg
    BY <1>3, <1>5 DEF ClientInv, Stays
  <2> QED
    BY <1>1, <2>1, AddedPending
<1>6. ASSUME Calm(n, r)
      PROVE  InOrder(n, r, tc, ts)
  <2> DEFINE a == cl.reliableAcknowledge
             s == cl.reliableSent
             q == cl.reliableSequence
             ring == cl.reliableCommands
             added == cl.added
             q2 == n.reliableSequence
             ring2 == n.reliableCommands
             added2 == n.added
  <2>1. Orderly(a, s, q, ring, added, r, tc, ts) /\ ~n.delayDropMsg
    BY <1>4, <1>6 DEF ClientInv, Calm, Stays, InOrder
  <2>2. RingOK(a, s, q, ring, added)
    BY <2>1 DEF Orderly
  <2>3. /\ Grown(s, q, ring, added, q2, ring2, added2)
        /\ Room(a, s, q, q2, ring2, added2)
    BY <1>1, <2>1, <2>2, AddedGrown
  <2>4. a \in Nat /\ s \in Nat /\ q \in Nat /\ ring \in Rings /\ added \in History
    BY <1>1, ClientFacts
  <2>5. n.reliableAcknowledge = a /\ n.reliableSent = s
    BY <1>2 DEF SameClient
  <2> HIDE DEF a, s, q, ring, added, q2, ring2, added2, n
  <2>6. Orderly(a, s, q2, ring2, added2, r, tc, ts)
    BY <2>1, <2>3, <2>4, GrownOrderly
  <2> QED
    BY <2>5, <2>6 DEF InOrder, q2, ring2, added2
<1> QED
  BY <1>2, <1>5, <1>6 DEF ClientInv

\* SV_DropClientInternal: nothing is expected of the client any more
LEMMA DroppedInv ==
    ASSUME NEW cl, ClientTyped(cl), cl.reliableSent <= cl.reliableSequence,
           Connected(cl), NEW r, NEW tc, NEW ts
    PROVE  ClientInv(Dropped(cl), r, tc, ts) /\ ~Connected(Dropped(cl))
<1> DEFINE a == cl.reliableAcknowledge
           up == [cl EXCEPT !.reliableSequence = a, !.reliableSent = a]
           n == Added(up, Disconnect, 1)
           d == [n EXCEPT !.state = "CS_ZOMBIE"]
<1>1. a \in Nat /\ cl \in Client
  BY ClientFacts
<1>2. /\ up \in Client /\ up.reliableSent = a /\ up.reliableSequence = a
      /\ up.reliableCommands = cl.reliableCommands /\ up.added = cl.added
  <2> HIDE DEF a
  <2> QED
    BY <1>1 DEF Client
<1>3. ClientTyped(up)
  BY <1>2 DEF ClientTyped
<1>4. up.reliableSent <= up.reliableSequence /\ Disconnect \in Command /\ 1 \in {0, 1}
  BY <1>1, <1>2, CommandAssumption
<1> HIDE DEF up
<1>5. ClientTyped(n) /\ n.reliableSent <= n.reliableSequence
  BY <1>3, <1>4, AddedTyped
<1>6. Dropped(cl) = d
  BY DEF Dropped, up
<1> HIDE DEF n
<1>7. /\ d \in Client /\ d.state = "CS_ZOMBIE" /\ d.reliableSent = n.reliableSent
      /\ d.reliableSequence = n.reliableSequence
      /\ d.reliableCommands = n.reliableCommands /\ d.added = n.added
  BY <1>5 DEF ClientTyped, Client, State
<1> HIDE DEF d
<1>8. ClientTyped(d) /\ d.reliableSent <= d.reliableSequence /\ ~Connected(d)
  BY <1>5, <1>7 DEF ClientTyped, Connected
<1> QED
  BY <1>6, <1>8 DEF ClientInv, Calm, Stays

LEMMA PacketTyped ==
    ASSUME NEW cl, ClientTyped(cl), NEW last \in Nat, NEW given \in Nat
    PROVE  /\ Packet(cl, last, given) \in MessageSet
           /\ Packet(cl, last, given).given = given
           /\ cl.reliableAcknowledge <= last =>
                 MessageOf(Packet(cl, last, given), cl.reliableAcknowledge, last,
                           cl.reliableCommands)
<1> DEFINE a == cl.reliableAcknowledge
           ring == cl.reliableCommands
           ids == [k \in 1..(last - a) |-> At(cl, a + k)]
           m == Packet(cl, last, given)
<1>1. a \in Nat /\ ring \in Rings
  BY ClientFacts
<1>2. ids = [k \in 1..(last - a) |-> ring[Slot(a + k)]]
  BY DEF At
<1>3. m.first = a + 1 /\ m.ids = ids /\ m.given = given
      /\ m = [first |-> a + 1, ids |-> ids, given |-> given]
  BY DEF Packet
<1> HIDE DEF a, ring, m, ids
<1>4. \A k \in 1..(last - a) : ring[Slot(a + k)] \in Nat
  <2> SUFFICES ASSUME NEW k \in 1..(last - a)
               PROVE  ring[Slot(a + k)] \in Nat
    OBVIOUS
  <2>1. a + k \in Int
    BY <1>1
  <2>2. Slot(a + k) \in 0..(Capacity - 1)
    BY <2>1, SlotType
  <2> QED
    BY <1>1, <2>2 DEF Rings
<1>5. ids \in Seq(Nat) /\ (a <= last => Len(ids) = last - a)
  <2>1. CASE a <= last
    <3>1. last - a \in Nat
      BY <1>1, <2>1
    <3> QED
      BY <1>2, <1>4, <3>1
  <2>2. CASE ~(a <= last)
    <3>1. 1..(last - a) = 1..0
      BY <1>1, <2>2
    <3>2. ids \in [1..0 -> Nat]
      BY <1>2, <1>4, <3>1
    <3> QED
      BY <2>2, <3>2, SeqDef
  <2> QED
    BY <2>1, <2>2
<1>6. m \in MessageSet
  BY <1>1, <1>3, <1>5 DEF MessageSet
<1>7. a <= last => MessageOf(m, a, last, ring)
  BY <1>2, <1>3, <1>5 DEF MessageOf
<1> QED
  BY <1>3, <1>6, <1>7 DEF m, a, ring

LEMMA AllSentFields ==
    ASSUME NEW cl, ClientTyped(cl)
    PROVE  /\ ClientTyped(AllSent(cl))
           /\ AllSent(cl).reliableSent = cl.reliableSequence
           /\ AllSent(cl).reliableSequence = cl.reliableSequence
           /\ AllSent(cl).reliableAcknowledge = cl.reliableAcknowledge
           /\ AllSent(cl).reliableCommands = cl.reliableCommands
           /\ AllSent(cl).added = cl.added /\ AllSent(cl).state = cl.state
           /\ AllSent(cl).delayDropMsg = cl.delayDropMsg
           /\ AllSent(cl).discarded = cl.discarded
<1>1. cl \in Client /\ cl.reliableSequence \in Nat
  BY ClientFacts
<1>2. /\ AllSent(cl) \in Client
      /\ AllSent(cl).reliableSent = cl.reliableSequence
      /\ AllSent(cl).reliableSequence = cl.reliableSequence
      /\ AllSent(cl).reliableAcknowledge = cl.reliableAcknowledge
      /\ AllSent(cl).reliableCommands = cl.reliableCommands
      /\ AllSent(cl).added = cl.added /\ AllSent(cl).state = cl.state
      /\ AllSent(cl).delayDropMsg = cl.delayDropMsg
      /\ AllSent(cl).discarded = cl.discarded
  BY <1>1 DEF AllSent, Client
<1> QED
  BY <1>2 DEF ClientTyped

LEMMA SentInv ==
    ASSUME NEW cl, NEW r \in Remote, NEW tc \in Seq(MessageSet), NEW ts \in Seq(AckSet),
           ClientInv(cl, r, tc, ts),
           NEW last \in Nat, NEW given \in Nat, given = 0 \/ given = Len(cl.added),
           \/ last = cl.reliableSequence
           \/ /\ cl.reliableAcknowledge <= last /\ last <= cl.reliableSequence
              /\ given = 0
    PROVE  /\ ClientInv(Transmitted(cl), r, Append(tc, Packet(cl, last, given)), ts)
           /\ Connected(Transmitted(cl)) => Connected(cl)
           /\ Append(tc, Packet(cl, last, given)) \in Seq(MessageSet)
<1> DEFINE m == Packet(cl, last, given)
           tc2 == Append(tc, m)
           n == AllSent(cl)
<1>1. ClientTyped(cl) /\ cl.reliableSent <= cl.reliableSequence
  BY DEF ClientInv
<1>2. /\ m \in MessageSet /\ m.given = given
      /\ cl.reliableAcknowledge <= last =>
            MessageOf(m, cl.reliableAcknowledge, last, cl.reliableCommands)
  BY <1>1, PacketTyped
<1> HIDE DEF m
<1>3. tc2 \in Seq(MessageSet)
  BY <1>2, AppendProperties
<1>4. /\ ClientTyped(n) /\ n.reliableSent = cl.reliableSequence
      /\ n.reliableSequence = cl.reliableSequence
      /\ n.reliableAcknowledge = cl.reliableAcknowledge
      /\ n.reliableCommands = cl.reliableCommands
      /\ n.added = cl.added /\ n.state = cl.state
      /\ n.delayDropMsg = cl.delayDropMsg /\ n.discarded = cl.discarded
  BY <1>1, AllSentFields
<1>5. /\ cl.reliableAcknowledge \in Nat /\ cl.reliableSent \in Nat
      /\ cl.reliableSequence \in Nat /\ cl.reliableCommands \in Rings
      /\ cl.added \in History /\ cl.delayDropMsg \in BOOLEAN
  BY <1>1, ClientFacts
<1>6. Transmitted(cl) = IF cl.delayDropMsg THEN Dropped(n) ELSE n
  BY DEF Transmitted
<1> HIDE DEF n
<1>7. Calm(cl, r) => InOrder(n, r, tc2, ts)
  <2> SUFFICES ASSUME Calm(cl, r)
               PROVE  InOrder(n, r, tc2, ts)
    OBVIOUS
  <2> DEFINE a == cl.reliableAcknowledge
             s == cl.reliableSent
             q == cl.reliableSequence
             ring == cl.reliableCommands
             added == cl.added
  <2>1. Orderly(a, s, q, ring, added, r, tc, ts)
    BY DEF ClientInv, InOrder
  <2>2. a <= s /\ s <= q
    BY <2>1 DEF Orderly, RingOK
  <2>3. /\ a <= last /\ last <= q
        /\ m.given = 0 \/ (last = q /\ m.given = Len(added))
    BY <1>2, <1>5, <2>2
  <2>4. MessageOf(m, a, last, ring)
    BY <1>2, <2>3
  <2>5. a \in Nat /\ s \in Nat /\ q \in Nat /\ ring \in Rings /\ added \in History
    BY <1>5
  <2>6. /\ n.reliableAcknowledge = a /\ n.reliableSent = q /\ n.reliableSequence = q
        /\ n.reliableCommands = ring /\ n.added = added
    BY <1>4
  <2> HIDE DEF a, s, q, ring, added
  <2>7. Orderly(a, q, q, ring, added, r, tc2, ts)
    BY <1>2, <2>1, <2>3, <2>4, <2>5, SentOrderly
  <2> QED
    BY <2>6, <2>7 DEF InOrder
<1>8. n.reliableSent <= n.reliableSequence
  BY <1>4, <1>5
<1>9. ClientInv(n, r, tc2, ts)
  <2>1. Stays(n) => Stays(cl)
    BY <1>4 DEF Stays, Connected
  <2>2. Calm(n, r) => Calm(cl, r)
    BY <1>4, <2>1 DEF Calm
  <2>3. Pending(n) = Pending(cl)
    BY <1>4 DEF Pending
  <2> QED
    BY <1>4, <1>7, <1>8, <2>1, <2>2, <2>3 DEF ClientInv
<1>10. Connected(n) <=> Connected(cl)
  BY <1>4 DEF Connected
<1>11. CASE ~cl.delayDropMsg
  BY <1>3, <1>6, <1>9, <1>10, <1>11 DEF m
<1>12. CASE cl.delayDropMsg /\ ~Connected(n)
  <2>1. Dropped(n) = n
    BY <1>12 DEF Dropped
  <2> QED
    BY <1>3, <1>6, <1>9, <1>10, <1>12, <2>1 DEF m
<1>13. CASE cl.delayDropMsg /\ Connected(n)
  <2>1. ClientInv(Dropped(n), r, tc2, ts)
    BY <1>4, <1>8, <1>13, DroppedInv
  <2> QED
    BY <1>3, <1>6, <1>10, <1>13, <2>1 DEF m
<1> QED
  BY <1>11, <1>12, <1>13

\* A message with all that is pending
LEMMA MessageSentInv ==
    ASSUME NEW cl, NEW r \in Remote, NEW tc \in Seq(MessageSet), NEW ts \in Seq(AckSet),
           ClientInv(cl, r, tc, ts)
    PROVE  /\ ClientInv(Transmitted(cl), r, Append(tc, Message(cl)), ts)
           /\ Connected(Transmitted(cl)) => Connected(cl)
           /\ Append(tc, Message(cl)) \in Seq(MessageSet)
<1> DEFINE last == cl.reliableSequence
           given == IF cl.state \in {"CS_ACTIVE", "CS_ZOMBIE"} THEN Len(cl.added) ELSE 0
<1>1. last \in Nat /\ given \in Nat /\ (given = 0 \/ given = Len(cl.added))
  BY ClientFacts DEF ClientInv
<1>2. Message(cl) = Packet(cl, last, given) /\ last = cl.reliableSequence
  BY DEF Message
<1> HIDE DEF last, given
<1>3. /\ ClientInv(Transmitted(cl), r, Append(tc, Packet(cl, last, given)), ts)
      /\ Connected(Transmitted(cl)) => Connected(cl)
      /\ Append(tc, Packet(cl, last, given)) \in Seq(MessageSet)
  BY <1>1, <1>2, SentInv
<1> QED
  BY <1>2, <1>3

\* Another state or map: the fields that the ring does not depend on
Restate(cl, state, sent, level, count) ==
    [cl EXCEPT !.state = state, !.gamestateSent = sent, !.level = level,
               !.gamestates = count]

LEMMA Restated ==
    ASSUME NEW cl, ClientTyped(cl), NEW state \in State, NEW sent \in BOOLEAN,
           NEW level \in Nat, NEW count \in Nat,
           NEW r, NEW tc, NEW ts, ClientInv(cl, r, tc, ts),
           state # "CS_ZOMBIE" => Connected(cl)
    PROVE  ClientInv(Restate(cl, state, sent, level, count), r, tc, ts)
<1> DEFINE n == Restate(cl, state, sent, level, count)
<1>1. cl \in Client
  BY ClientFacts
<1>2. /\ n \in Client /\ n.reliableAcknowledge = cl.reliableAcknowledge
      /\ n.reliableSent = cl.reliableSent /\ n.reliableSequence = cl.reliableSequence
      /\ n.reliableCommands = cl.reliableCommands /\ n.added = cl.added
      /\ n.delayDropMsg = cl.delayDropMsg /\ n.discarded = cl.discarded
      /\ n.state = state
  BY <1>1 DEF Client, Restate
<1> HIDE DEF n
<1>3. ClientTyped(n) /\ (Connected(n) => Connected(cl))
  BY <1>2 DEF ClientTyped, Connected
<1>4. ClientInv(n, r, tc, ts)
  BY <1>2, <1>3, SameInv
<1> QED
  BY <1>4 DEF n

LEMMA RestatedForms ==
    ASSUME NEW cl, ClientTyped(cl), NEW state
    PROVE  /\ [cl EXCEPT !.state = state] =
                 Restate(cl, state, cl.gamestateSent, cl.level, cl.gamestates)
           /\ [cl EXCEPT !.state = state, !.gamestateSent = FALSE, !.level = @ + 1] =
                 Restate(cl, state, FALSE, cl.level + 1, cl.gamestates)
           /\ [cl EXCEPT !.gamestateSent = TRUE, !.gamestates = @ + 1] =
                 Restate(cl, cl.state, TRUE, cl.level, cl.gamestates + 1)
<1>1. cl \in Client
  BY ClientFacts
<1>2. [cl EXCEPT !.state = state] =
        Restate(cl, state, cl.gamestateSent, cl.level, cl.gamestates)
  BY <1>1 DEF Restate, Client
<1>3. [cl EXCEPT !.state = state, !.gamestateSent = FALSE, !.level = @ + 1] =
        Restate(cl, state, FALSE, cl.level + 1, cl.gamestates)
  BY <1>1 DEF Restate, Client
<1>4. [cl EXCEPT !.gamestateSent = TRUE, !.gamestates = @ + 1] =
        Restate(cl, cl.state, TRUE, cl.level, cl.gamestates + 1)
  BY <1>1 DEF Restate, Client
<1> QED
  BY <1>2, <1>3, <1>4

\* SV_PacketEvent: an acknowledge that leaves less pending than the ring holds
LEMMA AckedInv ==
    ASSUME NEW cl, NEW r \in Remote, NEW tc \in Seq(MessageSet), NEW ts \in Seq(AckSet),
           ClientInv(cl, r, tc, ts), ts # << >>,
           NEW n, n = [cl EXCEPT !.reliableAcknowledge = ts[1].acknowledge],
           ~OutOfRange(n)
    PROVE  /\ ClientInv(n, r, tc, Tail(ts)) /\ n.state = cl.state
           /\ n.reliableAcknowledge = ts[1].acknowledge
<1> DEFINE b == ts[1].acknowledge
           q == cl.reliableSequence
<1>1. ClientTyped(cl) /\ cl \in Client /\ q \in Nat
  BY ClientFacts DEF ClientInv
<1>2. b \in Nat
  <2>1. ts[1] \in AckSet
    BY TailTyped
  <2> QED
    BY <2>1 DEF AckSet
<1>3. n = [cl EXCEPT !.reliableAcknowledge = b]
  OBVIOUS
<1> HIDE DEF b
<1>4. /\ n \in Client /\ n.reliableAcknowledge = b /\ n.reliableSent = cl.reliableSent
      /\ n.reliableSequence = q /\ n.reliableCommands = cl.reliableCommands
      /\ n.added = cl.added /\ n.delayDropMsg = cl.delayDropMsg
      /\ n.discarded = cl.discarded /\ n.state = cl.state
  BY <1>1, <1>2, <1>3 DEF Client
<1>5. ClientTyped(n)
  BY <1>1, <1>4 DEF ClientTyped
<1>6. q - b < Capacity
  BY <1>1, <1>2, <1>4, CapacityAssumption DEF OutOfRange, Pending
<1>7. Pending(n) <= Capacity
  BY <1>1, <1>2, <1>4, <1>6, CapacityAssumption DEF Pending
<1>8. ASSUME Calm(n, r)
      PROVE  InOrder(n, r, tc, Tail(ts))
  <2> DEFINE a == cl.reliableAcknowledge
             s == cl.reliableSent
             ring == cl.reliableCommands
             added == cl.added
  <2>1. Calm(cl, r)
    BY <1>4, <1>8 DEF Calm, Stays, Connected
  <2>2. Orderly(a, s, q, ring, added, r, tc, ts)
    BY <2>1 DEF ClientInv, InOrder
  <2>3. a \in Nat /\ s \in Nat /\ q \in Nat /\ ring \in Rings /\ added \in History
    BY <1>1, ClientFacts
  <2>4. /\ n.reliableSent = s /\ n.reliableSequence = q
        /\ n.reliableCommands = ring /\ n.added = added
    BY <1>4
  <2>5. b = ts[1].acknowledge
    BY DEF b
  <2> HIDE DEF a, s, q, ring, added
  <2>6. Orderly(b, s, q, ring, added, r, tc, Tail(ts))
    BY <1>6, <2>2, <2>3, <2>5, AckedOrderly
  <2> QED
    BY <1>4, <2>4, <2>6 DEF InOrder
<1>9. cl.reliableSent <= cl.reliableSequence
  BY DEF ClientInv
<1> QED
  BY <1>4, <1>5, <1>7, <1>8, <1>9 DEF ClientInv, b

-----------------------------------------------------------------------------
(* The initial state and every step.                                       *)

InvP == Typed' /\ ClientInv(client', remote', toClient', toServer')

LEMMA InitInv ==
    ASSUME Init
    PROVE  Inv
<1> DEFINE ring == [s \in 0..(Capacity - 1) |-> 0]
<1>1. /\ client = [reliableSequence |-> 0, reliableAcknowledge |-> 0,
                   reliableSent |-> 0, reliableCommands |-> ring,
                   added |-> <<>>, state |-> "CS_CONNECTED",
                   gamestateSent |-> FALSE, delayDropMsg |-> FALSE,
                   level |-> 1, gamestates |-> 0, discarded |-> FALSE]
      /\ remote = [serverCommandSequence |-> 0, executed |-> <<>>,
                   level |-> 0, seen |-> 0, raced |-> FALSE]
      /\ toClient = <<>> /\ gamestates = <<>> /\ toServer = <<>>
  BY DEF Init
<1>2. ring \in [0..(Capacity - 1) -> Nat] /\ ring \in [0..(Capacity - 1) -> 0..0]
  OBVIOUS
<1>3. ring[Slot(0)] = 0
  BY SlotType
<1>4. \A S : << >> \in Seq(S)
  BY EmptySeq
<1> HIDE DEF ring
<1>5. /\ client.reliableSequence = 0 /\ client.reliableAcknowledge = 0
      /\ client.reliableSent = 0 /\ client.reliableCommands = ring
      /\ client.added = << >> /\ client \in Client
  BY <1>1, <1>2, <1>4 DEF Client, State
<1>6. /\ remote.serverCommandSequence = 0 /\ remote.executed = << >> /\ remote.seen = 0
      /\ remote \in Remote
  BY <1>1, <1>4 DEF Remote
<1>7. Len(client.added) = 0 /\ Len(remote.executed) = 0
  BY <1>5, <1>6
<1>8. ClientTyped(client)
  BY <1>2, <1>5, <1>7 DEF ClientTyped
<1>9. Typed
  BY <1>1, <1>4, <1>6, <1>8 DEF Typed
<1>10. Pending(client) <= Capacity
  BY <1>5, CapacityAssumption DEF Pending
<1>11. InOrder(client, remote, toClient, toServer)
  <2>1. RingOK(0, 0, 0, ring, client.added)
    BY CapacityAssumption DEF RingOK
  <2>2. RemoteOK(0, 0, 0, ring, client.added, remote)
    BY <1>3, <1>6, <1>7 DEF RemoteOK, LastOf
  <2>3. Complete(0, ring, client.added, remote)
    BY <1>7 DEF Complete
  <2>4. SeenOK(client.added, remote)
    BY <1>6, <1>7 DEF SeenOK
  <2>5. Len(toClient) = 0 /\ Len(toServer) = 0
    BY <1>1
  <2> QED
    BY <1>5, <2>1, <2>2, <2>3, <2>4, <2>5 DEF InOrder, Orderly
<1>12. client.reliableSent <= client.reliableSequence
  BY <1>5
<1> QED
  BY <1>8, <1>9, <1>10, <1>11, <1>12, InvIsClientInv DEF ClientInv

LEMMA AddServerCommandStep ==
    ASSUME Inv, NEW c \in Command, NEW type \in {0, 1}, AddServerCommand(c, type)
    PROVE  InvP
<1>1. Typed /\ ClientInv(client, remote, toClient, toServer)
  BY InvIsClientInv
<1>2. /\ client' = Added(client, c, type) /\ remote' = remote /\ toClient' = toClient
      /\ gamestates' = gamestates /\ toServer' = toServer
  BY DEF AddServerCommand, netVars
<1>3. remote \in Remote /\ toClient \in Seq(MessageSet) /\ toServer \in Seq(AckSet)
  BY <1>1 DEF Typed
<1>4. ClientInv(Added(client, c, type), remote, toClient, toServer)
  BY <1>1, <1>3, AddedInv
<1>5. ClientTyped(client')
  BY <1>2, <1>4 DEF ClientInv
<1>6. ClientInv(client', remote', toClient', toServer')
  BY <1>2, <1>4
<1> QED
  BY <1>1, <1>2, <1>5, <1>6 DEF InvP, Typed

LEMMA DropStep ==
    ASSUME Inv, DropClient \/ DropSilently \/ SendOverflowed
    PROVE  InvP /\ ~Connected(client')
<1>1. /\ Typed /\ ClientInv(client, remote, toClient, toServer)
      /\ ClientTyped(client) /\ client.reliableSent <= client.reliableSequence
  BY InvIsClientInv DEF ClientInv
<1>2. /\ remote' = remote /\ toClient' = toClient
      /\ gamestates' = gamestates /\ toServer' = toServer
  BY DEF DropClient, DropSilently, SendOverflowed, netVars
<1>3. CASE DropClient
  <2>1. Connected(client) /\ client' = Dropped(client)
    BY <1>3 DEF DropClient
  <2>2. /\ ClientInv(Dropped(client), remote, toClient, toServer)
        /\ ~Connected(Dropped(client))
    BY <1>1, <2>1, DroppedInv
  <2>3. ClientInv(client', remote', toClient', toServer') /\ ~Connected(client')
    BY <1>2, <2>1, <2>2
  <2> QED
    BY <1>1, <1>2, <2>3 DEF InvP, Typed, ClientInv
<1>4. CASE DropSilently
  <2>1. client' = [client EXCEPT !.state = "CS_ZOMBIE"]
    BY <1>4 DEF DropSilently
  <2>2. /\ [client EXCEPT !.state = "CS_ZOMBIE"] =
             Restate(client, "CS_ZOMBIE", client.gamestateSent, client.level,
                     client.gamestates)
        /\ client.gamestateSent \in BOOLEAN /\ client.level \in Nat
        /\ client.gamestates \in Nat
    BY <1>1, RestatedForms, ClientFacts
  <2> DEFINE sent == client.gamestateSent
             level == client.level
             count == client.gamestates
  <2>3. client' = Restate(client, "CS_ZOMBIE", sent, level, count)
    BY <2>1, <2>2
  <2>4. sent \in BOOLEAN /\ level \in Nat /\ count \in Nat /\ "CS_ZOMBIE" \in State
    BY <2>2 DEF State
  <2> HIDE DEF sent, level, count
  <2>5. ClientInv(Restate(client, "CS_ZOMBIE", sent, level, count),
                  remote, toClient, toServer)
    BY <1>1, <2>4, Restated
  <2>6. ClientInv(client', remote', toClient', toServer')
    BY <1>2, <2>3, <2>5
  <2>7. client'.state = "CS_ZOMBIE"
    BY <1>1, <2>1, ClientFacts DEF Client
  <2> QED
    BY <1>1, <1>2, <2>6, <2>7 DEF InvP, Typed, ClientInv, Connected
<1>5. CASE SendOverflowed
  <2> DEFINE n == AllSent(client)
  <2>1. client' = Dropped(n) /\ client.state \in {"CS_CONNECTED", "CS_PRIMED"}
    BY <1>5 DEF SendOverflowed
  <2>2. /\ ClientTyped(n) /\ n.reliableSent = client.reliableSequence
        /\ n.reliableSequence = client.reliableSequence /\ n.state = client.state
        /\ client.reliableSequence \in Nat
    BY <1>1, AllSentFields, ClientFacts
  <2> HIDE DEF n
  <2>3. Connected(n) /\ n.reliableSent <= n.reliableSequence
    BY <2>1, <2>2 DEF Connected
  <2>4. ClientInv(Dropped(n), remote, toClient, toServer) /\ ~Connected(Dropped(n))
    BY <2>2, <2>3, DroppedInv
  <2>5. ClientInv(client', remote', toClient', toServer') /\ ~Connected(client')
    BY <1>2, <2>1, <2>4
  <2> QED
    BY <1>1, <1>2, <2>5 DEF InvP, Typed, ClientInv
<1> QED
  BY <1>3, <1>4, <1>5

LEMMA SendSnapshotStep ==
    ASSUME Inv, SendSnapshot
    PROVE  InvP
<1>1. Typed /\ ClientInv(client, remote, toClient, toServer)
  BY InvIsClientInv
<1>2. /\ client' = Transmitted(client) /\ remote' = remote
      /\ toClient' = Append(toClient, Message(client))
      /\ gamestates' = gamestates /\ toServer' = toServer
  BY DEF SendSnapshot
<1>3. remote \in Remote /\ toClient \in Seq(MessageSet) /\ toServer \in Seq(AckSet)
  BY <1>1 DEF Typed
<1>4. /\ ClientInv(Transmitted(client), remote, Append(toClient, Message(client)), toServer)
      /\ Append(toClient, Message(client)) \in Seq(MessageSet)
  BY <1>1, <1>3, MessageSentInv
<1>5. ClientInv(client', remote', toClient', toServer') /\ toClient' \in Seq(MessageSet)
  BY <1>2, <1>4
<1> QED
  BY <1>1, <1>2, <1>5 DEF InvP, Typed, ClientInv

LEMMA SendRecoveredStep ==
    ASSUME Inv, SendRecovered
    PROVE  InvP
<1>1. /\ Typed /\ ClientInv(client, remote, toClient, toServer)
      /\ client.reliableAcknowledge \in Nat /\ client.reliableSequence \in Nat
  BY InvIsClientInv, ClientFacts DEF ClientInv
<1>2. PICK last \in client.reliableAcknowledge..client.reliableSequence :
         toClient' = Append(toClient, Packet(client, last, 0))
  BY DEF SendRecovered
<1>3. /\ client' = Transmitted(client) /\ remote' = remote
      /\ gamestates' = gamestates /\ toServer' = toServer
  BY DEF SendRecovered
<1>4. remote \in Remote /\ toClient \in Seq(MessageSet) /\ toServer \in Seq(AckSet)
  BY <1>1 DEF Typed
<1>5. /\ last \in Nat /\ client.reliableAcknowledge <= last
      /\ last <= client.reliableSequence
  BY <1>1
<1>6. /\ ClientInv(Transmitted(client), remote, Append(toClient, Packet(client, last, 0)),
                   toServer)
      /\ Append(toClient, Packet(client, last, 0)) \in Seq(MessageSet)
  BY <1>1, <1>4, <1>5, SentInv
<1>7. ClientInv(client', remote', toClient', toServer') /\ toClient' \in Seq(MessageSet)
  BY <1>2, <1>3, <1>6
<1> QED
  BY <1>1, <1>3, <1>7 DEF InvP, Typed, ClientInv

LEMMA SpawnServerStep ==
    ASSUME Inv, SpawnServer
    PROVE  InvP
<1> DEFINE announced == Added(client, NewMap, 1)
           sent == IF InGame(client) THEN Transmitted(announced) ELSE client
           new == [sent EXCEPT !.state = "CS_CONNECTED", !.gamestateSent = FALSE,
                               !.level = @ + 1]
<1>1. Typed /\ ClientInv(client, remote, toClient, toServer) /\ Connected(client)
  BY InvIsClientInv DEF SpawnServer
<1>2. /\ client' = IF Connected(sent) THEN new ELSE sent
      /\ toClient' = IF InGame(client) THEN Append(toClient, Message(announced))
                                       ELSE toClient
      /\ remote' = remote /\ gamestates' = gamestates /\ toServer' = toServer
  BY DEF SpawnServer
<1>3. remote \in Remote /\ toClient \in Seq(MessageSet) /\ toServer \in Seq(AckSet)
  BY <1>1 DEF Typed
<1> HIDE DEF new
<1>4. ClientInv(sent, remote, toClient', toServer) /\ toClient' \in Seq(MessageSet)
  <2>1. CASE InGame(client)
    <3>1. sent = Transmitted(announced) /\ toClient' = Append(toClient, Message(announced))
      BY <1>2, <2>1
    <3>2. ClientInv(announced, remote, toClient, toServer)
      BY <1>1, <1>3, CommandAssumption, AddedInv
    <3> HIDE DEF announced, sent
    <3>3. /\ ClientInv(Transmitted(announced), remote,
                       Append(toClient, Message(announced)), toServer)
          /\ Append(toClient, Message(announced)) \in Seq(MessageSet)
      BY <1>3, <3>2, MessageSentInv
    <3> QED
      BY <3>1, <3>3
  <2>2. CASE ~InGame(client)
    <3>1. sent = client /\ toClient' = toClient
      BY <1>2, <2>2
    <3> QED
      BY <1>1, <1>3, <3>1
  <2> QED
    BY <2>1, <2>2
<1> HIDE DEF sent
<1>5. CASE Connected(sent)
  <2>1. ClientTyped(sent)
    BY <1>4 DEF ClientInv
  <2> DEFINE level == sent.level + 1
             count == sent.gamestates
  <2>2. new = Restate(sent, "CS_CONNECTED", FALSE, level, count)
    BY <2>1, RestatedForms DEF new
  <2>3. level \in Nat /\ count \in Nat /\ "CS_CONNECTED" \in State
    BY <2>1, ClientFacts DEF State
  <2> HIDE DEF level, count
  <2>4. ClientInv(Restate(sent, "CS_CONNECTED", FALSE, level, count),
                  remote, toClient', toServer)
    BY <1>4, <1>5, <2>1, <2>3, Restated
  <2>5. ClientInv(client', remote', toClient', toServer')
    BY <1>2, <1>5, <2>2, <2>4
  <2> QED
    BY <1>1, <1>2, <1>4, <2>5 DEF InvP, Typed, ClientInv
<1>6. CASE ~Connected(sent)
  <2>1. ClientInv(client', remote', toClient', toServer')
    BY <1>2, <1>4, <1>6
  <2> QED
    BY <1>1, <1>2, <1>4, <2>1 DEF InvP, Typed, ClientInv
<1> QED
  BY <1>5, <1>6

LEMMA SendGamestateStep ==
    ASSUME Typed, NEW cl, NEW ts \in Seq(AckSet), ClientInv(cl, remote, toClient, ts),
           Connected(cl), SendGamestate(cl), remote' = remote
    PROVE  /\ ClientInv(client', remote', toClient', ts)
           /\ toClient' \in Seq(MessageSet) /\ gamestates' \in Seq(GamestateSet)
<1> DEFINE primed == [cl EXCEPT !.state = "CS_PRIMED"]
           sent == Transmitted(primed)
<1>1. /\ client' = [sent EXCEPT !.gamestateSent = TRUE, !.gamestates = @ + 1]
      /\ toClient' = Append(toClient, Message(primed))
      /\ gamestates' = IF Connected(sent)
                       THEN Append(gamestates, [sequence |-> sent.reliableSequence,
                                                level |-> sent.level])
                       ELSE gamestates
  BY DEF SendGamestate
<1>2. /\ remote \in Remote /\ toClient \in Seq(MessageSet)
      /\ gamestates \in Seq(GamestateSet) /\ ClientTyped(cl)
  BY DEF Typed, ClientInv
<1>3. ClientInv(primed, remote, toClient, ts)
  <2> DEFINE g == cl.gamestateSent
             level == cl.level
             count == cl.gamestates
  <2>1. primed = Restate(cl, "CS_PRIMED", g, level, count)
    BY <1>2, RestatedForms
  <2>2. g \in BOOLEAN /\ level \in Nat /\ count \in Nat /\ "CS_PRIMED" \in State
    BY <1>2, ClientFacts DEF State
  <2> HIDE DEF g, level, count, primed
  <2>3. ClientInv(Restate(cl, "CS_PRIMED", g, level, count), remote, toClient, ts)
    BY <1>2, <2>2, Restated
  <2> QED
    BY <2>1, <2>3
<1> HIDE DEF primed
<1>4. /\ ClientInv(sent, remote, Append(toClient, Message(primed)), ts)
      /\ Append(toClient, Message(primed)) \in Seq(MessageSet)
  BY <1>2, <1>3, MessageSentInv
<1> HIDE DEF sent
<1>5. ClientTyped(sent)
  BY <1>4 DEF ClientInv
<1>6. ClientInv(client', remote', toClient', ts)
  <2> DEFINE state == sent.state
             level == sent.level
             count == sent.gamestates + 1
  <2>1. client' = Restate(sent, state, TRUE, level, count)
    BY <1>1, <1>5, RestatedForms
  <2>2. level \in Nat /\ count \in Nat /\ state \in State
    BY <1>5, ClientFacts
  <2>3. state # "CS_ZOMBIE" => Connected(sent)
    BY DEF Connected
  <2> HIDE DEF state, level, count
  <2>4. ClientInv(sent, remote, toClient', ts)
    BY <1>1, <1>4
  <2>5. ClientInv(Restate(sent, state, TRUE, level, count), remote, toClient', ts)
    BY <1>5, <2>2, <2>3, <2>4, Restated
  <2> QED
    BY <2>1, <2>5
<1>7. gamestates' \in Seq(GamestateSet)
  <2> DEFINE g == [sequence |-> sent.reliableSequence, level |-> sent.level]
  <2>1. g \in GamestateSet
    BY <1>5, ClientFacts DEF GamestateSet
  <2> HIDE DEF g
  <2>2. Append(gamestates, g) \in Seq(GamestateSet)
    BY <1>2, <2>1, AppendProperties
  <2>3. gamestates' = Append(gamestates, g) \/ gamestates' = gamestates
    BY <1>1 DEF g
  <2> QED
    BY <1>2, <2>2, <2>3
<1> QED
  BY <1>1, <1>4, <1>6, <1>7

LEMMA PacketEventStep ==
    ASSUME Inv, PacketEvent
    PROVE  InvP
<1> DEFINE p == Head(toServer)
           cl == [client EXCEPT !.reliableAcknowledge = p.acknowledge]
           ts == Tail(toServer)
<1>1. /\ Typed /\ ClientInv(client, remote, toClient, toServer)
      /\ toServer # << >> /\ toServer' = ts /\ remote' = remote
  BY InvIsClientInv DEF PacketEvent
<1>2. /\ \/ /\ OutOfRange(cl)
            /\ client' = [client EXCEPT
                  !.reliableAcknowledge = client.reliableSequence, !.discarded = TRUE]
            /\ UNCHANGED <<toClient, gamestates>>
         \/ /\ ~OutOfRange(cl)
            /\ ~Connected(cl)
            /\ client' = cl
            /\ UNCHANGED <<toClient, gamestates>>
         \/ /\ ~OutOfRange(cl)
            /\ Connected(cl)
            /\ ExecuteMove(cl) \/ ExecuteStale(cl)
  BY DEF PacketEvent
<1>3. /\ remote \in Remote /\ toClient \in Seq(MessageSet) /\ toServer \in Seq(AckSet)
      /\ gamestates \in Seq(GamestateSet) /\ client \in Client /\ ClientTyped(client)
      /\ client.reliableSequence \in Nat /\ client.reliableSent <= client.reliableSequence
  BY <1>1, ClientFacts DEF Typed, ClientInv
<1>4. ts \in Seq(AckSet) /\ p = toServer[1]
  BY <1>1, <1>3, TailTyped
<1>5. ASSUME ClientInv(client', remote', toClient', ts),
             toClient' \in Seq(MessageSet), gamestates' \in Seq(GamestateSet)
      PROVE  InvP
  BY <1>1, <1>3, <1>4, <1>5 DEF InvP, Typed, ClientInv
<1>6. CASE /\ client' = [client EXCEPT
                !.reliableAcknowledge = client.reliableSequence, !.discarded = TRUE]
           /\ UNCHANGED <<toClient, gamestates>>
  <2> DEFINE q == client.reliableSequence
             n == [client EXCEPT !.reliableAcknowledge = q, !.discarded = TRUE]
  <2>1. client' = n /\ toClient' = toClient /\ gamestates' = gamestates
    BY <1>6
  <2>2. /\ n \in Client /\ n.reliableAcknowledge = q /\ n.discarded = TRUE /\ n.discarded
        /\ n.reliableSequence = q /\ n.reliableSent = client.reliableSent
        /\ n.reliableCommands = client.reliableCommands /\ n.added = client.added
    BY <1>3 DEF Client
  <2> HIDE DEF n
  <2>3. ClientTyped(n) /\ n.reliableSent <= n.reliableSequence
    BY <1>3, <2>2 DEF ClientTyped
  <2>4. Pending(n) <= Capacity
    BY <1>3, <2>2, CapacityAssumption DEF Pending
  <2>5. ~Calm(n, remote)
    BY <2>2 DEF Calm
  <2>6. ClientInv(n, remote, toClient, ts)
    BY <2>3, <2>4, <2>5 DEF ClientInv
  <2>7. ClientInv(client', remote', toClient', ts)
    BY <1>1, <2>1, <2>6
  <2> QED
    BY <1>3, <1>5, <2>1, <2>7
<1>7. ASSUME ~OutOfRange(cl)
      PROVE  ClientInv(cl, remote, toClient, ts)
  <2>1. cl = [client EXCEPT !.reliableAcknowledge = toServer[1].acknowledge]
    BY <1>4
  <2> HIDE DEF cl
  <2> QED
    BY <1>1, <1>3, <1>7, <2>1, AckedInv
<1> HIDE DEF cl
<1>8. CASE ~OutOfRange(cl) /\ client' = cl /\ UNCHANGED <<toClient, gamestates>>
  <2>1. ClientInv(client', remote', toClient', ts)
    BY <1>1, <1>7, <1>8
  <2> QED
    BY <1>3, <1>5, <1>8, <2>1
<1>9. CASE /\ ~OutOfRange(cl) /\ Connected(cl)
           /\ client' = [cl EXCEPT !.state = "CS_ACTIVE"]
           /\ UNCHANGED <<toClient, gamestates>>
  <2> DEFINE g == cl.gamestateSent
             level == cl.level
             count == cl.gamestates
  <2>1. ClientInv(cl, remote, toClient, ts) /\ ClientTyped(cl)
    BY <1>7, <1>9 DEF ClientInv
  <2>2. client' = Restate(cl, "CS_ACTIVE", g, level, count)
    BY <1>9, <2>1, RestatedForms
  <2>3. g \in BOOLEAN /\ level \in Nat /\ count \in Nat /\ "CS_ACTIVE" \in State
    BY <2>1, ClientFacts DEF State
  <2> HIDE DEF g, level, count
  <2>4. ClientInv(Restate(cl, "CS_ACTIVE", g, level, count), remote, toClient, ts)
    BY <1>9, <2>1, <2>3, Restated
  <2>5. ClientInv(client', remote', toClient', ts)
    BY <1>1, <1>9, <2>2, <2>4
  <2> QED
    BY <1>3, <1>5, <1>9, <2>5
<1>10. CASE ~OutOfRange(cl) /\ Connected(cl) /\ SendGamestate(cl)
  <2>1. ClientInv(cl, remote, toClient, ts)
    BY <1>7, <1>10
  <2>2. /\ ClientInv(client', remote', toClient', ts)
        /\ toClient' \in Seq(MessageSet) /\ gamestates' \in Seq(GamestateSet)
    BY <1>1, <1>4, <1>10, <2>1, SendGamestateStep
  <2> QED
    BY <1>5, <2>2
<1> QED
  BY <1>2, <1>6, <1>8, <1>9, <1>10 DEF ExecuteMove, ExecuteStale

LEMMA SubSeqFrom ==
    ASSUME NEW S, NEW t \in Seq(S), NEW k \in Nat
    PROVE  /\ SubSeq(t, k + 1, Len(t)) \in Seq(S)
           /\ k <= Len(t) => Len(SubSeq(t, k + 1, Len(t))) = Len(t) - k
           /\ k >= Len(t) => Len(SubSeq(t, k + 1, Len(t))) = 0
           /\ \A j \in 1..(Len(t) - k) : SubSeq(t, k + 1, Len(t))[j] = t[k + j]
<1>1. Len(t) \in Nat
  BY LenProperties
<1>2. \A i \in (k + 1)..Len(t) : t[i] \in S
  <2>1. \A i \in (k + 1)..Len(t) : i \in 1..Len(t)
    BY <1>1
  <2> QED
    BY <2>1, ElementOfSeq
<1> QED
  BY <1>1, <1>2, SubSeqProperties

\* The client executes what it did not know and takes the snapshot
LEMMA RemoteMessageStep ==
    ASSUME Inv, RemoteMessage
    PROVE  InvP
<1> DEFINE m == Head(toClient)
           tc == Tail(toClient)
           scs == remote.serverCommandSequence
           len == Len(m.ids)
           last == m.first + len - 1
           old == IF m.first >= scs + 1 THEN 0 ELSE (scs + 1) - m.first
           more == SubSeq(m.ids, old + 1, len)
           ex == remote.executed \o more
           sq == IF m.ids # <<>> /\ last > scs THEN last ELSE scs
           seen == IF m.given > remote.seen THEN m.given ELSE remote.seen
           r2 == [remote EXCEPT !.executed = ex, !.serverCommandSequence = sq,
                                !.seen = seen]
<1>1. /\ Typed /\ ClientInv(client, remote, toClient, toServer)
      /\ toClient # << >> /\ toClient' = tc
  BY InvIsClientInv DEF RemoteMessage
<1>2. /\ remote' = r2 /\ client' = client /\ gamestates' = gamestates
      /\ toServer' = toServer
  <2>1. remote' = [remote EXCEPT
                      !.executed = @ \o more,
                      !.serverCommandSequence = IF m.ids # <<>> /\ last > @ THEN last ELSE @,
                      !.seen = IF m.given > @ THEN m.given ELSE @]
    BY DEF RemoteMessage
  <2>3. remote \in Remote
    BY <1>1 DEF Typed
  <2>4. remote' = r2
    <3> HIDE DEF more, last, m
    <3> QED
      BY <2>1, <2>3 DEF Remote
  <2>2. client' = client /\ gamestates' = gamestates /\ toServer' = toServer
    BY DEF RemoteMessage
  <2> HIDE DEF r2
  <2> QED
    BY <2>2, <2>4
<1>3. /\ remote \in Remote /\ toClient \in Seq(MessageSet) /\ toServer \in Seq(AckSet)
      /\ ClientTyped(client)
  BY <1>1 DEF Typed
<1>4. tc \in Seq(MessageSet) /\ m = toClient[1] /\ m \in MessageSet /\ 1 \in 1..Len(toClient)
  BY <1>1, <1>3, TailTyped
<1> HIDE DEF m, tc
<1>5. /\ m.first \in Nat /\ m.first >= 1 /\ m.ids \in Seq(Nat) /\ m.given \in Nat
      /\ len \in Nat
  BY <1>4, LenProperties DEF MessageSet
<1>6. scs \in Nat /\ remote.executed \in Seq(Nat) /\ remote.seen \in Nat
  BY <1>3 DEF Remote
<1> HIDE DEF scs
<1>7. old \in Nat
  BY <1>5, <1>6
<1> HIDE DEF old
<1>8. /\ more \in Seq(Nat)
      /\ old <= len => Len(more) = len - old
      /\ old >= len => Len(more) = 0
      /\ \A j \in 1..(len - old) : more[j] = m.ids[old + j]
  BY <1>5, <1>7, SubSeqFrom
<1> HIDE DEF more
<1>9. /\ ex \in Seq(Nat) /\ Len(ex) = Len(remote.executed) + Len(more)
      /\ \A k \in 1..Len(remote.executed) : ex[k] = remote.executed[k]
      /\ \A k \in 1..Len(more) : ex[Len(remote.executed) + k] = more[k]
  BY <1>6, <1>8, ConcatProperties
<1>10. m.ids = << >> <=> len = 0
  BY <1>5, EmptySeq
<1>11. /\ sq \in Nat /\ seen \in Nat /\ last \in Int
       /\ m.first <= scs + 1 => sq = IF last > scs THEN last ELSE scs
  <2> DEFINE f == m.first
  <2>1. f \in Nat /\ len \in Nat /\ last = f + len - 1 /\ f = m.first
    BY <1>5
  <2>2. seen \in Nat
    BY <1>5, <1>6
  <2> HIDE DEF len, f, last, ex, seen
  <2>3. last \in Int /\ (f <= scs + 1 /\ last > scs => len # 0)
    BY <1>6, <2>1
  <2>4. sq = IF len # 0 /\ last > scs THEN last ELSE scs
    BY <1>10
  <2> HIDE DEF sq
  <2>5. sq \in Nat
    BY <1>6, <2>3, <2>4
  <2>6. f <= scs + 1 => sq = IF last > scs THEN last ELSE scs
    BY <2>3, <2>4
  <2> QED
    BY <2>1, <2>2, <2>3, <2>5, <2>6
<1> HIDE DEF ex, sq, seen
<1>12. /\ r2 \in Remote /\ r2.executed = ex /\ r2.serverCommandSequence = sq
       /\ r2.seen = seen /\ r2.raced = remote.raced
  BY <1>3, <1>9, <1>11 DEF Remote
<1> HIDE DEF r2
<1>13. ASSUME Calm(client, r2)
       PROVE  InOrder(client, r2, tc, toServer)
  <2> DEFINE a == client.reliableAcknowledge
             s == client.reliableSent
             q == client.reliableSequence
             ring == client.reliableCommands
             added == client.added
             n == sq - scs
  <2>1. Orderly(a, s, q, ring, added, remote, toClient, toServer)
    BY <1>1, <1>12, <1>13 DEF ClientInv, Calm, InOrder
  <2>2. a \in Nat /\ s \in Nat /\ q \in Nat /\ ring \in Rings /\ added \in History
        /\ Len(added) \in Nat
    BY <1>3, ClientFacts
  <2> HIDE DEF a, s, q, ring, added
  <2>3. MessageOK(m, a, s, ring, added, remote)
    BY <1>4, <2>1 DEF Orderly
  <2>4. a <= scs /\ scs <= s
    BY <2>1 DEF Orderly, RemoteOK, scs
  <2>5. /\ m.first - 1 <= a /\ last <= s /\ m.given <= Len(added)
        /\ \A k \in 1..len : m.first + k - 1 > scs => m.ids[k] = ring[Slot(m.first + k - 1)]
        /\ \A id \in 1..m.given : Needed(added, id) =>
              \/ ExecutedBy(remote, id)
              \/ \E k \in 1..len : m.first + k - 1 > scs /\ m.ids[k] = id
    BY <2>3 DEF MessageOK, scs
  <2>13. m.first <= scs + 1 /\ sq = IF last > scs THEN last ELSE scs
    <3>1. m.first <= scs + 1
      BY <1>5, <1>6, <2>2, <2>4, <2>5
    <3> QED
      BY <1>11, <3>1
  <2> HIDE DEF len
  <2>6. old = scs + 1 - m.first
    <3> DEFINE f == m.first
    <3>1. f \in Nat /\ f <= scs + 1 /\ old = IF f >= scs + 1 THEN 0 ELSE (scs + 1) - f
      BY <1>5, <2>13 DEF old
    <3> HIDE DEF f, last
    <3>2. old = scs + 1 - f
      BY <1>6, <3>1
    <3> QED
      BY <3>2 DEF f
  <2>7. n \in Nat /\ Len(more) = n /\ sq <= s /\ n = (IF last > scs THEN last - scs ELSE 0)
    <3> DEFINE f == m.first
    <3>1. f \in Nat /\ last = f + len - 1 /\ old = scs + 1 - f /\ len \in Nat
      BY <1>5, <2>6
    <3>2. last <= s
      BY <2>5
    <3> HIDE DEF f, last
    <3>3. CASE last > scs
      <4>1. old <= len /\ sq = last /\ n = last - scs /\ n = len - old /\ n \in Nat
        BY <1>6, <1>7, <2>13, <3>1, <3>3
      <4> QED
        BY <1>8, <3>2, <3>3, <4>1 DEF len
    <3>4. CASE ~(last > scs)
      <4>1. old >= len /\ sq = scs /\ n = 0
        BY <1>6, <1>7, <2>13, <3>1, <3>4
      <4>2. sq <= s /\ n \in Nat
        BY <2>4, <4>1
      <4>3. Len(more) = n
        BY <1>8, <4>1 DEF len
      <4> QED
        BY <3>4, <4>1, <4>2, <4>3
    <3> QED
      BY <3>3, <3>4
  <2>8. ASSUME NEW k \in 1..n
        PROVE  more[k] = ring[Slot(scs + k)]
    <3> DEFINE f == m.first
               l == old + k
    <3>1. f \in Nat /\ last = f + len - 1 /\ old = scs + 1 - f /\ len \in Nat
      BY <1>5, <2>6
    <3> HIDE DEF f, last
    <3>2. last > scs /\ n = last - scs
      BY <2>7
    <3> HIDE DEF n
    <3>3. /\ k \in 1..(len - old) /\ l \in 1..len /\ f + l - 1 = scs + k
          /\ f + l - 1 > scs
      BY <1>6, <1>7, <2>7, <3>1, <3>2
    <3>4. more[k] = m.ids[l]
      BY <1>8, <3>3 DEF len
    <3> HIDE DEF l
    <3>5. m.ids[l] = ring[Slot(m.first + l - 1)]
      BY <2>5, <3>3 DEF f
    <3> QED
      BY <3>3, <3>4, <3>5 DEF f
  <2>9. Executing(remote, r2, n, ring)
    <3>1. r2.serverCommandSequence = remote.serverCommandSequence + n
      BY <1>6, <1>11, <1>12 DEF scs
    <3>2. Len(r2.executed) = Len(remote.executed) + n
      BY <1>9, <1>12, <2>7
    <3>3. \A k \in 1..Len(remote.executed) : r2.executed[k] = remote.executed[k]
      BY <1>9, <1>12
    <3>4. ASSUME NEW k \in 1..n
          PROVE  r2.executed[Len(remote.executed) + k] =
                    ring[Slot(remote.serverCommandSequence + k)]
      <4>1. ex[Len(remote.executed) + k] = more[k]
        BY <1>9, <2>7
      <4> QED
        BY <1>12, <2>8, <4>1 DEF scs
    <3> QED
      BY <3>1, <3>2, <3>3, <3>4 DEF Executing
  <2>10. SeenOK(added, r2)
    <3>1. SeenOK(added, remote)
      BY <2>1 DEF Orderly
    <3>2. \A id : ExecutedBy(remote, id) => ExecutedBy(r2, id)
      BY <1>3, <1>12, <2>7, <2>9, ExecutingMore
    <3>3. seen <= Len(added)
      BY <2>5, <3>1 DEF seen, SeenOK
    <3>4. ASSUME NEW id \in 1..seen, Needed(added, id)
          PROVE  ExecutedBy(r2, id)
      <4>1. CASE seen = remote.seen
        BY <3>1, <3>2, <3>4, <4>1 DEF SeenOK
      <4>2. CASE seen = m.given
        <5>1. CASE ExecutedBy(remote, id)
          BY <3>2, <5>1
        <5>2. ASSUME NEW k \in 1..len, m.first + k - 1 > scs, m.ids[k] = id
              PROVE  ExecutedBy(r2, id)
          <6> DEFINE i == m.first + k - 1
          <6>1. ring[Slot(i)] = id
            BY <2>5, <5>2
          <6>2. i \in (scs + 1)..sq
            <7> DEFINE f == m.first
            <7>1. f \in Nat /\ len \in Nat /\ last = f + len - 1 /\ i = f + k - 1 /\ i > scs
              BY <1>5, <5>2
            <7> HIDE DEF f, i, last
            <7> QED
              BY <1>6, <2>13, <7>1
          <6> HIDE DEF i
          <6> QED
            BY <1>3, <1>12, <2>7, <2>9, <6>1, <6>2, ExecutingMore DEF scs
        <5> QED
          BY <2>5, <3>4, <4>2, <5>1, <5>2
      <4> QED
        BY <4>1, <4>2 DEF seen
    <3> QED
      BY <1>12, <3>3, <3>4 DEF SeenOK
  <2>11. Orderly(a, s, q, ring, added, r2, toClient, toServer)
    <3>1. r2.serverCommandSequence <= s
      BY <1>12, <2>7
    <3> HIDE DEF n
    <3> QED
      BY <1>3, <1>12, <2>1, <2>2, <2>7, <2>9, <2>10, <3>1, ExecutedOrderly
  <2>12. Orderly(a, s, q, ring, added, r2, tc, toServer)
    BY <1>1, <1>3, <2>11, ReceivedOrderly DEF tc
  <2> QED
    BY <2>12 DEF InOrder, a, s, q, ring, added
<1>14. ClientInv(client, r2, tc, toServer)
  BY <1>1, <1>13 DEF ClientInv
<1>15. ClientInv(client', remote', toClient', toServer')
  BY <1>1, <1>2, <1>14
<1> QED
  BY <1>1, <1>2, <1>4, <1>12, <1>15 DEF InvP, Typed

LEMMA RemoteGamestateStep ==
    ASSUME Inv, RemoteGamestate
    PROVE  InvP
<1> DEFINE g == Head(gamestates)
           raced == remote.raced \/ g.sequence # remote.serverCommandSequence
           r2 == [remote EXCEPT !.serverCommandSequence = g.sequence,
                                !.level = g.level, !.raced = raced]
<1>1. /\ Typed /\ ClientInv(client, remote, toClient, toServer)
      /\ gamestates # << >> /\ gamestates' = Tail(gamestates)
  BY InvIsClientInv DEF RemoteGamestate
<1>2. /\ remote \in Remote /\ toClient \in Seq(MessageSet) /\ toServer \in Seq(AckSet)
      /\ gamestates \in Seq(GamestateSet) /\ ClientTyped(client)
  BY <1>1 DEF Typed
<1>3. client' = client /\ toClient' = toClient /\ toServer' = toServer
  BY DEF RemoteGamestate
<1>4. remote' = [remote EXCEPT
                   !.serverCommandSequence = g.sequence, !.level = g.level,
                   !.raced = @ \/ g.sequence # remote.serverCommandSequence]
  BY DEF RemoteGamestate
<1>5. remote' = r2
  <2> HIDE DEF g
  <2> QED
    BY <1>2, <1>4 DEF Remote
<1>6. Tail(gamestates) \in Seq(GamestateSet) /\ g \in GamestateSet
  BY <1>1, <1>2, TailTyped
<1> HIDE DEF g
<1>7. g.sequence \in Nat /\ g.level \in Nat /\ raced \in BOOLEAN
  BY <1>6 DEF GamestateSet
<1>8. (~raced => g.sequence = remote.serverCommandSequence /\ ~remote.raced)
  OBVIOUS
<1> HIDE DEF raced
<1>9. /\ r2 \in Remote /\ r2.serverCommandSequence = g.sequence
      /\ r2.executed = remote.executed /\ r2.seen = remote.seen
      /\ r2.raced = raced
  BY <1>2, <1>7 DEF Remote
<1> HIDE DEF r2
<1>10. ASSUME Calm(client, r2)
       PROVE  InOrder(client, r2, toClient, toServer)
  <2>1. r2.serverCommandSequence = remote.serverCommandSequence /\ Calm(client, remote)
    BY <1>8, <1>9, <1>10 DEF Calm
  <2>2. InOrder(client, remote, toClient, toServer)
    BY <1>1, <2>1 DEF ClientInv
  <2> QED
    BY <1>9, <2>1, <2>2
       DEF InOrder, Orderly, RemoteOK, Complete, SeenOK, MessageOK, AckOK, ExecutedBy
<1>11. ClientInv(client', remote', toClient', toServer')
  BY <1>1, <1>3, <1>5, <1>10 DEF ClientInv
<1> QED
  BY <1>1, <1>2, <1>3, <1>5, <1>6, <1>9, <1>11 DEF InvP, Typed

LEMMA RemoteSendStep ==
    ASSUME Inv, RemoteSend
    PROVE  InvP
<1> DEFINE p == [acknowledge |-> remote.serverCommandSequence,
                 key |-> IF remote.executed = <<>> THEN 0
                         ELSE remote.executed[Len(remote.executed)],
                 level |-> remote.level]
<1>1. /\ Typed /\ ClientInv(client, remote, toClient, toServer)
      /\ client' = client /\ remote' = remote /\ toClient' = toClient
      /\ gamestates' = gamestates
  BY InvIsClientInv DEF RemoteSend
<1>2. toServer' = Append(toServer, p)
  BY DEF RemoteSend
<1>3. /\ remote \in Remote /\ toClient \in Seq(MessageSet) /\ toServer \in Seq(AckSet)
      /\ ClientTyped(client)
  BY <1>1 DEF Typed
<1>4. /\ p.acknowledge = remote.serverCommandSequence
      /\ p.key = LastOf(remote.executed) /\ p \in AckSet
  <2>1. LastOf(remote.executed) \in Nat
    <3>1. remote.executed \in Seq(Nat)
      BY <1>3 DEF Remote
    <3>2. CASE remote.executed = << >>
      BY <3>2 DEF LastOf
    <3>3. CASE remote.executed # << >>
      <4>1. Len(remote.executed) \in 1..Len(remote.executed)
        BY <3>1, <3>3, EmptySeq, LenProperties
      <4>2. remote.executed[Len(remote.executed)] \in Nat
        BY <3>1, <4>1, ElementOfSeq
      <4> QED
        BY <3>3, <4>2 DEF LastOf
    <3> QED
      BY <3>2, <3>3
  <2>2. p = [acknowledge |-> remote.serverCommandSequence,
             key |-> LastOf(remote.executed), level |-> remote.level]
    BY DEF LastOf
  <2>3. remote.serverCommandSequence \in Nat /\ remote.level \in Nat
    BY <1>3 DEF Remote
  <2> HIDE DEF p
  <2> QED
    BY <2>1, <2>2, <2>3 DEF AckSet
<1> HIDE DEF p
<1>5. Append(toServer, p) \in Seq(AckSet)
  BY <1>3, <1>4, AppendProperties
<1>6. ASSUME Calm(client, remote)
      PROVE  InOrder(client, remote, toClient, Append(toServer, p))
  <2> DEFINE a == client.reliableAcknowledge
             s == client.reliableSent
             q == client.reliableSequence
             ring == client.reliableCommands
             added == client.added
  <2>1. a \in Nat /\ s \in Nat /\ q \in Nat
    BY <1>3, ClientFacts
  <2>2. Orderly(a, s, q, ring, added, remote, toClient, toServer)
    BY <1>1, <1>6 DEF ClientInv, InOrder
  <2> HIDE DEF a, s, q, ring, added
  <2>3. Orderly(a, s, q, ring, added, remote, toClient, Append(toServer, p))
    BY <1>3, <1>4, <2>1, <2>2, AnsweredOrderly
  <2> QED
    BY <2>3 DEF InOrder, a, s, q, ring, added
<1>7. ClientInv(client, remote, toClient, Append(toServer, p))
  BY <1>1, <1>6 DEF ClientInv
<1>8. ClientInv(client', remote', toClient', toServer') /\ toServer' \in Seq(AckSet)
  BY <1>1, <1>2, <1>5, <1>7
<1> QED
  BY <1>1, <1>8 DEF InvP, Typed

LEMMA LoseStep ==
    ASSUME Inv, LoseToClient \/ LoseToServer
    PROVE  InvP
<1>1. /\ Typed /\ ClientInv(client, remote, toClient, toServer)
      /\ client' = client /\ remote' = remote /\ gamestates' = gamestates
  BY InvIsClientInv DEF LoseToClient, LoseToServer
<1>2. toClient \in Seq(MessageSet) /\ toServer \in Seq(AckSet)
  BY <1>1 DEF Typed
<1>3. CASE LoseToClient
  <2>1. toClient # << >> /\ toClient' = Tail(toClient) /\ toServer' = toServer
    BY <1>3 DEF LoseToClient
  <2>2. InOrder(client, remote, toClient, toServer) =>
           InOrder(client, remote, Tail(toClient), toServer)
    BY <1>2, <2>1, ReceivedOrderly DEF InOrder
  <2>3. Tail(toClient) \in Seq(MessageSet)
    BY <1>2, <2>1, TailTyped
  <2>4. ClientInv(client, remote, Tail(toClient), toServer)
    BY <1>1, <2>2 DEF ClientInv
  <2>5. ClientInv(client', remote', toClient', toServer')
    BY <1>1, <2>1, <2>4
  <2> QED
    BY <1>1, <2>1, <2>3, <2>5 DEF InvP, Typed
<1>4. CASE LoseToServer
  <2>1. toServer # << >> /\ toServer' = Tail(toServer) /\ toClient' = toClient
    BY <1>4 DEF LoseToServer
  <2>2. InOrder(client, remote, toClient, toServer) =>
           InOrder(client, remote, toClient, Tail(toServer))
    BY <1>2, <2>1, LostOrderly DEF InOrder
  <2>3. Tail(toServer) \in Seq(AckSet)
    BY <1>2, <2>1, TailTyped
  <2>4. ClientInv(client, remote, toClient, Tail(toServer))
    BY <1>1, <2>2 DEF ClientInv
  <2>5. ClientInv(client', remote', toClient', toServer')
    BY <1>1, <2>1, <2>4
  <2> QED
    BY <1>1, <2>1, <2>3, <2>5 DEF InvP, Typed
<1> QED
  BY <1>3, <1>4

-----------------------------------------------------------------------------
(* The theorems.                                                           *)

LEMMA NextInv ==
    ASSUME Inv, [Next]_vars
    PROVE  Inv'
<1>12. InvP => Inv'
  <2>1. Inv' <=> Typed' /\ ClientInv(client', remote', toClient', toServer')
    BY DEF Inv, Counters, ClientInv, Stays, Calm, InOrder, Undisturbed, Staying, Pending,
           Connected, Typed
  <2> QED
    BY <2>1 DEF InvP
<1> SUFFICES InvP
  BY <1>12
<1>1. ASSUME NEW g \in Given, AddServerCommand(g.command, g.type)
      PROVE  InvP
  <2>1. g.command \in Command /\ g.type \in {0, 1}
    BY CommandAssumption
  <2> QED
    BY <1>1, <2>1, AddServerCommandStep
<1>2. CASE DropClient \/ DropSilently \/ SendOverflowed
  BY <1>2, DropStep
<1>3. CASE SendSnapshot
  BY <1>3, SendSnapshotStep
<1>4. CASE SendRecovered
  BY <1>4, SendRecoveredStep
<1>5. CASE SpawnServer
  BY <1>5, SpawnServerStep
<1>6. CASE PacketEvent
  BY <1>6, PacketEventStep
<1>7. CASE RemoteMessage
  BY <1>7, RemoteMessageStep
<1>8. CASE RemoteGamestate
  BY <1>8, RemoteGamestateStep
<1>9. CASE RemoteSend
  BY <1>9, RemoteSendStep
<1>10. CASE LoseToClient \/ LoseToServer
  BY <1>10, LoseStep
<1>11. CASE UNCHANGED vars
  <2>1. /\ client' = client /\ remote' = remote /\ toClient' = toClient
        /\ gamestates' = gamestates /\ toServer' = toServer
    BY <1>11 DEF vars, netVars
  <2> QED
    <3>1. ClientInv(client', remote', toClient', toServer')
      BY <2>1, InvIsClientInv
    <3>2. Typed'
      BY <2>1, InvIsClientInv DEF Typed
    <3> QED
      BY <3>1, <3>2 DEF InvP
<1> QED
  BY <1>1, <1>2, <1>3, <1>4, <1>5, <1>6, <1>7, <1>8, <1>9, <1>10, <1>11 DEF Next

\* The inductive invariant holds in every state.
THEOREM Invariant == Spec => []Inv
<1>1. Init => Inv
  BY InitInv
<1>2. Inv /\ [Next]_vars => Inv'
  BY NextInv
<1> QED
  BY <1>1, <1>2, PTL DEF Spec

\* The state has the shape of client_t.
THEOREM TypeCorrect == Spec => []TypeOK
<1>1. Inv => TypeOK
  <2> SUFFICES ASSUME Inv
               PROVE  TypeOK
    OBVIOUS
  <2>1. ClientTyped(client) /\ remote \in Remote
    BY DEF Inv, Typed
  <2>2. client \in Client
    BY <2>1 DEF ClientTyped
  <2> QED
    BY <2>1, <2>2 DEF ClientTyped, Client, Remote, TypeOK
<1> QED
  BY <1>1, Invariant, PTL

LEMMA InvOrderly ==
    ASSUME Inv, Staying, ~client.discarded, ~remote.raced
    PROVE  Orderly(client.reliableAcknowledge, client.reliableSent,
                   client.reliableSequence, client.reliableCommands, client.added,
                   remote, toClient, toServer)
BY DEF Inv, Undisturbed

\* The client executes commands in the order they were given, each once
\* (SV_UpdateServerCommandsToClient repeats them until they are acknowledged).
THEOREM Ordered == Spec => []ExecutedInOrder
<1>1. Inv => ExecutedInOrder
  <2> SUFFICES ASSUME Inv, Staying, ~client.discarded, ~remote.raced,
                      NEW k \in 1..(Len(remote.executed) - 1)
               PROVE  remote.executed[k] < remote.executed[k + 1]
    BY DEF ExecutedInOrder
  <2>1. \A i, j \in 1..Len(remote.executed) :
           i < j => remote.executed[i] < remote.executed[j]
    BY InvOrderly DEF Orderly, RemoteOK
  <2>2. Len(remote.executed) \in Nat
    BY LenProperties DEF Inv, Typed, Remote
  <2>3. k \in 1..Len(remote.executed) /\ k + 1 \in 1..Len(remote.executed) /\ k < k + 1
    BY <2>2
  <2> QED
    BY <2>1, <2>3
<1> QED
  BY <1>1, Invariant, PTL

\* What the comment of SV_SendServerCommand promises: a command that may not
\* be lost is executed before any snapshot that was taken after it.
THEOREM Guarantee == Spec => []ExecutedBeforeSnapshot
<1>1. Inv => ExecutedBeforeSnapshot
  <2> SUFFICES ASSUME Inv, Staying, ~client.discarded, ~remote.raced,
                      NEW id \in 1..remote.seen, Type(client, id) # 0, ~Superseded(id)
               PROVE  Executed(id)
    BY DEF ExecutedBeforeSnapshot, Guaranteed
  <2>1. SeenOK(client.added, remote)
    BY InvOrderly DEF Orderly
  <2>2. Needed(client.added, id)
    BY DEF Needed, TypeIn, Type, SupersededIn, Superseded
  <2> QED
    BY <2>1, <2>2 DEF SeenOK, ExecutedBy, Executed
<1> QED
  BY <1>1, Invariant, PTL

\* SV_PacketEvent checks the acknowledge before SV_Netchan_Decode takes the
\* key from the ring: when it goes on, the key is the client's.
THEOREM Keys == Spec => []DecodedWithItsKey
<1>1. Inv => DecodedWithItsKey
  <2> SUFFICES ASSUME Inv, Staying, ~client.discarded, ~remote.raced,
                      NEW k \in 1..Len(toServer),
                      ~OutOfRange([client EXCEPT
                                     !.reliableAcknowledge = toServer[k].acknowledge])
               PROVE  DecodeKey([client EXCEPT
                                   !.reliableAcknowledge = toServer[k].acknowledge],
                                toServer[k]) = toServer[k].key
    BY DEF DecodedWithItsKey
  <2> DEFINE b == toServer[k].acknowledge
             q == client.reliableSequence
             cl == [client EXCEPT !.reliableAcknowledge = b]
  <2>1. AckOK(toServer[k], client.reliableAcknowledge, q, client.reliableCommands, remote)
    BY InvOrderly DEF Orderly
  <2>2. b \in Nat
    <3>1. toServer[k] \in AckSet
      BY ElementOfSeq DEF Inv, Typed
    <3> QED
      BY <3>1 DEF AckSet
  <2>3. client \in Client /\ q \in Nat
    BY ClientFacts DEF Inv, Typed
  <2>4. ~OutOfRange(cl)
    OBVIOUS
  <2> HIDE DEF b
  <2>5. /\ cl.reliableAcknowledge = b /\ cl.reliableSequence = q
        /\ cl.reliableCommands = client.reliableCommands
    BY <2>3 DEF Client
  <2> HIDE DEF cl
  <2>6. b > q - Capacity
    BY <2>2, <2>3, <2>4, <2>5, CapacityAssumption DEF OutOfRange, Pending
  <2>7. DecodeKey(cl, toServer[k]) = toServer[k].key
    BY <2>1, <2>5, <2>6 DEF DecodeKey, At, AckOK, b
  <2> QED
    BY <2>7 DEF cl, b
<1> QED
  BY <1>1, Invariant, PTL

-----------------------------------------------------------------------------
(* What was sent is not touched as long as it may be repeated.             *)

\* Neither compacting, nor replacing, nor storing touches what was sent
LEMMA AddedAgrees ==
    ASSUME Inv, NEW c \in Command, NEW type \in {0, 1},
           Stays(Added(client, c, type)),
           NEW i \in (client.reliableAcknowledge + 1)..client.reliableSent
    PROVE  At(Added(client, c, type), i) = At(client, i)
<1> DEFINE n == Added(client, c, type)
<1>1. /\ ClientTyped(client) /\ client.reliableSent <= client.reliableSequence
      /\ Stays(client) => Pending(client) <= Capacity
      /\ ClientInv(client, remote, toClient, toServer)
  BY InvIsClientInv DEF ClientInv
<1>2. /\ client.reliableAcknowledge \in Nat /\ client.reliableSent \in Nat
      /\ client.reliableSequence \in Nat
  BY <1>1, ClientFacts
<1>3. ClientTyped(n) /\ SameClient(client, n) /\ ~n.delayDropMsg
  BY <1>1, AddedTyped DEF Stays
<1>4. Stays(client)
  BY <1>3 DEF Stays, SameClient, Connected
<1>5. Pending(client) <= Capacity /\ Pending(n) <= Capacity
  BY <1>1, <1>3, <1>4, AddedPending
<1>6. n.reliableSequence \in Nat /\ n.reliableAcknowledge = client.reliableAcknowledge
  BY <1>3, ClientFacts DEF SameClient
<1> HIDE DEF n
<1>7. /\ i \in Nat /\ i <= client.reliableSent
      /\ client.reliableAcknowledge <= client.reliableSent
      /\ i > client.reliableSequence - Capacity /\ i > n.reliableSequence - Capacity
  BY <1>2, <1>5, <1>6, CapacityAssumption DEF Pending
<1>8. n.reliableCommands[Slot(i)] = client.reliableCommands[Slot(i)]
  BY <1>1, <1>5, <1>7, AddedKeeps DEF n
<1> QED
  BY <1>8 DEF At, n

\* A message that leaves the client connected only counts all as sent
LEMMA TransmittedKeeps ==
    ASSUME NEW cl, ClientTyped(cl), cl.reliableSent <= cl.reliableSequence,
           Stays(Transmitted(cl))
    PROVE  /\ Stays(cl)
           /\ ClientTyped(Transmitted(cl))
           /\ Transmitted(cl).reliableCommands = cl.reliableCommands
           /\ Transmitted(cl).reliableAcknowledge = cl.reliableAcknowledge
<1> DEFINE n == AllSent(cl)
<1>1. /\ ClientTyped(n) /\ n.reliableSent = n.reliableSequence
      /\ n.reliableCommands = cl.reliableCommands
      /\ n.reliableAcknowledge = cl.reliableAcknowledge
      /\ n.state = cl.state /\ n.delayDropMsg = cl.delayDropMsg
      /\ n.reliableSequence \in Nat
  BY AllSentFields, ClientFacts
<1>2. Transmitted(cl) = IF cl.delayDropMsg THEN Dropped(n) ELSE n
  BY DEF Transmitted
<1> HIDE DEF n
<1>3. CASE ~cl.delayDropMsg
  <2>1. Transmitted(cl) = n
    BY <1>2, <1>3
  <2> QED
    BY <1>1, <2>1 DEF Stays, Connected
<1>4. CASE cl.delayDropMsg /\ ~Connected(n)
  BY <1>2, <1>4 DEF Dropped, Stays
<1>5. CASE cl.delayDropMsg /\ Connected(n)
  <2>1. \A r, tc, ts : ClientInv(Dropped(n), r, tc, ts) /\ ~Connected(Dropped(n))
    BY <1>1, <1>5, DroppedInv
  <2> QED
    BY <1>2, <1>5, <2>1 DEF Stays
<1> QED
  BY <1>3, <1>4, <1>5

\* It keeps the shape of a client, dropped or not
LEMMA TransmittedTyped ==
    ASSUME NEW cl, ClientTyped(cl), cl.reliableSent <= cl.reliableSequence
    PROVE  ClientTyped(Transmitted(cl))
<1> DEFINE n == AllSent(cl)
<1>1. ClientTyped(n) /\ n.reliableSent <= n.reliableSequence
  BY AllSentFields, ClientFacts
<1>2. Transmitted(cl) = IF cl.delayDropMsg THEN Dropped(n) ELSE n
  BY DEF Transmitted
<1> HIDE DEF n
<1>3. CASE ~Connected(n)
  BY <1>1, <1>2, <1>3 DEF Dropped
<1>4. CASE Connected(n)
  <2>1. \A r, tc, ts : ClientInv(Dropped(n), r, tc, ts)
    BY <1>1, <1>4, DroppedInv
  <2>2. ClientTyped(Dropped(n))
    BY <2>1 DEF ClientInv
  <2> QED
    BY <1>1, <1>2, <2>2
<1> QED
  BY <1>3, <1>4

LEMMA SpawnServerAgrees ==
    ASSUME Inv, SpawnServer, Stays(client'),
           NEW i \in (client'.reliableAcknowledge + 1)..client.reliableSent
    PROVE  At(client', i) = At(client, i)
<1> DEFINE announced == Added(client, NewMap, 1)
           sent == IF InGame(client) THEN Transmitted(announced) ELSE client
           new == [sent EXCEPT !.state = "CS_CONNECTED", !.gamestateSent = FALSE,
                               !.level = @ + 1]
<1>1. /\ Typed /\ ClientInv(client, remote, toClient, toServer) /\ ClientTyped(client)
      /\ client.reliableSent <= client.reliableSequence
      /\ remote \in Remote /\ toClient \in Seq(MessageSet) /\ toServer \in Seq(AckSet)
  BY InvIsClientInv DEF ClientInv, Typed
<1>2. client' = IF Connected(sent) THEN new ELSE sent
  BY DEF SpawnServer
<1> HIDE DEF new, sent, announced
<1>3. Connected(sent) /\ client' = new
  BY <1>2 DEF Stays
<1>4. ASSUME ClientTyped(sent)
      PROVE  /\ client'.reliableCommands = sent.reliableCommands
             /\ client'.reliableAcknowledge = sent.reliableAcknowledge
             /\ client'.delayDropMsg = sent.delayDropMsg
  <2>1. sent \in Client
    BY <1>4, ClientFacts
  <2> QED
    BY <1>3, <2>1 DEF new, Client
<1>5. CASE ~InGame(client)
  <2>1. sent = client
    BY <1>5 DEF sent
  <2>2. client'.reliableCommands = client.reliableCommands
    BY <1>1, <1>4, <2>1
  <2> QED
    BY <2>2 DEF At
<1>6. CASE InGame(client)
  <2>1. sent = Transmitted(announced)
    BY <1>6 DEF sent
  <2>2. ClientInv(announced, remote, toClient, toServer)
    BY <1>1, CommandAssumption, AddedInv DEF announced
  <2>3. ClientInv(sent, remote, Append(toClient, Message(announced)), toServer)
    BY <1>1, <2>1, <2>2, MessageSentInv
  <2>4. /\ ClientTyped(sent) /\ ClientTyped(announced) /\ SameClient(client, announced)
        /\ announced.reliableSent <= announced.reliableSequence
    BY <1>1, <2>2, <2>3, CommandAssumption, AddedTyped DEF ClientInv, announced
  <2>5. Stays(Transmitted(announced))
    BY <1>3, <1>4, <2>1, <2>4 DEF Stays
  <2>6. /\ Stays(announced) /\ sent.reliableCommands = announced.reliableCommands
        /\ sent.reliableAcknowledge = announced.reliableAcknowledge
    BY <2>1, <2>4, <2>5, TransmittedKeeps
  <2>7. i \in (client.reliableAcknowledge + 1)..client.reliableSent
    BY <1>4, <2>4, <2>6 DEF SameClient
  <2>8. At(announced, i) = At(client, i)
    BY <2>6, <2>7, CommandAssumption, AddedAgrees DEF announced
  <2> QED
    BY <1>4, <2>4, <2>6, <2>8 DEF At
<1> QED
  BY <1>5, <1>6

\* What a message of the client does to the ring: nothing
LEMMA PacketEventKeeps ==
    ASSUME Inv, PacketEvent, Stays(client')
    PROVE  client'.reliableCommands = client.reliableCommands
<1> DEFINE p == Head(toServer)
           cl == [client EXCEPT !.reliableAcknowledge = p.acknowledge]
           ts == Tail(toServer)
<1>1. /\ Typed /\ ClientInv(client, remote, toClient, toServer) /\ toServer # << >>
  BY InvIsClientInv DEF PacketEvent
<1>2. /\ remote \in Remote /\ toClient \in Seq(MessageSet) /\ toServer \in Seq(AckSet)
      /\ client \in Client
  BY <1>1, ClientFacts DEF Typed, ClientInv
<1>3. \/ client' = [client EXCEPT
             !.reliableAcknowledge = client.reliableSequence, !.discarded = TRUE]
      \/ client' = cl
      \/ client' = [cl EXCEPT !.state = "CS_ACTIVE"]
      \/ ~OutOfRange(cl) /\ SendGamestate(cl)
  BY DEF PacketEvent, ExecuteMove, ExecuteStale
<1>4. p = toServer[1]
  BY <1>1, <1>2, TailTyped
<1>5. cl.reliableCommands = client.reliableCommands
  BY <1>2 DEF Client
<1>6. CASE client' = [client EXCEPT
             !.reliableAcknowledge = client.reliableSequence, !.discarded = TRUE]
  BY <1>2, <1>6 DEF Client
<1>7. CASE client' = cl
  BY <1>5, <1>7
<1>8. CASE client' = [cl EXCEPT !.state = "CS_ACTIVE"]
  BY <1>2, <1>8 DEF Client
<1>9. CASE ~OutOfRange(cl) /\ SendGamestate(cl)
  <2> DEFINE primed == [cl EXCEPT !.state = "CS_PRIMED"]
             sent == Transmitted(primed)
  <2>1. ClientInv(cl, remote, toClient, ts)
    <3>1. cl = [client EXCEPT !.reliableAcknowledge = toServer[1].acknowledge]
      BY <1>4
    <3> HIDE DEF cl
    <3> QED
      BY <1>1, <1>2, <1>9, <3>1, AckedInv
  <2>2. client' = [sent EXCEPT !.gamestateSent = TRUE, !.gamestates = @ + 1]
    BY <1>9 DEF SendGamestate
  <2> HIDE DEF cl
  <2>3. /\ ClientTyped(cl) /\ cl \in Client /\ cl.reliableSent <= cl.reliableSequence
    BY <2>1, ClientFacts DEF ClientInv
  <2>4. /\ primed \in Client /\ primed.reliableCommands = cl.reliableCommands
        /\ primed.reliableSent = cl.reliableSent
        /\ primed.reliableSequence = cl.reliableSequence
        /\ primed.added = cl.added
    BY <2>3 DEF Client, State
  <2> HIDE DEF primed
  <2>5. ClientTyped(primed) /\ primed.reliableSent <= primed.reliableSequence
    BY <2>3, <2>4 DEF ClientTyped
  <2> HIDE DEF sent
  <2>6. ClientTyped(sent)
    BY <2>5, TransmittedTyped DEF sent
  <2>7. /\ client'.reliableCommands = sent.reliableCommands
        /\ client'.state = sent.state /\ client'.delayDropMsg = sent.delayDropMsg
    <3>1. sent \in Client
      BY <2>6, ClientFacts
    <3> QED
      BY <2>2, <3>1 DEF Client
  <2>8. Stays(Transmitted(primed))
    BY <2>7 DEF Stays, Connected, sent
  <2>9. sent.reliableCommands = primed.reliableCommands
    BY <2>5, <2>8, TransmittedKeeps DEF sent
  <2> QED
    BY <1>5, <2>4, <2>7, <2>9
<1> QED
  BY <1>3, <1>6, <1>7, <1>8, <1>9

LEMMA StepAgrees ==
    ASSUME Inv, [Next]_vars, Staying',
           NEW i \in (client'.reliableAcknowledge + 1)..client.reliableSent
    PROVE  At(client', i) = At(client, i)
<1>1. /\ ClientTyped(client) /\ client.reliableSent <= client.reliableSequence
      /\ Stays(client')
  BY InvIsClientInv DEF ClientInv, Staying, Stays
<1>2. ASSUME client'.reliableCommands = client.reliableCommands
      PROVE  At(client', i) = At(client, i)
  BY <1>2 DEF At
<1>3. ASSUME NEW g \in Given, AddServerCommand(g.command, g.type)
      PROVE  At(client', i) = At(client, i)
  <2> DEFINE c == g.command
             type == g.type
  <2>1. c \in Command /\ type \in {0, 1}
    BY CommandAssumption
  <2>2. client' = Added(client, c, type)
    BY <1>3 DEF AddServerCommand
  <2> HIDE DEF c, type
  <2>3. SameClient(client, Added(client, c, type)) /\ Stays(Added(client, c, type))
    BY <1>1, <2>1, <2>2, AddedTyped
  <2>4. i \in (client.reliableAcknowledge + 1)..client.reliableSent
    BY <2>2, <2>3 DEF SameClient
  <2>5. At(Added(client, c, type), i) = At(client, i)
    BY <2>1, <2>3, <2>4, AddedAgrees
  <2> QED
    BY <2>2, <2>5
<1>4. CASE DropClient \/ DropSilently \/ SendOverflowed
  <2>1. ~Connected(client')
    BY <1>4, DropStep
  <2> QED
    BY <1>1, <2>1 DEF Stays
<1>5. CASE SendSnapshot \/ SendRecovered
  <2>1. client' = Transmitted(client)
    BY <1>5 DEF SendSnapshot, SendRecovered
  <2>2. client'.reliableCommands = client.reliableCommands
    BY <1>1, <2>1, TransmittedKeeps
  <2> QED
    BY <1>2, <2>2
<1>6. CASE SpawnServer
  BY <1>1, <1>6, SpawnServerAgrees
<1>7. CASE PacketEvent
  BY <1>1, <1>2, <1>7, PacketEventKeeps
<1>8. CASE \/ RemoteMessage \/ RemoteGamestate \/ RemoteSend
           \/ LoseToClient \/ LoseToServer \/ UNCHANGED vars
  <2>1. client' = client
    BY <1>8 DEF RemoteMessage, RemoteGamestate, RemoteSend, LoseToClient,
                LoseToServer, vars
  <2> QED
    BY <1>2, <2>1
<1> QED
  BY <1>3, <1>4, <1>5, <1>6, <1>7, <1>8 DEF Next

\* SV_AddServerCommand compacts and replaces in the ring that the messages
\* repeat: as long as the client stays, the slots of the numbers sent and not
\* acknowledged keep their commands in every step.
THEOREM Stable == Spec => SentIsStable
<1> DEFINE Step ==
        Staying' =>
          \A i \in (client'.reliableAcknowledge + 1)..client.reliableSent :
              At(client', i) = At(client, i)
<1>1. Inv /\ [Next]_vars => [Step]_vars
  BY StepAgrees
<1>2. SentIsStable <=> [][Step]_vars
  BY DEF SentIsStable
<1> HIDE DEF Step
<1> QED
  BY <1>1, <1>2, Invariant, PTL DEF Spec

=============================================================================
