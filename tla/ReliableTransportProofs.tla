----------------------- MODULE ReliableTransportProofs -----------------------
(***************************************************************************)
(* Proofs about ReliableTransport, for every stream, every window and ring *)
(* size that satisfies WindowAssumption and every number of packets lost   *)
(* or duplicated.                                                          *)
(***************************************************************************)
EXTENDS ReliableTransport, TLAPS

-----------------------------------------------------------------------------
(* Ring arithmetic *)

\* A slot number is in the ring.
LEMMA IndexInRing ==
    ASSUME NEW len \in Nat \ {0}, NEW s \in Nat
    PROVE  Index(s, len) \in 0..(len - 1)
  BY DEF Index

\* Two fragments less than a ring apart never share a slot.
LEMMA ModInjective ==
    ASSUME NEW len \in Nat \ {0}, NEW s \in Nat, NEW t \in Nat,
           s <= t, t - s < len, s % len = t % len
    PROVE  s = t
<1> DEFINE a == s \div len
           b == t \div len
<1>1. s = len * a + (s % len) /\ t = len * b + (t % len)
  OBVIOUS
<1>2. a \in Int /\ b \in Int
  OBVIOUS
<1>3. t - s = len * (b - a)
  BY <1>1, <1>2
<1>4. len * (b - a) < len /\ len * (b - a) >= 0
  BY <1>3
<1> HIDE DEF a, b
<1>5. b - a < 1 /\ b - a >= 0
  BY <1>4, <1>2
<1> QED
  BY <1>1, <1>2, <1>5

\* The same without an order between the two.
LEMMA IndexUnique ==
    ASSUME NEW len \in Nat \ {0}, NEW s \in Nat, NEW t \in Nat,
           s - t < len, t - s < len, Index(s, len) = Index(t, len)
    PROVE  s = t
<1>1. CASE s <= t
  BY <1>1, ModInjective DEF Index
<1>2. CASE t <= s
  BY <1>2, ModInjective DEF Index
<1> QED
  BY <1>1, <1>2

\* The fragment of a range that a slot is chosen for is the one it belongs to.
LEMMA SlotOwner ==
    ASSUME NEW len \in Nat \ {0}, NEW lo \in Nat, NEW hi \in Nat,
           hi - lo <= len, NEW s \in lo..(hi - 1)
    PROVE  /\ Index(s, len) \in 0..(len - 1)
           /\ (CHOOSE t \in lo..(hi - 1) : Index(t, len) = Index(s, len)) = s
<1> DEFINE c == CHOOSE t \in lo..(hi - 1) : Index(t, len) = Index(s, len)
<1>1. c \in lo..(hi - 1) /\ Index(c, len) = Index(s, len)
  OBVIOUS
<1> HIDE DEF c
<1>2. c \in Nat /\ s \in Nat /\ c - s < len /\ s - c < len
  BY <1>1
<1>3. c = s
  BY <1>1, <1>2, IndexUnique
<1>4. Index(s, len) \in 0..(len - 1)
  BY <1>2, IndexInRing
<1> QED
  BY <1>3, <1>4 DEF c

\* Queueing writes the slots of the new fragments.
LEMMA FilledSlots ==
    ASSUME NEW len \in Nat \ {0}, NEW ring \in [0..(len - 1) -> Slot],
           NEW stream \in Seq(Data), NEW lo \in Nat, NEW hi \in Nat,
           hi <= Len(stream), hi - lo <= len
    PROVE  LET new == Filled(ring, len, stream, lo, hi)
           IN  /\ new \in [0..(len - 1) -> Slot]
               /\ \A s \in Nat :
                     lo <= s /\ s < hi
                         => /\ new[Index(s, len)].data = stream[s + 1]
                            /\ new[Index(s, len)].ack = -1
<1> DEFINE At(i) == CHOOSE s \in lo..(hi - 1) : Index(s, len) = i
           new == Filled(ring, len, stream, lo, hi)
<1>1. new = [i \in 0..(len - 1) |->
                IF \E s \in lo..(hi - 1) : Index(s, len) = i
                THEN [data |-> stream[At(i) + 1], ack |-> -1]
                ELSE ring[i]]
  BY DEF Filled
<1>2. ASSUME NEW s \in lo..(hi - 1)
      PROVE  /\ Index(s, len) \in 0..(len - 1) /\ At(Index(s, len)) = s
             /\ stream[s + 1] \in Data
  <2>1. Index(s, len) \in 0..(len - 1) /\ At(Index(s, len)) = s
    BY SlotOwner
  <2> QED
    BY <2>1
<1> HIDE DEF At, new
<1>3. new \in [0..(len - 1) -> Slot]
  <2> SUFFICES ASSUME NEW i \in 0..(len - 1)
               PROVE  (IF \E s \in lo..(hi - 1) : Index(s, len) = i
                       THEN [data |-> stream[At(i) + 1], ack |-> -1]
                       ELSE ring[i]) \in Slot
    BY <1>1
  <2>1. CASE \E s \in lo..(hi - 1) : Index(s, len) = i
    <3>1. PICK s \in lo..(hi - 1) : Index(s, len) = i
      BY <2>1
    <3>2. At(i) = s
      BY <1>2, <3>1
    <3>3. stream[At(i) + 1] \in Data
      BY <1>2, <3>2
    <3>4. [data |-> stream[At(i) + 1], ack |-> -1] \in Slot
      BY <3>3 DEF Slot
    <3> QED
      BY <2>1, <3>4
  <2>2. CASE ~ \E s \in lo..(hi - 1) : Index(s, len) = i
    BY <2>2
  <2> QED
    BY <2>1, <2>2
<1>4. ASSUME NEW s \in Nat, lo <= s, s < hi
      PROVE  /\ new[Index(s, len)].data = stream[s + 1]
             /\ new[Index(s, len)].ack = -1
  <2>1. s \in lo..(hi - 1)
    BY <1>4
  <2>2. new[Index(s, len)] = [data |-> stream[s + 1], ack |-> -1]
    BY <1>1, <1>2, <2>1
  <2> QED
    BY <2>2
<1> QED
  BY <1>3, <1>4 DEF new

\* Queueing leaves the slots of other fragments alone.
LEMMA FilledOthers ==
    ASSUME NEW len, NEW ring, NEW stream, NEW lo \in Nat, NEW hi \in Nat,
           NEW i \in 0..(len - 1),
           \A s \in lo..(hi - 1) : Index(s, len) # i
    PROVE  Filled(ring, len, stream, lo, hi)[i] = ring[i]
BY DEF Filled

\* Growing or shrinking keeps the slot of every buffered fragment.
LEMMA ResizedSlots ==
    ASSUME NEW len \in Nat \ {0}, NEW ring \in [0..(len - 1) -> Slot],
           NEW newlen \in Nat \ {0}, NEW lo \in Nat, NEW hi \in Nat,
           hi - lo <= newlen
    PROVE  LET new == Resized(ring, len, lo, hi, newlen)
           IN  /\ new \in [0..(newlen - 1) -> Slot]
               /\ \A s \in Nat :
                     lo <= s /\ s < hi => new[Index(s, newlen)] = ring[Index(s, len)]
<1> DEFINE At(i) == CHOOSE s \in lo..(hi - 1) : Index(s, newlen) = i
           new == Resized(ring, len, lo, hi, newlen)
<1>1. new = [i \in 0..(newlen - 1) |->
                IF \E s \in lo..(hi - 1) : Index(s, newlen) = i
                THEN ring[Index(At(i), len)] ELSE Unset]
  BY DEF Resized
<1>2. ASSUME NEW s \in lo..(hi - 1)
      PROVE  /\ Index(s, newlen) \in 0..(newlen - 1) /\ At(Index(s, newlen)) = s
             /\ Index(s, len) \in 0..(len - 1)
  <2>1. Index(s, newlen) \in 0..(newlen - 1) /\ At(Index(s, newlen)) = s
    BY SlotOwner
  <2>2. Index(s, len) \in 0..(len - 1)
    BY IndexInRing
  <2> QED
    BY <2>1, <2>2
<1> HIDE DEF At, new
<1>3. new \in [0..(newlen - 1) -> Slot]
  <2> SUFFICES ASSUME NEW i \in 0..(newlen - 1)
               PROVE  (IF \E s \in lo..(hi - 1) : Index(s, newlen) = i
                       THEN ring[Index(At(i), len)] ELSE Unset) \in Slot
    BY <1>1
  <2>1. CASE \E s \in lo..(hi - 1) : Index(s, newlen) = i
    <3>1. PICK s \in lo..(hi - 1) : Index(s, newlen) = i
      BY <2>1
    <3>2. Index(At(i), len) \in 0..(len - 1)
      BY <1>2, <3>1
    <3> QED
      BY <2>1, <3>2
  <2>2. CASE ~ \E s \in lo..(hi - 1) : Index(s, newlen) = i
    BY <2>2 DEF Unset, Slot
  <2> QED
    BY <2>1, <2>2
<1>4. ASSUME NEW s \in Nat, lo <= s, s < hi
      PROVE  new[Index(s, newlen)] = ring[Index(s, len)]
  <2>1. s \in lo..(hi - 1)
    BY <1>4
  <2> QED
    BY <1>1, <1>2, <2>1
<1> QED
  BY <1>3, <1>4 DEF new

\* A ring of len slots, as a name that the provers need not open.
RingOf(len) == [0..(len - 1) -> Slot]

\* The same of one fragment, with the type of the ring folded.
LEMMA ResizedAt ==
    ASSUME NEW len \in Nat \ {0}, NEW ring \in RingOf(len),
           NEW newlen \in Nat \ {0}, NEW lo \in Nat, NEW hi \in Nat,
           hi - lo <= newlen, NEW s \in Nat, lo <= s, s < hi
    PROVE  Resized(ring, len, lo, hi, newlen)[Index(s, newlen)]
               = ring[Index(s, len)]
<1> DEFINE At(i) == CHOOSE t \in lo..(hi - 1) : Index(t, newlen) = i
<1>1. Resized(ring, len, lo, hi, newlen)
          = [i \in 0..(newlen - 1) |->
                IF \E t \in lo..(hi - 1) : Index(t, newlen) = i
                THEN ring[Index(At(i), len)] ELSE Unset]
  BY DEF Resized
<1>2. s \in lo..(hi - 1)
  OBVIOUS
<1>3. Index(s, newlen) \in 0..(newlen - 1) /\ At(Index(s, newlen)) = s
  BY <1>2, SlotOwner
<1> HIDE DEF At
<1> QED
  BY <1>1, <1>2, <1>3

\* Selective acknowledges of buffered fragments mark their slots and leave
\* the other slots, and all data, as they were.
LEMMA MarkedSlots ==
    ASSUME NEW len \in Nat \ {0}, NEW ring \in [0..(len - 1) -> Slot],
           NEW selack \in SUBSET Nat
    PROVE  LET new == Marked(ring, len, selack)
           IN  /\ new \in [0..(len - 1) -> Slot]
               /\ \A i \in 0..(len - 1) :
                     /\ new[i].data = ring[i].data
                     /\ new[i].ack \in selack \/ new[i].ack = ring[i].ack
<1> DEFINE At(i) == CHOOSE s \in selack : Index(s, len) = i
           new == Marked(ring, len, selack)
<1>1. new = [i \in 0..(len - 1) |->
                IF \E s \in selack : Index(s, len) = i
                THEN [ring[i] EXCEPT !.ack = At(i)] ELSE ring[i]]
  BY DEF Marked
<1>2. \A i \in 0..(len - 1) :
         (\E s \in selack : Index(s, len) = i) => At(i) \in selack
  OBVIOUS
<1> HIDE DEF At, new
<1>3. new \in [0..(len - 1) -> Slot]
  <2> SUFFICES ASSUME NEW i \in 0..(len - 1)
               PROVE  (IF \E s \in selack : Index(s, len) = i
                       THEN [ring[i] EXCEPT !.ack = At(i)] ELSE ring[i]) \in Slot
    BY <1>1
  <2>1. CASE \E s \in selack : Index(s, len) = i
    <3>1. At(i) \in Nat
      BY <1>2, <2>1
    <3>2. [ring[i] EXCEPT !.ack = At(i)] \in Slot
      BY <3>1 DEF Slot
    <3> QED
      BY <2>1, <3>2
  <2>2. CASE ~ \E s \in selack : Index(s, len) = i
    BY <2>2
  <2> QED
    BY <2>1, <2>2
<1>4. ASSUME NEW i \in 0..(len - 1)
      PROVE  new[i].data = ring[i].data
  BY <1>1 DEF Slot
<1>5. ASSUME NEW i \in 0..(len - 1)
      PROVE  new[i].ack \in selack \/ new[i].ack = ring[i].ack
  <2>1. CASE \E s \in selack : Index(s, len) = i
    BY <1>1, <1>2, <2>1 DEF Slot
  <2>2. CASE ~ \E s \in selack : Index(s, len) = i
    BY <1>1, <2>2
  <2> QED
    BY <2>1, <2>2
<1> QED
  BY <1>3, <1>4, <1>5 DEF new

-----------------------------------------------------------------------------
(* Endpoints *)

\* There are two endpoints, each the other's peer.
LEMMA Peers ==
    \A e \in Endpoint :
        /\ Peer(e) \in Endpoint /\ Peer(e) # e /\ Peer(Peer(e)) = e
        /\ \A f \in Endpoint : f = e \/ f = Peer(e)
BY EndpointAssumption DEF Endpoint, Peer

\* What the constants are, in the form the provers take.
LEMMA Constants ==
    /\ TxWindow \in Nat \ {0} /\ RxWindow \in Nat \ {0}
    /\ BufferSize \in Nat \ {0}
    /\ RxWindow <= BufferSize /\ RxWindow <= TxWindow
    /\ \A e \in Endpoint : Stream[e] \in Seq(Data) /\ Len(Stream[e]) \in Nat
<1>1. \A e \in Endpoint : Stream[e] \in Seq(Data)
  BY DataAssumption
<1> QED
  BY <1>1, WindowAssumption

-----------------------------------------------------------------------------
(* Initial states *)

\* Before anything is queued or posted (ReliableMessageSetup) the invariant holds.
LEMMA InitInv == Init => Inv
<1> SUFFICES ASSUME Init PROVE Inv
  OBVIOUS
<1>1. TypeOK
  <2>1. Unset \in Slot
    BY DEF Unset, Slot
  <2> QED
    BY <2>1, Constants DEF Init, TypeOK, SlotsOf
<1>2. CountersOrdered
  BY Constants DEF Init, CountersOrdered
<1>3. InOrderDelivery
  BY Peers DEF Init, InOrderDelivery
<1>4. AcknowledgedIsDelivered
  BY Constants, Peers DEF Init, AcknowledgedIsDelivered
<1>5. SendBufferIntact
  BY Constants DEF Init, SendBufferIntact, Used
<1>6. ReceiveBufferIntact
  <2> SUFFICES ASSUME NEW e \in Endpoint,
                      NEW s \in rxSequence[e]..(rxSequence[e] + RxWindow - 1)
               PROVE  ~Arrived(e, s)
    BY DEF ReceiveBufferIntact
  <2>1. s \in Nat
    BY DEF Init
  <2>2. Index(s, BufferSize) \in 0..(BufferSize - 1)
    BY <2>1, Constants, IndexInRing
  <2> QED
    BY <2>1, <2>2 DEF Init, Arrived, Unset
<1>7. SkipsOnlyHeld
  BY DEF Init, SkipsOnlyHeld
<1>8. PacketsTruthful
  BY Peers DEF Init, PacketsTruthful
<1>9. NothingAhead
  BY Constants DEF Init, NothingAhead, Unset
<1> QED
  BY <1>1, <1>2, <1>3, <1>4, <1>5, <1>6, <1>7, <1>8, <1>9 DEF Inv

-----------------------------------------------------------------------------
(* What the invariant says of one endpoint, in the form the provers take. *)

\* The fields of one end's netreliablemsg_t have their types.
LEMMA Typed ==
    ASSUME TypeOK, NEW e \in Endpoint
    PROVE  /\ txSequence[e] \in Nat /\ txAcknowledge[e] \in Nat
           /\ txFrame[e] \in Nat /\ txBufferlen[e] \in Nat
           /\ rxSequence[e] \in Nat
           /\ txFragments[e] \in [0..(txBufferlen[e] - 1) -> Slot]
           /\ rxFragments[e] \in [0..(BufferSize - 1) -> Slot]
           /\ delivered[e] \in Seq(Data)
           /\ net[e] \in SUBSET Packet
           /\ rxSelackoffset[e] \in {0, 1}
BY DEF TypeOK, SlotsOf

\* How the counters of one end and of its peer are ordered: what is
\* acknowledged is delivered, what is delivered was queued, and what is buffered
\* fits in the ring.
LEMMA Bounds ==
    ASSUME Inv, NEW e \in Endpoint
    PROVE  /\ txAcknowledge[e] <= rxSequence[Peer(e)]
           /\ rxSequence[Peer(e)] <= txSequence[e]
           /\ txSequence[e] <= Len(Stream[e])
           /\ txSequence[e] - txAcknowledge[e] <= txBufferlen[e]
           /\ BufferSize <= txBufferlen[e]
           /\ txFrame[e] < txAcknowledge[e] + TxWindow
           /\ txBufferlen[e] # 0
<1>1. rxSequence[Peer(e)] <= txSequence[e]
  BY Peers DEF Inv, InOrderDelivery
<1>2. BufferSize <= txBufferlen[e] /\ txBufferlen[e] # 0
  BY Constants, Typed DEF Inv, CountersOrdered
<1> QED
  BY <1>1, <1>2 DEF Inv, CountersOrdered, AcknowledgedIsDelivered,
                    SendBufferIntact, Used

-----------------------------------------------------------------------------
(* Queueing *)

\* A message queued in a ring that has room for it, and that keeps what was
\* buffered, preserves the invariant.
LEMMA QueueStep ==
    ASSUME Inv, NEW e \in Endpoint,
           NEW len \in Nat, NEW ring \in [0..(len - 1) -> Slot], NEW n \in Nat,
           BufferSize <= len, Used(e) + n <= len,
           txSequence[e] + n <= Len(Stream[e]),
           \A s \in txAcknowledge[e]..(txSequence[e] - 1) :
               ring[Index(s, len)] = txFragments[e][Index(s, txBufferlen[e])],
           Queue(e, len, ring, n)
    PROVE  Inv'
<1>1. PICK lo \in Nat : lo = txAcknowledge[e]
  BY Typed DEF Inv
<1>2. PICK hi \in Nat : hi = txSequence[e]
  BY Typed DEF Inv
<1>3. PICK stream \in Seq(Data) : stream = Stream[e]
  BY Constants
<1>3a. PICK top \in Nat : top = hi + n
  BY <1>2
<1>4. PICK new : new = Filled(ring, len, stream, hi, top)
  OBVIOUS
<1>5. len \in Nat \ {0} /\ lo <= hi /\ hi <= top /\ top - lo <= len
  <2>1. lo <= hi /\ Used(e) = hi - lo
    BY <1>1, <1>2 DEF Inv, CountersOrdered, Used
  <2>2. BufferSize \in Nat /\ 0 < BufferSize
    BY Constants
  <2> QED
    BY <1>3a, <2>1, <2>2
<1>6. top <= Len(stream)
  BY <1>2, <1>3, <1>3a
<1>7. /\ new \in [0..(len - 1) -> Slot]
      /\ \A s \in Nat :
            hi <= s /\ s < top
                => /\ new[Index(s, len)].data = stream[s + 1]
                   /\ new[Index(s, len)].ack = -1
  <2>1. len \in Nat \ {0} /\ top - hi <= len
    BY <1>5
  <2>2. Filled(ring, len, stream, hi, top) \in [0..(len - 1) -> Slot]
    BY <1>6, <2>1, FilledSlots
  <2>3. ASSUME NEW s \in Nat, hi <= s, s < top
        PROVE  /\ Filled(ring, len, stream, hi, top)[Index(s, len)].data
                      = stream[s + 1]
               /\ Filled(ring, len, stream, hi, top)[Index(s, len)].ack = -1
    BY <1>6, <2>1, <2>3, FilledSlots
  <2> QED
    BY <1>4, <2>2, <2>3
<1>8. ASSUME NEW s \in lo..(hi - 1)
      PROVE  new[Index(s, len)] = txFragments[e][Index(s, txBufferlen[e])]
  <2>0. s \in Nat /\ len \in Nat \ {0}
    BY <1>1, <1>2, <1>5
  <2>1. Index(s, len) \in 0..(len - 1)
    BY <2>0, IndexInRing
  <2>2. ASSUME NEW t \in hi..(top - 1) PROVE Index(t, len) # Index(s, len)
    <3>1. s # t /\ s - t < len /\ t - s < len
      BY <1>5
    <3> QED
      BY <2>0, <3>1, IndexUnique
  <2>3. new[Index(s, len)] = ring[Index(s, len)]
    BY <1>4, <2>1, <2>2, FilledOthers
  <2> QED
    BY <1>1, <1>2, <2>3
<1>9. /\ txBufferlen' = [txBufferlen EXCEPT ![e] = len]
      /\ txFragments' = [txFragments EXCEPT ![e] = new]
      /\ txSequence' = [txSequence EXCEPT ![e] = top]
      /\ UNCHANGED <<txAcknowledge, txFrame, rxSequence, rxFragments,
                     rxSelackoffset, delivered, net, faults>>
  BY <1>2, <1>3, <1>3a, <1>4 DEF Queue, rxVars, netVars
<1>9a. ASSUME NEW g \in Endpoint
       PROVE  /\ txSequence[g] <= txSequence'[g]
              /\ txSequence[g] \in Nat /\ txSequence'[g] \in Nat
  <2>1. CASE g = e
    BY <1>2, <1>5, <1>9, <2>1 DEF Inv, TypeOK
  <2>2. CASE g # e
    <3>1. txSequence'[g] = txSequence[g]
      BY <1>9, <2>2 DEF Inv, TypeOK
    <3> QED
      BY <3>1, Typed DEF Inv
  <2> QED
    BY <2>1, <2>2
<1>10. TypeOK'
  <2>2. DOMAIN txFragments' = Endpoint
    BY <1>9 DEF Inv, TypeOK
  <2>3. ASSUME NEW f \in Endpoint
        PROVE  txFragments'[f] \in [0..(txBufferlen'[f] - 1) -> Slot]
    BY <1>7, <1>9, Typed DEF Inv, TypeOK
  <2> QED
    BY <1>2, <1>9, <2>2, <2>3 DEF Inv, TypeOK, SlotsOf
<1>11. CountersOrdered'
  <2> SUFFICES ASSUME NEW f \in Endpoint
               PROVE  /\ txAcknowledge[f] <= txSequence'[f]
                      /\ txSequence'[f] <= Len(Stream[f])
                      /\ BufferSize <= txBufferlen'[f]
    BY <1>9 DEF Inv, CountersOrdered
  <2>1. CASE f = e
    BY <1>1, <1>2, <1>3, <1>5, <1>6, <1>9, <2>1 DEF Inv, TypeOK
  <2>2. CASE f # e
    BY <1>9, <2>2 DEF Inv, TypeOK, CountersOrdered
  <2> QED
    BY <2>1, <2>2
<1>12. InOrderDelivery'
  <2> SUFFICES ASSUME NEW f \in Endpoint
               PROVE  rxSequence[f] <= txSequence'[Peer(f)]
    BY <1>9 DEF Inv, InOrderDelivery
  <2>1. Peer(f) \in Endpoint
    BY Peers
  <2>2. /\ txSequence[Peer(f)] <= txSequence'[Peer(f)]
        /\ txSequence[Peer(f)] \in Nat /\ txSequence'[Peer(f)] \in Nat
    BY <1>9a, <2>1
  <2>3. rxSequence[f] \in Nat /\ rxSequence[f] <= txSequence[Peer(f)]
    BY Typed DEF Inv, InOrderDelivery
  <2> QED
    BY <2>2, <2>3
<1>13. AcknowledgedIsDelivered'
  BY <1>9 DEF Inv, AcknowledgedIsDelivered
<1>14. SendBufferIntact'
  <2> SUFFICES ASSUME NEW f \in Endpoint
               PROVE  /\ Used(f)' <= txBufferlen'[f]
                      /\ \A s \in txAcknowledge'[f]..(txSequence'[f] - 1) :
                            txFragments'[f][Index(s, txBufferlen'[f])].data
                                = Stream[f][s + 1]
    BY DEF SendBufferIntact
  <2>1. CASE f = e
    <3>1. /\ txBufferlen'[e] = len /\ txFragments'[e] = new
          /\ txSequence'[e] = top /\ txAcknowledge'[e] = lo
      BY <1>1, <1>9 DEF Inv, TypeOK
    <3>2. Used(e)' <= len
      BY <1>5, <3>1 DEF Used
    <3>3. ASSUME NEW s \in lo..(top - 1)
          PROVE  new[Index(s, len)].data = stream[s + 1]
      <4>1. CASE hi <= s
        BY <1>7, <4>1
      <4>2. CASE s \in lo..(hi - 1)
        BY <1>1, <1>2, <1>3, <1>8, <4>2 DEF Inv, SendBufferIntact
      <4> QED
        BY <1>5, <4>1, <4>2
    <3>4. Used(f)' <= txBufferlen'[f]
      BY <2>1, <3>1, <3>2
    <3>5. \A s \in txAcknowledge'[e]..(txSequence'[e] - 1) :
              txFragments'[e][Index(s, txBufferlen'[e])].data = Stream[e][s + 1]
      BY <1>3, <3>1, <3>3
    <3> QED
      BY <2>1, <3>4, <3>5
  <2>2. CASE f # e
    <3>1. /\ txBufferlen'[f] = txBufferlen[f] /\ txFragments'[f] = txFragments[f]
          /\ txSequence'[f] = txSequence[f]
          /\ txAcknowledge'[f] = txAcknowledge[f]
      BY <1>9, <2>2 DEF Inv, TypeOK
    <3> QED
      BY <3>1 DEF Inv, SendBufferIntact, Used
  <2> QED
    BY <2>1, <2>2
<1>15. \A f \in Endpoint : \A s \in Nat : WithinWindow(f, s) => WithinWindow(f, s)'
  BY <1>9, <1>9a DEF WithinWindow
<1>16. \A f \in Endpoint : \A s \in Nat : Held(f, s) => Held(f, s)'
  BY <1>9 DEF Held, Arrived
<1>17. ReceiveBufferIntact'
  <2> SUFFICES ASSUME NEW f \in Endpoint,
                      NEW s \in rxSequence[f]..(rxSequence[f] + RxWindow - 1),
                      Arrived(f, s)
               PROVE  /\ WithinWindow(Peer(f), s)'
                      /\ rxFragments[f][Index(s, BufferSize)].data
                            = Stream[Peer(f)][s + 1]
    BY <1>9 DEF ReceiveBufferIntact, Arrived
  <2>1. /\ WithinWindow(Peer(f), s)
        /\ rxFragments[f][Index(s, BufferSize)].data = Stream[Peer(f)][s + 1]
    BY DEF Inv, ReceiveBufferIntact
  <2>2. s \in Nat /\ Peer(f) \in Endpoint
    BY Peers, Typed DEF Inv
  <2> QED
    BY <1>15, <2>1, <2>2
<1>18. SkipsOnlyHeld'
  <2> SUFFICES ASSUME NEW f \in Endpoint,
                      NEW s \in txAcknowledge'[f]..(txSequence'[f] - 1),
                      txFragments'[f][Index(s, txBufferlen'[f])].ack = s
               PROVE  Held(Peer(f), s)'
    BY DEF SkipsOnlyHeld
  <2>1. CASE f = e
    <3>1. /\ txBufferlen'[e] = len /\ txFragments'[e] = new
          /\ txSequence'[e] = top /\ txAcknowledge'[e] = lo
      BY <1>1, <1>9 DEF Inv, TypeOK
    <3>2. s \in lo..(top - 1) /\ new[Index(s, len)].ack = s /\ s \in Nat
      <4>1. new[Index(s, len)].ack = s
        BY <2>1, <3>1
      <4>2. s \in lo..(top - 1)
        BY <2>1, <3>1
      <4> QED
        BY <4>1, <4>2
    <3>3. s \in lo..(hi - 1)
      <4> SUFFICES ASSUME hi <= s PROVE FALSE
        BY <3>2
      <4>1. new[Index(s, len)].ack = -1
        BY <1>7, <3>2
      <4> QED
        BY <3>2, <4>1
    <3>4. Held(Peer(e), s)
      BY <1>1, <1>2, <1>8, <3>2, <3>3 DEF Inv, SkipsOnlyHeld
    <3> QED
      BY <1>16, <2>1, <3>2, <3>4, Peers
  <2>2. CASE f # e
    <3>1. /\ txBufferlen'[f] = txBufferlen[f] /\ txFragments'[f] = txFragments[f]
          /\ txSequence'[f] = txSequence[f]
          /\ txAcknowledge'[f] = txAcknowledge[f] /\ txAcknowledge[f] \in Nat
      BY <1>9, <2>2, Typed DEF Inv, TypeOK
    <3>2. s \in txAcknowledge[f]..(txSequence[f] - 1) /\ s \in Nat
      BY <3>1
    <3>3. txFragments[f][Index(s, txBufferlen[f])].ack = s
      BY <3>1
    <3>4. Held(Peer(f), s)
      BY <3>2, <3>3 DEF Inv, SkipsOnlyHeld
    <3> QED
      BY <1>16, <3>2, <3>4, Peers
  <2> QED
    BY <2>1, <2>2
<1>19. PacketsTruthful'
  <2> SUFFICES ASSUME NEW f \in Endpoint, NEW p \in net[Peer(f)]
               PROVE  Truthful(f, p)'
    BY <1>9 DEF PacketsTruthful
  <2>1. Truthful(f, p) /\ p \in Packet
    BY Typed, Peers DEF Inv, PacketsTruthful
  <2> QED
    BY <1>9, <1>15, <1>16, <2>1 DEF Truthful, Packet
<1>20. NothingAhead'
  BY <1>9 DEF Inv, NothingAhead
<1> QED
  BY <1>10, <1>11, <1>12, <1>13, <1>14, <1>17, <1>18, <1>19, <1>20 DEF Inv

\* Queueing takes no sequence number back.
LEMMA WriteGrows ==
    ASSUME Inv, NEW e \in Endpoint, Write(e)
    PROVE  txSequence[e] <= txSequence'[e]
<1>1. /\ txSequence \in [Endpoint -> Nat] /\ Len(Stream[e]) \in Nat
      /\ txBufferlen[e] - Used(e) \in Nat
  <2>1. txSequence \in [Endpoint -> Nat] /\ Len(Stream[e]) \in Nat
    BY Constants DEF Inv, TypeOK
  <2>2. /\ txSequence[e] - txAcknowledge[e] <= txBufferlen[e]
        /\ txSequence[e] \in Nat /\ txAcknowledge[e] \in Nat
        /\ txBufferlen[e] \in Nat
    BY Typed, Bounds DEF Inv
  <2>3. txBufferlen[e] - Used(e) \in Nat
    BY <2>2 DEF Used
  <2> QED
    BY <2>1, <2>3
<1>2. PICK n \in 1..(Len(Stream[e]) - txSequence[e]), need \in Nat :
          Send(e, n, need) \/ SendGrow(e, n, need) \/ SendTruncated(e, n, need)
  BY <1>1 DEF Write
<1>3. \E m \in Nat : txSequence' = [txSequence EXCEPT ![e] = @ + m]
  BY <1>1, <1>2 DEF Send, SendGrow, SendTruncated, Queue
<1> QED
  BY <1>1, <1>3

\* Whichever way the application's message is queued, the invariant holds.
LEMMA WriteStep ==
    ASSUME Inv, NEW e \in Endpoint, Write(e)
    PROVE  Inv'
<1>1. PICK n \in 1..(Len(Stream[e]) - txSequence[e]) :
          \E need \in {n, n + 1} :
              Send(e, n, need) \/ SendGrow(e, n, need) \/ SendTruncated(e, n, need)
  BY DEF Write
<1>2. PICK need \in {n, n + 1} :
          Send(e, n, need) \/ SendGrow(e, n, need) \/ SendTruncated(e, n, need)
  BY <1>1
<1>3. /\ txSequence[e] \in Nat /\ txAcknowledge[e] \in Nat
      /\ txBufferlen[e] \in Nat \ {0} /\ Len(Stream[e]) \in Nat
      /\ txFragments[e] \in [0..(txBufferlen[e] - 1) -> Slot]
      /\ BufferSize <= txBufferlen[e] /\ BufferSize \in Nat
      /\ Used(e) \in Nat /\ Used(e) <= txBufferlen[e]
  <2>1. txSequence[e] \in Nat /\ txAcknowledge[e] \in Nat /\ txBufferlen[e] \in Nat
    BY Typed DEF Inv
  <2>2. txAcknowledge[e] <= txSequence[e]
    BY DEF Inv, CountersOrdered
  <2>3. Used(e) \in Nat /\ Used(e) <= txBufferlen[e]
    BY <2>1, <2>2, Bounds DEF Used
  <2>4. Len(Stream[e]) \in Nat /\ BufferSize \in Nat
    BY Constants
  <2>5. txFragments[e] \in [0..(txBufferlen[e] - 1) -> Slot]
    BY Typed DEF Inv
  <2>6. BufferSize <= txBufferlen[e] /\ txBufferlen[e] # 0
    BY Bounds
  <2> QED
    BY <2>1, <2>3, <2>4, <2>5, <2>6
<1>4. n \in Nat /\ need \in Nat /\ n <= need /\ txSequence[e] + n <= Len(Stream[e])
  BY <1>3
<1>5. CASE Send(e, n, need)
  <2>1. Used(e) + n <= txBufferlen[e]
    BY <1>3, <1>4, <1>5 DEF Send, Fits
  <2>2. Queue(e, txBufferlen[e], txFragments[e], n)
    BY <1>5 DEF Send
  <2> QED
    BY <1>3, <1>4, <2>1, <2>2, QueueStep
<1>6. CASE SendGrow(e, n, need)
  <2>1. PICK want \in Nat : want = need + Used(e)
    BY <1>3, <1>4
  <2>2. PICK len \in Nat : len = want + want \div 2
    BY <2>1
  <2>3. PICK ring : ring = Resized(txFragments[e], txBufferlen[e],
                                   txAcknowledge[e], txSequence[e], len)
    OBVIOUS
  <2>4. ~Fits(e, need) /\ Queue(e, len, ring, n)
    BY <1>6, <2>1, <2>2, <2>3 DEF SendGrow
  <2>5. txBufferlen[e] <= want
    BY <1>3, <1>4, <2>1, <2>4 DEF Fits
  <2>6. want <= len
    BY <2>1, <2>2
  <2>7. /\ len \in Nat \ {0} /\ BufferSize <= len
        /\ txSequence[e] - txAcknowledge[e] <= len
        /\ Used(e) + n <= len
    <3>1. len \in Nat \ {0} /\ BufferSize <= len /\ Used(e) <= len
      BY <1>3, <2>2, <2>5, <2>6
    <3>2. Used(e) + n <= want
      BY <1>3, <1>4, <2>1
    <3>3. Used(e) + n <= len
      BY <1>3, <1>4, <2>1, <2>2, <2>6, <3>2
    <3> QED
      BY <3>1, <3>3 DEF Used
  <2>8. ring \in [0..(len - 1) -> Slot]
    <3>1. PICK lo \in Nat, hi \in Nat, oldlen \in Nat \ {0} :
              /\ lo = txAcknowledge[e] /\ hi = txSequence[e]
              /\ oldlen = txBufferlen[e]
      BY <1>3
    <3>2. PICK old \in [0..(oldlen - 1) -> Slot] : old = txFragments[e]
      BY <1>3, <3>1
    <3>3. len \in Nat \ {0} /\ hi - lo <= len
      BY <2>7, <3>1
    <3>4. Resized(old, oldlen, lo, hi, len) \in [0..(len - 1) -> Slot]
      BY <3>3, ResizedSlots
    <3> QED
      BY <2>3, <3>1, <3>2, <3>4
  <2>9. ASSUME NEW s \in txAcknowledge[e]..(txSequence[e] - 1)
        PROVE  ring[Index(s, len)] = txFragments[e][Index(s, txBufferlen[e])]
    <3>1. s \in Nat /\ txAcknowledge[e] <= s /\ s < txSequence[e]
      BY <1>3
    <3>2. PICK lo \in Nat, hi \in Nat, oldlen \in Nat :
              /\ lo = txAcknowledge[e] /\ hi = txSequence[e]
              /\ oldlen = txBufferlen[e]
      BY <1>3
    <3>3. PICK old \in RingOf(oldlen) : old = txFragments[e]
      BY <1>3, <3>2 DEF RingOf
    <3>4. PICK size \in Nat : size = len
      OBVIOUS
    <3>5. hi - lo <= size /\ size \in Nat \ {0} /\ oldlen \in Nat \ {0}
      BY <1>3, <2>7, <3>2, <3>4
    <3>6. ASSUME NEW t \in Nat, lo <= t, t < hi
          PROVE  Resized(old, oldlen, lo, hi, size)[Index(t, size)]
                     = old[Index(t, oldlen)]
      BY <3>5, <3>6, ResizedAt
    <3>7. Resized(old, oldlen, lo, hi, size)[Index(s, size)]
              = old[Index(s, oldlen)]
      BY <3>1, <3>2, <3>6
    <3> QED
      BY <2>3, <3>2, <3>3, <3>4, <3>7
  <2> QED
    BY <1>4, <2>4, <2>7, <2>8, <2>9, QueueStep
<1>7. CASE SendTruncated(e, n, need)
  <2>1. PICK m \in Int : m = IF n <= txBufferlen[e] - Used(e)
                             THEN n ELSE txBufferlen[e] - Used(e)
    BY <1>3, <1>4
  <2>2. m \in Nat /\ Used(e) + m <= txBufferlen[e]
        /\ txSequence[e] + m <= Len(Stream[e])
    <3>1. txBufferlen[e] - Used(e) \in Nat /\ Used(e) \in Nat /\ n \in Nat
      BY <1>3, <1>4
    <3>2. PICK room \in Nat, used \in Nat, length \in Int :
              /\ room = txBufferlen[e] - Used(e) /\ used = Used(e)
              /\ length = txBufferlen[e] /\ used + room = length
      BY <1>3, <3>1
    <3>3. m = IF n <= room THEN n ELSE room
      BY <2>1, <3>2
    <3>4. m \in Nat /\ m <= n /\ used + m <= length
      BY <3>1, <3>2, <3>3
    <3>5. m \in Nat /\ m <= n /\ Used(e) + m <= txBufferlen[e]
      BY <3>2, <3>4
    <3>6. txSequence[e] + n <= Len(Stream[e])
      BY <1>3, <1>4
    <3> QED
      BY <1>3, <3>1, <3>5, <3>6, Constants
  <2>3. Queue(e, txBufferlen[e], txFragments[e], m)
    BY <1>7, <2>1 DEF SendTruncated
  <2> QED
    BY <1>3, <2>2, <2>3, QueueStep
<1> QED
  BY <1>2, <1>5, <1>6, <1>7

-----------------------------------------------------------------------------
(* Transmitting *)

\* A truthful packet posted, with or without the frame moving on inside the
\* window, preserves the invariant.
LEMMA PostStep ==
    ASSUME Inv, NEW e \in Endpoint,
           NEW p \in Packet, Truthful(e, p),
           \/ net' = [net EXCEPT ![Peer(e)] = @ \cup {p}]
           \/ net' = net,
           rxSelackoffset' \in [Endpoint -> {0, 1}],
           txFrame' \in [Endpoint -> Nat],
           \A f \in Endpoint : txFrame'[f] < txAcknowledge[f] + TxWindow,
           UNCHANGED <<txSequence, txAcknowledge, txBufferlen, txFragments,
                       rxSequence, rxFragments, delivered, faults>>
    PROVE  Inv'
<1>1. TypeOK'
  <2>1. net' \in [Endpoint -> SUBSET Packet]
    <3>1. net \in [Endpoint -> SUBSET Packet] /\ Peer(e) \in Endpoint
      BY Peers DEF Inv, TypeOK
    <3> QED
      BY <3>1
  <2> QED
    BY <2>1 DEF Inv, TypeOK, SlotsOf
<1>2. CountersOrdered'
  BY DEF Inv, CountersOrdered
<1>3. InOrderDelivery'
  BY DEF Inv, InOrderDelivery
<1>4. AcknowledgedIsDelivered'
  BY DEF Inv, AcknowledgedIsDelivered
<1>5. SendBufferIntact'
  BY DEF Inv, SendBufferIntact, Used
<1>6. ReceiveBufferIntact'
  BY DEF Inv, ReceiveBufferIntact, Arrived, WithinWindow
<1>7. SkipsOnlyHeld'
  BY DEF Inv, SkipsOnlyHeld, Held, Arrived
<1>8. PacketsTruthful'
  <2> SUFFICES ASSUME NEW f \in Endpoint, NEW q \in net'[Peer(f)]
               PROVE  Truthful(f, q)'
    BY DEF PacketsTruthful
  <2>1. Truthful(f, q)
    <3>1. CASE q \in net[Peer(f)]
      BY <3>1 DEF Inv, PacketsTruthful
    <3>2. CASE q \notin net[Peer(f)]
      <4>0. net \in [Endpoint -> SUBSET Packet] /\ Peer(e) \in Endpoint
            /\ Peer(f) \in Endpoint
        BY Peers DEF Inv, TypeOK
      <4>1. Peer(f) = Peer(e) /\ q = p
        BY <3>2, <4>0
      <4>2. f = e
        BY <4>1, Peers
      <4> QED
        BY <4>1, <4>2
    <3> QED
      BY <3>1, <3>2
  <2> QED
    BY <2>1 DEF Truthful, Held, Arrived, WithinWindow
<1>9. NothingAhead'
  BY DEF Inv, NothingAhead
<1> QED
  BY <1>1, <1>2, <1>3, <1>4, <1>5, <1>6, <1>7, <1>8, <1>9 DEF Inv

\* The selective acknowledges that an endpoint sends are truthful.
LEMMA SelectiveAcksTruthful ==
    ASSUME Inv, NEW e \in Endpoint
    PROVE  /\ SelectiveAcks(e) \in SUBSET Nat
           /\ \A s \in SelectiveAcks(e) : /\ rxSequence[e] <= s
                                         /\ s < rxSequence[e] + RxWindow
                                         /\ Held(e, s)
<1>1. rxSequence[e] \in Nat /\ rxSelackoffset[e] \in {0, 1} /\ RxWindow \in Nat
  BY Typed, Constants DEF Inv
<1>2. ASSUME NEW s \in SelectiveAcks(e)
      PROVE  /\ s \in Nat /\ rxSequence[e] <= s
             /\ s < rxSequence[e] + RxWindow /\ Arrived(e, s)
  BY <1>1 DEF SelectiveAcks
<1> QED
  BY <1>2 DEF Held

\* The frame moves on inside the window.
LEMMA FrameInWindow ==
    ASSUME Inv, NEW e \in Endpoint
    PROVE  /\ CurrentFrame(e) \in Nat
           /\ txAcknowledge[e] <= CurrentFrame(e)
           /\ CurrentFrame(e) < txAcknowledge[e] + TxWindow
           /\ NextFrame(e) \in Nat
           /\ NextFrame(e) < txAcknowledge[e] + TxWindow
<1>1. /\ txFrame[e] \in Nat /\ txAcknowledge[e] \in Nat
      /\ TxWindow \in Nat \ {0} /\ txFrame[e] < txAcknowledge[e] + TxWindow
  BY Typed, Bounds, Constants DEF Inv
<1>2. /\ CurrentFrame(e) \in Nat
      /\ txAcknowledge[e] <= CurrentFrame(e)
      /\ CurrentFrame(e) < txAcknowledge[e] + TxWindow
  BY <1>1 DEF CurrentFrame
<1> QED
  BY <1>1, <1>2 DEF NextFrame

\* Moving the frame of one endpoint keeps every frame in its window.
LEMMA FrameMoves ==
    ASSUME Inv, NEW e \in Endpoint,
           txFrame' = [txFrame EXCEPT ![e] = NextFrame(e)]
    PROVE  /\ txFrame' \in [Endpoint -> Nat]
           /\ \A f \in Endpoint : txFrame'[f] < txAcknowledge[f] + TxWindow
<1>1. txFrame \in [Endpoint -> Nat]
  BY DEF Inv, TypeOK
<1>2. NextFrame(e) \in Nat /\ NextFrame(e) < txAcknowledge[e] + TxWindow
  BY FrameInWindow
<1>3. \A f \in Endpoint : txFrame[f] < txAcknowledge[f] + TxWindow
  BY DEF Inv, CountersOrdered
<1> QED
  BY <1>1, <1>2, <1>3

\* Sending the next fragment, or an empty packet that acknowledges, preserves
\* the invariant.
LEMMA TransmitStep ==
    ASSUME Inv, NEW e \in Endpoint, Transmit(e)
    PROVE  Inv'
<1>1. rxSequence[e] \in Nat /\ rxSelackoffset \in [Endpoint -> {0, 1}]
  BY Typed DEF Inv, TypeOK
<1>2. CASE TransmitAck(e)
  <2> DEFINE p == [sequence |-> -1, acknowledge |-> rxSequence[e],
                   selack |-> SelectiveAcks(e), data |-> NoData]
  <2>1. p \in Packet
    BY <1>1, SelectiveAcksTruthful DEF Packet
  <2>2. Truthful(e, p)
    BY <1>1, SelectiveAcksTruthful DEF Truthful
  <2>3. /\ net' = [net EXCEPT ![Peer(e)] = @ \cup {p}]
        /\ rxSelackoffset' = [rxSelackoffset EXCEPT ![e] = 1]
        /\ UNCHANGED <<txVars, rxSequence, rxFragments, delivered, faults>>
    BY <1>2 DEF TransmitAck, Post
  <2> HIDE DEF p
  <2>4. rxSelackoffset' \in [Endpoint -> {0, 1}]
    BY <1>1, <2>3
  <2>5. /\ txFrame' \in [Endpoint -> Nat]
        /\ \A f \in Endpoint : txFrame'[f] < txAcknowledge[f] + TxWindow
    BY <2>3 DEF Inv, TypeOK, CountersOrdered, txVars
  <2> QED
    BY <2>1, <2>2, <2>3, <2>4, <2>5, PostStep DEF txVars
<1>3. CASE TransmitFragment(e)
  <2> DEFINE p == [sequence |-> CurrentFrame(e), acknowledge |-> rxSequence[e],
                   selack |-> SelectiveAcks(e), data |-> CurrentSlot(e).data]
  <2>1. /\ CurrentFrame(e) \in Nat /\ txAcknowledge[e] <= CurrentFrame(e)
        /\ CurrentFrame(e) < txSequence[e]
        /\ CurrentFrame(e) < txAcknowledge[e] + TxWindow
        /\ txSequence[e] \in Nat /\ txAcknowledge[e] \in Nat
        /\ txSequence[e] <= Len(Stream[e])
    BY <1>3, FrameInWindow, Typed, Bounds DEF TransmitFragment, Skipped, Inv
  <2>2. CurrentSlot(e).data = Stream[e][CurrentFrame(e) + 1]
    BY <2>1 DEF CurrentSlot, Inv, SendBufferIntact
  <2>3. Stream[e][CurrentFrame(e) + 1] \in Data
    <3>1. CurrentFrame(e) + 1 \in 1..Len(Stream[e])
      BY <2>1, Constants
    <3>2. Stream[e] \in Seq(Data)
      BY Constants
    <3> QED
      BY <3>1, <3>2
  <2>4. p \in Packet
    BY <1>1, <2>1, <2>2, <2>3, SelectiveAcksTruthful DEF Packet
  <2>5. Truthful(e, p)
    BY <1>1, <2>1, <2>2, SelectiveAcksTruthful DEF Truthful, WithinWindow
  <2>6. /\ net' = [net EXCEPT ![Peer(e)] = @ \cup {p}]
        /\ rxSelackoffset' = [rxSelackoffset EXCEPT ![e] = 1]
        /\ txFrame' = [txFrame EXCEPT ![e] = NextFrame(e)]
        /\ UNCHANGED <<txSequence, txAcknowledge, txBufferlen, txFragments,
                       rxSequence, rxFragments, delivered, faults>>
    BY <1>3 DEF TransmitFragment, Post
  <2> HIDE DEF p
  <2>7. rxSelackoffset' \in [Endpoint -> {0, 1}]
    BY <1>1, <2>6
  <2>8. /\ txFrame' \in [Endpoint -> Nat]
        /\ \A f \in Endpoint : txFrame'[f] < txAcknowledge[f] + TxWindow
    BY <2>6, FrameMoves
  <2> QED
    BY <2>4, <2>5, <2>6, <2>7, <2>8, PostStep
<1>4. CASE SkipFragment(e)
  <2> DEFINE p == [sequence |-> -1, acknowledge |-> rxSequence[e],
                   selack |-> {}, data |-> NoData]
  <2>1. p \in Packet /\ Truthful(e, p)
    BY <1>1 DEF Packet, Truthful
  <2>2. /\ txFrame' = [txFrame EXCEPT ![e] = NextFrame(e)]
        /\ UNCHANGED <<txSequence, txAcknowledge, txBufferlen, txFragments,
                       rxSequence, rxFragments, rxSelackoffset, delivered,
                       net, faults>>
    BY <1>4 DEF SkipFragment, rxVars, netVars
  <2> HIDE DEF p
  <2>3. /\ txFrame' \in [Endpoint -> Nat]
        /\ \A f \in Endpoint : txFrame'[f] < txAcknowledge[f] + TxWindow
    BY <2>2, FrameMoves
  <2> QED
    BY <1>1, <2>1, <2>2, <2>3, PostStep
<1> QED
  BY <1>2, <1>3, <1>4 DEF Transmit

-----------------------------------------------------------------------------
(* Receiving from the network *)

\* Storing a fragment of the receive window puts nothing over another one that
\* the window holds.
LEMMA StoreKeeps ==
    ASSUME Inv, NEW e \in Endpoint, NEW p \in Packet, Acceptable(e, p),
           StoreFragment(e, p)
    PROVE  /\ rxFragments' \in [Endpoint -> [0..(BufferSize - 1) -> Slot]]
           /\ \A f \in Endpoint : f # e => rxFragments'[f] = rxFragments[f]
           /\ \A s \in rxSequence[e]..(rxSequence[e] + RxWindow - 1) :
                 LET slot == rxFragments'[e][Index(s, BufferSize)]
                 IN  \/ slot = rxFragments[e][Index(s, BufferSize)]
                        /\ s # p.sequence
                     \/ slot.data = p.data /\ slot.ack = s /\ s = p.sequence
<1>1. PICK lo \in Nat : lo = rxSequence[e]
  BY Typed DEF Inv
<1>2. PICK q \in Int : q = p.sequence
  BY DEF Packet
<1>3. /\ rxFragments \in [Endpoint -> [0..(BufferSize - 1) -> Slot]]
      /\ BufferSize \in Nat \ {0} /\ RxWindow \in Nat \ {0}
      /\ RxWindow <= BufferSize
  BY Constants DEF Inv, TypeOK
<1>4. CASE q < lo
  BY <1>1, <1>2, <1>3, <1>4 DEF StoreFragment
<1>5. CASE q >= lo
  <2>1. PICK i : i = Index(q, BufferSize)
    OBVIOUS
  <2>2. q \in Nat /\ q < lo + RxWindow
    BY <1>1, <1>2, <1>5 DEF Acceptable
  <2>3. i \in 0..(BufferSize - 1)
    BY <1>3, <2>1, <2>2, IndexInRing
  <2>4. PICK slot : slot = [data |-> p.data, ack |-> q]
    OBVIOUS
  <2>5. slot \in Slot /\ slot.data = p.data /\ slot.ack = q
    BY <1>2, <2>4 DEF Slot, Packet
  <2>6. rxFragments' = [rxFragments EXCEPT ![e][i] = slot]
    BY <1>1, <1>2, <1>5, <2>1, <2>4 DEF StoreFragment
  <2>7. rxFragments' \in [Endpoint -> [0..(BufferSize - 1) -> Slot]]
    BY <1>3, <2>3, <2>5, <2>6
  <2>8. \A f \in Endpoint : f # e => rxFragments'[f] = rxFragments[f]
    BY <1>3, <2>6
  <2>9. /\ rxFragments'[e][i] = slot
        /\ \A j \in 0..(BufferSize - 1) :
              j # i => rxFragments'[e][j] = rxFragments[e][j]
    BY <1>3, <2>3, <2>6
  <2>10. ASSUME NEW s \in lo..(lo + RxWindow - 1)
         PROVE  \/ /\ rxFragments'[e][Index(s, BufferSize)]
                         = rxFragments[e][Index(s, BufferSize)]
                   /\ s # q
                \/ /\ rxFragments'[e][Index(s, BufferSize)] = slot
                   /\ s = q
    <3>1. s \in Nat /\ s - q < BufferSize /\ q - s < BufferSize
      BY <1>3, <1>5, <2>2
    <3>2. Index(s, BufferSize) \in 0..(BufferSize - 1)
      BY <1>3, <3>1, IndexInRing
    <3>3. CASE s = q
      BY <2>1, <2>9, <3>3
    <3>4. CASE s # q
      <4>1. Index(s, BufferSize) # Index(q, BufferSize)
        BY <1>3, <2>2, <3>1, <3>4, IndexUnique
      <4> QED
        BY <2>1, <2>9, <3>2, <3>4, <4>1
    <3> QED
      BY <3>3, <3>4
  <2> QED
    BY <1>1, <1>2, <2>5, <2>7, <2>8, <2>10
<1> QED
  BY <1>4, <1>5

\* The send ring after an acknowledge keeps what is still buffered, and marks
\* only what the other end holds.
LEMMA TakeKeeps ==
    ASSUME Inv, NEW e \in Endpoint, NEW p \in Packet, Acceptable(e, p),
           Truthful(Peer(e), p), TakeAcknowledge(e, p)
    PROVE  /\ txBufferlen' \in [Endpoint -> Nat] /\ DOMAIN txFragments' = Endpoint
           /\ \A f \in Endpoint : f # e => /\ txBufferlen'[f] = txBufferlen[f]
                                          /\ txFragments'[f] = txFragments[f]
           /\ BufferSize <= txBufferlen'[e]
           /\ txSequence[e] - p.acknowledge <= txBufferlen'[e]
           /\ txFragments'[e] \in [0..(txBufferlen'[e] - 1) -> Slot]
           /\ \A s \in p.acknowledge..(txSequence[e] - 1) :
                 LET slot == txFragments'[e][Index(s, txBufferlen'[e])]
                 IN  /\ slot.data = Stream[e][s + 1]
                     /\ slot.ack = s => Held(Peer(e), s)
<1>1. PICK lo \in Nat, hi \in Nat, len \in Nat, a \in Nat :
          /\ lo = txAcknowledge[e] /\ hi = txSequence[e]
          /\ len = txBufferlen[e] /\ a = p.acknowledge
  BY Typed DEF Inv, Packet
<1>2. /\ len \in Nat \ {0} /\ hi - lo <= len /\ BufferSize <= len
      /\ lo <= a /\ a <= hi /\ BufferSize \in Nat \ {0}
  BY <1>1, Bounds, Constants DEF Acceptable
<1>3. PICK ring \in [0..(len - 1) -> Slot] : ring = txFragments[e]
  BY <1>1, Typed DEF Inv
<1>4. PICK selack \in SUBSET Nat : selack = p.selack
  BY DEF Packet
<1>5. PICK marked : marked = Marked(ring, len, selack)
  OBVIOUS
<1>6. /\ marked \in [0..(len - 1) -> Slot]
      /\ \A i \in 0..(len - 1) :
            /\ marked[i].data = ring[i].data
            /\ marked[i].ack \in selack \/ marked[i].ack = ring[i].ack
  BY <1>2, <1>5, MarkedSlots
<1>7. ASSUME NEW s \in a..(hi - 1)
      PROVE  /\ s \in Nat
             /\ marked[Index(s, len)].data = Stream[e][s + 1]
             /\ marked[Index(s, len)].ack = s => Held(Peer(e), s)
  <2>1. s \in Nat /\ s \in lo..(hi - 1)
    BY <1>2
  <2>2. Index(s, len) \in 0..(len - 1)
    BY <1>2, <2>1, IndexInRing
  <2>3. ring[Index(s, len)].data = Stream[e][s + 1]
    BY <1>1, <1>3, <2>1 DEF Inv, SendBufferIntact
  <2>4. ring[Index(s, len)].ack = s => Held(Peer(e), s)
    BY <1>1, <1>3, <2>1 DEF Inv, SkipsOnlyHeld
  <2>5. s \in selack => Held(Peer(e), s)
    BY <1>4 DEF Truthful
  <2> QED
    BY <1>6, <2>1, <2>2, <2>3, <2>4, <2>5
<1>8. /\ txBufferlen \in [Endpoint -> Nat] /\ DOMAIN txFragments = Endpoint
  BY DEF Inv, TypeOK
<1>9. CASE /\ txFragments' = [txFragments EXCEPT ![e] = marked]
           /\ txBufferlen' = txBufferlen
  <2>1. txFragments'[e] = marked /\ txBufferlen'[e] = len
    BY <1>1, <1>8, <1>9
  <2>2. hi - a <= len
    BY <1>2
  <2> QED
    BY <1>1, <1>2, <1>6, <1>7, <1>8, <1>9, <2>1, <2>2
<1>10. CASE /\ Shrinks(e, p)
            /\ txFragments' = [txFragments EXCEPT
                  ![e] = Resized(marked, len, a, hi, BufferSize)]
            /\ txBufferlen' = [txBufferlen EXCEPT ![e] = BufferSize]
  <2>1. PICK new : new = Resized(marked, len, a, hi, BufferSize)
    OBVIOUS
  <2>2. hi - a <= BufferSize
    BY <1>1, <1>2, <1>10 DEF Shrinks
  <2>3. new \in [0..(BufferSize - 1) -> Slot]
    BY <1>2, <1>6, <2>1, <2>2, ResizedSlots
  <2>4. PICK ring2 \in RingOf(len), size \in Nat :
            ring2 = marked /\ size = BufferSize
    BY <1>2, <1>6 DEF RingOf
  <2>5. ASSUME NEW s \in Nat, a <= s, s < hi
        PROVE  new[Index(s, BufferSize)] = marked[Index(s, len)]
    <3>1. hi - a <= size /\ size \in Nat \ {0}
      BY <1>2, <2>2, <2>4
    <3>2. Resized(ring2, len, a, hi, size)[Index(s, size)] = ring2[Index(s, len)]
      BY <1>2, <2>5, <3>1, ResizedAt
    <3> QED
      BY <2>1, <2>4, <3>2
  <2>6. ASSUME NEW s \in a..(hi - 1)
        PROVE  new[Index(s, BufferSize)] = marked[Index(s, len)]
    BY <1>7, <2>5
  <2>7. txFragments'[e] = new /\ txBufferlen'[e] = BufferSize
    BY <1>8, <1>10, <2>1
  <2>8. /\ txBufferlen' \in [Endpoint -> Nat] /\ DOMAIN txFragments' = Endpoint
        /\ \A f \in Endpoint : f # e => /\ txBufferlen'[f] = txBufferlen[f]
                                       /\ txFragments'[f] = txFragments[f]
    BY <1>2, <1>8, <1>10
  <2>9. ASSUME NEW s \in a..(hi - 1)
        PROVE  /\ new[Index(s, BufferSize)].data = Stream[e][s + 1]
               /\ new[Index(s, BufferSize)].ack = s => Held(Peer(e), s)
    BY <1>7, <2>6
  <2>10. BufferSize <= BufferSize
    BY <1>2
  <2> QED
    BY <1>1, <2>2, <2>3, <2>7, <2>8, <2>9, <2>10
<1> QED
  BY <1>1, <1>3, <1>4, <1>5, <1>9, <1>10 DEF TakeAcknowledge

\* Storing a fragment loses none that the endpoint held.
LEMMA StoreHolds ==
    ASSUME Inv, NEW e \in Endpoint, NEW p \in Packet, Acceptable(e, p),
           StoreFragment(e, p)
    PROVE  \A f \in Endpoint : \A s \in Nat : Held(f, s) => Held(f, s)'
<1>1. UNCHANGED rxSequence
  BY DEF StoreFragment
<1>2. ASSUME NEW f \in Endpoint, NEW s \in Nat, Held(f, s)
      PROVE  Held(f, s)'
  <2>1. rxSequence[f] \in Nat /\ RxWindow \in Nat
    BY Typed, Constants DEF Inv
  <2>2. CASE s < rxSequence[f]
    BY <1>1, <2>2 DEF Held
  <2>3. CASE ~(s < rxSequence[f]) /\ f = e
    <3>1. s \in rxSequence[e]..(rxSequence[e] + RxWindow - 1) /\ Arrived(e, s)
      BY <1>2, <2>1, <2>3 DEF Held
    <3>2. rxFragments'[e][Index(s, BufferSize)].ack = s
      BY <3>1, StoreKeeps DEF Arrived
    <3> QED
      BY <1>1, <2>1, <2>3, <3>1, <3>2 DEF Held, Arrived
  <2>4. CASE ~(s < rxSequence[f]) /\ f # e
    BY <1>1, <1>2, <2>4, StoreKeeps DEF Held, Arrived
  <2> QED
    BY <2>2, <2>3, <2>4
<1> QED
  BY <1>2

\* An accepted packet, whatever else the network does, preserves the
\* invariant.
LEMMA AcceptStep ==
    ASSUME Inv, NEW e \in Endpoint, NEW p \in Packet,
           Truthful(Peer(e), p), Acceptable(e, p),
           TakeAcknowledge(e, p), StoreFragment(e, p),
           net' \in [Endpoint -> SUBSET Packet],
           \A f \in Endpoint : net'[f] \subseteq net[f],
           faults' \in Nat
    PROVE  Inv'
<1>1. /\ txAcknowledge' = [txAcknowledge EXCEPT ![e] = p.acknowledge]
      /\ UNCHANGED <<txSequence, txFrame, rxSequence, rxSelackoffset, delivered>>
  BY DEF TakeAcknowledge, StoreFragment
<1>2. /\ txAcknowledge \in [Endpoint -> Nat] /\ p.acknowledge \in Nat
      /\ txAcknowledge[e] <= p.acknowledge /\ p.acknowledge <= txSequence[e]
      /\ p.acknowledge <= rxSequence[Peer(e)]
  BY DEF Inv, TypeOK, Packet, Acceptable, Truthful
<1>3. ASSUME NEW f \in Endpoint
      PROVE  /\ txAcknowledge'[f] \in Nat /\ txAcknowledge[f] \in Nat
             /\ txAcknowledge[f] <= txAcknowledge'[f]
             /\ f = e => txAcknowledge'[f] = p.acknowledge
             /\ f # e => txAcknowledge'[f] = txAcknowledge[f]
  BY <1>1, <1>2
<1>4. \A f \in Endpoint : \A s \in Nat : WithinWindow(f, s) => WithinWindow(f, s)'
  BY <1>1, <1>3, Constants DEF WithinWindow
<1>5. \A f \in Endpoint : \A s \in Nat : Held(f, s) => Held(f, s)'
  BY StoreHolds
<1>6. TypeOK'
  <2>1. /\ txBufferlen' \in [Endpoint -> Nat] /\ DOMAIN txFragments' = Endpoint
        /\ rxFragments' \in [Endpoint -> [0..(BufferSize - 1) -> Slot]]
    BY StoreKeeps, TakeKeeps
  <2>2. txAcknowledge' \in [Endpoint -> Nat]
    BY <1>1, <1>2
  <2>3. ASSUME NEW f \in Endpoint
        PROVE  txFragments'[f] \in [0..(txBufferlen'[f] - 1) -> Slot]
    <3>1. CASE f = e
      BY <3>1, TakeKeeps
    <3>2. CASE f # e
      BY <3>2, TakeKeeps, Typed DEF Inv
    <3> QED
      BY <3>1, <3>2
  <2> QED
    BY <1>1, <2>1, <2>2, <2>3 DEF Inv, TypeOK, SlotsOf
<1>7. CountersOrdered'
  <2> SUFFICES ASSUME NEW f \in Endpoint
               PROVE  /\ txAcknowledge'[f] <= txSequence[f]
                      /\ txSequence[f] <= Len(Stream[f])
                      /\ txFrame[f] < txAcknowledge'[f] + TxWindow
                      /\ BufferSize <= txBufferlen'[f]
    BY <1>1 DEF CountersOrdered
  <2>1. /\ txAcknowledge[f] <= txSequence[f] /\ txSequence[f] <= Len(Stream[f])
        /\ txFrame[f] < txAcknowledge[f] + TxWindow
        /\ BufferSize <= txBufferlen[f]
        /\ txFrame[f] \in Nat /\ TxWindow \in Nat
    BY Typed, Constants DEF Inv, CountersOrdered
  <2>2. BufferSize <= txBufferlen'[f]
    BY <2>1, TakeKeeps
  <2>3. txAcknowledge'[f] <= txSequence[f]
    BY <1>2, <1>3, <2>1
  <2>4. txFrame[f] < txAcknowledge'[f] + TxWindow
    BY <1>3, <2>1
  <2> QED
    BY <2>1, <2>2, <2>3, <2>4
<1>8. InOrderDelivery'
  BY <1>1 DEF Inv, InOrderDelivery
<1>9. AcknowledgedIsDelivered'
  <2> SUFFICES ASSUME NEW f \in Endpoint
               PROVE  /\ txAcknowledge'[f] <= rxSequence[Peer(f)]
                      /\ rxSequence[Peer(f)] <= txAcknowledge'[f] + TxWindow
    BY <1>1 DEF AcknowledgedIsDelivered
  <2>1. /\ txAcknowledge[f] <= rxSequence[Peer(f)]
        /\ rxSequence[Peer(f)] <= txAcknowledge[f] + TxWindow
        /\ rxSequence[Peer(f)] \in Nat /\ TxWindow \in Nat
    BY Typed, Constants, Peers DEF Inv, AcknowledgedIsDelivered
  <2>2. txAcknowledge'[f] <= rxSequence[Peer(f)]
    BY <1>2, <1>3, <2>1
  <2> QED
    BY <1>3, <2>1, <2>2
<1>10. SendBufferIntact'
  <2> SUFFICES ASSUME NEW f \in Endpoint
               PROVE  /\ txSequence[f] - txAcknowledge'[f] <= txBufferlen'[f]
                      /\ \A s \in txAcknowledge'[f]..(txSequence[f] - 1) :
                            txFragments'[f][Index(s, txBufferlen'[f])].data
                                = Stream[f][s + 1]
    BY <1>1 DEF SendBufferIntact, Used
  <2>1. CASE f = e
    BY <1>3, <2>1, TakeKeeps
  <2>2. CASE f # e
    <3>1. /\ txBufferlen'[f] = txBufferlen[f] /\ txFragments'[f] = txFragments[f]
          /\ txAcknowledge'[f] = txAcknowledge[f]
      BY <1>3, <2>2, TakeKeeps
    <3> QED
      BY <3>1 DEF Inv, SendBufferIntact, Used
  <2> QED
    BY <2>1, <2>2
<1>11. SkipsOnlyHeld'
  <2> SUFFICES ASSUME NEW f \in Endpoint,
                      NEW s \in txAcknowledge'[f]..(txSequence[f] - 1),
                      txFragments'[f][Index(s, txBufferlen'[f])].ack = s
               PROVE  Held(Peer(f), s)'
    BY <1>1 DEF SkipsOnlyHeld
  <2>1. s \in Nat
    BY <1>3
  <2>2. CASE f = e
    <3>1. Held(Peer(e), s)
      BY <1>3, <2>2, TakeKeeps
    <3> QED
      BY <1>5, <2>1, <2>2, <3>1, Peers
  <2>3. CASE f # e
    <3>1. /\ txBufferlen'[f] = txBufferlen[f] /\ txFragments'[f] = txFragments[f]
          /\ txAcknowledge'[f] = txAcknowledge[f]
      BY <1>3, <2>3, TakeKeeps
    <3>2. Held(Peer(f), s)
      BY <3>1 DEF Inv, SkipsOnlyHeld
    <3> QED
      BY <1>5, <2>1, <3>2, Peers
  <2> QED
    BY <2>2, <2>3
<1>12. ReceiveBufferIntact'
  <2> SUFFICES ASSUME NEW f \in Endpoint,
                      NEW s \in rxSequence[f]..(rxSequence[f] + RxWindow - 1),
                      rxFragments'[f][Index(s, BufferSize)].ack = s
               PROVE  /\ WithinWindow(Peer(f), s)'
                      /\ rxFragments'[f][Index(s, BufferSize)].data
                            = Stream[Peer(f)][s + 1]
    BY <1>1 DEF ReceiveBufferIntact, Arrived
  <2>1. s \in Nat /\ Peer(f) \in Endpoint
    BY Typed, Peers DEF Inv
  <2>2. ASSUME rxFragments'[f][Index(s, BufferSize)]
                   = rxFragments[f][Index(s, BufferSize)]
        PROVE  /\ WithinWindow(Peer(f), s)
               /\ rxFragments'[f][Index(s, BufferSize)].data
                     = Stream[Peer(f)][s + 1]
    BY <2>2 DEF Inv, ReceiveBufferIntact, Arrived
  <2>3. CASE f = e
    <3>1. CASE s = p.sequence /\ rxFragments'[e][Index(s, BufferSize)].data = p.data
      <4>1. WithinWindow(Peer(e), s) /\ p.data = Stream[Peer(e)][s + 1]
        BY <2>1, <3>1 DEF Truthful
      <4> QED
        BY <1>4, <2>1, <2>3, <3>1, <4>1
    <3>2. CASE rxFragments'[e][Index(s, BufferSize)]
                   = rxFragments[e][Index(s, BufferSize)]
      BY <1>4, <2>1, <2>2, <2>3, <3>2
    <3> QED
      BY <2>3, <3>1, <3>2, StoreKeeps
  <2>4. CASE f # e
    BY <1>4, <2>1, <2>2, <2>4, StoreKeeps
  <2> QED
    BY <2>3, <2>4
<1>13. PacketsTruthful'
  <2> SUFFICES ASSUME NEW f \in Endpoint, NEW q \in net'[Peer(f)]
               PROVE  Truthful(f, q)'
    BY DEF PacketsTruthful
  <2>1. q \in net[Peer(f)] /\ q \in Packet /\ Truthful(f, q)
    BY Typed, Peers DEF Inv, PacketsTruthful
  <2>2. q.selack \in SUBSET Nat /\ q.sequence \in Int
    BY <2>1 DEF Packet
  <2>3. q.sequence # -1 => q.sequence \in Nat
    BY <2>1, <2>2 DEF Truthful
  <2> QED
    BY <1>1, <1>4, <1>5, <2>1, <2>2, <2>3 DEF Truthful
<1>14. NothingAhead'
  <2> SUFFICES ASSUME NEW f \in Endpoint, NEW i \in 0..(BufferSize - 1)
               PROVE  rxFragments'[f][i].ack < rxSequence[f] + RxWindow
    BY <1>1 DEF NothingAhead
  <2>1. rxFragments[f][i].ack < rxSequence[f] + RxWindow
    BY DEF Inv, NothingAhead
  <2>2. CASE p.sequence < rxSequence[e]
    BY <2>1, <2>2 DEF StoreFragment
  <2>3. CASE ~(p.sequence < rxSequence[e])
    <3>1. rxFragments' = [rxFragments EXCEPT ![e][Index(p.sequence, BufferSize)] =
                             [data |-> p.data, ack |-> p.sequence]]
      BY <2>3 DEF StoreFragment
    <3>2. p.sequence < rxSequence[e] + RxWindow
      BY DEF Acceptable
    <3>3. \/ rxFragments'[f][i] = rxFragments[f][i]
          \/ f = e /\ rxFragments'[f][i].ack = p.sequence
      <4>1. /\ e \in DOMAIN rxFragments /\ f \in DOMAIN rxFragments
            /\ i \in DOMAIN rxFragments[f]
        BY DEF Inv, TypeOK
      <4>2. PICK new : new = [data |-> p.data, ack |-> p.sequence]
        OBVIOUS
      <4>3. new.ack = p.sequence
        BY <4>2
      <4>4. PICK j : j = Index(p.sequence, BufferSize)
        OBVIOUS
      <4>5. rxFragments' = [rxFragments EXCEPT ![e][j] = new]
        BY <3>1, <4>2, <4>4
      <4>6. \/ rxFragments'[f][i] = rxFragments[f][i]
            \/ f = e /\ rxFragments'[f][i] = new
        <5>1. PICK row : row = [rxFragments[e] EXCEPT ![j] = new]
          OBVIOUS
        <5>2. rxFragments' = [rxFragments EXCEPT ![e] = row]
          BY <4>5, <5>1
        <5>3. f # e => rxFragments'[f] = rxFragments[f]
          BY <4>1, <5>2
        <5>4. f = e => rxFragments'[f] = row
          BY <4>1, <5>2
        <5>5. f = e => row[i] = rxFragments[f][i] \/ row[i] = new
          BY <4>1, <5>1
        <5> QED
          BY <5>3, <5>4, <5>5
      <4> QED
        BY <4>3, <4>6
    <3> QED
      BY <2>1, <3>2, <3>3
  <2> QED
    BY <2>2, <2>3
<1> QED
  BY <1>6, <1>7, <1>8, <1>9, <1>10, <1>11, <1>12, <1>13, <1>14 DEF Inv

-----------------------------------------------------------------------------
(* The application reads *)

\* What the application is handed is the next n fragments of the stream.
LEMMA Delivers ==
    ASSUME Inv, NEW e \in Endpoint, NEW n \in 1..RxWindow, Receive(e, n)
    PROVE  /\ delivered' \in [Endpoint -> Seq(Data)]
           /\ \A f \in Endpoint : f # e => delivered'[f] = delivered[f]
           /\ Len(delivered'[e]) = rxSequence[e] + n
           /\ rxSequence[e] + n <= txSequence[Peer(e)]
           /\ rxSequence[e] + n <= txAcknowledge[Peer(e)] + TxWindow
           /\ \A i \in 1..(rxSequence[e] + n) :
                 delivered'[e][i] = Stream[Peer(e)][i]
<1>1. PICK lo \in Nat : lo = rxSequence[e]
  BY Typed DEF Inv
<1>2. n \in Nat /\ n >= 1 /\ n <= RxWindow /\ Peer(e) \in Endpoint
  BY Constants, Peers
<1>3. ASSUME NEW s \in lo..(lo + n - 1)
      PROVE  /\ WithinWindow(Peer(e), s)
             /\ rxFragments[e][Index(s, BufferSize)].data = Stream[Peer(e)][s + 1]
  <2>1. Arrived(e, s)
    BY <1>1 DEF Receive, Readable
  <2>2. s \in rxSequence[e]..(rxSequence[e] + RxWindow - 1)
    BY <1>1, <1>2, Constants
  <2> QED
    BY <2>1, <2>2 DEF Inv, ReceiveBufferIntact
<1>4. lo + n <= txSequence[Peer(e)] /\ lo + n <= txAcknowledge[Peer(e)] + TxWindow
  <2>1. lo + n - 1 \in lo..(lo + n - 1)
    BY <1>2
  <2>2. WithinWindow(Peer(e), lo + n - 1)
    BY <1>3, <2>1
  <2>3. txSequence[Peer(e)] \in Nat /\ txAcknowledge[Peer(e)] \in Nat
    BY <1>2, Typed DEF Inv
  <2> QED
    BY <1>2, <2>2, <2>3, Constants DEF WithinWindow
<1>5. PICK stream \in Seq(Data) : stream = Stream[Peer(e)]
  BY <1>2, Constants
<1>6. lo + n <= Len(stream)
  BY <1>2, <1>4, <1>5, Bounds, Typed DEF Inv
<1>7. PICK new : new = [i \in 1..n |->
                           rxFragments[e][Index(lo + i - 1, BufferSize)].data]
  OBVIOUS
<1>8. ASSUME NEW i \in 1..n
      PROVE  new[i] = stream[lo + i] /\ stream[lo + i] \in Data
  <2>1. lo + i - 1 \in lo..(lo + n - 1)
    BY <1>2
  <2>2. rxFragments[e][Index(lo + i - 1, BufferSize)].data
            = Stream[Peer(e)][(lo + i - 1) + 1]
    BY <1>3, <2>1
  <2>3. (lo + i - 1) + 1 = lo + i /\ lo + i \in 1..Len(stream)
    BY <1>2, <1>6
  <2> QED
    BY <1>5, <1>7, <2>2, <2>3
<1>9. new \in Seq(Data) /\ Len(new) = n
  <2>1. DOMAIN new = 1..n /\ new \in [1..n -> Data]
    BY <1>7, <1>8
  <2>2. new \in Seq(Data)
    BY <1>2, <2>1
  <2> QED
    BY <1>2, <2>1, <2>2
<1>10. PICK old \in Seq(Data) : old = delivered[e]
  BY Typed DEF Inv
<1>11. /\ Len(old) = lo
       /\ \A i \in 1..lo : old[i] = stream[i]
  BY <1>1, <1>5, <1>10 DEF Inv, InOrderDelivery
<1>12. delivered' = [delivered EXCEPT ![e] = old \o new]
  BY <1>1, <1>7, <1>10 DEF Receive
<1>13. /\ delivered'[e] = old \o new
       /\ \A f \in Endpoint : f # e => delivered'[f] = delivered[f]
       /\ delivered' \in [Endpoint -> Seq(Data)]
  <2>1. delivered \in [Endpoint -> Seq(Data)]
    BY DEF Inv, TypeOK
  <2>2. old \o new \in Seq(Data)
    BY <1>9
  <2> QED
    BY <1>12, <2>1, <2>2
<1>14. Len(old \o new) = lo + n
  <2>1. Len(old) \in Nat /\ Len(new) \in Nat /\ Len(old \o new) = Len(old) + Len(new)
    BY <1>9
  <2> QED
    BY <1>9, <1>11, <2>1
<1>15. ASSUME NEW i \in 1..(lo + n)
       PROVE  (old \o new)[i] = stream[i]
  <2>1. CASE i <= lo
    <3>1. (old \o new)[i] = old[i]
      BY <1>9, <1>11, <2>1
    <3> QED
      BY <1>11, <2>1, <3>1
  <2>2. CASE lo < i
    <3>1. i - lo \in 1..n /\ lo + (i - lo) = i
      BY <1>2, <2>2
    <3>2. (old \o new)[i] = new[i - lo]
      <4>1. i \in 1..(Len(old) + Len(new)) /\ i > Len(old)
        BY <1>9, <1>11, <2>2
      <4>2. (old \o new)[i] = new[i - Len(old)]
        BY <1>9, <4>1
      <4> QED
        BY <1>11, <4>2
    <3> QED
      BY <1>8, <3>1, <3>2
  <2>3. i <= lo \/ lo < i
    BY <1>2
  <2> QED
    BY <2>1, <2>2, <2>3
<1> QED
  BY <1>1, <1>4, <1>5, <1>13, <1>14, <1>15

\* Reading loses no fragment that the endpoint held: it is handed out.
LEMMA ReadHolds ==
    ASSUME Inv, NEW e \in Endpoint, NEW n \in 1..RxWindow, Receive(e, n)
    PROVE  \A f \in Endpoint : \A s \in Nat : Held(f, s) => Held(f, s)'
<1>1. n \in Nat /\ UNCHANGED rxFragments
      /\ rxSequence' = [rxSequence EXCEPT ![e] = @ + n]
  BY Constants DEF Receive
<1>2. ASSUME NEW f \in Endpoint
      PROVE  /\ rxSequence[f] \in Nat /\ rxSequence'[f] \in Nat
             /\ rxSequence[f] <= rxSequence'[f]
  BY <1>1 DEF Inv, TypeOK
<1> QED
  BY <1>1, <1>2, Constants DEF Held, Arrived

\* Reading moves the receive window on, and keeps the invariant.
LEMMA ReadStep ==
    ASSUME Inv, NEW e \in Endpoint, Read(e)
    PROVE  Inv'
<1>1. PICK n \in 1..RxWindow : Receive(e, n)
  BY DEF Read
<1>2. n \in Nat /\ n >= 1
  BY Constants
<1>3. /\ rxSequence' = [rxSequence EXCEPT ![e] = @ + n]
      /\ rxSelackoffset' = [rxSelackoffset EXCEPT ![e] = 1]
            \/ rxSelackoffset' = rxSelackoffset
      /\ UNCHANGED <<txSequence, txAcknowledge, txFrame, txBufferlen,
                     txFragments, rxFragments, net, faults>>
  BY <1>1 DEF Receive, txVars, netVars
<1>4. ASSUME NEW f \in Endpoint
      PROVE  /\ rxSequence[f] \in Nat /\ rxSequence'[f] \in Nat
             /\ rxSequence[f] <= rxSequence'[f]
             /\ f = e => rxSequence'[f] = rxSequence[f] + n
             /\ f # e => rxSequence'[f] = rxSequence[f]
  BY <1>2, <1>3 DEF Inv, TypeOK
<1>5. \A f \in Endpoint : \A s \in Nat : Held(f, s) => Held(f, s)'
  BY <1>1, ReadHolds
<1>6. TypeOK'
  <2>1. rxSequence' \in [Endpoint -> Nat]
    BY <1>2, <1>3 DEF Inv, TypeOK
  <2>2. rxSelackoffset' \in [Endpoint -> {0, 1}]
    BY <1>3 DEF Inv, TypeOK
  <2>3. delivered' \in [Endpoint -> Seq(Data)]
    BY <1>1, Delivers
  <2> QED
    BY <1>3, <2>1, <2>2, <2>3 DEF Inv, TypeOK, SlotsOf
<1>7. CountersOrdered'
  BY <1>3 DEF Inv, CountersOrdered
<1>8. InOrderDelivery'
  <2> SUFFICES ASSUME NEW f \in Endpoint
               PROVE  /\ Len(delivered'[f]) = rxSequence'[f]
                      /\ rxSequence'[f] <= txSequence[Peer(f)]
                      /\ \A i \in 1..Len(delivered'[f]) :
                            delivered'[f][i] = Stream[Peer(f)][i]
    BY <1>3 DEF InOrderDelivery
  <2>1. CASE f = e
    BY <1>1, <1>4, <2>1, Delivers
  <2>2. CASE f # e
    <3>1. delivered'[f] = delivered[f] /\ rxSequence'[f] = rxSequence[f]
      BY <1>1, <1>4, <2>2, Delivers
    <3> QED
      BY <3>1 DEF Inv, InOrderDelivery
  <2> QED
    BY <2>1, <2>2
<1>9. AcknowledgedIsDelivered'
  <2> SUFFICES ASSUME NEW f \in Endpoint
               PROVE  /\ txAcknowledge[f] <= rxSequence'[Peer(f)]
                      /\ rxSequence'[Peer(f)] <= txAcknowledge[f] + TxWindow
    BY <1>3 DEF AcknowledgedIsDelivered
  <2>1. /\ txAcknowledge[f] <= rxSequence[Peer(f)] /\ txAcknowledge[f] \in Nat
        /\ rxSequence[Peer(f)] <= txAcknowledge[f] + TxWindow
        /\ Peer(f) \in Endpoint
    BY Typed, Peers DEF Inv, AcknowledgedIsDelivered
  <2>2. rxSequence'[Peer(f)] <= txAcknowledge[f] + TxWindow
    <3>1. CASE Peer(f) = e
      <4>1. Peer(e) = f
        BY <3>1, Peers
      <4> QED
        BY <1>1, <1>4, <3>1, <4>1, Delivers
    <3>2. CASE Peer(f) # e
      BY <1>4, <2>1, <3>2
    <3> QED
      BY <3>1, <3>2
  <2>3. txAcknowledge[f] <= rxSequence'[Peer(f)]
    BY <1>4, <2>1
  <2> QED
    BY <2>2, <2>3
<1>10. SendBufferIntact'
  BY <1>3 DEF Inv, SendBufferIntact, Used
<1>11. NothingAhead'
  <2> SUFFICES ASSUME NEW f \in Endpoint, NEW i \in 0..(BufferSize - 1)
               PROVE  rxFragments[f][i].ack < rxSequence'[f] + RxWindow
    BY <1>3 DEF NothingAhead
  <2>1. rxFragments[f][i].ack < rxSequence[f] + RxWindow
    BY DEF Inv, NothingAhead
  <2>2. rxFragments[f][i].ack \in Int
    BY Typed DEF Inv, Slot
  <2> QED
    BY <1>4, <2>1, <2>2, Constants
<1>12. ReceiveBufferIntact'
  <2> SUFFICES ASSUME NEW f \in Endpoint,
                      NEW s \in rxSequence'[f]..(rxSequence'[f] + RxWindow - 1),
                      Arrived(f, s)
               PROVE  /\ WithinWindow(Peer(f), s)
                      /\ rxFragments[f][Index(s, BufferSize)].data
                            = Stream[Peer(f)][s + 1]
    BY <1>3 DEF ReceiveBufferIntact, Arrived, WithinWindow
  <2>1. s \in Nat /\ rxSequence[f] <= s
    BY <1>4
  <2>2. Index(s, BufferSize) \in 0..(BufferSize - 1)
    BY <2>1, Constants, IndexInRing
  <2>3. s < rxSequence[f] + RxWindow
    BY <2>2 DEF Inv, NothingAhead, Arrived
  <2>4. s \in rxSequence[f]..(rxSequence[f] + RxWindow - 1)
    BY <1>4, <2>1, <2>3, Constants
  <2> QED
    BY <2>4 DEF Inv, ReceiveBufferIntact
<1>13. SkipsOnlyHeld'
  <2> SUFFICES ASSUME NEW f \in Endpoint,
                      NEW s \in txAcknowledge[f]..(txSequence[f] - 1),
                      txFragments[f][Index(s, txBufferlen[f])].ack = s
               PROVE  Held(Peer(f), s)'
    BY <1>3 DEF SkipsOnlyHeld
  <2>1. Held(Peer(f), s)
    BY DEF Inv, SkipsOnlyHeld
  <2>2. s \in Nat
    BY Typed DEF Inv
  <2> QED
    BY <1>5, <2>1, <2>2, Peers
<1>14. PacketsTruthful'
  <2> SUFFICES ASSUME NEW f \in Endpoint, NEW q \in net[Peer(f)]
               PROVE  Truthful(f, q)'
    BY <1>3 DEF PacketsTruthful
  <2>1. Truthful(f, q) /\ q \in Packet
    BY Typed, Peers DEF Inv, PacketsTruthful
  <2>2. q.selack \in SUBSET Nat /\ q.acknowledge \in Nat
    BY <2>1 DEF Packet
  <2>3. q.acknowledge <= rxSequence'[f]
    BY <1>4, <2>1, <2>2 DEF Truthful
  <2> QED
    BY <1>3, <1>5, <2>1, <2>2, <2>3 DEF Truthful, WithinWindow
<1> QED
  BY <1>6, <1>7, <1>8, <1>9, <1>10, <1>11, <1>12, <1>13, <1>14 DEF Inv

-----------------------------------------------------------------------------
(* The network *)

\* Fewer packets on the way, and nothing else, preserves the invariant.
LEMMA DropStep ==
    ASSUME Inv, UNCHANGED <<txVars, rxVars>>,
           net' \in [Endpoint -> SUBSET Packet],
           \A f \in Endpoint : net'[f] \subseteq net[f],
           faults' \in Nat
    PROVE  Inv'
<1>1. UNCHANGED <<txSequence, txAcknowledge, txFrame, txBufferlen, txFragments,
                  rxSequence, rxFragments, rxSelackoffset, delivered>>
  BY DEF txVars, rxVars
<1>2. TypeOK'
  BY <1>1 DEF Inv, TypeOK, SlotsOf
<1>3. CountersOrdered' /\ InOrderDelivery' /\ AcknowledgedIsDelivered'
  BY <1>1 DEF Inv, CountersOrdered, InOrderDelivery, AcknowledgedIsDelivered
<1>4. SendBufferIntact' /\ NothingAhead'
  BY <1>1 DEF Inv, SendBufferIntact, Used, NothingAhead
<1>5. ReceiveBufferIntact'
  BY <1>1 DEF Inv, ReceiveBufferIntact, Arrived, WithinWindow
<1>6. SkipsOnlyHeld'
  BY <1>1 DEF Inv, SkipsOnlyHeld, Held, Arrived
<1>7. PacketsTruthful'
  <2> SUFFICES ASSUME NEW f \in Endpoint, NEW q \in net'[Peer(f)]
               PROVE  Truthful(f, q)'
    BY DEF PacketsTruthful
  <2>1. Truthful(f, q)
    BY Peers DEF Inv, PacketsTruthful
  <2> QED
    BY <1>1, <2>1 DEF Truthful, Held, Arrived, WithinWindow
<1> QED
  BY <1>2, <1>3, <1>4, <1>5, <1>6, <1>7 DEF Inv

\* A packet that arrives, once or twice, or is lost, preserves the invariant.
LEMMA NetworkStep ==
    ASSUME Inv, NEW e \in Endpoint, Network(e)
    PROVE  Inv'
<1>1. PICK p \in net[e] : Arrive(e, p) \/ ArriveTwice(e, p) \/ Lose(e, p)
  BY DEF Network
<1>2. p \in Packet
  BY Typed DEF Inv
<1>3. Truthful(Peer(e), p)
  BY Peers DEF Inv, PacketsTruthful
<1>4. /\ net' \in [Endpoint -> SUBSET Packet]
      /\ \A f \in Endpoint : net'[f] \subseteq net[f]
      /\ faults' \in Nat
  <2>1. net \in [Endpoint -> SUBSET Packet] /\ faults \in Nat
    BY DEF Inv, TypeOK
  <2>2. net' = [net EXCEPT ![e] = @ \ {p}] \/ net' = net
    BY <1>1 DEF Arrive, ArriveTwice, Lose
  <2>3. faults' = faults \/ faults' = faults + 1
    BY <1>1 DEF Arrive, ArriveTwice, Lose
  <2> QED
    BY <2>1, <2>2, <2>3
<1>5. CASE Acceptable(e, p) /\ TakeAcknowledge(e, p) /\ StoreFragment(e, p)
  BY <1>2, <1>3, <1>4, <1>5, AcceptStep
<1>6. CASE UNCHANGED <<txVars, rxVars>>
  BY <1>4, <1>6, DropStep
<1> QED
  BY <1>1, <1>5, <1>6 DEF Arrive, ArriveTwice, Lose, ReceiveNextFragment

-----------------------------------------------------------------------------
(* The invariant *)

\* Every step of either end and of the network preserves the invariant.
LEMMA InvStep == Inv /\ [Next]_vars => Inv'
<1> SUFFICES ASSUME Inv, [Next]_vars PROVE Inv'
  OBVIOUS
<1>1. ASSUME NEW e \in Endpoint, Write(e) PROVE Inv'
  BY <1>1, WriteStep
<1>2. ASSUME NEW e \in Endpoint, Transmit(e) PROVE Inv'
  BY <1>2, TransmitStep
<1>3. ASSUME NEW e \in Endpoint, Read(e) PROVE Inv'
  BY <1>3, ReadStep
<1>4. ASSUME NEW e \in Endpoint, Network(e) PROVE Inv'
  BY <1>4, NetworkStep
<1>5. CASE UNCHANGED vars
  <2>1. UNCHANGED <<txVars, rxVars>> /\ UNCHANGED <<net, faults>>
    BY <1>5 DEF vars, netVars
  <2>2. net \in [Endpoint -> SUBSET Packet] /\ faults \in Nat
    BY DEF Inv, TypeOK
  <2> QED
    BY <2>1, <2>2, DropStep
<1> QED
  BY <1>1, <1>2, <1>3, <1>4, <1>5 DEF Next

\* Every reachable state satisfies the inductive invariant.
THEOREM Invariance == Spec => []Inv
<1>1. Init => Inv
  BY InitInv
<1>2. Inv /\ [Next]_vars => Inv'
  BY InvStep
<1> QED
  BY <1>1, <1>2, PTL DEF Spec

\* The state has the shape of netreliablemsg_t.
THEOREM TypeCorrect == Spec => []TypeOK
BY Invariance, PTL DEF Inv

\* Each application is handed a prefix of what the other one queued.
THEOREM DeliveredInOrder == Spec => []InOrderDelivery
BY Invariance, PTL DEF Inv

\* The send window is never ahead of the application at the other end.
THEOREM AcknowledgedWasDelivered == Spec => []AcknowledgedIsDelivered
BY Invariance, PTL DEF Inv

\* Every fragment that may have to be sent again is intact, through growth,
\* shrinking and failed allocations of the ring.
THEOREM SendBufferStaysIntact == Spec => []SendBufferIntact
BY Invariance, PTL DEF Inv

\* TransmitNextFragment skips only what the other end holds.
THEOREM SkippedIsHeld == Spec => []SkipsOnlyHeld
BY Invariance, PTL DEF Inv

\* The error exits for a bad acknowledge are never taken between two ends
\* that run this code.
THEOREM NoErrorExit == Spec => []NoBadAcknowledge
<1>1. Inv => NoBadAcknowledge
  <2> SUFFICES ASSUME Inv, NEW e \in Endpoint, NEW p \in net[e]
               PROVE  /\ p.acknowledge <= txAcknowledge[e] + TxWindow
                      /\ p.acknowledge <= txSequence[e]
                      /\ \A s \in p.selack : s < p.acknowledge + TxWindow
    BY DEF NoBadAcknowledge
  <2>1. Truthful(Peer(e), p) /\ p \in Packet
    BY Peers, Typed DEF Inv, PacketsTruthful
  <2>2. /\ p.acknowledge \in Nat /\ p.selack \in SUBSET Nat
        /\ p.acknowledge <= rxSequence[Peer(e)]
        /\ \A s \in p.selack : s < p.acknowledge + RxWindow
    BY <2>1 DEF Truthful, Packet
  <2>3. /\ rxSequence[Peer(e)] <= txSequence[e]
        /\ rxSequence[Peer(e)] <= txAcknowledge[e] + TxWindow
        /\ rxSequence[Peer(e)] \in Nat /\ txSequence[e] \in Nat
        /\ txAcknowledge[e] \in Nat
    BY Bounds, Typed, Peers DEF Inv, AcknowledgedIsDelivered
  <2> QED
    BY <2>2, <2>3, Constants
<1> QED
  BY <1>1, Invariance, PTL

-----------------------------------------------------------------------------
(* What an endpoint held it still holds *)

\* In every step an end keeps each fragment it held, in its receive ring or
\* handed to the application.
LEMMA NextHolds ==
    ASSUME Inv, [Next]_vars
    PROVE  \A f \in Endpoint : \A s \in Nat : Held(f, s) => Held(f, s)'
<1> DEFINE Kept == \A f \in Endpoint : \A s \in Nat : Held(f, s) => Held(f, s)'
<1>1. ASSUME UNCHANGED <<rxSequence, rxFragments>> PROVE Kept
  BY <1>1 DEF Held, Arrived
<1>2. ASSUME NEW e \in Endpoint, Write(e) PROVE Kept
  <2>1. UNCHANGED <<rxSequence, rxFragments>>
    BY <1>2 DEF Write, Send, SendGrow, SendTruncated, Queue, rxVars
  <2> QED
    BY <1>1, <2>1
<1>3. ASSUME NEW e \in Endpoint, Transmit(e) PROVE Kept
  <2>1. UNCHANGED <<rxSequence, rxFragments>>
    BY <1>3 DEF Transmit, TransmitAck, TransmitFragment, SkipFragment, rxVars
  <2> QED
    BY <1>1, <2>1
<1>4. ASSUME NEW e \in Endpoint, Read(e) PROVE Kept
  BY <1>4, ReadHolds DEF Read
<1>5. ASSUME NEW e \in Endpoint, Network(e) PROVE Kept
  <2>1. PICK p \in net[e] : Arrive(e, p) \/ ArriveTwice(e, p) \/ Lose(e, p)
    BY <1>5 DEF Network
  <2>2. p \in Packet
    BY Typed DEF Inv
  <2>3. CASE Acceptable(e, p) /\ StoreFragment(e, p)
    BY <2>2, <2>3, StoreHolds
  <2>4. CASE UNCHANGED rxVars
    BY <1>1, <2>4 DEF rxVars
  <2> QED
    BY <2>1, <2>3, <2>4 DEF Arrive, ArriveTwice, Lose, ReceiveNextFragment
<1>6. CASE UNCHANGED vars
  BY <1>1, <1>6 DEF vars, rxVars
<1>7. CASE Next
  <2>1. PICK e \in Endpoint : Write(e) \/ Transmit(e) \/ Read(e) \/ Network(e)
    BY <1>7 DEF Next
  <2> QED
    BY <1>2, <1>3, <1>4, <1>5, <2>1
<1> QED
  BY <1>6, <1>7

\* A selective acknowledge stays true: nothing is stored over what it names.
THEOREM HeldStaysHeld == Spec => HeldIsKept
<1>1. Inv /\ [Next]_vars
         => [\A e \in Endpoint : \A s \in 0..(Len(Stream[Peer(e)]) - 1) :
                Held(e, s) => Held(e, s)']_vars
  <2> SUFFICES ASSUME Inv, [Next]_vars, NEW e \in Endpoint,
                      NEW s \in 0..(Len(Stream[Peer(e)]) - 1), Held(e, s)
               PROVE  Held(e, s)'
    OBVIOUS
  <2>1. s \in Nat
    BY Constants, Peers
  <2> QED
    BY <2>1, NextHolds
<1> QED
  BY <1>1, Invariance, PTL DEF Spec, HeldIsKept

-----------------------------------------------------------------------------
(* The transport implements two first-in first-out channels *)

\* An initial state of the transport is one of the two channels.
LEMMA InitRefines == Init => Channel!Init
BY DEF Init, Channel!Init, Endpoint, Channel!Endpoint

\* Every step of the transport is a step of a channel or leaves both alone.
LEMMA StepRefines ==
    ASSUME Inv, Inv', [Next]_vars
    PROVE  [Channel!Next]_(Channel!vars)
<1>1. Channel!Endpoint = Endpoint /\ \A e : Channel!Peer(e) = Peer(e)
  BY DEF Endpoint, Channel!Endpoint, Peer, Channel!Peer
<1>2. ASSUME UNCHANGED <<txSequence, txAcknowledge, delivered>>
      PROVE  [Channel!Next]_(Channel!vars)
  BY <1>2 DEF Channel!vars
<1>3. ASSUME NEW e \in Endpoint, Write(e)
      PROVE  [Channel!Next]_(Channel!vars)
  <2>1. /\ \E n \in Int : txSequence' = [txSequence EXCEPT ![e] = @ + n]
        /\ UNCHANGED <<txAcknowledge, delivered>>
    <3>1. PICK n \in 1..(Len(Stream[e]) - txSequence[e]), need \in Nat :
              Send(e, n, need) \/ SendGrow(e, n, need) \/ SendTruncated(e, n, need)
      BY <1>3 DEF Write
    <3>2. txBufferlen[e] - Used(e) \in Int
      BY Typed DEF Inv, Used
    <3> QED
      BY <3>1, <3>2 DEF Send, SendGrow, SendTruncated, Queue, rxVars
  <2>2. PICK top : top = txSequence'[e]
    OBVIOUS
  <2>3. /\ txSequence' = [txSequence EXCEPT ![e] = top]
        /\ top \in Nat /\ top <= Len(Stream[e])
    BY <2>1, <2>2 DEF Inv, TypeOK, CountersOrdered
  <2>4. txSequence[e] \in Nat /\ txSequence[e] <= top /\ Len(Stream[e]) \in Nat
    BY <1>3, <2>2, WriteGrows, Typed, Constants DEF Inv
  <2>5. CASE top = txSequence[e]
    <3>1. txSequence' = txSequence
      BY <2>3, <2>5 DEF Inv, TypeOK
    <3> QED
      BY <1>2, <2>1, <3>1
  <2>6. CASE top # txSequence[e]
    <3>1. top \in (txSequence[e] + 1)..Len(Stream[e])
      BY <2>3, <2>4, <2>6
    <3>2. Channel!Queue(e)
      BY <2>1, <2>3, <3>1 DEF Channel!Queue
    <3> QED
      BY <1>1, <3>2 DEF Channel!Next
  <2> QED
    BY <2>5, <2>6
<1>4. ASSUME NEW e \in Endpoint, Read(e)
      PROVE  [Channel!Next]_(Channel!vars)
  <2>1. PICK n \in 1..RxWindow : Receive(e, n)
    BY <1>4 DEF Read
  <2>2. UNCHANGED <<txSequence, txAcknowledge>>
    BY <2>1 DEF Receive, txVars
  <2>3. PICK m \in Nat : m = rxSequence[e] + n
    BY Typed, Constants DEF Inv
  <2>4. PICK stream \in Seq(Data) : stream = Stream[Peer(e)]
    BY Constants, Peers
  <2>5. /\ delivered'[e] \in Seq(Data) /\ Len(delivered'[e]) = m
        /\ m <= txSequence[Peer(e)] /\ m <= Len(stream)
        /\ \A i \in 1..m : delivered'[e][i] = stream[i]
    BY <2>1, <2>3, <2>4, Delivers, Bounds, Peers, Typed DEF Inv
  <2>6. delivered'[e] = SubSeq(stream, 1, m)
    BY <2>5
  <2>7. delivered' = [delivered EXCEPT ![e] = SubSeq(stream, 1, m)]
    BY <2>1, <2>6, Delivers DEF Inv, TypeOK
  <2>8. m \in (Len(delivered[e]) + 1)..txSequence[Peer(e)]
    BY <2>3, <2>5, Typed, Constants, Peers DEF Inv, InOrderDelivery
  <2>9. Channel!Deliver(e)
    BY <1>1, <2>2, <2>4, <2>7, <2>8 DEF Channel!Deliver
  <2> QED
    BY <1>1, <2>9 DEF Channel!Next
<1>5. ASSUME NEW e \in Endpoint, Transmit(e)
      PROVE  [Channel!Next]_(Channel!vars)
  <2>1. UNCHANGED <<txSequence, txAcknowledge, delivered>>
    BY <1>5 DEF Transmit, TransmitAck, TransmitFragment, SkipFragment,
                txVars, rxVars
  <2> QED
    BY <1>2, <2>1
<1>6. ASSUME NEW e \in Endpoint, Network(e)
      PROVE  [Channel!Next]_(Channel!vars)
  <2>1. PICK p \in net[e] : Arrive(e, p) \/ ArriveTwice(e, p) \/ Lose(e, p)
    BY <1>6 DEF Network
  <2>2. CASE UNCHANGED <<txVars, rxVars>>
    BY <1>2, <2>2 DEF txVars, rxVars
  <2>3. CASE Acceptable(e, p) /\ TakeAcknowledge(e, p) /\ StoreFragment(e, p)
    <3>1. /\ txAcknowledge' = [txAcknowledge EXCEPT ![e] = p.acknowledge]
          /\ UNCHANGED <<txSequence, delivered>>
      BY <2>3 DEF TakeAcknowledge, StoreFragment
    <3>2. /\ p.acknowledge \in Nat /\ txAcknowledge[e] \in Nat
          /\ txAcknowledge[e] <= p.acknowledge
          /\ rxSequence[Peer(e)] \in Nat
          /\ p.acknowledge <= rxSequence[Peer(e)]
      BY <2>3, Typed, Peers DEF Inv, PacketsTruthful, Truthful, Packet, Acceptable
    <3>3. Len(delivered[Peer(e)]) = rxSequence[Peer(e)]
      BY Peers DEF Inv, InOrderDelivery
    <3>4. CASE p.acknowledge = txAcknowledge[e]
      <4>1. txAcknowledge' = txAcknowledge
        BY <3>1, <3>4 DEF Inv, TypeOK
      <4> QED
        BY <1>2, <3>1, <4>1
    <3>5. CASE p.acknowledge # txAcknowledge[e]
      <4>1. p.acknowledge \in (txAcknowledge[e] + 1)..Len(delivered[Peer(e)])
        BY <3>2, <3>3, <3>5
      <4>2. Channel!Acknowledge(e)
        BY <1>1, <3>1, <4>1 DEF Channel!Acknowledge
      <4> QED
        BY <1>1, <4>2 DEF Channel!Next
    <3> QED
      BY <3>4, <3>5
  <2> QED
    BY <2>1, <2>2, <2>3 DEF Arrive, ArriveTwice, Lose, ReceiveNextFragment
<1>7. CASE Next
  <2>1. PICK e \in Endpoint : Write(e) \/ Transmit(e) \/ Read(e) \/ Network(e)
    BY <1>7 DEF Next
  <2> QED
    BY <1>3, <1>4, <1>5, <1>6, <2>1
<1>8. CASE UNCHANGED vars
  BY <1>2, <1>8 DEF vars, txVars, rxVars
<1> QED
  BY <1>7, <1>8

\* The transport implements ReliableChannel.
THEOREM Refinement == Spec => ImplementsChannel
<1>1. Init => Channel!Init
  BY InitRefines
<1>2. Inv /\ Inv' /\ [Next]_vars => [Channel!Next]_(Channel!vars)
  BY StepRefines
<1> QED
  BY <1>1, <1>2, Invariance, PTL DEF Spec, ImplementsChannel, Channel!Spec

=============================================================================
