----------------------------- MODULE NetchanProofs -----------------------------
(***************************************************************************)
(* What the netchan promises, for messages of any lengths, any size of a   *)
(* packet, any number of messages and any number of faults: that the       *)
(* client is given whole messages in order unless fragments were           *)
(* abandoned, nothing twice even then, and everything when nothing is      *)
(* lost.                                                                   *)
(*                                                                         *)
(* The inductive invariant, Good, says of each packet which part of which  *)
(* message it carries, of the receiver's buffer that it is the beginning   *)
(* of a message or, when fragments were abandoned, a mixture of several,   *)
(* and of each number under which a large message ended that all units     *)
(* that travel under it or a lower one belong to messages sent before      *)
(* those of higher ones (Split).  Without faults the packets in flight     *)
(* continue each other from what the receiver waits for to what the sender *)
(* has left (Linked).                                                      *)
(***************************************************************************)
EXTENDS Netchan, SequenceTheorems, WellFoundedInduction, TLAPS

-----------------------------------------------------------------------------
(* The inductive invariant, in parts.  It speaks of a channel c, packets   *)
(* net, a receiver r, transmitted messages s, what was handed out h,       *)
(* whether fragments were abandoned and how many faults there were, so     *)
(* that it can be stated of the middle of a step that transmits twice.     *)

Chan == [outgoingSequence : Nat \ {0}, unsentFragments : BOOLEAN,
         unsentFragmentStart : Nat, unsentBuffer : Seq(Units)]

PacketSet == [sequence : Nat \ {0}, fragmented : BOOLEAN,
              fragmentStart : Nat, data : Seq(Units)]

Peer == [incomingSequence : Nat, fragmentSequence : Nat,
         fragmentBuffer : Seq(Units)]

Message == [length : Lengths, key : Nat \ {0}]

Output == [sequence : Nat \ {0}, data : Seq(Units)]

Typed(c, net, r, s, h) ==
    /\ c \in Chan /\ net \in Seq(PacketSet) /\ r \in Peer
    /\ s \in Seq(Message) /\ h \in Seq(Output)

\* A message that goes out in fragments
Large(s, i) == s[i].length >= FRAGMENT_SIZE

\* What data holds are the units of message i after the first start
PartFrom(data, i, start) ==
    \A k \in 1..Len(data) : data[k] = <<i, start + k>>

\* What data holds are units of large messages
LargeUnits(data, s) ==
    \A k \in 1..Len(data) : data[k][1] \in 1..Len(s) /\ Large(s, data[k][1])

\* Every number is that of a message of its own
Counted(c, s) ==
    /\ Len(s) <= MaxMessages
    /\ c.outgoingSequence - 1 + (IF c.unsentFragments THEN 1 ELSE 0) <= Len(s)
    /\ c.unsentFragmentStart <= Len(c.unsentBuffer)
    /\ \A i \in 1..Len(s) : s[i].key <= c.outgoingSequence

\* What is unsent is a large message, the last one unless one was abandoned
Unsent(c, s, ab) ==
    c.unsentFragments =>
        \E i \in 1..Len(s) :
            /\ Large(s, i) /\ c.unsentBuffer = Data(i, s[i].length)
            /\ ab \/ (i = Len(s) /\ s[i].key = c.outgoingSequence)

\* The messages are numbered in order
Numbered(c, s, ab) ==
    ~ab =>
        /\ \A i, j \in 1..Len(s) : i < j => s[i].key < s[j].key
        /\ \A i \in 1..Len(s) :
              s[i].key < c.outgoingSequence \/ (i = Len(s) /\ c.unsentFragments)

\* Packet p carries a part of message i
Carries(p, i, s, ab) ==
    /\ p.fragmented <=> Large(s, i)
    /\ PartFrom(p.data, i, p.fragmentStart)
    /\ p.fragmentStart + Len(p.data) <= s[i].length
    /\ Len(p.data) <= FRAGMENT_SIZE
    /\ Len(p.data) < FRAGMENT_SIZE => p.fragmentStart + Len(p.data) = s[i].length
    /\ ~p.fragmented => p.fragmentStart = 0
    /\ (ab /\ p.fragmented) \/ s[i].key = p.sequence

\* The last packet of a message in fragments
LastOf(p) == p.fragmented /\ Len(p.data) < FRAGMENT_SIZE

PacketOK(p, c, s, ab) ==
    /\ p.sequence <= c.outgoingSequence
    /\ LastOf(p) => p.sequence < c.outgoingSequence
    /\ ~p.fragmented => p.sequence < c.outgoingSequence
    /\ \E i \in 1..Len(s) : Carries(p, i, s, ab)

\* A message that went out in one packet
SmallOutput(o, s) ==
    \E i \in 1..Len(s) :
        ~Large(s, i) /\ o.data = Data(i, s[i].length) /\ o.sequence = s[i].key

Received(r, c, s, ab) ==
    /\ r.incomingSequence < c.outgoingSequence
    /\ r.fragmentSequence <= c.outgoingSequence
    /\ LargeUnits(r.fragmentBuffer, s)
    /\ ~ab => \/ r.fragmentBuffer = << >>
              \/ \E i \in 1..Len(s) :
                    /\ Large(s, i) /\ s[i].key = r.fragmentSequence
                    /\ PartFrom(r.fragmentBuffer, i, 0)
                    /\ Len(r.fragmentBuffer) <= s[i].length

OutputOK(o, r, s, ab) ==
    /\ o.sequence <= r.incomingSequence /\ o.data # << >>
    /\ SmallOutput(o, s) \/ LargeUnits(o.data, s)
    /\ ~ab => \E i \in 1..Len(s) : o.data = Data(i, s[i].length) /\ o.sequence = s[i].key

HandedInOrder(h) ==
    \A j, k \in 1..Len(h) : j < k => h[j].sequence < h[k].sequence

\* What is of number n or less holds units of the messages up to m, what is
\* of a higher number those of later ones
SplitAt(data, number, n, m) ==
    \A k \in 1..Len(data) : IF number <= n THEN data[k][1] <= m ELSE data[k][1] > m

Split(n, m, c, net, r, s, h) ==
    /\ m <= Len(s)
    /\ \A j \in 1..Len(net) :
          net[j].fragmented => SplitAt(net[j].data, net[j].sequence, n, m)
    /\ SplitAt(r.fragmentBuffer, r.fragmentSequence, n, m)
    /\ \A j \in 1..Len(h) :
          SmallOutput(h[j], s) \/ SplitAt(h[j].data, h[j].sequence, n, m)
    /\ c.unsentFragments => SplitAt(c.unsentBuffer, c.outgoingSequence, n, m)

\* A number under which a large message ended is used for no other one
Closed(n, c, net, r, s, h) == \E m \in Nat : Split(n, m, c, net, r, s, h)

Separate(c, net, r, s, h) ==
    /\ \A j \in 1..Len(net) :
          LastOf(net[j]) => Closed(net[j].sequence, c, net, r, s, h)
    /\ \A j \in 1..Len(h) :
          SmallOutput(h[j], s) \/ Closed(h[j].sequence, c, net, r, s, h)

\* Where the transmission goes on after packet p, what p begins with, and
\* what the receiver and the sender go on with
End(p) ==
    IF p.fragmented /\ Len(p.data) = FRAGMENT_SIZE
    THEN <<p.sequence, p.fragmentStart + FRAGMENT_SIZE>>
    ELSE <<p.sequence + 1, 0>>

Start(p) == <<p.sequence, p.fragmentStart>>

Awaited(r) ==
    <<r.incomingSequence + 1,
      IF r.fragmentSequence = r.incomingSequence + 1 THEN Len(r.fragmentBuffer) ELSE 0>>

Coming(c) ==
    <<c.outgoingSequence, IF c.unsentFragments THEN c.unsentFragmentStart ELSE 0>>

\* Without faults the packets in flight are what the receiver waits for, one
\* after the other, up to what the sender has not sent yet
Linked(c, net, r) ==
    /\ \A j \in 1..Len(net) :
          Start(net[j]) = IF j = 1 THEN Awaited(r) ELSE End(net[j - 1])
    /\ Coming(c) = IF net = << >> THEN Awaited(r) ELSE End(net[Len(net)])

Smooth(c, net, r, s, h, ab, fl) ==
    ~ab /\ fl = 0 =>
        /\ Linked(c, net, r)
        /\ r.fragmentSequence <= r.incomingSequence + 1
        /\ Len(h) = r.incomingSequence
        /\ Len(s) = c.outgoingSequence - 1 + (IF c.unsentFragments THEN 1 ELSE 0)

Good(c, net, r, s, h, ab, fl) ==
    /\ Typed(c, net, r, s, h)
    /\ Counted(c, s) /\ Unsent(c, s, ab) /\ Numbered(c, s, ab)
    /\ \A j \in 1..Len(net) : PacketOK(net[j], c, s, ab)
    /\ Received(r, c, s, ab)
    /\ \A j \in 1..Len(h) : OutputOK(h[j], r, s, ab)
    /\ HandedInOrder(h)
    /\ Separate(c, net, r, s, h)
    /\ Smooth(c, net, r, s, h, ab, fl)

Inv ==
    /\ state \in {"CS_FREE", "CS_ZOMBIE", "CS_CONNECTED", "CS_PRIMED", "CS_ACTIVE"}
    /\ abandoned \in BOOLEAN /\ faults \in 0..MaxFaults
    /\ Good(chan, network, peer, sent, handed, abandoned, faults)

-----------------------------------------------------------------------------
(* Messages and their units.                                               *)

LEMMA UnitTypes ==
    ASSUME NEW u \in Units
    PROVE  u[1] \in 1..MaxMessages /\ u[1] \in Nat
<1>1. PICK T \in {{<<i, k>> : k \in 1..n} : i \in 1..MaxMessages, n \in Lengths} : u \in T
  BY DEF Units
<1>2. PICK i \in 1..MaxMessages, n \in Lengths : T = {<<i, k>> : k \in 1..n}
  BY <1>1
<1>3. PICK k \in 1..n : u = <<i, k>>
  BY <1>1, <1>2
<1> QED
  BY <1>3, BoundAssumption

LEMMA DataTypes ==
    ASSUME NEW i \in 1..MaxMessages, NEW n \in Lengths
    PROVE  /\ Data(i, n) \in Seq(Units)
           /\ Len(Data(i, n)) = n
           /\ \A k \in 1..n : Data(i, n)[k] = <<i, k>>
<1>1. n \in Nat
  BY LengthAssumption
<1>2. \A k \in 1..n : <<i, k>> \in Units
  <2> DEFINE T == {<<i, k>> : k \in 1..n}
  <2>1. T \in {{<<j, k>> : k \in 1..l} : j \in 1..MaxMessages, l \in Lengths}
    OBVIOUS
  <2> HIDE DEF T
  <2>2. T \subseteq Units
    BY <2>1 DEF Units
  <2> QED
    BY <2>2 DEF T
<1>3. Data(i, n) \in [1..n -> Units]
  BY <1>2 DEF Data
<1>4. Data(i, n) \in Seq(Units)
  BY <1>1, <1>3, SeqDef
<1>5. DOMAIN Data(i, n) = 1..n
  BY DEF Data
<1>6. Len(Data(i, n)) = n
  BY <1>1, <1>4, <1>5, LenProperties
<1> QED
  BY <1>4, <1>6 DEF Data

\* What was said of messages stays true when another is transmitted
LEMMA Longer ==
    ASSUME NEW s \in Seq(Message), NEW s2 \in Seq(Message), Len(s) <= Len(s2),
           \A i \in 1..Len(s) : s2[i] = s[i],
           NEW ab \in BOOLEAN, NEW ab2 \in BOOLEAN, ab => ab2
    PROVE  /\ \A i \in 1..Len(s) : i \in 1..Len(s2)
           /\ \A i \in 1..Len(s) : Large(s2, i) <=> Large(s, i)
           /\ \A d : LargeUnits(d, s) => LargeUnits(d, s2)
           /\ \A o : SmallOutput(o, s) => SmallOutput(o, s2)
           /\ \A p, i : i \in 1..Len(s) /\ Carries(p, i, s, ab) => Carries(p, i, s2, ab2)
<1>1. \A i \in 1..Len(s) : i \in 1..Len(s2)
  BY LenProperties
<1>2. \A i \in 1..Len(s) : Large(s2, i) <=> Large(s, i)
  BY DEF Large
<1> QED
  BY <1>1, <1>2 DEF LargeUnits, SmallOutput, Carries

-----------------------------------------------------------------------------
(* Transmitting a fragment.                                                *)

LEMMA FragmentFields ==
    ASSUME NEW c \in Chan, c.unsentFragmentStart <= Len(c.unsentBuffer)
    PROVE  /\ Fragment(c) \in PacketSet
           /\ Fragment(c).sequence = c.outgoingSequence
           /\ Fragment(c).fragmented
           /\ Fragment(c).fragmentStart = c.unsentFragmentStart
           /\ Len(Fragment(c).data) =
                 IF LastFragment(c) THEN Len(c.unsentBuffer) - c.unsentFragmentStart
                 ELSE FRAGMENT_SIZE
           /\ Len(Fragment(c).data) <= FRAGMENT_SIZE
           /\ Len(Fragment(c).data) < FRAGMENT_SIZE <=> LastFragment(c)
           /\ c.unsentFragmentStart + Len(Fragment(c).data) <= Len(c.unsentBuffer)
           /\ \A k \in 1..Len(Fragment(c).data) :
                 /\ c.unsentFragmentStart + k \in 1..Len(c.unsentBuffer)
                 /\ Fragment(c).data[k] = c.unsentBuffer[c.unsentFragmentStart + k]
<1> DEFINE buffer == c.unsentBuffer
           start == c.unsentFragmentStart
           end == IF LastFragment(c) THEN Len(buffer) ELSE start + FRAGMENT_SIZE
<1>1. /\ buffer \in Seq(Units) /\ Len(buffer) \in Nat /\ start \in Nat
      /\ start <= Len(buffer) /\ FRAGMENT_SIZE \in Nat \ {0}
      /\ c.outgoingSequence \in Nat \ {0}
  BY SizeAssumption, LenProperties DEF Chan
<1>2. LastFragment(c) <=> start + FRAGMENT_SIZE > Len(buffer)
  BY DEF LastFragment
<1>3. Fragment(c) = [sequence |-> c.outgoingSequence, fragmented |-> TRUE,
                     fragmentStart |-> start, data |-> SubSeq(buffer, start + 1, end)]
  BY DEF Fragment
<1> HIDE DEF buffer, start
<1>4. end \in Nat /\ start <= end /\ end <= Len(buffer)
  BY <1>1, <1>2
<1>5. end - start = (IF LastFragment(c) THEN Len(buffer) - start ELSE FRAGMENT_SIZE)
  BY <1>1
<1> HIDE DEF end
<1>6. \A i \in (start + 1)..end : buffer[i] \in Units
  BY <1>1, <1>4, ElementOfSeq
<1>7. /\ SubSeq(buffer, start + 1, end) \in Seq(Units)
      /\ Len(SubSeq(buffer, start + 1, end)) = end - start
      /\ \A k \in 1..(end - start) : SubSeq(buffer, start + 1, end)[k] = buffer[start + k]
  <2>1. /\ SubSeq(buffer, start + 1, end) \in Seq(Units)
        /\ Len(SubSeq(buffer, start + 1, end)) =
              IF start + 1 <= end THEN end - (start + 1) + 1 ELSE 0
        /\ \A k \in 1..(end - (start + 1) + 1) :
              SubSeq(buffer, start + 1, end)[k] = buffer[(start + 1) + k - 1]
    BY <1>1, <1>4, <1>6, SubSeqProperties
  <2> QED
    BY <1>1, <1>4, <2>1
<1>8. Fragment(c) \in PacketSet
  BY <1>1, <1>3, <1>7 DEF PacketSet
<1>9. Len(Fragment(c).data) = end - start
  BY <1>3, <1>7
<1>10. \A k \in 1..Len(Fragment(c).data) :
          start + k \in 1..Len(buffer) /\ Fragment(c).data[k] = buffer[start + k]
  BY <1>1, <1>3, <1>4, <1>7
<1>11. /\ Fragment(c).sequence = c.outgoingSequence
       /\ Fragment(c).fragmented
       /\ Fragment(c).fragmentStart = start
  BY <1>3
<1>12. /\ Len(Fragment(c).data) <= FRAGMENT_SIZE
       /\ Len(Fragment(c).data) < FRAGMENT_SIZE <=> LastFragment(c)
       /\ start + Len(Fragment(c).data) <= Len(buffer)
  BY <1>1, <1>2, <1>4, <1>5, <1>9
<1> QED
  BY <1>5, <1>8, <1>9, <1>10, <1>11, <1>12 DEF buffer, start

LEMMA AdvancedFields ==
    ASSUME NEW c \in Chan, c.unsentFragmentStart <= Len(c.unsentBuffer), c.unsentFragments
    PROVE  /\ Advanced(c) \in Chan
           /\ Advanced(c).unsentFragmentStart =
                 c.unsentFragmentStart + Len(Fragment(c).data)
           /\ Advanced(c).unsentBuffer = c.unsentBuffer
           /\ Advanced(c).unsentFragments <=> ~LastFragment(c)
           /\ Advanced(c).outgoingSequence =
                 c.outgoingSequence + (IF LastFragment(c) THEN 1 ELSE 0)
<1> DEFINE to == c.unsentFragmentStart + Len(Fragment(c).data)
           a == [c EXCEPT !.unsentFragmentStart = to]
           out == c.outgoingSequence + 1
           b == [a EXCEPT !.outgoingSequence = out]
           d == [b EXCEPT !.unsentFragments = FALSE]
<1>1. to \in Nat /\ out \in Nat \ {0}
  BY FragmentFields, LenProperties DEF Chan, PacketSet
<1>2. Advanced(c) = IF LastFragment(c) THEN d ELSE a
  BY DEF Advanced
<1> HIDE DEF to, out
<1>3. /\ a \in Chan /\ a.unsentFragmentStart = to /\ a.unsentBuffer = c.unsentBuffer
      /\ a.unsentFragments = c.unsentFragments
      /\ a.outgoingSequence = c.outgoingSequence
  BY <1>1 DEF Chan
<1> HIDE DEF a
<1>4. /\ b \in Chan /\ b.unsentFragmentStart = to /\ b.unsentBuffer = c.unsentBuffer
      /\ b.unsentFragments = c.unsentFragments
      /\ b.outgoingSequence = out
  BY <1>1, <1>3 DEF Chan
<1> HIDE DEF b
<1>5. /\ d \in Chan /\ d.unsentFragmentStart = to /\ d.unsentBuffer = c.unsentBuffer
      /\ d.unsentFragments = FALSE
      /\ d.outgoingSequence = out
  BY <1>4 DEF Chan
<1> HIDE DEF d
<1>6. c.outgoingSequence \in Nat /\ c.unsentFragments = TRUE
  BY DEF Chan
<1>7. CASE LastFragment(c)
  BY <1>2, <1>5, <1>7 DEF to, out
<1>8. CASE ~LastFragment(c)
  <2>1. Advanced(c) = a /\ a.unsentFragments = TRUE
    BY <1>2, <1>3, <1>6, <1>8
  <2>2. Advanced(c).unsentFragments = TRUE
    BY <2>1
  <2>3. Advanced(c).unsentFragments
    BY <2>2
  <2>4. Advanced(c).outgoingSequence = c.outgoingSequence + (IF LastFragment(c) THEN 1 ELSE 0)
    BY <1>3, <1>6, <1>8, <2>1
  <2> QED
    BY <1>3, <1>8, <2>1, <2>3, <2>4 DEF to
<1> QED
  BY <1>7, <1>8

\* The packet that is appended is the last one
LEMMA Appended ==
    ASSUME NEW net \in Seq(PacketSet), NEW p \in PacketSet
    PROVE  /\ Append(net, p) \in Seq(PacketSet)
           /\ Append(net, p) # << >>
           /\ Len(Append(net, p)) = Len(net) + 1
           /\ Append(net, p)[Len(net) + 1] = p
           /\ \A j \in 1..Len(net) : Append(net, p)[j] = net[j]
           /\ \A j \in 1..(Len(net) + 1) : j \in 1..Len(net) \/ j = Len(net) + 1
           /\ \A j \in 1..Len(net) : j \in 1..(Len(net) + 1)
           /\ Len(net) \in Nat
BY AppendProperties, LenProperties

\* What the invariant says of the sender after it has sent a fragment
LEMMA FragmentSent ==
    ASSUME NEW c \in Chan, NEW s \in Seq(Message), NEW ab \in BOOLEAN,
           c.unsentFragments, Counted(c, s), Unsent(c, s, ab), Numbered(c, s, ab)
    PROVE  /\ Counted(Advanced(c), s) /\ Unsent(Advanced(c), s, ab)
           /\ Numbered(Advanced(c), s, ab)
           /\ PacketOK(Fragment(c), Advanced(c), s, ab)
           /\ LargeUnits(Fragment(c).data, s)
<1> DEFINE a == Advanced(c)
           p == Fragment(c)
<1>1. c.unsentFragmentStart <= Len(c.unsentBuffer)
  BY DEF Counted
<1>2. /\ a \in Chan
      /\ a.unsentFragmentStart = c.unsentFragmentStart + Len(p.data)
      /\ a.unsentBuffer = c.unsentBuffer
      /\ a.unsentFragments <=> ~LastFragment(c)
      /\ a.outgoingSequence = c.outgoingSequence + (IF LastFragment(c) THEN 1 ELSE 0)
  BY <1>1, AdvancedFields
<1>3. /\ p \in PacketSet /\ p.sequence = c.outgoingSequence /\ p.fragmented
      /\ p.fragmentStart = c.unsentFragmentStart
      /\ Len(p.data) = IF LastFragment(c)
                       THEN Len(c.unsentBuffer) - c.unsentFragmentStart ELSE FRAGMENT_SIZE
      /\ Len(p.data) <= FRAGMENT_SIZE
      /\ Len(p.data) < FRAGMENT_SIZE <=> LastFragment(c)
      /\ c.unsentFragmentStart + Len(p.data) <= Len(c.unsentBuffer)
      /\ \A k \in 1..Len(p.data) :
            /\ c.unsentFragmentStart + k \in 1..Len(c.unsentBuffer)
            /\ p.data[k] = c.unsentBuffer[c.unsentFragmentStart + k]
  BY <1>1, FragmentFields
<1>4. PICK i \in 1..Len(s) :
         /\ Large(s, i) /\ c.unsentBuffer = Data(i, s[i].length)
         /\ ab \/ (i = Len(s) /\ s[i].key = c.outgoingSequence)
  BY DEF Unsent
<1>5. /\ Len(s) \in Nat /\ Len(s) <= MaxMessages /\ c.outgoingSequence \in Nat \ {0}
      /\ \A j \in 1..Len(s) : s[j].key \in Nat /\ s[j].length \in Lengths
      /\ c.unsentFragmentStart \in Nat /\ Len(p.data) \in Nat
  <2>1. \A j \in 1..Len(s) : s[j] \in Message
    BY ElementOfSeq
  <2>2. Len(p.data) \in Nat
    BY <1>3, LenProperties DEF PacketSet
  <2> QED
    BY <2>1, <2>2, LenProperties DEF Message, Counted, Chan
<1>6. /\ Len(c.unsentBuffer) = s[i].length
      /\ \A k \in 1..Len(c.unsentBuffer) : c.unsentBuffer[k] = <<i, k>>
  <2>1. i \in 1..MaxMessages
    BY <1>5, BoundAssumption
  <2> QED
    BY <1>4, <1>5, <2>1, DataTypes
<1> HIDE DEF a, p
<1>7. Counted(a, s)
  <2>1. a.outgoingSequence - 1 + (IF a.unsentFragments THEN 1 ELSE 0) <= Len(s)
    <3>1. c.outgoingSequence - 1 + 1 <= Len(s)
      BY DEF Counted
    <3> QED
      BY <1>2, <1>5, <3>1
  <2>2. \A j \in 1..Len(s) : s[j].key <= a.outgoingSequence
    BY <1>2, <1>5 DEF Counted
  <2> QED
    BY <1>2, <1>3, <1>5, <2>1, <2>2 DEF Counted
<1>8. Unsent(a, s, ab)
  BY <1>2, <1>4, <1>5 DEF Unsent
<1>9. Numbered(a, s, ab)
  <2>1. CASE LastFragment(c)
    <3>1. \A j \in 1..Len(s) : s[j].key < a.outgoingSequence
      BY <1>2, <1>5, <2>1 DEF Counted
    <3> QED
      BY <3>1 DEF Numbered
  <2>2. CASE ~LastFragment(c)
    <3>1. a.outgoingSequence = c.outgoingSequence
      BY <1>2, <1>5, <2>2
    <3> QED
      BY <1>2, <2>2, <3>1 DEF Numbered
  <2> QED
    BY <2>1, <2>2
<1>10. PartFrom(p.data, i, p.fragmentStart)
  BY <1>3, <1>6 DEF PartFrom
<1>11. PacketOK(p, a, s, ab)
  <2>1. Carries(p, i, s, ab)
    BY <1>3, <1>4, <1>5, <1>6, <1>10 DEF Carries
  <2> QED
    BY <1>2, <1>3, <1>5, <2>1 DEF PacketOK, LastOf
<1>12. LargeUnits(p.data, s)
  BY <1>4, <1>10 DEF LargeUnits, PartFrom
<1> QED
  BY <1>7, <1>8, <1>9, <1>11, <1>12 DEF a, p

\* The receiver only ever knows numbers that were used
LEMMA ReceivedLater ==
    ASSUME NEW c \in Chan, NEW c2 \in Chan, NEW r \in Peer,
           NEW s \in Seq(Message), NEW s2 \in Seq(Message),
           NEW ab \in BOOLEAN, NEW ab2 \in BOOLEAN, ab => ab2,
           c.outgoingSequence <= c2.outgoingSequence,
           Len(s) <= Len(s2), \A i \in 1..Len(s) : s2[i] = s[i],
           Received(r, c, s, ab)
    PROVE  Received(r, c2, s2, ab2)
<1>1. /\ r.incomingSequence < c2.outgoingSequence
      /\ r.fragmentSequence <= c2.outgoingSequence
  BY DEF Received, Chan, Peer
<1>2. LargeUnits(r.fragmentBuffer, s2)
  BY Longer DEF Received
<1>3. ASSUME ~ab2, r.fragmentBuffer # << >>
      PROVE  \E i \in 1..Len(s2) :
                /\ Large(s2, i) /\ s2[i].key = r.fragmentSequence
                /\ PartFrom(r.fragmentBuffer, i, 0)
                /\ Len(r.fragmentBuffer) <= s2[i].length
  <2>1. PICK i \in 1..Len(s) :
           /\ Large(s, i) /\ s[i].key = r.fragmentSequence
           /\ PartFrom(r.fragmentBuffer, i, 0)
           /\ Len(r.fragmentBuffer) <= s[i].length
    BY <1>3 DEF Received
  <2>2. i \in 1..Len(s2) /\ s2[i] = s[i] /\ Large(s2, i)
    BY <2>1, Longer
  <2> QED
    BY <2>1, <2>2
<1> QED
  BY <1>1, <1>2, <1>3 DEF Received

LEMMA OutputLater ==
    ASSUME NEW o, NEW r \in Peer, NEW s \in Seq(Message), NEW s2 \in Seq(Message),
           NEW ab \in BOOLEAN, NEW ab2 \in BOOLEAN, ab => ab2,
           Len(s) <= Len(s2), \A i \in 1..Len(s) : s2[i] = s[i],
           OutputOK(o, r, s, ab)
    PROVE  OutputOK(o, r, s2, ab2)
<1>1. \A i \in 1..Len(s) : i \in 1..Len(s2)
  BY Longer
<1>2. SmallOutput(o, s2) \/ LargeUnits(o.data, s2)
  BY Longer DEF OutputOK
<1> QED
  BY <1>1, <1>2 DEF OutputOK

LEMMA PacketLater ==
    ASSUME NEW p \in PacketSet, NEW c \in Chan, NEW c2 \in Chan,
           NEW s \in Seq(Message), NEW s2 \in Seq(Message),
           NEW ab \in BOOLEAN, NEW ab2 \in BOOLEAN, ab => ab2,
           c.outgoingSequence <= c2.outgoingSequence,
           Len(s) <= Len(s2), \A i \in 1..Len(s) : s2[i] = s[i],
           PacketOK(p, c, s, ab)
    PROVE  PacketOK(p, c2, s2, ab2)
<1>1. PICK i \in 1..Len(s) : Carries(p, i, s, ab)
  BY DEF PacketOK
<1>2. i \in 1..Len(s2) /\ Carries(p, i, s2, ab2)
  BY <1>1, Longer
<1>3. /\ p.sequence <= c2.outgoingSequence
      /\ LastOf(p) => p.sequence < c2.outgoingSequence
      /\ ~p.fragmented => p.sequence < c2.outgoingSequence
  BY DEF PacketOK, Chan, PacketSet
<1> QED
  BY <1>2, <1>3 DEF PacketOK

\* A number that is closed stays closed when the sender sends under a higher
\* number what it had, or something newer
LEMMA ClosedLater ==
    ASSUME NEW c \in Chan, NEW c2 \in Chan, NEW net \in Seq(PacketSet),
           NEW net2 \in Seq(PacketSet), NEW r, NEW s \in Seq(Message),
           NEW s2 \in Seq(Message), NEW h, NEW n \in Nat, n < c.outgoingSequence,
           c.outgoingSequence <= c2.outgoingSequence,
           Len(s) <= Len(s2), \A i \in 1..Len(s) : s2[i] = s[i],
           \/ ~c2.unsentFragments
           \/ c.unsentFragments /\ c2.unsentBuffer = c.unsentBuffer
           \/ \A k \in 1..Len(c2.unsentBuffer) : c2.unsentBuffer[k][1] > Len(s),
           \A j \in 1..Len(net2) :
              \/ \E i \in 1..Len(net) : net2[j] = net[i]
              \/ ~net2[j].fragmented
              \/ /\ c.unsentFragments /\ net2[j].sequence = c.outgoingSequence
                 /\ \A k \in 1..Len(net2[j].data) : \E i \in 1..Len(c.unsentBuffer) :
                        net2[j].data[k] = c.unsentBuffer[i],
           Closed(n, c, net, r, s, h)
    PROVE  Closed(n, c2, net2, r, s2, h)
<1>1. PICK m \in Nat : Split(n, m, c, net, r, s, h)
  BY DEF Closed
<1>2. /\ m <= Len(s) /\ Len(s) \in Nat /\ Len(s2) \in Nat
      /\ c.outgoingSequence \in Nat /\ c2.outgoingSequence \in Nat
  BY <1>1, LenProperties DEF Split, Chan
<1>3. ASSUME c.unsentFragments
      PROVE  \A k \in 1..Len(c.unsentBuffer) : c.unsentBuffer[k][1] > m
  BY <1>1, <1>2, <1>3 DEF Split, SplitAt
<1>4. ASSUME NEW j \in 1..Len(net2), net2[j].fragmented
      PROVE  SplitAt(net2[j].data, net2[j].sequence, n, m)
  <2>1. CASE \E i \in 1..Len(net) : net2[j] = net[i]
    BY <1>1, <1>4, <2>1 DEF Split
  <2>2. CASE /\ c.unsentFragments /\ net2[j].sequence = c.outgoingSequence
             /\ \A k \in 1..Len(net2[j].data) : \E i \in 1..Len(c.unsentBuffer) :
                    net2[j].data[k] = c.unsentBuffer[i]
    <3>1. \A k \in 1..Len(net2[j].data) : net2[j].data[k][1] > m
      BY <1>3, <2>2
    <3>2. ~(net2[j].sequence <= n)
      BY <1>2, <2>2
    <3> QED
      BY <3>1, <3>2 DEF SplitAt
  <2> QED
    BY <1>4, <2>1, <2>2
<1>5. ASSUME c2.unsentFragments
      PROVE  SplitAt(c2.unsentBuffer, c2.outgoingSequence, n, m)
  <2>1. ~(c2.outgoingSequence <= n)
    BY <1>2
  <2>2. CASE c.unsentFragments /\ c2.unsentBuffer = c.unsentBuffer
    BY <1>3, <2>1, <2>2 DEF SplitAt
  <2>3. CASE \A k \in 1..Len(c2.unsentBuffer) : c2.unsentBuffer[k][1] > Len(s)
    <3>1. \A k \in 1..Len(c2.unsentBuffer) : c2.unsentBuffer[k] \in Units
      BY ElementOfSeq DEF Chan
    <3>2. \A k \in 1..Len(c2.unsentBuffer) : c2.unsentBuffer[k][1] \in Nat
      BY <3>1, UnitTypes
    <3>3. \A k \in 1..Len(c2.unsentBuffer) : c2.unsentBuffer[k][1] > m
      BY <1>2, <2>3, <3>2
    <3> QED
      BY <2>1, <3>3 DEF SplitAt
  <2> QED
    BY <1>5, <2>2, <2>3
<1>6. \A j \in 1..Len(h) : SmallOutput(h[j], s2) \/ SplitAt(h[j].data, h[j].sequence, n, m)
  <2>1. \A o : SmallOutput(o, s) => SmallOutput(o, s2)
    <3>1. \A i \in 1..Len(s) : i \in 1..Len(s2)
      BY <1>2
    <3> QED
      BY <3>1 DEF SmallOutput, Large
  <2> QED
    BY <1>1, <2>1 DEF Split
<1>7. Split(n, m, c2, net2, r, s2, h)
  BY <1>1, <1>2, <1>4, <1>5, <1>6 DEF Split
<1> QED
  BY <1>7 DEF Closed

\* The packet that is sent is what comes next
LEMMA LinkedAppended ==
    ASSUME NEW c, NEW c2, NEW net \in Seq(PacketSet), NEW p \in PacketSet, NEW r,
           Linked(c, net, r), Start(p) = Coming(c), End(p) = Coming(c2)
    PROVE  Linked(c2, Append(net, p), r)
<1> DEFINE net2 == Append(net, p)
<1>1. /\ net2 # << >> /\ Len(net2) = Len(net) + 1 /\ net2[Len(net) + 1] = p
      /\ \A j \in 1..Len(net) : net2[j] = net[j]
      /\ Len(net) \in Nat
  BY Appended
<1>2. Len(net) = 0 <=> net = << >>
  BY EmptySeq
<1> HIDE DEF net2
<1>3. ASSUME NEW j \in 1..Len(net2)
      PROVE  Start(net2[j]) = IF j = 1 THEN Awaited(r) ELSE End(net2[j - 1])
  <2>1. CASE j \in 1..Len(net)
    <3>1. j = 1 \/ j - 1 \in 1..Len(net)
      BY <1>1, <2>1
    <3> QED
      BY <1>1, <2>1, <3>1 DEF Linked
  <2>2. CASE j = Len(net) + 1 /\ net = << >>
    BY <1>1, <1>2, <2>2 DEF Linked
  <2>3. CASE j = Len(net) + 1 /\ net # << >>
    <3>1. j # 1 /\ j - 1 = Len(net) /\ j - 1 \in 1..Len(net)
      BY <1>1, <1>2, <2>3
    <3> QED
      BY <1>1, <2>3, <3>1 DEF Linked
  <2> QED
    BY <1>1, <2>1, <2>2, <2>3
<1> QED
  BY <1>1, <1>3 DEF Linked, net2

\* Sending a fragment of what is unsent
LEMMA FragmentGood ==
    ASSUME NEW c, NEW net, NEW r, NEW s, NEW h, NEW ab \in BOOLEAN, NEW fl,
           Good(c, net, r, s, h, ab, fl), c.unsentFragments
    PROVE  Good(Advanced(c), Append(net, Fragment(c)), r, s, h, ab, fl)
<1> DEFINE a == Advanced(c)
           p == Fragment(c)
           net2 == Append(net, p)
<1>1. /\ c \in Chan /\ net \in Seq(PacketSet) /\ r \in Peer
      /\ s \in Seq(Message) /\ h \in Seq(Output)
      /\ Counted(c, s) /\ Unsent(c, s, ab) /\ Numbered(c, s, ab)
      /\ \A j \in 1..Len(net) : PacketOK(net[j], c, s, ab)
      /\ Received(r, c, s, ab) /\ \A j \in 1..Len(h) : OutputOK(h[j], r, s, ab)
      /\ HandedInOrder(h) /\ Separate(c, net, r, s, h)
      /\ Smooth(c, net, r, s, h, ab, fl)
  BY DEF Good, Typed
<1>2. /\ Counted(a, s) /\ Unsent(a, s, ab) /\ Numbered(a, s, ab)
      /\ PacketOK(p, a, s, ab) /\ LargeUnits(p.data, s)
  BY <1>1, FragmentSent
<1>3. c.unsentFragmentStart <= Len(c.unsentBuffer)
  BY <1>1 DEF Counted
<1>4. /\ a \in Chan
      /\ a.unsentFragmentStart = c.unsentFragmentStart + Len(p.data)
      /\ a.unsentBuffer = c.unsentBuffer
      /\ a.unsentFragments <=> ~LastFragment(c)
      /\ a.outgoingSequence = c.outgoingSequence + (IF LastFragment(c) THEN 1 ELSE 0)
  BY <1>1, <1>3, AdvancedFields
<1>5. /\ p \in PacketSet /\ p.sequence = c.outgoingSequence /\ p.fragmented
      /\ p.fragmentStart = c.unsentFragmentStart
      /\ Len(p.data) <= FRAGMENT_SIZE
      /\ Len(p.data) < FRAGMENT_SIZE <=> LastFragment(c)
      /\ \A k \in 1..Len(p.data) :
            /\ c.unsentFragmentStart + k \in 1..Len(c.unsentBuffer)
            /\ p.data[k] = c.unsentBuffer[c.unsentFragmentStart + k]
  BY <1>1, <1>3, FragmentFields
<1>6. /\ c.outgoingSequence \in Nat \ {0} /\ c.unsentFragmentStart \in Nat
      /\ Len(p.data) \in Nat /\ FRAGMENT_SIZE \in Nat \ {0} /\ Len(s) \in Nat
  BY <1>1, <1>5, LenProperties, SizeAssumption DEF Chan, PacketSet
<1> HIDE DEF a, p
<1>7. /\ net2 \in Seq(PacketSet) /\ net2 # << >> /\ Len(net2) = Len(net) + 1
      /\ net2[Len(net) + 1] = p
      /\ \A j \in 1..Len(net) : net2[j] = net[j]
      /\ \A j \in 1..Len(net2) : j \in 1..Len(net) \/ j = Len(net) + 1
      /\ \A j \in 1..Len(net) : j \in 1..Len(net2)
  BY <1>1, <1>5, Appended
<1>8. c.outgoingSequence <= a.outgoingSequence
  BY <1>4, <1>6
<1> HIDE DEF net2
<1>9. \A j \in 1..Len(net2) : PacketOK(net2[j], a, s, ab)
  <2> SUFFICES ASSUME NEW j \in 1..Len(net2)
               PROVE  PacketOK(net2[j], a, s, ab)
    OBVIOUS
  <2>1. CASE j \in 1..Len(net)
    <3>1. net[j] \in PacketSet /\ net2[j] = net[j]
      BY <1>1, <1>7, <2>1, ElementOfSeq
    <3> QED
      BY <1>1, <1>4, <1>6, <1>8, <2>1, <3>1, PacketLater
  <2>2. CASE j = Len(net) + 1
    BY <1>2, <1>7, <2>2
  <2> QED
    BY <1>7, <2>1, <2>2
<1>10. Received(r, a, s, ab)
  BY <1>1, <1>4, <1>6, <1>8, ReceivedLater
<1>11. Separate(a, net2, r, s, h)
  <2>1. ASSUME NEW n \in Nat, n < c.outgoingSequence, Closed(n, c, net, r, s, h)
        PROVE  Closed(n, a, net2, r, s, h)
    <3>1. ASSUME NEW j \in 1..Len(net2)
          PROVE  \/ \E i \in 1..Len(net) : net2[j] = net[i]
                 \/ ~net2[j].fragmented
                 \/ /\ c.unsentFragments /\ net2[j].sequence = c.outgoingSequence
                    /\ \A k \in 1..Len(net2[j].data) : \E i \in 1..Len(c.unsentBuffer) :
                           net2[j].data[k] = c.unsentBuffer[i]
      <4>1. CASE j \in 1..Len(net)
        BY <1>7, <4>1
      <4>2. CASE j = Len(net) + 1
        <5>1. net2[j] = p
          BY <1>7, <4>2
        <5>2. \A k \in 1..Len(p.data) : \E i \in 1..Len(c.unsentBuffer) :
                 p.data[k] = c.unsentBuffer[i]
          BY <1>5
        <5> QED
          BY <1>5, <5>1, <5>2
      <4> QED
        BY <1>7, <4>1, <4>2
    <3>2. c.unsentFragments /\ a.unsentBuffer = c.unsentBuffer /\ Len(s) <= Len(s)
      BY <1>4, <1>6
    <3> QED
      BY <1>1, <1>4, <1>7, <1>8, <2>1, <3>1, <3>2, ClosedLater
  <2>2. ASSUME LastFragment(c)
        PROVE  Closed(c.outgoingSequence, a, net2, r, s, h)
    <3> DEFINE n == c.outgoingSequence
               m == Len(s)
    <3>1. \A d, number : LargeUnits(d, s) /\ number <= n => SplitAt(d, number, n, m)
      BY <1>6 DEF LargeUnits, SplitAt
    <3>2. ASSUME NEW j \in 1..Len(net2), net2[j].fragmented
          PROVE  SplitAt(net2[j].data, net2[j].sequence, n, m)
      <4>1. CASE j \in 1..Len(net)
        <5>1. net2[j] = net[j] /\ PacketOK(net[j], c, s, ab)
          BY <1>1, <1>7, <4>1
        <5>2. PICK i \in 1..Len(s) : Carries(net[j], i, s, ab)
          BY <5>1 DEF PacketOK
        <5>3. LargeUnits(net[j].data, s)
          BY <3>2, <5>1, <5>2 DEF Carries, PartFrom, LargeUnits
        <5>4. net[j].sequence <= n
          BY <5>1 DEF PacketOK
        <5> QED
          BY <3>1, <5>1, <5>3, <5>4
      <4>2. CASE j = Len(net) + 1
        BY <1>2, <1>5, <1>6, <1>7, <3>1, <4>2
      <4> QED
        BY <1>7, <4>1, <4>2
    <3>3. SplitAt(r.fragmentBuffer, r.fragmentSequence, n, m)
      BY <1>1, <3>1 DEF Received
    <3>4. ASSUME NEW j \in 1..Len(h)
          PROVE  SmallOutput(h[j], s) \/ SplitAt(h[j].data, h[j].sequence, n, m)
      <4>1. OutputOK(h[j], r, s, ab) /\ h[j] \in Output
        BY <1>1, ElementOfSeq
      <4>3. /\ h[j].sequence \in Nat /\ r.incomingSequence \in Nat
            /\ h[j].sequence <= r.incomingSequence
        BY <1>1, <4>1 DEF OutputOK, Output, Peer
      <4>4. r.incomingSequence < n /\ n \in Nat
        BY <1>1, <1>6 DEF Received
      <4>2. h[j].sequence <= n
        BY <4>3, <4>4
      <4> QED
        BY <3>1, <4>1, <4>2 DEF OutputOK
    <3>5. ~a.unsentFragments
      BY <1>4, <2>2
    <3>6. Split(n, m, a, net2, r, s, h)
      BY <1>6, <3>2, <3>3, <3>4, <3>5 DEF Split
    <3> QED
      BY <1>6, <3>6 DEF Closed
  <2>3. ASSUME NEW j \in 1..Len(net2), LastOf(net2[j])
        PROVE  Closed(net2[j].sequence, a, net2, r, s, h)
    <3>1. CASE j \in 1..Len(net)
      <4>1. net2[j] = net[j] /\ PacketOK(net[j], c, s, ab) /\ net[j] \in PacketSet
        BY <1>1, <1>7, <3>1, ElementOfSeq
      <4>2. net[j].sequence \in Nat /\ net[j].sequence < c.outgoingSequence
        BY <2>3, <4>1 DEF PacketOK, PacketSet
      <4>3. Closed(net[j].sequence, c, net, r, s, h)
        BY <1>1, <2>3, <3>1, <4>1 DEF Separate
      <4> QED
        BY <2>1, <4>1, <4>2, <4>3
    <3>2. CASE j = Len(net) + 1
      BY <1>5, <1>7, <2>2, <2>3, <3>2 DEF LastOf
    <3> QED
      BY <1>7, <3>1, <3>2
  <2>4. ASSUME NEW j \in 1..Len(h), ~SmallOutput(h[j], s)
        PROVE  Closed(h[j].sequence, a, net2, r, s, h)
    <3>1. OutputOK(h[j], r, s, ab) /\ h[j] \in Output
      BY <1>1, ElementOfSeq
    <3>4. /\ h[j].sequence \in Nat /\ r.incomingSequence \in Nat
          /\ h[j].sequence <= r.incomingSequence
      BY <1>1, <3>1 DEF OutputOK, Output, Peer
    <3>5. r.incomingSequence < c.outgoingSequence /\ c.outgoingSequence \in Nat
      BY <1>1, <1>6 DEF Received
    <3>2. h[j].sequence \in Nat /\ h[j].sequence < c.outgoingSequence
      BY <3>4, <3>5
    <3>3. Closed(h[j].sequence, c, net, r, s, h)
      BY <1>1, <2>4 DEF Separate
    <3> QED
      BY <2>1, <3>2, <3>3
  <2> QED
    BY <2>3, <2>4 DEF Separate
<1>12. Smooth(a, net2, r, s, h, ab, fl)
  <2> SUFFICES ASSUME ~ab, fl = 0
               PROVE  /\ Linked(a, net2, r)
                      /\ r.fragmentSequence <= r.incomingSequence + 1
                      /\ Len(h) = r.incomingSequence
                      /\ Len(s) = a.outgoingSequence - 1
                                    + (IF a.unsentFragments THEN 1 ELSE 0)
    BY DEF Smooth
  <2>1. /\ Linked(c, net, r) /\ r.fragmentSequence <= r.incomingSequence + 1
        /\ Len(h) = r.incomingSequence
        /\ Len(s) = c.outgoingSequence - 1 + 1
    BY <1>1 DEF Smooth
  <2>2. Start(p) = Coming(c)
    BY <1>5 DEF Start, Coming
  <2>3. End(p) = Coming(a)
    <3>1. CASE LastFragment(c)
      BY <1>4, <1>5, <1>6, <3>1 DEF End, Coming
    <3>2. CASE ~LastFragment(c)
      <4>1. Len(p.data) = FRAGMENT_SIZE
        BY <1>5, <1>6, <3>2
      <4> QED
        BY <1>4, <1>5, <1>6, <3>2, <4>1 DEF End, Coming
    <3> QED
      BY <3>1, <3>2
  <2>4. Linked(a, net2, r)
    BY <1>1, <1>5, <2>1, <2>2, <2>3, LinkedAppended DEF net2
  <2>5. Len(s) = a.outgoingSequence - 1 + (IF a.unsentFragments THEN 1 ELSE 0)
    BY <1>4, <1>6, <2>1
  <2> QED
    BY <2>1, <2>4, <2>5
<1> QED
  BY <1>1, <1>2, <1>4, <1>7, <1>9, <1>10, <1>11, <1>12 DEF Good, Typed, a, p, net2

-----------------------------------------------------------------------------
(* Transmitting a message.                                                 *)

\* Messages were added
Extends(s2, s) == Len(s) <= Len(s2) /\ \A i \in 1..Len(s) : s2[i] = s[i]

\* Packets that are all old, or of one packet
Old(net2, net) ==
    \A j \in 1..Len(net2) :
        (\E i \in 1..Len(net) : net2[j] = net[i]) \/ ~net2[j].fragmented

\* What is unsent is what was, or new
Newer(c2, c, s) ==
    \/ ~c2.unsentFragments
    \/ c.unsentFragments /\ c2.unsentBuffer = c.unsentBuffer
    \/ \A k \in 1..Len(c2.unsentBuffer) : c2.unsentBuffer[k][1] > Len(s)

\* Numbers that are closed stay closed as long as no fragment is sent
LEMMA SeparateLater ==
    ASSUME NEW c \in Chan, NEW c2 \in Chan, NEW net \in Seq(PacketSet),
           NEW net2 \in Seq(PacketSet), NEW r \in Peer, NEW s \in Seq(Message),
           NEW s2 \in Seq(Message), NEW h \in Seq(Output), NEW ab \in BOOLEAN,
           c.outgoingSequence <= c2.outgoingSequence,
           Extends(s2, s), Newer(c2, c, s), Old(net2, net),
           \A j \in 1..Len(net) : PacketOK(net[j], c, s, ab),
           Received(r, c, s, ab), \A j \in 1..Len(h) : OutputOK(h[j], r, s, ab),
           Separate(c, net, r, s, h)
    PROVE  Separate(c2, net2, r, s2, h)
<1>0. /\ Len(s) <= Len(s2) /\ \A i \in 1..Len(s) : s2[i] = s[i]
      /\ \A j \in 1..Len(net2) :
            (\E i \in 1..Len(net) : net2[j] = net[i]) \/ ~net2[j].fragmented
      /\ \/ ~c2.unsentFragments
         \/ c.unsentFragments /\ c2.unsentBuffer = c.unsentBuffer
         \/ \A k \in 1..Len(c2.unsentBuffer) : c2.unsentBuffer[k][1] > Len(s)
  BY DEF Extends, Newer, Old
<1>1. ASSUME NEW n \in Nat, n < c.outgoingSequence, Closed(n, c, net, r, s, h)
      PROVE  Closed(n, c2, net2, r, s2, h)
  BY <1>0, <1>1, ClosedLater
<1>2. ASSUME NEW j \in 1..Len(net2), LastOf(net2[j])
      PROVE  Closed(net2[j].sequence, c2, net2, r, s2, h)
  <2>1. PICK i \in 1..Len(net) : net2[j] = net[i]
    BY <1>0, <1>2 DEF LastOf
  <2>2. net[i].sequence \in Nat /\ net[i].sequence < c.outgoingSequence
    <3>1. net[i] \in PacketSet /\ LastOf(net[i]) /\ PacketOK(net[i], c, s, ab)
      BY <1>2, <2>1, ElementOfSeq
    <3> QED
      BY <3>1 DEF PacketOK, PacketSet
  <2>3. Closed(net[i].sequence, c, net, r, s, h)
    BY <1>2, <2>1 DEF Separate
  <2> QED
    BY <1>1, <2>1, <2>2, <2>3
<1>3. ASSUME NEW j \in 1..Len(h), ~SmallOutput(h[j], s2)
      PROVE  Closed(h[j].sequence, c2, net2, r, s2, h)
  <2>1. OutputOK(h[j], r, s, ab) /\ h[j] \in Output
    BY ElementOfSeq
  <2>2. h[j].sequence \in Nat /\ h[j].sequence < c.outgoingSequence
    <3>1. /\ h[j].sequence \in Nat /\ r.incomingSequence \in Nat
          /\ c.outgoingSequence \in Nat
      BY <2>1 DEF Output, Peer, Chan
    <3>2. h[j].sequence <= r.incomingSequence /\ r.incomingSequence < c.outgoingSequence
      BY <2>1 DEF OutputOK, Received
    <3> QED
      BY <3>1, <3>2
  <2>3. ~SmallOutput(h[j], s)
    <3>1. \A i \in 1..Len(s) : i \in 1..Len(s2)
      BY <1>0, LenProperties
    <3> QED
      BY <1>0, <1>3, <3>1 DEF SmallOutput, Large
  <2>4. Closed(h[j].sequence, c, net, r, s, h)
    BY <2>3 DEF Separate
  <2> QED
    BY <1>1, <2>2, <2>4
<1> QED
  BY <1>2, <1>3 DEF Separate

\* The history is longer by the message transmitted
LEMMA OneMore ==
    ASSUME NEW s \in Seq(Message), NEW e \in Message
    PROVE  /\ Append(s, e) \in Seq(Message)
           /\ Len(Append(s, e)) = Len(s) + 1
           /\ Append(s, e)[Len(s) + 1] = e
           /\ \A i \in 1..Len(s) : Append(s, e)[i] = s[i]
           /\ \A i \in 1..(Len(s) + 1) : i \in 1..Len(s) \/ i = Len(s) + 1
           /\ Len(s) \in Nat
BY AppendProperties, LenProperties

\* A large message takes the place of what was in unsentBuffer
LEMMA LoadGood ==
    ASSUME NEW c, NEW net, NEW r, NEW s, NEW h, NEW ab \in BOOLEAN, NEW fl,
           Good(c, net, r, s, h, ab, fl), NEW n \in Lengths, n >= FRAGMENT_SIZE,
           Len(s) < MaxMessages, NEW c2 \in Chan,
           c2.outgoingSequence = c.outgoingSequence, c2.unsentFragments,
           c2.unsentFragmentStart = 0, c2.unsentBuffer = Data(Len(s) + 1, n)
    PROVE  Good(c2, net, r, Append(s, [length |-> n, key |-> c.outgoingSequence]),
                h, ab \/ c.unsentFragments, fl)
<1> DEFINE e == [length |-> n, key |-> c.outgoingSequence]
           s2 == Append(s, e)
           ab2 == ab \/ c.unsentFragments
           new == Len(s) + 1
<1>1. /\ c \in Chan /\ net \in Seq(PacketSet) /\ r \in Peer
      /\ s \in Seq(Message) /\ h \in Seq(Output)
      /\ Counted(c, s) /\ Unsent(c, s, ab) /\ Numbered(c, s, ab)
      /\ \A j \in 1..Len(net) : PacketOK(net[j], c, s, ab)
      /\ Received(r, c, s, ab) /\ \A j \in 1..Len(h) : OutputOK(h[j], r, s, ab)
      /\ HandedInOrder(h) /\ Separate(c, net, r, s, h)
      /\ Smooth(c, net, r, s, h, ab, fl)
  BY DEF Good, Typed
<1>2. c.outgoingSequence \in Nat \ {0} /\ c.unsentFragments \in BOOLEAN
  BY <1>1 DEF Chan
<1>3. e \in Message /\ e.length = n /\ e.key = c.outgoingSequence
  BY <1>2 DEF Message
<1> HIDE DEF e
<1>4. /\ s2 \in Seq(Message) /\ Len(s2) = Len(s) + 1 /\ s2[new] = e
      /\ \A i \in 1..Len(s) : s2[i] = s[i]
      /\ \A i \in 1..Len(s2) : i \in 1..Len(s) \/ i = new
      /\ Len(s) \in Nat /\ new \in 1..Len(s2) /\ Len(s) <= Len(s2) /\ new = Len(s2)
  BY <1>1, <1>3, OneMore
<1>5. /\ Len(c2.unsentBuffer) = n /\ n \in Nat
      /\ \A k \in 1..n : c2.unsentBuffer[k] = <<new, k>>
  <2>1. new \in 1..MaxMessages
    BY <1>4, BoundAssumption
  <2> QED
    BY <2>1, DataTypes, LengthAssumption
<1>6. \A i \in 1..Len(s) : s[i].key \in Nat
  <2>1. \A i \in 1..Len(s) : s[i] \in Message
    BY <1>1, ElementOfSeq
  <2> QED
    BY <2>1 DEF Message
<1>7. ab2 \in BOOLEAN /\ (ab => ab2)
  BY <1>2
<1> HIDE DEF s2, ab2, new
<1>8. Counted(c2, s2)
  <2>1. c.outgoingSequence <= Len(s) + 1
    BY <1>1, <1>2, <1>4 DEF Counted
  <2>2. \A i \in 1..Len(s2) : s2[i].key <= c2.outgoingSequence
    BY <1>1, <1>2, <1>3, <1>4, <1>6 DEF Counted
  <2> QED
    BY <1>2, <1>4, <1>5, <2>1, <2>2, BoundAssumption DEF Counted
<1>9. Unsent(c2, s2, ab2)
  <2>1. Large(s2, new) /\ c2.unsentBuffer = Data(new, s2[new].length)
    BY <1>3, <1>4 DEF Large, new
  <2> QED
    BY <1>3, <1>4, <2>1 DEF Unsent
<1>10. Numbered(c2, s2, ab2)
  <2> SUFFICES ASSUME ~ab2
               PROVE  /\ \A i, j \in 1..Len(s2) : i < j => s2[i].key < s2[j].key
                      /\ \A i \in 1..Len(s2) :
                            s2[i].key < c2.outgoingSequence \/ (i = Len(s2) /\ c2.unsentFragments)
    BY DEF Numbered
  <2>1. ~ab /\ ~c.unsentFragments
    BY DEF ab2
  <2>2. /\ \A i, j \in 1..Len(s) : i < j => s[i].key < s[j].key
        /\ \A i \in 1..Len(s) : s[i].key < c.outgoingSequence
    BY <1>1, <2>1 DEF Numbered
  <2>3. ASSUME NEW i \in 1..Len(s2), NEW j \in 1..Len(s2), i < j
        PROVE  s2[i].key < s2[j].key
    <3>1. i \in 1..Len(s)
      BY <1>4, <2>3
    <3> QED
      BY <1>3, <1>4, <2>2, <2>3, <3>1
  <2> QED
    BY <1>4, <2>2, <2>3
<1>11. \A j \in 1..Len(net) : PacketOK(net[j], c2, s2, ab2)
  <2>1. \A j \in 1..Len(net) : net[j] \in PacketSet
    BY <1>1, ElementOfSeq
  <2>2. c.outgoingSequence <= c2.outgoingSequence
    BY <1>2
  <2> QED
    BY <1>1, <1>4, <1>7, <2>1, <2>2, PacketLater
<1>12. Received(r, c2, s2, ab2)
  <2>1. c.outgoingSequence <= c2.outgoingSequence
    BY <1>2
  <2> QED
    BY <1>1, <1>4, <1>7, <2>1, ReceivedLater
<1>13. \A j \in 1..Len(h) : OutputOK(h[j], r, s2, ab2)
  BY <1>1, <1>4, <1>7, OutputLater
<1>14. Separate(c2, net, r, s2, h)
  <2>1. \A k \in 1..Len(c2.unsentBuffer) : c2.unsentBuffer[k][1] > Len(s)
    BY <1>4, <1>5 DEF new
  <2>2. c.outgoingSequence <= c2.outgoingSequence
    BY <1>2
  <2>3. Old(net, net)
    BY DEF Old
  <2>4. s2 \in Seq(Message) /\ Extends(s2, s) /\ Newer(c2, c, s)
    BY <1>4, <2>1 DEF Extends, Newer
  <2> QED
    BY <1>1, <2>2, <2>3, <2>4, SeparateLater
<1>15. Smooth(c2, net, r, s2, h, ab2, fl)
  <2> SUFFICES ASSUME ~ab2, fl = 0
               PROVE  /\ Linked(c2, net, r)
                      /\ r.fragmentSequence <= r.incomingSequence + 1
                      /\ Len(h) = r.incomingSequence
                      /\ Len(s2) = c2.outgoingSequence - 1
                                    + (IF c2.unsentFragments THEN 1 ELSE 0)
    BY DEF Smooth
  <2>1. ~ab /\ ~c.unsentFragments
    BY DEF ab2
  <2>2. /\ Linked(c, net, r) /\ r.fragmentSequence <= r.incomingSequence + 1
        /\ Len(h) = r.incomingSequence
        /\ Len(s) = c.outgoingSequence - 1
    BY <1>1, <1>2, <2>1 DEF Smooth
  <2>3. Coming(c2) = Coming(c)
    BY <2>1 DEF Coming
  <2>4. Linked(c2, net, r)
    BY <2>2, <2>3 DEF Linked
  <2> QED
    BY <1>2, <1>4, <2>2, <2>4
<1> QED
  BY <1>1, <1>4, <1>8, <1>9, <1>10, <1>11, <1>12, <1>13, <1>14, <1>15
     DEF Good, Typed, e, s2, ab2

\* A message that fits one packet
LEMMA SmallGood ==
    ASSUME NEW c, NEW net, NEW r, NEW s, NEW h, NEW ab \in BOOLEAN, NEW fl,
           Good(c, net, r, s, h, ab, fl), NEW n \in Lengths, n < FRAGMENT_SIZE,
           Len(s) < MaxMessages, NEW c2 \in Chan,
           c2.outgoingSequence = c.outgoingSequence + 1,
           c2.unsentFragments <=> c.unsentFragments,
           c2.unsentFragmentStart = 0, c2.unsentBuffer = c.unsentBuffer,
           NEW p \in PacketSet, p.sequence = c.outgoingSequence, ~p.fragmented,
           p.fragmentStart = 0, p.data = Data(Len(s) + 1, n)
    PROVE  Good(c2, Append(net, p), r,
                Append(s, [length |-> n, key |-> c.outgoingSequence]),
                h, ab \/ c.unsentFragments, fl)
<1> DEFINE e == [length |-> n, key |-> c.outgoingSequence]
           s2 == Append(s, e)
           ab2 == ab \/ c.unsentFragments
           new == Len(s) + 1
           net2 == Append(net, p)
<1>1. /\ c \in Chan /\ net \in Seq(PacketSet) /\ r \in Peer
      /\ s \in Seq(Message) /\ h \in Seq(Output)
      /\ Counted(c, s) /\ Unsent(c, s, ab) /\ Numbered(c, s, ab)
      /\ \A j \in 1..Len(net) : PacketOK(net[j], c, s, ab)
      /\ Received(r, c, s, ab) /\ \A j \in 1..Len(h) : OutputOK(h[j], r, s, ab)
      /\ HandedInOrder(h) /\ Separate(c, net, r, s, h)
      /\ Smooth(c, net, r, s, h, ab, fl)
  BY DEF Good, Typed
<1>2. c.outgoingSequence \in Nat \ {0} /\ c.unsentFragments \in BOOLEAN
  BY <1>1 DEF Chan
<1>3. e \in Message /\ e.length = n /\ e.key = c.outgoingSequence
  BY <1>2 DEF Message
<1> HIDE DEF e
<1>4. /\ s2 \in Seq(Message) /\ Len(s2) = Len(s) + 1 /\ s2[new] = e
      /\ \A i \in 1..Len(s) : s2[i] = s[i]
      /\ \A i \in 1..Len(s2) : i \in 1..Len(s) \/ i = new
      /\ Len(s) \in Nat /\ new \in 1..Len(s2) /\ Len(s) <= Len(s2) /\ new = Len(s2)
  BY <1>1, <1>3, OneMore
<1>5. /\ Data(new, n) \in Seq(Units) /\ Len(Data(new, n)) = n /\ n \in Nat
      /\ \A k \in 1..n : Data(new, n)[k] = <<new, k>>
  <2>1. new \in 1..MaxMessages
    BY <1>4, BoundAssumption
  <2> QED
    BY <2>1, DataTypes, LengthAssumption
<1>6. \A i \in 1..Len(s) : s[i].key \in Nat
  <2>1. \A i \in 1..Len(s) : s[i] \in Message
    BY <1>1, ElementOfSeq
  <2> QED
    BY <2>1 DEF Message
<1>7. ab2 \in BOOLEAN /\ (ab => ab2) /\ (c.unsentFragments => ab2)
  BY <1>2
<1>8. p.data = Data(new, n)
  OBVIOUS
<1>9. c.outgoingSequence <= c2.outgoingSequence
  BY <1>2
<1> HIDE DEF s2, ab2, new
<1>10. /\ net2 \in Seq(PacketSet) /\ net2[Len(net) + 1] = p
       /\ \A j \in 1..Len(net) : net2[j] = net[j]
       /\ \A j \in 1..Len(net2) : j \in 1..Len(net) \/ j = Len(net) + 1
  BY <1>1, <1>8, Appended
<1> HIDE DEF net2
<1>11. Counted(c2, s2)
  <2>1. \A i \in 1..Len(s2) : s2[i].key <= c2.outgoingSequence
    <3>1. \A i \in 1..Len(s) : s[i].key <= c.outgoingSequence
      BY <1>1 DEF Counted
    <3> QED
      BY <1>2, <1>3, <1>4, <1>6, <3>1
  <2>2. c2.outgoingSequence - 1 + (IF c2.unsentFragments THEN 1 ELSE 0) <= Len(s2)
    <3>1. c.outgoingSequence - 1 + (IF c.unsentFragments THEN 1 ELSE 0) <= Len(s)
      BY <1>1 DEF Counted
    <3> QED
      BY <1>2, <1>4, <3>1
  <2>3. 0 <= Len(c2.unsentBuffer)
    BY LenProperties DEF Chan
  <2> QED
    BY <1>4, <2>1, <2>2, <2>3, BoundAssumption DEF Counted
<1>12. Unsent(c2, s2, ab2)
  <2> SUFFICES ASSUME c2.unsentFragments
               PROVE  \E i \in 1..Len(s2) :
                         /\ Large(s2, i) /\ c2.unsentBuffer = Data(i, s2[i].length)
                         /\ ab2 \/ (i = Len(s2) /\ s2[i].key = c2.outgoingSequence)
    BY DEF Unsent
  <2>1. PICK i \in 1..Len(s) : Large(s, i) /\ c.unsentBuffer = Data(i, s[i].length)
    BY <1>1 DEF Unsent
  <2>2. i \in 1..Len(s2) /\ s2[i] = s[i]
    BY <1>4
  <2> QED
    BY <1>7, <2>1, <2>2 DEF Large
<1>13. Numbered(c2, s2, ab2)
  <2> SUFFICES ASSUME ~ab2
               PROVE  /\ \A i, j \in 1..Len(s2) : i < j => s2[i].key < s2[j].key
                      /\ \A i \in 1..Len(s2) :
                            s2[i].key < c2.outgoingSequence \/ (i = Len(s2) /\ c2.unsentFragments)
    BY DEF Numbered
  <2>1. ~ab /\ ~c.unsentFragments
    BY DEF ab2
  <2>2. /\ \A i, j \in 1..Len(s) : i < j => s[i].key < s[j].key
        /\ \A i \in 1..Len(s) : s[i].key < c.outgoingSequence
    BY <1>1, <2>1 DEF Numbered
  <2>3. ASSUME NEW i \in 1..Len(s2), NEW j \in 1..Len(s2), i < j
        PROVE  s2[i].key < s2[j].key
    <3>1. i \in 1..Len(s)
      BY <1>4, <2>3
    <3> QED
      BY <1>3, <1>4, <2>2, <2>3, <3>1
  <2>4. \A i \in 1..Len(s2) : s2[i].key < c2.outgoingSequence
    BY <1>2, <1>3, <1>4, <1>6, <2>2
  <2> QED
    BY <2>3, <2>4
<1>14. \A j \in 1..Len(net2) : PacketOK(net2[j], c2, s2, ab2)
  <2> SUFFICES ASSUME NEW j \in 1..Len(net2)
               PROVE  PacketOK(net2[j], c2, s2, ab2)
    OBVIOUS
  <2>1. CASE j \in 1..Len(net)
    <3>1. net[j] \in PacketSet /\ net2[j] = net[j]
      BY <1>1, <1>10, <2>1, ElementOfSeq
    <3>2. PacketOK(net[j], c, s, ab)
      BY <1>1, <2>1
    <3>3. PacketOK(net[j], c2, s2, ab2)
      BY <1>1, <1>4, <1>7, <1>9, <3>1, <3>2, PacketLater
    <3> QED
      BY <3>1, <3>3
  <2>2. CASE j = Len(net) + 1
    <3>1. Carries(p, new, s2, ab2)
      <4>1. PartFrom(p.data, new, p.fragmentStart)
        BY <1>5, <1>8 DEF PartFrom
      <4>2. ~Large(s2, new)
        BY <1>3, <1>4, <1>5, SizeAssumption DEF Large
      <4> QED
        BY <1>3, <1>4, <1>5, <1>8, <4>1, <4>2, SizeAssumption DEF Carries
    <3>2. PacketOK(p, c2, s2, ab2)
      BY <1>2, <1>4, <1>8, <3>1 DEF PacketOK, LastOf
    <3> QED
      BY <1>10, <2>2, <3>2
  <2> QED
    BY <1>10, <2>1, <2>2
<1>15. Received(r, c2, s2, ab2)
  BY <1>1, <1>4, <1>7, <1>9, ReceivedLater
<1>16. \A j \in 1..Len(h) : OutputOK(h[j], r, s2, ab2)
  BY <1>1, <1>4, <1>7, OutputLater
<1>17. Separate(c2, net2, r, s2, h)
  <2>1. Old(net2, net)
    BY <1>10 DEF Old
  <2>2. s2 \in Seq(Message) /\ Extends(s2, s)
    BY <1>4 DEF Extends
  <2>3. net2 \in Seq(PacketSet)
    BY <1>10
  <2>4. Newer(c2, c, s)
    BY <1>2 DEF Newer
  <2> QED
    BY <1>1, <1>9, <2>1, <2>2, <2>3, <2>4, SeparateLater
<1>18. Smooth(c2, net2, r, s2, h, ab2, fl)
  <2> SUFFICES ASSUME ~ab2, fl = 0
               PROVE  /\ Linked(c2, net2, r)
                      /\ r.fragmentSequence <= r.incomingSequence + 1
                      /\ Len(h) = r.incomingSequence
                      /\ Len(s2) = c2.outgoingSequence - 1
                                    + (IF c2.unsentFragments THEN 1 ELSE 0)
    BY DEF Smooth
  <2>1. ~ab /\ ~c.unsentFragments
    BY DEF ab2
  <2>2. /\ Linked(c, net, r) /\ r.fragmentSequence <= r.incomingSequence + 1
        /\ Len(h) = r.incomingSequence
        /\ Len(s) = c.outgoingSequence - 1
    BY <1>1, <1>2, <2>1 DEF Smooth
  <2>3. Start(p) = Coming(c) /\ End(p) = Coming(c2)
    BY <1>8, <2>1 DEF Coming, Start, End
  <2>4. Linked(c2, net2, r)
    BY <1>1, <1>8, <2>2, <2>3, LinkedAppended DEF net2
  <2> QED
    BY <1>2, <1>4, <2>1, <2>2, <2>4
<1> QED
  BY <1>1, <1>4, <1>8, <1>10, <1>11, <1>12, <1>13, <1>14, <1>15, <1>16, <1>17, <1>18
     DEF Good, Typed, e, s2, ab2, net2

-----------------------------------------------------------------------------
(* What the callers make of the channel.                                   *)

\* How far the rounds of a flush get: each but the last ends within the
\* message, and the last reaches its end
LEMMA RoundsReach ==
    ASSUME NEW F \in Nat \ {0}, NEW d \in Nat, NEW i \in 1..(d \div F + 1)
    PROVE  /\ (i - 1) * F \in Nat /\ (i - 1) * F <= d
           /\ i * F = (i - 1) * F + F
           /\ (i - 1) * F + F > d <=> i = d \div F + 1
<1> DEFINE q == d \div F
<1>1. q \in Nat /\ q * F <= d /\ d < q * F + F
  OBVIOUS
<1> HIDE DEF q
<1>2. \A a, b \in Nat : a <= b => a * F \in Nat /\ a * F <= b * F
  OBVIOUS
<1>3. \A a \in Nat : (a + 1) * F = a * F + F
  OBVIOUS
<1>4. i - 1 \in Nat /\ i - 1 <= q /\ i \in Nat
  BY <1>1 DEF q
<1>5. (i - 1) * F \in Nat /\ (i - 1) * F <= q * F /\ q * F \in Nat
  BY <1>1, <1>2, <1>4
<1>6. i * F = (i - 1) * F + F
  <2>1. (i - 1) + 1 = i
    BY <1>4
  <2> QED
    BY <1>3, <1>4, <2>1
<1>7. CASE i = q + 1
  <2>1. i - 1 = q
    BY <1>1, <1>7
  <2> QED
    BY <1>1, <1>5, <1>6, <1>7, <2>1 DEF q
<1>8. CASE i # q + 1
  <2>1. i <= q
    BY <1>1, <1>4, <1>8
  <2>2. i * F <= q * F
    BY <1>1, <1>2, <1>4, <2>1
  <2> QED
    BY <1>1, <1>5, <1>6, <1>8, <2>2 DEF q
<1> QED
  BY <1>7, <1>8

LEMMA ChanEqual ==
    ASSUME NEW c \in Chan, NEW d \in Chan,
           c.outgoingSequence = d.outgoingSequence,
           c.unsentFragments <=> d.unsentFragments,
           c.unsentFragmentStart = d.unsentFragmentStart,
           c.unsentBuffer = d.unsentBuffer
    PROVE  c = d
<1>1. c.unsentFragments = d.unsentFragments
  BY DEF Chan
<1> QED
  BY <1>1 DEF Chan

\* A set of naturals that is not empty has a least element
LEMMA LeastElement ==
    ASSUME NEW S \in SUBSET Nat, S # {}
    PROVE  \E x \in S : \A y \in S : x <= y
<1> DEFINE R == {ss \in Nat \X Nat : ss[1] < ss[2]}
<1>1. IsWellFoundedOn(R, Nat)
  BY NatLessThanWellFounded DEF OpToRel
<1>2. PICK x \in S : \A y \in S : ~(<<y, x>> \in R)
  <2> HIDE DEF R
  <2> QED
    BY <1>1, WFMin
<1>3. \A y \in S : x <= y
  <2> TAKE y \in S
  <2>1. x \in Nat /\ y \in Nat /\ <<y, x>> \in Nat \X Nat
    OBVIOUS
  <2>2. <<y, x>> \notin R => ~(y < x)
    BY <2>1
  <2> QED
    BY <1>2, <2>1, <2>2
<1> QED
  BY <1>3

\* The channel before a round of a flush, and after it
LEMMA BeforeFields ==
    ASSUME NEW c \in Chan, c.unsentFragmentStart <= Len(c.unsentBuffer),
           c.unsentFragments, NEW i \in 1..Rounds(c)
    PROVE  /\ Rounds(c) \in Nat \ {0}
           /\ Before(c, i) \in Chan
           /\ Before(c, i).unsentFragments
           /\ Before(c, i).unsentFragmentStart <= Len(Before(c, i).unsentBuffer)
           /\ LastFragment(Before(c, i)) <=> i = Rounds(c)
           /\ i < Rounds(c) => Advanced(Before(c, i)) = Before(c, i + 1)
<1> DEFINE start == c.unsentFragmentStart
           d == Len(c.unsentBuffer) - start
           F == FRAGMENT_SIZE
<1>1. /\ start \in Nat /\ Len(c.unsentBuffer) \in Nat /\ d \in Nat
      /\ F \in Nat \ {0} /\ Rounds(c) = d \div F + 1
      /\ c.unsentFragments = TRUE /\ c.outgoingSequence \in Nat
  BY LenProperties, SizeAssumption DEF Chan, Rounds
<1>2. start + d = Len(c.unsentBuffer)
  BY <1>1
<1> HIDE DEF start, d, F
<1>3. d \div F \in Nat
  BY <1>1
<1>4. ASSUME NEW k \in 1..Rounds(c)
      PROVE  /\ Before(c, k) \in Chan
             /\ Before(c, k).outgoingSequence = c.outgoingSequence
             /\ Before(c, k).unsentFragments = TRUE
             /\ Before(c, k).unsentBuffer = c.unsentBuffer
             /\ Before(c, k).unsentFragmentStart = start + (k - 1) * F
             /\ (k - 1) * F \in Nat /\ (k - 1) * F <= d
             /\ k * F = (k - 1) * F + F
             /\ (k - 1) * F + F > d <=> k = Rounds(c)
  <2>1. /\ (k - 1) * F \in Nat /\ (k - 1) * F <= d
        /\ k * F = (k - 1) * F + F
        /\ (k - 1) * F + F > d <=> k = Rounds(c)
    BY <1>1, RoundsReach
  <2> DEFINE to == start + (k - 1) * F
  <2>2. to \in Nat
    BY <1>1, <2>1
  <2>3. Before(c, k) = [c EXCEPT !.unsentFragmentStart = to]
    BY DEF Before, start, F
  <2> HIDE DEF to
  <2>4. /\ Before(c, k) \in Chan
        /\ Before(c, k).outgoingSequence = c.outgoingSequence
        /\ Before(c, k).unsentFragments = TRUE
        /\ Before(c, k).unsentBuffer = c.unsentBuffer
        /\ Before(c, k).unsentFragmentStart = to
    BY <1>1, <2>2, <2>3 DEF Chan
  <2> QED
    BY <2>1, <2>4 DEF to
<1>5. /\ Before(c, i).unsentFragmentStart <= Len(c.unsentBuffer)
      /\ LastFragment(Before(c, i)) <=> i = Rounds(c)
  <2>1. Before(c, i).unsentFragmentStart = start + (i - 1) * F
    BY <1>4
  <2>2. LastFragment(Before(c, i)) <=> start + (i - 1) * F + F > start + d
    BY <1>2, <1>4 DEF LastFragment, F
  <2>3. (i - 1) * F \in Nat /\ (i - 1) * F <= d /\ ((i - 1) * F + F > d <=> i = Rounds(c))
    BY <1>4
  <2> HIDE DEF F
  <2> QED
    BY <1>1, <1>2, <2>1, <2>2, <2>3
<1>6. ASSUME i < Rounds(c)
      PROVE  Advanced(Before(c, i)) = Before(c, i + 1)
  <2> DEFINE b == Before(c, i)
  <2>1. i + 1 \in 1..Rounds(c) /\ (i + 1) - 1 = i /\ ~LastFragment(b)
    BY <1>1, <1>3, <1>5, <1>6
  <2>2. /\ b \in Chan /\ b.unsentFragmentStart <= Len(b.unsentBuffer) /\ b.unsentFragments
    BY <1>4, <1>5
  <2>3. /\ Advanced(b) \in Chan
        /\ Advanced(b).unsentFragmentStart = b.unsentFragmentStart + Len(Fragment(b).data)
        /\ Advanced(b).unsentBuffer = c.unsentBuffer
        /\ Advanced(b).unsentFragments
        /\ Advanced(b).outgoingSequence = c.outgoingSequence
    <3>1. /\ Advanced(b) \in Chan
          /\ Advanced(b).unsentFragmentStart = b.unsentFragmentStart + Len(Fragment(b).data)
          /\ Advanced(b).unsentBuffer = b.unsentBuffer
          /\ Advanced(b).unsentFragments <=> ~LastFragment(b)
          /\ Advanced(b).outgoingSequence = b.outgoingSequence + (IF LastFragment(b) THEN 1 ELSE 0)
      BY <2>2, AdvancedFields
    <3>2. b.outgoingSequence = c.outgoingSequence /\ b.unsentBuffer = c.unsentBuffer
      BY <1>4
    <3> HIDE DEF b
    <3> QED
      BY <1>1, <2>1, <3>1, <3>2
  <2>4. Len(Fragment(b).data) = F
    BY <2>1, <2>2, FragmentFields DEF F
  <2>5. Advanced(b).unsentFragmentStart = start + i * F
    <3>1. b.unsentFragmentStart = start + (i - 1) * F
      BY <1>4
    <3>2. (i - 1) * F \in Nat /\ i * F = (i - 1) * F + F
      BY <1>4
    <3> QED
      BY <1>1, <2>3, <2>4, <3>1, <3>2
  <2>6. /\ Before(c, i + 1) \in Chan
        /\ Before(c, i + 1).outgoingSequence = c.outgoingSequence
        /\ Before(c, i + 1).unsentFragments
        /\ Before(c, i + 1).unsentBuffer = c.unsentBuffer
        /\ Before(c, i + 1).unsentFragmentStart = start + i * F
    BY <1>4, <2>1
  <2> HIDE DEF b
  <2> QED
    BY <2>3, <2>5, <2>6, ChanEqual DEF b
<1>7. Rounds(c) \in Nat \ {0}
  BY <1>1, <1>3
<1>8. /\ Before(c, i) \in Chan /\ Before(c, i).unsentFragments
      /\ Before(c, i).unsentBuffer = c.unsentBuffer
  BY <1>4
<1> QED
  BY <1>5, <1>6, <1>7, <1>8

\* The packets of the first rounds of a flush
Flush(c, i) == [j \in 1..i |-> Fragment(Before(c, j))]

LEMMA FlushPackets ==
    ASSUME NEW c \in Chan, c.unsentFragmentStart <= Len(c.unsentBuffer),
           c.unsentFragments, NEW i \in 0..Rounds(c)
    PROVE  /\ Flush(c, i) \in Seq(PacketSet)
           /\ Len(Flush(c, i)) = i
           /\ \A j \in 1..i : Flush(c, i)[j] = Fragment(Before(c, j))
<1>1. Rounds(c) \in Nat
  BY LenProperties, SizeAssumption DEF Chan, Rounds
<1>2. \A j \in 1..i : Fragment(Before(c, j)) \in PacketSet
  <2> TAKE j \in 1..i
  <2>1. j \in 1..Rounds(c)
    BY <1>1
  <2>2. /\ Before(c, j) \in Chan
        /\ Before(c, j).unsentFragmentStart <= Len(Before(c, j).unsentBuffer)
    BY <2>1, BeforeFields
  <2> QED
    BY <2>2, FragmentFields
<1>3. Flush(c, i) \in [1..i -> PacketSet]
  BY <1>2 DEF Flush
<1>4. i \in Nat
  BY <1>1
<1>5. Flush(c, i) \in Seq(PacketSet)
  BY <1>3, <1>4, SeqDef
<1>6. DOMAIN Flush(c, i) = 1..i
  BY DEF Flush
<1> QED
  BY <1>4, <1>5, <1>6, LenProperties DEF Flush

\* A flush sends fragment after fragment, and after the last nothing is unsent
LEMMA FlushGood ==
    ASSUME NEW c, NEW net, NEW r, NEW s, NEW h, NEW ab \in BOOLEAN, NEW fl,
           Good(c, net, r, s, h, ab, fl), c.unsentFragments
    PROVE  /\ Flush(c, Rounds(c)) \in Seq(PacketSet)
           /\ ~Advanced(Before(c, Rounds(c))).unsentFragments
           /\ Good(Advanced(Before(c, Rounds(c))), net \o Flush(c, Rounds(c)),
                   r, s, h, ab, fl)
<1> DEFINE R == Rounds(c)
           After(i) == IF i < R THEN Before(c, i + 1) ELSE Advanced(Before(c, R))
           S == {i \in 0..R : ~Good(After(i), net \o Flush(c, i), r, s, h, ab, fl)}
<1>1. /\ c \in Chan /\ net \in Seq(PacketSet)
      /\ c.unsentFragmentStart <= Len(c.unsentBuffer)
      /\ c.unsentFragmentStart \in Nat /\ c.unsentFragments = TRUE
  BY DEF Good, Typed, Counted, Chan
<1>2. R \in Nat \ {0}
  <2> DEFINE d == Len(c.unsentBuffer) - c.unsentFragmentStart
  <2>1. d \in Nat /\ R = d \div FRAGMENT_SIZE + 1
    BY <1>1, LenProperties DEF Chan, Rounds
  <2> HIDE DEF d
  <2> QED
    BY <2>1, SizeAssumption
<1> HIDE DEF R
<1>3. S = {}
  <2> SUFFICES ASSUME S # {}
               PROVE  FALSE
    OBVIOUS
  <2>1. S \in SUBSET Nat
    BY <1>2
  <2> HIDE DEF S
  <2>2. PICK i \in S : \A k \in S : i <= k
    BY <2>1, LeastElement
  <2>3. i \in 0..R /\ ~Good(After(i), net \o Flush(c, i), r, s, h, ab, fl)
    BY <2>2 DEF S
  <2>4. CASE i = 0
    <3>1. Flush(c, 0) = << >>
      <4>1. 0 \in 0..Rounds(c)
        BY <1>2 DEF R
      <4>2. Flush(c, 0) \in Seq(PacketSet) /\ Len(Flush(c, 0)) = 0
        BY <1>1, <4>1, FlushPackets
      <4> QED
        BY <4>2, EmptySeq
    <3>2. net \o Flush(c, 0) = net
      BY <1>1, <3>1, ConcatEmptySeq
    <3>3. After(0) = c
      <4>1. After(0) = Before(c, 1)
        BY <1>2
      <4>2. c.unsentFragmentStart + (1 - 1) * FRAGMENT_SIZE = c.unsentFragmentStart
        BY <1>1, SizeAssumption
      <4>3. Before(c, 1) = c
        BY <1>1, <4>2 DEF Before, Chan
      <4> QED
        BY <4>1, <4>3
    <3> QED
      BY <2>3, <2>4, <3>2, <3>3
  <2>5. CASE i # 0
    <3> DEFINE k == i - 1
               f == Fragment(Before(c, i))
    <3>1. k \in 0..R /\ i \in 1..R /\ k < R /\ k + 1 = i /\ ~(i <= k)
      BY <1>2, <2>3, <2>5
    <3>2. k \notin S
      BY <2>2, <3>1
    <3> HIDE DEF k
    <3>3. Good(Before(c, i), net \o Flush(c, k), r, s, h, ab, fl)
      BY <3>1, <3>2 DEF S
    <3>4. /\ Before(c, i) \in Chan /\ Before(c, i).unsentFragments
          /\ Before(c, i).unsentFragmentStart <= Len(Before(c, i).unsentBuffer)
          /\ i < R => Advanced(Before(c, i)) = Before(c, i + 1)
      BY <1>1, <3>1, BeforeFields DEF R
    <3>5. Good(Advanced(Before(c, i)), Append(net \o Flush(c, k), f), r, s, h, ab, fl)
      BY <3>3, <3>4, FragmentGood
    <3>6. Advanced(Before(c, i)) = After(i)
      BY <1>2, <3>1, <3>4
    <3>7. Append(net \o Flush(c, k), f) = net \o Flush(c, i)
      <4>1. /\ Flush(c, k) \in Seq(PacketSet) /\ Len(Flush(c, k)) = k
            /\ \A j \in 1..k : Flush(c, k)[j] = Fragment(Before(c, j))
        BY <1>1, <3>1, FlushPackets DEF R
      <4>2. /\ Flush(c, i) \in Seq(PacketSet) /\ Len(Flush(c, i)) = i
            /\ \A j \in 1..i : Flush(c, i)[j] = Fragment(Before(c, j))
        BY <1>1, <2>3, FlushPackets DEF R
      <4>3. f \in PacketSet
        BY <3>4, FragmentFields
      <4>4. f = Flush(c, i)[i]
        BY <3>1, <4>2
      <4> HIDE DEF f
      <4>5. /\ Append(Flush(c, k), f) \in Seq(PacketSet)
            /\ Len(Append(Flush(c, k), f)) = k + 1
            /\ \A j \in 1..k : Append(Flush(c, k), f)[j] = Flush(c, k)[j]
            /\ Append(Flush(c, k), f)[k + 1] = f
        BY <4>1, <4>3, AppendProperties
      <4>6. Append(Flush(c, k), f) = Flush(c, i)
        <5>1. \A j \in 1..i : j \in 1..k \/ j = i
          BY <3>1
        <5>2. \A j \in 1..i : Append(Flush(c, k), f)[j] = Flush(c, i)[j]
          BY <3>1, <4>1, <4>2, <4>4, <4>5, <5>1
        <5> QED
          BY <3>1, <4>2, <4>5, <5>2, SeqEqual
      <4>7. /\ Append(net \o Flush(c, k), f) = (net \o Flush(c, k)) \o <<f>>
            /\ Append(Flush(c, k), f) = Flush(c, k) \o <<f>>
        BY <1>1, <4>1, <4>3, AppendIsConcat, ConcatProperties
      <4>8. <<f>> \in Seq(PacketSet)
        BY <4>3
      <4>9. net \in Seq(PacketSet) /\ Flush(c, k) \in Seq(PacketSet)
        BY <1>1, <4>1
      <4>10. (net \o Flush(c, k)) \o <<f>> = net \o (Flush(c, k) \o <<f>>)
        BY <4>8, <4>9, ConcatAssociative
      <4> QED
        BY <4>6, <4>7, <4>10
    <3> QED
      BY <2>3, <3>5, <3>6, <3>7
  <2> QED
    BY <2>4, <2>5
<1>4. Good(After(R), net \o Flush(c, R), r, s, h, ab, fl)
  BY <1>2, <1>3
<1>5. After(R) = Advanced(Before(c, R))
  BY <1>2
<1>6. Flush(c, R) \in Seq(PacketSet)
  BY <1>1, <1>2, FlushPackets DEF R
<1>7. ~Advanced(Before(c, R)).unsentFragments
  <2>1. R \in 1..R
    BY <1>2
  <2>2. /\ Before(c, R) \in Chan /\ Before(c, R).unsentFragments
        /\ Before(c, R).unsentFragmentStart <= Len(Before(c, R).unsentBuffer)
        /\ LastFragment(Before(c, R))
    BY <1>1, <2>1, BeforeFields DEF R
  <2> QED
    BY <2>2, AdvancedFields
<1> QED
  BY <1>4, <1>5, <1>6, <1>7 DEF R

\* The channel, the packets and the messages of a step that transmits
Step == [chan : Chan, packets : Seq(PacketSet), sent : Seq(Message)]

GoodStep(t, net, r, h, ab, fl) ==
    t \in Step /\ Good(t.chan, net \o t.packets, r, t.sent, h, ab, fl)

LEMMA PacketsAppended ==
    ASSUME NEW net \in Seq(PacketSet), NEW q \in Seq(PacketSet), NEW f \in PacketSet
    PROVE  Append(q, f) \in Seq(PacketSet) /\ Append(net \o q, f) = net \o Append(q, f)
<1>1. <<f>> \in Seq(PacketSet)
  OBVIOUS
<1>2. /\ Append(net \o q, f) = (net \o q) \o <<f>>
      /\ Append(q, f) = q \o <<f>> /\ Append(q, f) \in Seq(PacketSet)
  BY AppendIsConcat, ConcatProperties, AppendProperties
<1> QED
  BY <1>1, <1>2, ConcatAssociative

LEMMA PacketsConcatenated ==
    ASSUME NEW net \in Seq(PacketSet), NEW p \in Seq(PacketSet), NEW q \in Seq(PacketSet)
    PROVE  p \o q \in Seq(PacketSet) /\ (net \o p) \o q = net \o (p \o q)
BY ConcatProperties, ConcatAssociative

LEMMA NextFragmentStep ==
    ASSUME NEW t, NEW net \in Seq(PacketSet), NEW r, NEW h, NEW ab \in BOOLEAN, NEW fl,
           GoodStep(t, net, r, h, ab, fl), t.chan.unsentFragments
    PROVE  /\ GoodStep(TransmitNextFragment(t), net, r, h, ab, fl)
           /\ TransmitNextFragment(t).sent = t.sent
<1> DEFINE c == t.chan
           f == Fragment(c)
           a == Advanced(c)
           packets == Append(t.packets, f)
           u == [t EXCEPT !.packets = packets]
           v == [u EXCEPT !.chan = a]
<1>1. /\ c \in Chan /\ t.packets \in Seq(PacketSet) /\ t.sent \in Seq(Message)
      /\ Good(c, net \o t.packets, r, t.sent, h, ab, fl)
      /\ t \in Step
  BY DEF GoodStep, Step
<1>2. c.unsentFragmentStart <= Len(c.unsentBuffer)
  BY <1>1 DEF Good, Counted
<1>3. f \in PacketSet /\ a \in Chan
  BY <1>1, <1>2, FragmentFields, AdvancedFields
<1>4. Good(a, Append(net \o t.packets, f), r, t.sent, h, ab, fl)
  BY <1>1, FragmentGood
<1>5. TransmitNextFragment(t) = v
  BY DEF TransmitNextFragment
<1> HIDE DEF c, f, a
<1>6. packets \in Seq(PacketSet) /\ Append(net \o t.packets, f) = net \o packets
  BY <1>1, <1>3, PacketsAppended
<1> HIDE DEF packets
<1>7. u \in Step /\ u.packets = packets /\ u.sent = t.sent
  BY <1>1, <1>6 DEF Step
<1> HIDE DEF u
<1>8. v \in Step /\ v.packets = packets /\ v.sent = t.sent /\ v.chan = a
  BY <1>3, <1>7 DEF Step
<1> HIDE DEF v
<1> QED
  BY <1>4, <1>5, <1>6, <1>8 DEF GoodStep

LEMMA FlushedStep ==
    ASSUME NEW t, NEW net \in Seq(PacketSet), NEW r, NEW h, NEW ab \in BOOLEAN, NEW fl,
           GoodStep(t, net, r, h, ab, fl)
    PROVE  /\ GoodStep(Flushed(t), net, r, h, ab, fl)
           /\ Flushed(t).sent = t.sent /\ ~Flushed(t).chan.unsentFragments
<1>1. CASE ~t.chan.unsentFragments
  BY <1>1 DEF Flushed
<1>2. CASE t.chan.unsentFragments
  <2> DEFINE c == t.chan
             q == Flush(c, Rounds(c))
             a == Advanced(Before(c, Rounds(c)))
             packets == t.packets \o q
             u == [t EXCEPT !.packets = packets]
             v == [u EXCEPT !.chan = a]
  <2>1. /\ c \in Chan /\ t.packets \in Seq(PacketSet) /\ t.sent \in Seq(Message)
        /\ Good(c, net \o t.packets, r, t.sent, h, ab, fl)
        /\ t \in Step
    BY DEF GoodStep, Step
  <2>2. /\ q \in Seq(PacketSet) /\ ~a.unsentFragments
        /\ Good(a, (net \o t.packets) \o q, r, t.sent, h, ab, fl)
    BY <1>2, <2>1, FlushGood
  <2>3. a \in Chan
    BY <2>2 DEF Good, Typed
  <2>4. Flushed(t) = v
    BY <1>2 DEF Flushed, Flush
  <2> HIDE DEF c, q, a
  <2>5. packets \in Seq(PacketSet) /\ (net \o t.packets) \o q = net \o packets
    BY <2>1, <2>2, PacketsConcatenated
  <2> HIDE DEF packets
  <2>6. u \in Step /\ u.packets = packets /\ u.sent = t.sent
    BY <2>1, <2>5 DEF Step
  <2> HIDE DEF u
  <2>7. v \in Step /\ v.packets = packets /\ v.sent = t.sent /\ v.chan = a
    BY <2>3, <2>6 DEF Step
  <2> HIDE DEF v
  <2> QED
    BY <2>2, <2>4, <2>5, <2>7 DEF GoodStep
<1> QED
  BY <1>1, <1>2

\* What was transmitted stays, and more may follow
Extended(s, s2) ==
    /\ s2 \in Seq(Message)
    /\ Len(s) <= Len(s2)
    /\ \A i \in 1..Len(s) : s2[i] = s[i]

LEMMA TransmitStep ==
    ASSUME NEW t, NEW net \in Seq(PacketSet), NEW r, NEW h, NEW ab \in BOOLEAN, NEW fl,
           GoodStep(t, net, r, h, ab, fl), Len(t.sent) < MaxMessages, NEW n \in Lengths
    PROVE  /\ GoodStep(Transmit(t, n), net, r, h, ab \/ t.chan.unsentFragments, fl)
           /\ Len(Transmit(t, n).sent) = Len(t.sent) + 1
           /\ Extended(t.sent, Transmit(t, n).sent)
<1> DEFINE data == Data(Len(t.sent) + 1, n)
           e == [length |-> n, key |-> t.chan.outgoingSequence]
           sent2 == Append(t.sent, e)
           ab2 == ab \/ t.chan.unsentFragments
           c == [t.chan EXCEPT !.unsentFragmentStart = 0]
           s == [t EXCEPT !.sent = sent2]
<1>1. /\ t.chan \in Chan /\ t.packets \in Seq(PacketSet) /\ t.sent \in Seq(Message)
      /\ Good(t.chan, net \o t.packets, r, t.sent, h, ab, fl)
      /\ t \in Step
  BY DEF GoodStep, Step
<1>2. /\ n \in Nat /\ t.chan.outgoingSequence \in Nat \ {0}
      /\ t.chan.unsentFragments \in BOOLEAN /\ FRAGMENT_SIZE \in Nat
  BY <1>1, LengthAssumption, SizeAssumption DEF Chan
<1>3. e \in Message
  BY <1>2 DEF Message
<1>4. /\ sent2 \in Seq(Message) /\ Len(sent2) = Len(t.sent) + 1
      /\ Extended(t.sent, sent2)
  <2>1. /\ sent2 \in Seq(Message) /\ Len(sent2) = Len(t.sent) + 1
        /\ \A i \in 1..Len(t.sent) : sent2[i] = t.sent[i]
    BY <1>1, <1>3, AppendProperties
  <2> QED
    BY <1>1, <2>1, LenProperties DEF Extended
<1>5. data \in Seq(Units)
  <2>1. Len(t.sent) + 1 \in 1..MaxMessages
    BY <1>1, LenProperties, BoundAssumption
  <2> QED
    BY <2>1, DataTypes
<1>6. ab2 \in BOOLEAN
  BY <1>2
<1>7. /\ c \in Chan /\ c.outgoingSequence = t.chan.outgoingSequence
      /\ c.unsentFragments = t.chan.unsentFragments
      /\ c.unsentFragmentStart = 0 /\ c.unsentBuffer = t.chan.unsentBuffer
  BY <1>1 DEF Chan
<1>8. s \in Step /\ s.chan = t.chan /\ s.packets = t.packets /\ s.sent = sent2
  BY <1>1, <1>4 DEF Step
<1>9. CASE n >= FRAGMENT_SIZE
  <2> DEFINE c1 == [c EXCEPT !.unsentFragments = TRUE]
             c2 == [c1 EXCEPT !.unsentBuffer = data]
             u == [s EXCEPT !.chan = c2]
  <2>1. Transmit(t, n) = TransmitNextFragment(u)
    BY <1>9 DEF Transmit
  <2> HIDE DEF c, s, data
  <2>2. /\ c1 \in Chan /\ c1.outgoingSequence = t.chan.outgoingSequence
        /\ c1.unsentFragments = TRUE
        /\ c1.unsentFragmentStart = 0
    BY <1>7 DEF Chan
  <2> HIDE DEF c1
  <2>3. /\ c2 \in Chan /\ c2.outgoingSequence = t.chan.outgoingSequence
        /\ c2.unsentFragments = TRUE
        /\ c2.unsentFragmentStart = 0 /\ c2.unsentBuffer = data
    BY <1>5, <2>2 DEF Chan
  <2> HIDE DEF c2
  <2>4. u \in Step /\ u.chan = c2 /\ u.packets = t.packets /\ u.sent = sent2
    BY <1>8, <2>3 DEF Step
  <2> HIDE DEF u
  <2>5. Good(c2, net \o t.packets, r, sent2, h, ab2, fl)
    BY <1>1, <1>9, <2>3, LoadGood DEF data
  <2>6. GoodStep(u, net, r, h, ab2, fl)
    BY <2>4, <2>5 DEF GoodStep
  <2>7. u.chan.unsentFragments
    BY <2>3, <2>4
  <2> HIDE DEF ab2, sent2
  <2>8. /\ GoodStep(TransmitNextFragment(u), net, r, h, ab2, fl)
        /\ TransmitNextFragment(u).sent = u.sent
    BY <1>6, <2>6, <2>7, NextFragmentStep
  <2> QED
    BY <1>4, <2>1, <2>4, <2>8 DEF ab2
<1>10. CASE ~(n >= FRAGMENT_SIZE)
  <2> DEFINE out == c.outgoingSequence + 1
             c2 == [c EXCEPT !.outgoingSequence = out]
             p == [sequence |-> c.outgoingSequence, fragmented |-> FALSE,
                   fragmentStart |-> 0, data |-> data]
             packets == Append(t.packets, p)
             u == [s EXCEPT !.chan = c2]
             v == [u EXCEPT !.packets = Append(s.packets, p)]
  <2>1. Transmit(t, n) = v
    BY <1>10 DEF Transmit
  <2> HIDE DEF c, s, data
  <2>2. out \in Nat \ {0} /\ out = t.chan.outgoingSequence + 1
    BY <1>2, <1>7
  <2> HIDE DEF out
  <2>3. /\ c2 \in Chan /\ c2.outgoingSequence = t.chan.outgoingSequence + 1
        /\ c2.unsentFragments = t.chan.unsentFragments
        /\ c2.unsentFragmentStart = 0 /\ c2.unsentBuffer = t.chan.unsentBuffer
    BY <1>7, <2>2 DEF Chan
  <2>4. /\ p \in PacketSet /\ p.sequence = t.chan.outgoingSequence /\ ~p.fragmented
        /\ p.fragmentStart = 0 /\ p.data = data
    BY <1>2, <1>5, <1>7 DEF PacketSet
  <2> HIDE DEF c2, p
  <2>5. packets \in Seq(PacketSet) /\ Append(net \o t.packets, p) = net \o packets
    BY <1>1, <2>4, PacketsAppended
  <2>6. s.packets = t.packets
    BY <1>8
  <2>7. u \in Step /\ u.chan = c2 /\ u.sent = sent2
    BY <1>8, <2>3 DEF Step
  <2> HIDE DEF u
  <2>8. v = [u EXCEPT !.packets = packets]
    BY <2>6
  <2> HIDE DEF v, packets
  <2>9. v \in Step /\ v.chan = c2 /\ v.packets = packets /\ v.sent = sent2
    BY <2>5, <2>7, <2>8 DEF Step
  <2>10. Good(c2, Append(net \o t.packets, p), r, sent2, h, ab2, fl)
    <3>1. n < FRAGMENT_SIZE
      BY <1>2, <1>10
    <3>2. c2.unsentFragments <=> t.chan.unsentFragments
      BY <2>3
    <3> QED
      BY <1>1, <2>3, <2>4, <3>1, <3>2, SmallGood DEF data
  <2> QED
    BY <1>4, <2>1, <2>5, <2>9, <2>10 DEF GoodStep
<1> QED
  BY <1>9, <1>10

\* A dropped client gives up what is unsent
LEMMA DropGood ==
    ASSUME NEW c, NEW net, NEW r, NEW s, NEW h, NEW ab \in BOOLEAN, NEW fl,
           Good(c, net, r, s, h, ab, fl),
           NEW c2 \in Chan, c2.outgoingSequence = c.outgoingSequence,
           ~c2.unsentFragments, c2.unsentFragmentStart = c.unsentFragmentStart,
           c2.unsentBuffer = c.unsentBuffer
    PROVE  Good(c2, net, r, s, h, ab \/ c.unsentFragments, fl)
<1> DEFINE ab2 == ab \/ c.unsentFragments
<1>1. /\ c \in Chan /\ net \in Seq(PacketSet) /\ r \in Peer
      /\ s \in Seq(Message) /\ h \in Seq(Output)
      /\ Counted(c, s) /\ Unsent(c, s, ab) /\ Numbered(c, s, ab)
      /\ \A j \in 1..Len(net) : PacketOK(net[j], c, s, ab)
      /\ Received(r, c, s, ab) /\ \A j \in 1..Len(h) : OutputOK(h[j], r, s, ab)
      /\ HandedInOrder(h) /\ Separate(c, net, r, s, h)
      /\ Smooth(c, net, r, s, h, ab, fl)
  BY DEF Good, Typed
<1>2. /\ c.outgoingSequence \in Nat \ {0} /\ c.unsentFragments \in BOOLEAN
      /\ Len(s) \in Nat
  BY <1>1, LenProperties DEF Chan
<1>3. c2.unsentFragments = FALSE
  BY DEF Chan
<1>4. /\ ab2 \in BOOLEAN /\ (ab => ab2) /\ (~ab2 => ~c.unsentFragments)
      /\ c.outgoingSequence <= c2.outgoingSequence
      /\ Len(s) <= Len(s) /\ \A i \in 1..Len(s) : s[i] = s[i]
  BY <1>2, <1>3
<1> HIDE DEF ab2
<1>5. Counted(c2, s)
  <2>1. /\ c.outgoingSequence - 1 + (IF c.unsentFragments THEN 1 ELSE 0) <= Len(s)
        /\ Len(s) <= MaxMessages
        /\ c.unsentFragmentStart <= Len(c.unsentBuffer)
        /\ \A i \in 1..Len(s) : s[i].key <= c.outgoingSequence
    BY <1>1 DEF Counted
  <2>2. c2.outgoingSequence - 1 + (IF c2.unsentFragments THEN 1 ELSE 0) <= Len(s)
    BY <1>2, <1>3, <2>1
  <2> QED
    BY <1>3, <2>1, <2>2 DEF Counted
<1>6. Unsent(c2, s, ab2)
  BY <1>3 DEF Unsent
<1>7. Numbered(c2, s, ab2)
  BY <1>1, <1>3, <1>4 DEF Numbered
<1>8. \A j \in 1..Len(net) : PacketOK(net[j], c2, s, ab2)
  <2>1. \A j \in 1..Len(net) : net[j] \in PacketSet
    BY <1>1, ElementOfSeq
  <2>2. c2 \in Chan /\ c.outgoingSequence <= c2.outgoingSequence /\ ab2 \in BOOLEAN
    BY <1>3, <1>4
  <2> QED
    BY <1>1, <1>2, <1>4, <2>1, <2>2, PacketLater
<1>9. Received(r, c2, s, ab2)
  <2>1. c2 \in Chan /\ c.outgoingSequence <= c2.outgoingSequence /\ ab2 \in BOOLEAN
    BY <1>3, <1>4
  <2> QED
    BY <1>1, <1>2, <1>4, <2>1, ReceivedLater
<1>10. \A j \in 1..Len(h) : OutputOK(h[j], r, s, ab2)
  BY <1>1, <1>4, OutputLater
<1>11. Separate(c2, net, r, s, h)
  <2>1. Old(net, net) /\ Extends(s, s) /\ Newer(c2, c, s)
    BY <1>2, <1>3 DEF Old, Extends, Newer
  <2> QED
    BY <1>1, <1>3, <1>4, <2>1, SeparateLater
<1>12. Smooth(c2, net, r, s, h, ab2, fl)
  <2> SUFFICES ASSUME ~ab2, fl = 0
               PROVE  /\ Linked(c2, net, r)
                      /\ r.fragmentSequence <= r.incomingSequence + 1
                      /\ Len(h) = r.incomingSequence
                      /\ Len(s) = c2.outgoingSequence - 1
                                    + (IF c2.unsentFragments THEN 1 ELSE 0)
    BY DEF Smooth
  <2>1. ~ab /\ ~c.unsentFragments
    BY <1>4
  <2>2. /\ Linked(c, net, r) /\ r.fragmentSequence <= r.incomingSequence + 1
        /\ Len(h) = r.incomingSequence
        /\ Len(s) = c.outgoingSequence - 1
    BY <1>1, <1>2, <2>1 DEF Smooth
  <2>3. Coming(c2) = Coming(c)
    BY <1>3, <2>1 DEF Coming
  <2>4. Linked(c2, net, r)
    BY <2>2, <2>3 DEF Linked
  <2> QED
    BY <1>2, <1>3, <2>2, <2>4
<1> QED
  BY <1>1, <1>3, <1>5, <1>6, <1>7, <1>8, <1>9, <1>10, <1>11, <1>12 DEF Good, Typed, ab2

-----------------------------------------------------------------------------
(* The steps of the server.                                                *)

LEMMA IdleStep ==
    ASSUME Inv
    PROVE  /\ GoodStep(Idle, network, peer, handed, abandoned, faults)
           /\ Idle.chan = chan /\ Idle.sent = sent
           /\ network \in Seq(PacketSet) /\ chan.unsentFragments \in BOOLEAN
           /\ abandoned \in BOOLEAN
<1>1. /\ Good(chan, network, peer, sent, handed, abandoned, faults)
      /\ chan \in Chan /\ network \in Seq(PacketSet) /\ sent \in Seq(Message)
      /\ abandoned \in BOOLEAN
  BY DEF Inv, Good, Typed
<1>2. Idle \in Step /\ Idle.chan = chan /\ Idle.sent = sent /\ Idle.packets = << >>
  BY <1>1, EmptySeq DEF Idle, Step
<1>3. network \o << >> = network
  BY <1>1, ConcatEmptySeq
<1>4. chan.unsentFragments \in BOOLEAN
  BY <1>1 DEF Chan
<1> QED
  BY <1>1, <1>2, <1>3, <1>4 DEF GoodStep

LEMMA CommitStep ==
    ASSUME NEW t, Commit(t), GoodStep(t, network, peer, handed, abandoned', faults),
           UNCHANGED <<peer, handed, faults>>
    PROVE  Good(chan', network', peer', sent', handed', abandoned', faults')
BY DEF Commit, GoodStep

LEMMA SendNextFragmentInv == Inv /\ SendNextFragment => Inv'
<1> SUFFICES ASSUME Inv, SendNextFragment
             PROVE  Inv'
  OBVIOUS
<1>1. GoodStep(TransmitNextFragment(Idle), network, peer, handed, abandoned, faults)
  BY IdleStep, NextFragmentStep DEF SendNextFragment
<1>2. Good(chan', network', peer', sent', handed', abandoned', faults')
  BY <1>1, CommitStep DEF SendNextFragment
<1> QED
  BY <1>2 DEF SendNextFragment, Inv

LEMMA SendClientMessageInv == Inv /\ SendClientMessage => Inv'
<1> SUFFICES ASSUME Inv, SendClientMessage
             PROVE  Inv'
  OBVIOUS
<1>1. PICK n \in Lengths : Commit(Transmit(Idle, n))
  BY DEF SendClientMessage
<1>2. (abandoned \/ chan.unsentFragments) = abandoned
  BY IdleStep DEF SendClientMessage, MayBuild
<1>3. GoodStep(Transmit(Idle, n), network, peer, handed,
               abandoned \/ chan.unsentFragments, faults)
  <2>1. Len(Idle.sent) < MaxMessages
    BY IdleStep DEF SendClientMessage
  <2>2. GoodStep(Transmit(Idle, n), network, peer, handed,
                 abandoned \/ Idle.chan.unsentFragments, faults)
    BY <2>1, IdleStep, TransmitStep
  <2> QED
    BY <2>2, IdleStep
<1>4. GoodStep(Transmit(Idle, n), network, peer, handed, abandoned', faults)
  BY <1>2, <1>3 DEF SendClientMessage
<1>5. Good(chan', network', peer', sent', handed', abandoned', faults')
  BY <1>1, <1>4, CommitStep DEF SendClientMessage
<1> QED
  BY <1>5 DEF SendClientMessage, Inv

LEMMA SendClientGameStateInv == Inv /\ SendClientGameState => Inv'
<1> SUFFICES ASSUME Inv, SendClientGameState
             PROVE  Inv'
  OBVIOUS
<1> DEFINE t == Flushed(Idle)
<1>1. PICK n \in Lengths : Commit(Transmit(t, n))
  BY DEF SendClientGameState
<1>2. /\ GoodStep(t, network, peer, handed, abandoned, faults)
      /\ t.sent = sent /\ ~t.chan.unsentFragments
  BY IdleStep, FlushedStep
<1>3. (abandoned \/ t.chan.unsentFragments) = abandoned
  BY <1>2, IdleStep
<1> HIDE DEF t
<1>4. GoodStep(Transmit(t, n), network, peer, handed,
               abandoned \/ t.chan.unsentFragments, faults)
  BY <1>2, IdleStep, TransmitStep DEF SendClientGameState
<1>5. GoodStep(Transmit(t, n), network, peer, handed, abandoned', faults)
  BY <1>3, <1>4 DEF SendClientGameState
<1>6. Good(chan', network', peer', sent', handed', abandoned', faults')
  BY <1>1, <1>5, CommitStep DEF SendClientGameState
<1> QED
  BY <1>6 DEF SendClientGameState, Inv

LEMMA SpawnServerInv == Inv /\ SpawnServer => Inv'
<1> SUFFICES ASSUME Inv, SpawnServer
             PROVE  Inv'
  OBVIOUS
<1>1. PICK n \in Lengths : Commit(Transmit(Idle, n))
  BY DEF SpawnServer
<1>2. GoodStep(Transmit(Idle, n), network, peer, handed,
               abandoned \/ Idle.chan.unsentFragments, faults)
  <2>1. Len(Idle.sent) < MaxMessages
    BY IdleStep DEF SpawnServer
  <2> QED
    BY <2>1, IdleStep, TransmitStep
<1>3. GoodStep(Transmit(Idle, n), network, peer, handed, abandoned', faults)
  BY <1>2, IdleStep DEF SpawnServer
<1>4. Good(chan', network', peer', sent', handed', abandoned', faults')
  BY <1>1, <1>3, CommitStep DEF SpawnServer
<1>5. abandoned' \in BOOLEAN
  BY DEF SpawnServer
<1> QED
  BY <1>4, <1>5 DEF SpawnServer, Inv

LEMMA FinalMessageInv == Inv /\ FinalMessage => Inv'
<1> SUFFICES ASSUME Inv, FinalMessage
             PROVE  Inv'
  OBVIOUS
<1>1. PICK n \in Lengths, m \in Lengths :
         /\ Commit(Transmit(Transmit(Idle, n), m))
         /\ abandoned' = (\/ abandoned
                          \/ chan.unsentFragments
                          \/ Transmit(Idle, n).chan.unsentFragments)
  BY DEF FinalMessage
<1> DEFINE first == Transmit(Idle, n)
           ab == abandoned \/ chan.unsentFragments
<1>2. /\ GoodStep(first, network, peer, handed, ab, faults)
      /\ Len(first.sent) = Len(sent) + 1
  <2>1. Len(Idle.sent) < MaxMessages
    <3>1. Len(sent) \in Nat
      BY LenProperties DEF Inv, Good, Typed
    <3> QED
      BY <3>1, IdleStep, BoundAssumption DEF FinalMessage
  <2>2. /\ GoodStep(first, network, peer, handed, abandoned \/ Idle.chan.unsentFragments, faults)
        /\ Len(first.sent) = Len(Idle.sent) + 1
    BY <2>1, IdleStep, TransmitStep
  <2> QED
    BY <2>2, IdleStep
<1>3. Len(first.sent) < MaxMessages
  <2>1. Len(sent) \in Nat
    BY LenProperties DEF Inv, Good, Typed
  <2> QED
    BY <1>2, <2>1, BoundAssumption DEF FinalMessage
<1>4. ab \in BOOLEAN
  BY IdleStep
<1> HIDE DEF first, ab
<1>5. GoodStep(Transmit(first, m), network, peer, handed,
               ab \/ first.chan.unsentFragments, faults)
  BY <1>2, <1>3, <1>4, IdleStep, TransmitStep
<1>6. abandoned' = (ab \/ first.chan.unsentFragments)
  BY <1>1 DEF ab, first
<1>7. GoodStep(Transmit(first, m), network, peer, handed, abandoned', faults)
  BY <1>5, <1>6
<1>8. Good(chan', network', peer', sent', handed', abandoned', faults')
  BY <1>1, <1>7, CommitStep DEF FinalMessage, first
<1>9. abandoned' \in BOOLEAN
  BY <1>6
<1> QED
  BY <1>8, <1>9 DEF FinalMessage, Inv

LEMMA DropClientInv == Inv /\ (\E silent \in BOOLEAN : DropClient(silent)) => Inv'
<1> SUFFICES ASSUME Inv, NEW silent \in BOOLEAN, DropClient(silent)
             PROVE  Inv'
  OBVIOUS
<1>1. CASE silent
  BY <1>1 DEF DropClient, Inv
<1>2. CASE ~silent
  <2>1. /\ chan' = [chan EXCEPT !.unsentFragments = FALSE]
        /\ abandoned' = (abandoned \/ chan.unsentFragments)
        /\ UNCHANGED <<network, peer, sent, handed, faults>>
    BY <1>2 DEF DropClient
  <2>2. Good(chan', network, peer, sent, handed, abandoned \/ chan.unsentFragments, faults)
    <3> DEFINE c2 == [chan EXCEPT !.unsentFragments = FALSE]
    <3>1. /\ c2 \in Chan /\ c2.outgoingSequence = chan.outgoingSequence
          /\ ~c2.unsentFragments
          /\ c2.unsentFragmentStart = chan.unsentFragmentStart
          /\ c2.unsentBuffer = chan.unsentBuffer
      BY DEF Inv, Good, Typed, Chan
    <3>2. chan' = c2
      BY <2>1
    <3> HIDE DEF c2
    <3> QED
      BY <3>1, <3>2, DropGood DEF Inv
  <2>3. Good(chan', network', peer', sent', handed', abandoned', faults')
    BY <2>1, <2>2
  <2>4. abandoned' \in BOOLEAN
    BY <2>1
  <2> QED
    BY <2>1, <2>3, <2>4 DEF DropClient, Inv
<1> QED
  BY <1>1, <1>2

-----------------------------------------------------------------------------
(* Receiving.                                                              *)

\* The units of data come from packet p, or from the receiver's buffer, and
\* travelled under number
From(data, number, p, r) ==
    \A k \in 1..Len(data) :
        \/ /\ p.fragmented /\ number = p.sequence
           /\ \E i \in 1..Len(p.data) : data[k] = p.data[i]
        \/ /\ number = r.fragmentSequence
           /\ \E i \in 1..Len(r.fragmentBuffer) : data[k] = r.fragmentBuffer[i]

LEMMA FromSplit ==
    ASSUME NEW data, NEW number, NEW p, NEW r, NEW n, NEW m, From(data, number, p, r),
           p.fragmented => SplitAt(p.data, p.sequence, n, m),
           SplitAt(r.fragmentBuffer, r.fragmentSequence, n, m)
    PROVE  SplitAt(data, number, n, m)
BY DEF From, SplitAt

LEMMA FromLarge ==
    ASSUME NEW data, NEW number, NEW p, NEW r, NEW s, From(data, number, p, r),
           p.fragmented => LargeUnits(p.data, s), LargeUnits(r.fragmentBuffer, s)
    PROVE  LargeUnits(data, s)
BY DEF From, LargeUnits

\* What is handed out when packet p is received
NewOutput(o, p, r, r2, s, ab) ==
    /\ r.incomingSequence < o.sequence /\ o.sequence = p.sequence
    /\ OutputOK(o, r2, s, ab)
    /\ SmallOutput(o, s) \/ (LastOf(p) /\ From(o.data, o.sequence, p, r))

\* What there is afterwards: what was, and at most one output more
Handed(h2, h, p, r, r2, s, ab) ==
    /\ Len(h2) \in {Len(h), Len(h) + 1}
    /\ \A j \in 1..Len(h) : h2[j] = h[j]
    /\ Len(h2) = Len(h) + 1 => NewOutput(h2[Len(h) + 1], p, r, r2, s, ab)

\* A receiver that goes on to r2 and h2 leaves the numbers closed
LEMMA ClosedReceived ==
    ASSUME NEW c, NEW net \in Seq(PacketSet), NEW net2 \in Seq(PacketSet), NEW r, NEW r2,
           NEW s, NEW h \in Seq(Output), NEW h2 \in Seq(Output), NEW ab, NEW n,
           NEW i0 \in 1..Len(net),
           \A j \in 1..Len(net2) : \E i \in 1..Len(net) : net2[j] = net[i],
           From(r2.fragmentBuffer, r2.fragmentSequence, net[i0], r),
           Handed(h2, h, net[i0], r, r2, s, ab),
           Closed(n, c, net, r, s, h)
    PROVE  Closed(n, c, net2, r2, s, h2)
<1>1. PICK m \in Nat : Split(n, m, c, net, r, s, h)
  BY DEF Closed
<1>2. /\ net[i0].fragmented => SplitAt(net[i0].data, net[i0].sequence, n, m)
      /\ SplitAt(r.fragmentBuffer, r.fragmentSequence, n, m)
  BY <1>1 DEF Split
<1>3. SplitAt(r2.fragmentBuffer, r2.fragmentSequence, n, m)
  BY <1>2, FromSplit
<1>4. ASSUME NEW j \in 1..Len(h2)
      PROVE  SmallOutput(h2[j], s) \/ SplitAt(h2[j].data, h2[j].sequence, n, m)
  <2>1. CASE j \in 1..Len(h)
    BY <1>1, <2>1 DEF Split, Handed
  <2>2. CASE j \notin 1..Len(h)
    <3>1. Len(h2) = Len(h) + 1 /\ j = Len(h) + 1
      BY <2>2, LenProperties DEF Handed
    <3>2. NewOutput(h2[j], net[i0], r, r2, s, ab)
      BY <3>1 DEF Handed
    <3> QED
      BY <1>2, <3>2, FromSplit DEF NewOutput
  <2> QED
    BY <2>1, <2>2
<1>5. \A j \in 1..Len(net2) :
         net2[j].fragmented => SplitAt(net2[j].data, net2[j].sequence, n, m)
  BY <1>1 DEF Split
<1>6. Split(n, m, c, net2, r2, s, h2)
  BY <1>1, <1>3, <1>4, <1>5 DEF Split
<1> QED
  BY <1>6 DEF Closed

\* Whatever a packet does to the receiver, what is in flight and what was
\* sent stay good
LEMMA ReceiveGood ==
    ASSUME NEW c, NEW net, NEW r, NEW s, NEW h, NEW ab \in BOOLEAN, NEW fl,
           Good(c, net, r, s, h, ab, fl), net # << >>,
           NEW r2 \in Peer, NEW h2 \in Seq(Output),
           r.incomingSequence <= r2.incomingSequence,
           From(r2.fragmentBuffer, r2.fragmentSequence, net[1], r),
           Received(r2, c, s, ab),
           Handed(h2, h, net[1], r, r2, s, ab),
           ~ab /\ fl = 0 => /\ Awaited(r2) = End(net[1])
                            /\ r2.fragmentSequence <= r2.incomingSequence + 1
                            /\ Len(h2) = r2.incomingSequence
    PROVE  Good(c, Tail(net), r2, s, h2, ab, fl)
<1> DEFINE net2 == Tail(net)
<1>1. /\ c \in Chan /\ net \in Seq(PacketSet) /\ r \in Peer
      /\ s \in Seq(Message) /\ h \in Seq(Output)
      /\ Counted(c, s) /\ Unsent(c, s, ab) /\ Numbered(c, s, ab)
      /\ \A j \in 1..Len(net) : PacketOK(net[j], c, s, ab)
      /\ Received(r, c, s, ab) /\ \A j \in 1..Len(h) : OutputOK(h[j], r, s, ab)
      /\ HandedInOrder(h) /\ Separate(c, net, r, s, h)
      /\ Smooth(c, net, r, s, h, ab, fl)
  BY DEF Good, Typed
<1>2. /\ net2 \in Seq(PacketSet) /\ Len(net2) = Len(net) - 1
      /\ \A j \in 1..Len(net2) : net2[j] = net[j + 1]
      /\ Len(net) \in Nat \ {0} /\ Len(h) \in Nat
      /\ Len(net2) = 0 <=> net2 = << >>
  BY <1>1, HeadTailProperties, EmptySeq, LenProperties
<1> HIDE DEF net2
<1>3. \A j \in 1..Len(net2) : j + 1 \in 1..Len(net)
  BY <1>2
<1>4. \A j \in 1..Len(net2) : PacketOK(net2[j], c, s, ab)
  BY <1>1, <1>2, <1>3
<1>5. /\ \A j \in 1..Len(h) : h2[j] = h[j]
      /\ \A j \in 1..Len(h2) : j \in 1..Len(h) \/ (j = Len(h) + 1 /\ Len(h2) = Len(h) + 1)
      /\ Len(h2) = Len(h) + 1 => NewOutput(h2[Len(h) + 1], net[1], r, r2, s, ab)
  BY <1>2 DEF Handed
<1>6. \A j \in 1..Len(h2) : h2[j] \in Output /\ h2[j].sequence \in Nat
  <2>1. \A j \in 1..Len(h2) : h2[j] \in Output
    BY ElementOfSeq
  <2> QED
    BY <2>1 DEF Output
<1>7. r.incomingSequence \in Nat /\ r2.incomingSequence \in Nat
  BY <1>1 DEF Peer
<1>8. ASSUME NEW j \in 1..Len(h2)
      PROVE  OutputOK(h2[j], r2, s, ab)
  <2>1. CASE j \in 1..Len(h)
    <3>1. OutputOK(h2[j], r, s, ab) /\ h2[j].sequence \in Nat
      BY <1>1, <1>5, <1>6, <2>1
    <3>2. h2[j].sequence <= r2.incomingSequence
      BY <1>7, <3>1 DEF OutputOK
    <3> QED
      BY <3>1, <3>2 DEF OutputOK
  <2>2. CASE j = Len(h) + 1 /\ Len(h2) = Len(h) + 1
    BY <1>5, <2>2 DEF NewOutput
  <2> QED
    BY <1>5, <2>1, <2>2
<1>9. HandedInOrder(h2)
  <2> SUFFICES ASSUME NEW j \in 1..Len(h2), NEW k \in 1..Len(h2), j < k
               PROVE  h2[j].sequence < h2[k].sequence
    BY DEF HandedInOrder
  <2>1. j \in 1..Len(h)
    BY <1>2, <1>5
  <2>2. CASE k \in 1..Len(h)
    BY <1>1, <1>5, <2>1, <2>2 DEF HandedInOrder
  <2>3. CASE k = Len(h) + 1 /\ Len(h2) = Len(h) + 1
    <3>1. r.incomingSequence < h2[k].sequence
      BY <1>5, <2>3 DEF NewOutput
    <3>2. h2[j].sequence <= r.incomingSequence
      BY <1>1, <1>5, <2>1 DEF OutputOK
    <3> QED
      BY <1>6, <1>7, <3>1, <3>2
  <2> QED
    BY <1>5, <2>2, <2>3
<1>10. Separate(c, net2, r2, s, h2)
  <2>1. 1 \in 1..Len(net) /\ \A j \in 1..Len(net2) : \E i \in 1..Len(net) : net2[j] = net[i]
    BY <1>2, <1>3
  <2>2. ASSUME NEW n, Closed(n, c, net, r, s, h)
        PROVE  Closed(n, c, net2, r2, s, h2)
    BY <1>1, <1>2, <2>1, <2>2, ClosedReceived
  <2>3. ASSUME NEW j \in 1..Len(net2), LastOf(net2[j])
        PROVE  Closed(net2[j].sequence, c, net2, r2, s, h2)
    <3>1. Closed(net[j + 1].sequence, c, net, r, s, h)
      BY <1>1, <1>2, <1>3, <2>3 DEF Separate
    <3> QED
      BY <1>2, <2>2, <3>1
  <2>4. ASSUME NEW j \in 1..Len(h2), ~SmallOutput(h2[j], s)
        PROVE  Closed(h2[j].sequence, c, net2, r2, s, h2)
    <3>1. CASE j \in 1..Len(h)
      <4>1. Closed(h[j].sequence, c, net, r, s, h)
        BY <1>1, <1>5, <2>4, <3>1 DEF Separate
      <4> QED
        BY <1>5, <2>2, <3>1, <4>1
    <3>2. CASE j = Len(h) + 1 /\ Len(h2) = Len(h) + 1
      <4>1. LastOf(net[1]) /\ h2[j].sequence = net[1].sequence
        BY <1>5, <2>4, <3>2 DEF NewOutput
      <4>2. Closed(net[1].sequence, c, net, r, s, h)
        BY <1>1, <2>1, <4>1 DEF Separate
      <4> QED
        BY <2>2, <4>1, <4>2
    <3> QED
      BY <1>5, <3>1, <3>2
  <2> QED
    BY <2>3, <2>4 DEF Separate
<1>11. Smooth(c, net2, r2, s, h2, ab, fl)
  <2> SUFFICES ASSUME ~ab, fl = 0
               PROVE  /\ Linked(c, net2, r2)
                      /\ r2.fragmentSequence <= r2.incomingSequence + 1
                      /\ Len(h2) = r2.incomingSequence
                      /\ Len(s) = c.outgoingSequence - 1
                                    + (IF c.unsentFragments THEN 1 ELSE 0)
    BY DEF Smooth
  <2>1. /\ Linked(c, net, r)
        /\ Len(s) = c.outgoingSequence - 1 + (IF c.unsentFragments THEN 1 ELSE 0)
    BY <1>1 DEF Smooth
  <2>2. Awaited(r2) = End(net[1])
    OBVIOUS
  <2>3. ASSUME NEW j \in 1..Len(net2)
        PROVE  Start(net2[j]) = IF j = 1 THEN Awaited(r2) ELSE End(net2[j - 1])
    <3>1. Start(net[j + 1]) = End(net[j])
      <4>1. j + 1 \in 1..Len(net) /\ j + 1 # 1 /\ (j + 1) - 1 = j
        BY <1>3
      <4> QED
        BY <2>1, <4>1 DEF Linked
    <3>2. CASE j = 1
      BY <1>2, <2>2, <3>1, <3>2
    <3>3. CASE j # 1
      <4>1. j - 1 \in 1..Len(net2) /\ (j - 1) + 1 = j
        BY <1>2, <3>3
      <4>2. net2[j - 1] = net[j]
        BY <1>2, <4>1
      <4> QED
        BY <1>2, <3>1, <3>3, <4>2
    <3> QED
      BY <3>2, <3>3
  <2>4. Coming(c) = IF net2 = << >> THEN Awaited(r2) ELSE End(net2[Len(net2)])
    <3>1. Coming(c) = End(net[Len(net)])
      BY <2>1 DEF Linked
    <3>2. CASE net2 = << >>
      <4>1. Len(net) = 1
        BY <1>2, <3>2
      <4> QED
        BY <2>2, <3>1, <3>2, <4>1
    <3>3. CASE net2 # << >>
      <4>1. Len(net2) \in 1..Len(net2) /\ Len(net2) + 1 = Len(net)
        BY <1>2, <3>3
      <4> QED
        BY <1>2, <3>1, <3>3, <4>1
    <3> QED
      BY <3>2, <3>3
  <2> QED
    BY <2>1, <2>3, <2>4 DEF Linked
<1> QED
  BY <1>1, <1>2, <1>4, <1>8, <1>9, <1>10, <1>11 DEF Good, Typed, net2

\* What the receiver has of the number of a packet
LEMMA BufferedTypes ==
    ASSUME NEW p \in PacketSet, peer \in Peer
    PROVE  /\ Buffered(p) \in Seq(Units) /\ Len(Buffered(p)) \in Nat
           /\ From(Buffered(p), p.sequence, p, peer)
           /\ Buffered(p) # << >> => /\ Buffered(p) = peer.fragmentBuffer
                                     /\ p.sequence = peer.fragmentSequence
<1>1. peer.fragmentBuffer \in Seq(Units)
  BY DEF Peer
<1>2. CASE p.sequence # peer.fragmentSequence
  <2>1. Buffered(p) = << >>
    BY <1>2 DEF Buffered
  <2>2. << >> \in Seq(Units) /\ Len(<< >>) = 0
    BY EmptySeq
  <2> QED
    BY <2>1, <2>2 DEF From
<1>3. CASE p.sequence = peer.fragmentSequence
  <2>1. Buffered(p) = peer.fragmentBuffer
    BY <1>3 DEF Buffered
  <2> QED
    BY <1>1, <1>3, <2>1, LenProperties DEF From
<1> QED
  BY <1>2, <1>3

\* A fragment is put behind it
LEMMA JoinedTypes ==
    ASSUME NEW p \in PacketSet, peer \in Peer, p.fragmented
    PROVE  /\ Buffered(p) \o p.data \in Seq(Units)
           /\ Len(Buffered(p) \o p.data) = Len(Buffered(p)) + Len(p.data)
           /\ \A k \in 1..Len(Buffered(p)) : (Buffered(p) \o p.data)[k] = Buffered(p)[k]
           /\ \A k \in 1..Len(p.data) :
                 (Buffered(p) \o p.data)[Len(Buffered(p)) + k] = p.data[k]
           /\ From(Buffered(p) \o p.data, p.sequence, p, peer)
           /\ Len(p.data) \in Nat
<1> DEFINE b == Buffered(p)
           d == p.data
<1>1. b \in Seq(Units) /\ Len(b) \in Nat /\ From(b, p.sequence, p, peer)
  BY BufferedTypes
<1>2. d \in Seq(Units) /\ Len(d) \in Nat
  BY LenProperties DEF PacketSet
<1> HIDE DEF b, d
<1>3. /\ b \o d \in Seq(Units) /\ Len(b \o d) = Len(b) + Len(d)
      /\ \A k \in 1..(Len(b) + Len(d)) :
            (b \o d)[k] = IF k <= Len(b) THEN b[k] ELSE d[k - Len(b)]
  BY <1>1, <1>2, ConcatProperties
<1>4. \A k \in 1..Len(b) : (b \o d)[k] = b[k]
  BY <1>1, <1>2, <1>3
<1>5. \A k \in 1..Len(d) : (b \o d)[Len(b) + k] = d[k]
  <2> TAKE k \in 1..Len(d)
  <2>1. /\ Len(b) + k \in 1..(Len(b) + Len(d)) /\ ~(Len(b) + k <= Len(b))
        /\ (Len(b) + k) - Len(b) = k
    BY <1>1, <1>2
  <2> QED
    BY <1>3, <2>1
<1>6. From(b \o d, p.sequence, p, peer)
  <2> SUFFICES ASSUME NEW k \in 1..Len(b \o d)
               PROVE  \/ /\ p.fragmented /\ p.sequence = p.sequence
                         /\ \E i \in 1..Len(p.data) : (b \o d)[k] = p.data[i]
                      \/ /\ p.sequence = peer.fragmentSequence
                         /\ \E i \in 1..Len(peer.fragmentBuffer) :
                                (b \o d)[k] = peer.fragmentBuffer[i]
    BY DEF From
  <2>1. CASE k <= Len(b)
    <3>1. k \in 1..Len(b) /\ (b \o d)[k] = b[k]
      BY <1>1, <1>2, <1>3, <1>4, <2>1
    <3>2. b # << >>
      BY <1>1, <3>1, EmptySeq
    <3> QED
      BY <3>1, <3>2, BufferedTypes DEF b
  <2>2. CASE ~(k <= Len(b))
    <3>1. k - Len(b) \in 1..Len(d) /\ (b \o d)[k] = d[k - Len(b)]
      BY <1>1, <1>2, <1>3, <2>2
    <3> QED
      BY <3>1 DEF d
  <2> QED
    BY <2>1, <2>2
<1> QED
  BY <1>2, <1>3, <1>4, <1>5, <1>6 DEF b, d

\* What it has of the number of a packet is the beginning of the message that
\* the packet carries a part of, when no fragments were abandoned
LEMMA BufferedBegins ==
    ASSUME Good(chan, network, peer, sent, handed, abandoned, faults), ~abandoned,
           NEW j \in 1..Len(network)
    PROVE  \E i \in 1..Len(sent) :
              /\ Carries(network[j], i, sent, abandoned)
              /\ sent[i].key = network[j].sequence
              /\ PartFrom(Buffered(network[j]), i, 0)
              /\ Buffered(network[j]) # << >> => /\ Large(sent, i)
                                                 /\ Len(Buffered(network[j])) <= sent[i].length
<1> DEFINE p == network[j]
<1>1. /\ p \in PacketSet /\ peer \in Peer /\ PacketOK(p, chan, sent, abandoned)
      /\ Received(peer, chan, sent, abandoned) /\ Numbered(chan, sent, abandoned)
      /\ \A i \in 1..Len(sent) : sent[i].key \in Nat
  <2>1. \A i \in 1..Len(sent) : sent[i] \in Message
    BY ElementOfSeq DEF Good, Typed
  <2> QED
    BY <2>1, ElementOfSeq DEF Good, Typed, Message
<1>2. PICK i \in 1..Len(sent) : Carries(p, i, sent, abandoned)
  BY <1>1 DEF PacketOK
<1>3. sent[i].key = p.sequence
  BY <1>2 DEF Carries
<1>4. Len(sent) \in Nat
  BY LenProperties DEF Good, Typed
<1> HIDE DEF p
<1>5. CASE Buffered(p) = << >>
  <2>1. Len(Buffered(p)) = 0
    BY <1>5, EmptySeq
  <2>2. PartFrom(Buffered(p), i, 0)
    BY <2>1 DEF PartFrom
  <2> QED
    BY <1>2, <1>3, <1>5, <2>2 DEF p
<1>6. CASE Buffered(p) # << >>
  <2>1. Buffered(p) = peer.fragmentBuffer /\ p.sequence = peer.fragmentSequence
    BY <1>1, <1>6, BufferedTypes
  <2>2. PICK l \in 1..Len(sent) :
           /\ Large(sent, l) /\ sent[l].key = peer.fragmentSequence
           /\ PartFrom(peer.fragmentBuffer, l, 0)
           /\ Len(peer.fragmentBuffer) <= sent[l].length
    BY <1>1, <1>6, <2>1 DEF Received
  <2>3. l = i
    <3>1. \A x, y \in 1..Len(sent) : x < y => sent[x].key < sent[y].key
      BY <1>1 DEF Numbered
    <3>2. sent[l].key = sent[i].key
      BY <1>3, <2>1, <2>2
    <3>3. ~(l < i) /\ ~(i < l)
      BY <1>1, <3>1, <3>2
    <3> QED
      BY <1>4, <3>3
  <2> QED
    BY <1>2, <1>3, <1>6, <2>1, <2>2, <2>3 DEF p
<1> QED
  BY <1>5, <1>6

\* What the first packet in flight is
LEMMA FirstPacket ==
    ASSUME Good(chan, network, peer, sent, handed, abandoned, faults),
           abandoned \in BOOLEAN, network # << >>, NEW p, p = Head(network)
    PROVE  /\ 1 \in 1..Len(network) /\ p = network[1]
           /\ p \in PacketSet /\ p.fragmented \in BOOLEAN
           /\ p.sequence \in Nat \ {0} /\ p.fragmentStart \in Nat
           /\ p.data \in Seq(Units) /\ Len(p.data) \in Nat
           /\ chan.outgoingSequence \in Nat
           /\ peer \in Peer
           /\ peer.incomingSequence \in Nat /\ peer.fragmentSequence \in Nat
           /\ peer.fragmentBuffer \in Seq(Units)
           /\ handed \in Seq(Output) /\ Len(handed) \in Nat
           /\ sent \in Seq(Message)
           /\ \A i \in 1..Len(sent) : sent[i].length \in Lengths /\ sent[i].length \in Nat \ {0}
           /\ PacketOK(p, chan, sent, abandoned)
           /\ Received(peer, chan, sent, abandoned)
           /\ p.fragmented => LargeUnits(p.data, sent)
<1>1. /\ network \in Seq(PacketSet) /\ peer \in Peer /\ handed \in Seq(Output)
      /\ sent \in Seq(Message) /\ chan \in Chan
      /\ \A j \in 1..Len(network) : PacketOK(network[j], chan, sent, abandoned)
      /\ Received(peer, chan, sent, abandoned)
  BY DEF Good, Typed
<1>2. 1 \in 1..Len(network) /\ p = network[1]
  BY <1>1, EmptySeq, LenProperties
<1>3. p \in PacketSet /\ PacketOK(p, chan, sent, abandoned)
  BY <1>1, <1>2, ElementOfSeq
<1>4. /\ p.fragmented \in BOOLEAN
      /\ p.sequence \in Nat \ {0} /\ p.fragmentStart \in Nat
      /\ p.data \in Seq(Units)
  BY <1>3 DEF PacketSet
<1>5. /\ Len(p.data) \in Nat /\ Len(handed) \in Nat /\ chan.outgoingSequence \in Nat
      /\ peer.incomingSequence \in Nat /\ peer.fragmentSequence \in Nat
      /\ peer.fragmentBuffer \in Seq(Units)
  BY <1>1, <1>4, LenProperties DEF Chan, Peer
<1>6. \A i \in 1..Len(sent) : sent[i].length \in Lengths /\ sent[i].length \in Nat \ {0}
  <2>1. \A i \in 1..Len(sent) : sent[i] \in Message
    BY <1>1, ElementOfSeq
  <2> QED
    BY <2>1, LengthAssumption DEF Message
<1>7. ASSUME p.fragmented
      PROVE  LargeUnits(p.data, sent)
  <2>1. PICK i \in 1..Len(sent) : Carries(p, i, sent, abandoned)
    BY <1>3 DEF PacketOK
  <2> QED
    BY <1>7, <2>1 DEF Carries, PartFrom, LargeUnits
<1> QED
  BY <1>1, <1>2, <1>3, <1>4, <1>5, <1>6, <1>7

\* Without faults it is the one that the receiver waits for
LEMMA SmoothPacket ==
    ASSUME Good(chan, network, peer, sent, handed, abandoned, faults),
           abandoned \in BOOLEAN, network # << >>, NEW p, p = Head(network),
           ~abandoned, faults = 0
    PROVE  /\ p.sequence = peer.incomingSequence + 1
           /\ p.fragmentStart = Len(Buffered(p))
           /\ peer.fragmentSequence <= peer.incomingSequence + 1
           /\ Len(handed) = peer.incomingSequence
<1>1. /\ 1 \in 1..Len(network) /\ p = network[1] /\ p.sequence \in Nat
      /\ peer.incomingSequence \in Nat
  BY FirstPacket
<1>2. /\ Linked(chan, network, peer)
      /\ peer.fragmentSequence <= peer.incomingSequence + 1
      /\ Len(handed) = peer.incomingSequence
  BY DEF Good, Smooth
<1>3. Start(p) = Awaited(peer)
  BY <1>1, <1>2 DEF Linked
<1>4. p.sequence = peer.incomingSequence + 1
  BY <1>3 DEF Start, Awaited
<1>5. p.fragmentStart = IF peer.fragmentSequence = peer.incomingSequence + 1
                        THEN Len(peer.fragmentBuffer) ELSE 0
  BY <1>3 DEF Start, Awaited
<1>6. p.fragmentStart = Len(Buffered(p))
  BY <1>4, <1>5, EmptySeq DEF Buffered
<1> QED
  BY <1>2, <1>4, <1>6

\* A packet handed out, and none
LEMMA HandedOne ==
    ASSUME NEW h \in Seq(Output), NEW o \in Output, NEW p, NEW r, NEW r2, NEW s, NEW ab,
           NewOutput(o, p, r, r2, s, ab)
    PROVE  /\ Append(h, o) \in Seq(Output) /\ Len(Append(h, o)) = Len(h) + 1
           /\ Handed(Append(h, o), h, p, r, r2, s, ab)
BY AppendProperties DEF Handed

LEMMA HandedNone ==
    ASSUME NEW h \in Seq(Output), NEW p, NEW r, NEW r2, NEW s, NEW ab
    PROVE  Handed(h, h, p, r, r2, s, ab)
<1>1. Len(h) # Len(h) + 1
  BY LenProperties
<1> QED
  BY <1>1 DEF Handed

\* The units of a message, in order, are the message
LEMMA WholeMessage ==
    ASSUME NEW d \in Seq(Units), NEW i \in 1..MaxMessages, NEW n \in Lengths,
           PartFrom(d, i, 0), Len(d) = n
    PROVE  d = Data(i, n)
<1>1. /\ Data(i, n) \in Seq(Units) /\ Len(Data(i, n)) = n
      /\ \A k \in 1..n : Data(i, n)[k] = <<i, k>>
  BY DataTypes
<1>2. \A k \in 1..Len(d) : d[k] = Data(i, n)[k]
  <2> TAKE k \in 1..Len(d)
  <2>1. d[k] = <<i, 0 + k>>
    BY DEF PartFrom
  <2>2. 0 + k = k
    OBVIOUS
  <2> QED
    BY <1>1, <2>1, <2>2
<1> QED
  BY <1>1, <1>2, SeqEqual

\* An old packet
LEMMA ReceiveStale ==
    ASSUME Good(chan, network, peer, sent, handed, abandoned, faults),
           abandoned \in BOOLEAN, network # << >>, NEW p, p = Head(network), ~Fresh(p)
    PROVE  Good(chan, Tail(network), peer, sent, handed, abandoned, faults)
<1>1. /\ p = network[1] /\ peer \in Peer /\ handed \in Seq(Output)
      /\ peer.incomingSequence \in Nat
      /\ Received(peer, chan, sent, abandoned)
  BY FirstPacket
<1>2. From(peer.fragmentBuffer, peer.fragmentSequence, p, peer)
  BY DEF From
<1>3. Handed(handed, handed, p, peer, peer, sent, abandoned)
  BY <1>1, HandedNone
<1>4. ~(~abandoned /\ faults = 0)
  BY <1>1, SmoothPacket DEF Fresh
<1> QED
  BY <1>1, <1>2, <1>3, <1>4, ReceiveGood

\* A message in one packet
LEMMA ReceiveSmall ==
    ASSUME Good(chan, network, peer, sent, handed, abandoned, faults),
           abandoned \in BOOLEAN, network # << >>, NEW p, p = Head(network),
           Fresh(p), ~p.fragmented,
           NEW r2 \in Peer, r2.incomingSequence = p.sequence,
           r2.fragmentSequence = peer.fragmentSequence,
           r2.fragmentBuffer = peer.fragmentBuffer,
           NEW o \in Output, o.sequence = p.sequence, o.data = p.data
    PROVE  Good(chan, Tail(network), r2, sent, Append(handed, o), abandoned, faults)
<1>1. /\ p = network[1] /\ p.sequence \in Nat \ {0} /\ p.fragmentStart \in Nat
      /\ p.data \in Seq(Units) /\ Len(p.data) \in Nat
      /\ chan.outgoingSequence \in Nat /\ peer \in Peer
      /\ peer.incomingSequence \in Nat /\ peer.fragmentSequence \in Nat
      /\ handed \in Seq(Output) /\ Len(handed) \in Nat
      /\ \A i \in 1..Len(sent) : sent[i].length \in Lengths /\ sent[i].length \in Nat \ {0}
      /\ PacketOK(p, chan, sent, abandoned)
      /\ Received(peer, chan, sent, abandoned)
  BY FirstPacket
<1>2. peer.incomingSequence < p.sequence /\ peer.incomingSequence <= r2.incomingSequence
  BY <1>1 DEF Fresh
<1>3. PICK i \in 1..Len(sent) : Carries(p, i, sent, abandoned)
  BY <1>1 DEF PacketOK
<1>4. /\ ~Large(sent, i) /\ p.fragmentStart = 0 /\ sent[i].key = p.sequence
      /\ PartFrom(p.data, i, 0)
  BY <1>3 DEF Carries
<1>5. Len(p.data) = sent[i].length
  BY <1>1, <1>3, <1>4, SizeAssumption DEF Carries, Large
<1>6. i \in 1..MaxMessages
  BY BoundAssumption, LenProperties DEF Good, Counted, Typed
<1>7. p.data = Data(i, sent[i].length)
  BY <1>1, <1>4, <1>5, <1>6, WholeMessage
<1>8. o.data # << >>
  BY <1>1, <1>5, EmptySeq
<1>9. SmallOutput(o, sent)
  BY <1>4, <1>7 DEF SmallOutput
<1>10. OutputOK(o, r2, sent, abandoned)
  BY <1>1, <1>4, <1>7, <1>8, <1>9 DEF OutputOK
<1>11. NewOutput(o, p, peer, r2, sent, abandoned)
  BY <1>2, <1>9, <1>10 DEF NewOutput
<1>12. /\ Append(handed, o) \in Seq(Output)
       /\ Len(Append(handed, o)) = Len(handed) + 1
       /\ Handed(Append(handed, o), handed, p, peer, r2, sent, abandoned)
  BY <1>1, <1>11, HandedOne
<1>13. Received(r2, chan, sent, abandoned)
  <2>1. p.sequence < chan.outgoingSequence
    BY <1>1 DEF PacketOK
  <2> QED
    BY <1>1, <2>1 DEF Received
<1>14. From(r2.fragmentBuffer, r2.fragmentSequence, p, peer)
  BY DEF From
<1>15. ASSUME ~abandoned, faults = 0
       PROVE  /\ Awaited(r2) = End(p)
              /\ r2.fragmentSequence <= r2.incomingSequence + 1
              /\ Len(Append(handed, o)) = r2.incomingSequence
  <2>1. /\ p.sequence = peer.incomingSequence + 1
        /\ peer.fragmentSequence <= peer.incomingSequence + 1
        /\ Len(handed) = peer.incomingSequence
    BY <1>15, SmoothPacket
  <2>2. r2.fragmentSequence # r2.incomingSequence + 1
    BY <1>1, <2>1
  <2>3. Awaited(r2) = End(p)
    BY <2>2 DEF Awaited, End
  <2> QED
    BY <1>1, <1>12, <2>1, <2>3
<1> QED
  BY <1>1, <1>2, <1>12, <1>13, <1>14, <1>15, ReceiveGood
\* A fragment that does not fit is not used
LEMMA ReceiveUnfit ==
    ASSUME Good(chan, network, peer, sent, handed, abandoned, faults),
           abandoned \in BOOLEAN, network # << >>, NEW p, p = Head(network),
           p.fragmented, ~Fits(p),
           NEW r2 \in Peer, r2.incomingSequence = peer.incomingSequence,
           r2.fragmentSequence = p.sequence, r2.fragmentBuffer = Buffered(p)
    PROVE  Good(chan, Tail(network), r2, sent, handed, abandoned, faults)
<1>1. /\ p = network[1] /\ 1 \in 1..Len(network) /\ p \in PacketSet
      /\ peer \in Peer /\ handed \in Seq(Output)
      /\ peer.incomingSequence \in Nat
      /\ PacketOK(p, chan, sent, abandoned)
      /\ Received(peer, chan, sent, abandoned)
      /\ LargeUnits(p.data, sent)
  BY FirstPacket
<1>2. From(r2.fragmentBuffer, r2.fragmentSequence, p, peer)
  BY <1>1, BufferedTypes
<1>3. LargeUnits(r2.fragmentBuffer, sent)
  BY <1>1, <1>2, FromLarge DEF Received
<1>4. ASSUME ~abandoned, r2.fragmentBuffer # << >>
      PROVE  \E i \in 1..Len(sent) :
                /\ Large(sent, i) /\ sent[i].key = r2.fragmentSequence
                /\ PartFrom(r2.fragmentBuffer, i, 0)
                /\ Len(r2.fragmentBuffer) <= sent[i].length
  <2>1. PICK i \in 1..Len(sent) :
               /\ sent[i].key = network[1].sequence
               /\ PartFrom(Buffered(network[1]), i, 0)
               /\ Buffered(network[1]) # << >> =>
                     /\ Large(sent, i)
                     /\ Len(Buffered(network[1])) <= sent[i].length
    BY <1>1, <1>4, BufferedBegins
  <2>2. Buffered(network[1]) = r2.fragmentBuffer /\ network[1].sequence = r2.fragmentSequence
    BY <1>1
  <2> QED
    BY <1>4, <2>1, <2>2
<1>5. Received(r2, chan, sent, abandoned)
  BY <1>1, <1>3, <1>4 DEF Received, PacketOK
<1>6. Handed(handed, handed, p, peer, r2, sent, abandoned)
  BY <1>1, HandedNone
<1>7. ~(~abandoned /\ faults = 0)
  BY SmoothPacket DEF Fits
<1> QED
  BY <1>1, <1>2, <1>5, <1>6, <1>7, ReceiveGood

\* A fragment that the message goes on after
LEMMA ReceiveFull ==
    ASSUME Good(chan, network, peer, sent, handed, abandoned, faults),
           abandoned \in BOOLEAN, network # << >>, NEW p, p = Head(network),
           p.fragmented, Fits(p), ~Ends(p),
           NEW r2 \in Peer, r2.incomingSequence = peer.incomingSequence,
           r2.fragmentSequence = p.sequence, r2.fragmentBuffer = Buffered(p) \o p.data
    PROVE  Good(chan, Tail(network), r2, sent, handed, abandoned, faults)
<1> DEFINE joined == Buffered(p) \o p.data
<1>1. /\ p = network[1] /\ 1 \in 1..Len(network) /\ p \in PacketSet
      /\ peer \in Peer /\ handed \in Seq(Output)
      /\ peer.incomingSequence \in Nat /\ p.sequence \in Nat
      /\ PacketOK(p, chan, sent, abandoned)
      /\ Received(peer, chan, sent, abandoned)
      /\ LargeUnits(p.data, sent)
  BY FirstPacket
<1>2. /\ Len(joined) = Len(Buffered(p)) + Len(p.data)
      /\ \A k \in 1..Len(Buffered(p)) : joined[k] = Buffered(p)[k]
      /\ \A k \in 1..Len(p.data) : joined[Len(Buffered(p)) + k] = p.data[k]
      /\ From(joined, p.sequence, p, peer)
      /\ Len(p.data) \in Nat /\ Len(Buffered(p)) \in Nat
  BY <1>1, JoinedTypes, BufferedTypes
<1> HIDE DEF joined
<1>3. r2.fragmentBuffer = joined
  BY DEF joined
<1>4. LargeUnits(joined, sent)
  BY <1>1, <1>2, FromLarge DEF Received
<1>5. ASSUME ~abandoned
      PROVE  \E i \in 1..Len(sent) :
                /\ Large(sent, i) /\ sent[i].key = p.sequence
                /\ PartFrom(joined, i, 0)
                /\ Len(joined) <= sent[i].length
  <2>1. PICK i \in 1..Len(sent) :
           /\ Carries(p, i, sent, abandoned)
           /\ sent[i].key = p.sequence
           /\ PartFrom(Buffered(p), i, 0)
    BY <1>1, <1>5, BufferedBegins
  <2>2. PartFrom(joined, i, 0)
    <3> SUFFICES ASSUME NEW k \in 1..Len(joined)
                 PROVE  joined[k] = <<i, 0 + k>>
      BY DEF PartFrom
    <3>1. CASE k <= Len(Buffered(p))
      <4>1. k \in 1..Len(Buffered(p))
        BY <1>2, <3>1
      <4> QED
        BY <1>2, <2>1, <4>1 DEF PartFrom
    <3>2. CASE ~(k <= Len(Buffered(p)))
      <4> DEFINE a == Len(Buffered(p))
                 b == Len(p.data)
                 n == Len(joined)
                 l == k - a
      <4>0. a \in Nat /\ b \in Nat /\ n = a + b /\ k \in 1..n /\ ~(k <= a)
        BY <1>2, <3>2
      <4> HIDE DEF a, b, n
      <4>1. l \in 1..b /\ a + l = k /\ 0 + k = k
        BY <4>0
      <4> USE DEF a, b
      <4> HIDE DEF l
      <4>2. joined[k] = p.data[l]
        BY <1>2, <4>1
      <4>3. p.data[l] = <<i, p.fragmentStart + l>>
        BY <2>1, <4>1 DEF Carries, PartFrom
      <4> QED
        BY <4>1, <4>2, <4>3 DEF Fits
    <3> QED
      BY <3>1, <3>2
  <2> QED
    BY <1>2, <2>1, <2>2 DEF Carries, Fits
<1>6. Received(r2, chan, sent, abandoned)
  BY <1>1, <1>3, <1>4, <1>5 DEF Received, PacketOK
<1>7. Handed(handed, handed, p, peer, r2, sent, abandoned)
  BY <1>1, HandedNone
<1>8. ASSUME ~abandoned, faults = 0
      PROVE  /\ Awaited(r2) = End(p)
             /\ r2.fragmentSequence <= r2.incomingSequence + 1
             /\ Len(handed) = r2.incomingSequence
  <2>1. /\ p.sequence = peer.incomingSequence + 1
        /\ Len(handed) = peer.incomingSequence
    BY <1>8, SmoothPacket
  <2>2. Len(joined) = p.fragmentStart + FRAGMENT_SIZE /\ Len(p.data) = FRAGMENT_SIZE
    BY <1>2 DEF Fits, Ends
  <2>3. Awaited(r2) = <<p.sequence, Len(joined)>>
    BY <1>3, <2>1 DEF Awaited
  <2>4. End(p) = <<p.sequence, p.fragmentStart + FRAGMENT_SIZE>>
    BY <2>2 DEF End
  <2> QED
    BY <1>1, <2>1, <2>2, <2>3, <2>4
<1> QED
  BY <1>1, <1>2, <1>3, <1>6, <1>7, <1>8, ReceiveGood

\* The last fragment
LEMMA ReceiveLast ==
    ASSUME Good(chan, network, peer, sent, handed, abandoned, faults),
           abandoned \in BOOLEAN, network # << >>, NEW p, p = Head(network),
           Fresh(p), p.fragmented, Fits(p), Ends(p),
           NEW r2 \in Peer, r2.incomingSequence = p.sequence,
           r2.fragmentSequence = p.sequence, r2.fragmentBuffer = << >>,
           NEW o \in Output, o.sequence = p.sequence, o.data = Buffered(p) \o p.data
    PROVE  Good(chan, Tail(network), r2, sent, Append(handed, o), abandoned, faults)
<1> DEFINE joined == Buffered(p) \o p.data
<1>1. /\ p = network[1] /\ 1 \in 1..Len(network) /\ p \in PacketSet
      /\ peer \in Peer /\ handed \in Seq(Output) /\ Len(handed) \in Nat
      /\ peer.incomingSequence \in Nat /\ p.sequence \in Nat
      /\ chan.outgoingSequence \in Nat /\ p.fragmentStart \in Nat
      /\ PacketOK(p, chan, sent, abandoned)
      /\ Received(peer, chan, sent, abandoned)
      /\ LargeUnits(p.data, sent)
      /\ \A i \in 1..Len(sent) : sent[i].length \in Lengths /\ sent[i].length \in Nat \ {0}
  BY FirstPacket
<1>2. /\ joined \in Seq(Units)
      /\ Len(joined) = Len(Buffered(p)) + Len(p.data)
      /\ \A k \in 1..Len(Buffered(p)) : joined[k] = Buffered(p)[k]
      /\ \A k \in 1..Len(p.data) : joined[Len(Buffered(p)) + k] = p.data[k]
      /\ From(joined, p.sequence, p, peer)
      /\ Len(p.data) \in Nat /\ Len(Buffered(p)) \in Nat
  BY <1>1, JoinedTypes, BufferedTypes
<1> HIDE DEF joined
<1>3. o.data = joined /\ p.fragmentStart = Len(Buffered(p))
  BY DEF joined, Fits
<1>4. LargeUnits(joined, sent)
  BY <1>1, <1>2, FromLarge DEF Received
<1>5. ASSUME NEW i \in 1..Len(sent), Carries(p, i, sent, abandoned)
      PROVE  /\ Len(joined) = sent[i].length /\ Len(p.data) < FRAGMENT_SIZE
             /\ Large(sent, i)
  <2>1. Large(sent, i)
    BY <1>5 DEF Carries
  <2>2. /\ Len(p.data) \in Nat /\ Len(p.data) <= FRAGMENT_SIZE
        /\ Len(p.data) # FRAGMENT_SIZE
        /\ Len(p.data) < FRAGMENT_SIZE => p.fragmentStart + Len(p.data) = sent[i].length
    BY <1>2, <1>5 DEF Carries, Ends
  <2>3. Len(p.data) < FRAGMENT_SIZE
    BY <2>2, SizeAssumption
  <2>4. Len(joined) = p.fragmentStart + Len(p.data)
    BY <1>2, <1>3
  <2> QED
    BY <2>1, <2>2, <2>3, <2>4
<1>6. joined # << >> /\ LastOf(p)
  <2>1. PICK i \in 1..Len(sent) : Carries(p, i, sent, abandoned)
    BY <1>1 DEF PacketOK
  <2>2. Len(joined) \in Nat \ {0} /\ Len(p.data) < FRAGMENT_SIZE
    BY <1>1, <1>5, <2>1
  <2> QED
    BY <2>2, EmptySeq DEF LastOf
<1>7. ASSUME ~abandoned
      PROVE  \E i \in 1..Len(sent) : joined = Data(i, sent[i].length)
                                     /\ o.sequence = sent[i].key
  <2>1. PICK i \in 1..Len(sent) :
           /\ Carries(p, i, sent, abandoned)
           /\ sent[i].key = p.sequence
           /\ PartFrom(Buffered(p), i, 0)
    BY <1>1, <1>7, BufferedBegins
  <2>2. PartFrom(joined, i, 0)
    <3> SUFFICES ASSUME NEW k \in 1..Len(joined)
                 PROVE  joined[k] = <<i, 0 + k>>
      BY DEF PartFrom
    <3>1. CASE k <= Len(Buffered(p))
      <4>1. k \in 1..Len(Buffered(p))
        BY <1>2, <3>1
      <4> QED
        BY <1>2, <2>1, <4>1 DEF PartFrom
    <3>2. CASE ~(k <= Len(Buffered(p)))
      <4> DEFINE a == Len(Buffered(p))
                 b == Len(p.data)
                 n == Len(joined)
                 l == k - a
      <4>0. a \in Nat /\ b \in Nat /\ n = a + b /\ k \in 1..n /\ ~(k <= a)
        BY <1>2, <3>2
      <4> HIDE DEF a, b, n
      <4>1. l \in 1..b /\ a + l = k /\ 0 + k = k
        BY <4>0
      <4> USE DEF a, b
      <4> HIDE DEF l
      <4>2. joined[k] = p.data[l]
        BY <1>2, <4>1
      <4>3. p.data[l] = <<i, p.fragmentStart + l>>
        BY <2>1, <4>1 DEF Carries, PartFrom
      <4> QED
        BY <1>3, <4>1, <4>2, <4>3
    <3> QED
      BY <3>1, <3>2
  <2>3. i \in 1..MaxMessages
    BY BoundAssumption, LenProperties DEF Good, Counted, Typed
  <2>4. joined = Data(i, sent[i].length)
    BY <1>1, <1>2, <1>5, <2>1, <2>2, <2>3, WholeMessage
  <2> QED
    BY <2>1, <2>4
<1>8. peer.incomingSequence < p.sequence /\ peer.incomingSequence <= r2.incomingSequence
  BY <1>1 DEF Fresh
<1>9. NewOutput(o, p, peer, r2, sent, abandoned)
  <2>1. OutputOK(o, r2, sent, abandoned)
    <3>1. o.sequence <= r2.incomingSequence
      BY <1>1
    <3>4. o.data # << >>
      BY <1>3, <1>6
    <3>2. LargeUnits(o.data, sent)
      BY <1>3, <1>4
    <3>3. ~abandoned => \E i \in 1..Len(sent) :
             o.data = Data(i, sent[i].length) /\ o.sequence = sent[i].key
      BY <1>3, <1>7
    <3> QED
      BY <3>1, <3>2, <3>3, <3>4 DEF OutputOK
  <2> QED
    BY <1>2, <1>3, <1>6, <1>8, <2>1 DEF NewOutput
<1>10. /\ Append(handed, o) \in Seq(Output)
       /\ Len(Append(handed, o)) = Len(handed) + 1
       /\ Handed(Append(handed, o), handed, p, peer, r2, sent, abandoned)
  BY <1>1, <1>9, HandedOne
<1>11. /\ From(r2.fragmentBuffer, r2.fragmentSequence, p, peer)
       /\ LargeUnits(r2.fragmentBuffer, sent)
  BY EmptySeq DEF From, LargeUnits
<1>12. Received(r2, chan, sent, abandoned)
  <2>1. p.sequence < chan.outgoingSequence
    BY <1>1, <1>6 DEF PacketOK
  <2> QED
    BY <1>1, <1>11, <2>1 DEF Received
<1>13. ASSUME ~abandoned, faults = 0
       PROVE  /\ Awaited(r2) = End(p)
              /\ r2.fragmentSequence <= r2.incomingSequence + 1
              /\ Len(Append(handed, o)) = r2.incomingSequence
  <2>1. /\ p.sequence = peer.incomingSequence + 1
        /\ Len(handed) = peer.incomingSequence
    BY <1>13, SmoothPacket
  <2>2. r2.fragmentSequence # r2.incomingSequence + 1
    BY <1>1
  <2>3. Awaited(r2) = End(p)
    BY <2>2 DEF Awaited, End, Ends
  <2> QED
    BY <1>1, <1>10, <2>1, <2>3
<1> QED
  BY <1>1, <1>8, <1>10, <1>11, <1>12, <1>13, ReceiveGood
LEMMA PeerFields ==
    ASSUME NEW r \in Peer, NEW n \in Nat
    PROVE  /\ [r EXCEPT !.incomingSequence = n] \in Peer
           /\ [r EXCEPT !.incomingSequence = n].incomingSequence = n
           /\ [r EXCEPT !.incomingSequence = n].fragmentSequence = r.fragmentSequence
           /\ [r EXCEPT !.incomingSequence = n].fragmentBuffer = r.fragmentBuffer
BY DEF Peer

LEMMA OutputFields ==
    ASSUME NEW n \in Nat \ {0}, NEW d \in Seq(Units)
    PROVE  /\ [sequence |-> n, data |-> d] \in Output
           /\ [sequence |-> n, data |-> d].sequence = n
           /\ [sequence |-> n, data |-> d].data = d
BY DEF Output

LEMMA ReceiveInv == Inv /\ Receive => Inv'
<1> SUFFICES ASSUME Inv, Receive
             PROVE  Inv'
  OBVIOUS
<1> DEFINE p == Head(network)
<1>1. /\ Good(chan, network, peer, sent, handed, abandoned, faults)
      /\ abandoned \in BOOLEAN /\ network # << >>
      /\ UNCHANGED <<state, chan, sent, abandoned, faults>>
      /\ network' = Tail(network) /\ Process(p)
  BY DEF Inv, Receive
<1> HIDE DEF p
<1>2. /\ p = Head(network) /\ p \in PacketSet /\ p.fragmented \in BOOLEAN
      /\ p.sequence \in Nat \ {0} /\ p.sequence \in Nat /\ p.data \in Seq(Units)
      /\ peer \in Peer
  BY <1>1, FirstPacket DEF p
<1>3. Good(chan, network', peer', sent, handed', abandoned, faults)
  <2>1. CASE ~Fresh(p)
    <3>1. peer' = peer /\ handed' = handed
      BY <1>1, <2>1 DEF Process
    <3> QED
      BY <1>1, <1>2, <2>1, <3>1, ReceiveStale
  <2>2. CASE Fresh(p) /\ ~p.fragmented
    <3> DEFINE o == [sequence |-> p.sequence, data |-> p.data]
               r == [peer EXCEPT !.incomingSequence = p.sequence]
    <3>1. peer' = r /\ handed' = Append(handed, o)
      BY <1>1, <2>2 DEF Process, Give
    <3>2. o \in Output /\ o.sequence = p.sequence /\ o.data = p.data
      BY <1>2, OutputFields
    <3>3. /\ r \in Peer /\ r.incomingSequence = p.sequence
          /\ r.fragmentSequence = peer.fragmentSequence
          /\ r.fragmentBuffer = peer.fragmentBuffer
      BY <1>2, PeerFields, EmptySeq
    <3> HIDE DEF o, r
    <3> QED
      BY <1>1, <1>2, <2>2, <3>1, <3>2, <3>3, ReceiveSmall
  <2>3. CASE Fresh(p) /\ p.fragmented /\ ~Fits(p)
    <3> DEFINE r1 == [peer EXCEPT !.fragmentSequence = p.sequence]
               r == [r1 EXCEPT !.fragmentBuffer = Buffered(p)]
    <3>1. peer' = r /\ handed' = handed
      BY <1>1, <2>3 DEF Process
    <3>2. Buffered(p) \in Seq(Units)
      BY <1>2, BufferedTypes
    <3>3. /\ r1 \in Peer /\ r1.incomingSequence = peer.incomingSequence
          /\ r1.fragmentSequence = p.sequence
      BY <1>2 DEF Peer
    <3> HIDE DEF r1
    <3>4. /\ r \in Peer /\ r.incomingSequence = peer.incomingSequence
          /\ r.fragmentSequence = p.sequence /\ r.fragmentBuffer = Buffered(p)
      BY <3>2, <3>3 DEF Peer
    <3> HIDE DEF r
    <3> QED
      BY <1>1, <1>2, <2>3, <3>1, <3>4, ReceiveUnfit
  <2>4. CASE Fresh(p) /\ p.fragmented /\ Fits(p) /\ ~Ends(p)
    <3> DEFINE b == Buffered(p) \o p.data
               r1 == [peer EXCEPT !.fragmentSequence = p.sequence]
               r == [r1 EXCEPT !.fragmentBuffer = b]
    <3>1. peer' = r /\ handed' = handed
      BY <1>1, <2>4 DEF Process
    <3>2. b \in Seq(Units)
      BY <1>2, <2>4, JoinedTypes
    <3> HIDE DEF b
    <3>3. /\ r1 \in Peer /\ r1.incomingSequence = peer.incomingSequence
          /\ r1.fragmentSequence = p.sequence
      BY <1>2 DEF Peer
    <3> HIDE DEF r1
    <3>4. /\ r \in Peer /\ r.incomingSequence = peer.incomingSequence
          /\ r.fragmentSequence = p.sequence /\ r.fragmentBuffer = b
      BY <3>2, <3>3 DEF Peer
    <3> HIDE DEF r
    <3> QED
      BY <1>1, <1>2, <2>4, <3>1, <3>4, ReceiveFull DEF b
  <2>5. CASE Fresh(p) /\ p.fragmented /\ Fits(p) /\ Ends(p)
    <3> DEFINE b == Buffered(p) \o p.data
               o == [sequence |-> p.sequence, data |-> b]
               r == [incomingSequence |-> p.sequence,
                     fragmentSequence |-> p.sequence, fragmentBuffer |-> << >>]
    <3>1. peer' = r /\ handed' = Append(handed, o)
      BY <1>1, <2>5 DEF Process, Give
    <3>2. b \in Seq(Units)
      BY <1>2, <2>5, JoinedTypes
    <3> HIDE DEF b
    <3>3. o \in Output /\ o.sequence = p.sequence /\ o.data = b
      BY <1>2, <3>2, OutputFields
    <3>4. /\ r \in Peer /\ r.incomingSequence = p.sequence
          /\ r.fragmentSequence = p.sequence /\ r.fragmentBuffer = << >>
      BY <1>2, EmptySeq DEF Peer
    <3> HIDE DEF o, r
    <3> QED
      BY <1>1, <1>2, <2>5, <3>1, <3>3, <3>4, ReceiveLast DEF b
  <2> QED
    BY <1>2, <2>1, <2>2, <2>3, <2>4, <2>5
<1> QED
  BY <1>1, <1>3 DEF Inv

-----------------------------------------------------------------------------
(* The network.                                                            *)

\* What is in flight after a fault was in flight before it
LEMMA FaultGood ==
    ASSUME NEW c, NEW net, NEW r, NEW s, NEW h, NEW ab \in BOOLEAN, NEW fl,
           Good(c, net, r, s, h, ab, fl), NEW fl2, fl2 # 0,
           NEW net2 \in Seq(PacketSet),
           \A j \in 1..Len(net2) : \E i \in 1..Len(net) : net2[j] = net[i]
    PROVE  Good(c, net2, r, s, h, ab, fl2)
<1>1. /\ c \in Chan /\ net \in Seq(PacketSet) /\ r \in Peer
      /\ s \in Seq(Message) /\ h \in Seq(Output)
      /\ Counted(c, s) /\ Unsent(c, s, ab) /\ Numbered(c, s, ab)
      /\ \A j \in 1..Len(net) : PacketOK(net[j], c, s, ab)
      /\ Received(r, c, s, ab) /\ \A j \in 1..Len(h) : OutputOK(h[j], r, s, ab)
      /\ HandedInOrder(h) /\ Separate(c, net, r, s, h)
  BY DEF Good, Typed
<1>2. c.outgoingSequence \in Nat /\ c.unsentFragments \in BOOLEAN /\ Len(s) \in Nat
  BY <1>1, LenProperties DEF Chan
<1>3. \A j \in 1..Len(net2) : PacketOK(net2[j], c, s, ab)
  BY <1>1
<1>4. Old(net2, net) /\ Extends(s, s) /\ Newer(c, c, s)
  BY <1>2 DEF Old, Extends, Newer
<1>5. Separate(c, net2, r, s, h)
  BY <1>1, <1>2, <1>4, SeparateLater
<1>6. Smooth(c, net2, r, s, h, ab, fl2)
  BY DEF Smooth
<1> QED
  BY <1>1, <1>3, <1>5, <1>6 DEF Good, Typed

\* A packet taken out, and one put behind
LEMMA PacketRemoved ==
    ASSUME NEW net \in Seq(PacketSet), NEW i \in 1..Len(net)
    PROVE  /\ RemoveAt(net, i) \in Seq(PacketSet)
           /\ \A j \in 1..Len(RemoveAt(net, i)) :
                 \E k \in 1..Len(net) : RemoveAt(net, i)[j] = net[k]
<1> DEFINE front == SubSeq(net, 1, i - 1)
           back == SubSeq(net, i + 1, Len(net))
<1>1. Len(net) \in Nat /\ i \in Nat /\ \A k \in 1..Len(net) : net[k] \in PacketSet
  BY LenProperties, ElementOfSeq
<1>2. /\ front \in Seq(PacketSet) /\ Len(front) = i - 1
      /\ \A j \in 1..(i - 1) : front[j] = net[j]
  <2>1. \A k \in 1..(i - 1) : net[k] \in PacketSet
    BY <1>1
  <2>2. /\ front \in Seq(PacketSet)
        /\ Len(front) = IF 1 <= i - 1 THEN i - 1 - 1 + 1 ELSE 0
        /\ \A j \in 1..(i - 1 - 1 + 1) : front[j] = net[1 + j - 1]
    BY <1>1, <2>1, SubSeqProperties
  <2> HIDE DEF front
  <2> QED
    BY <1>1, <2>2
<1>3. /\ back \in Seq(PacketSet) /\ Len(back) = Len(net) - i
      /\ \A j \in 1..(Len(net) - i) : back[j] = net[i + j]
  <2>1. \A k \in (i + 1)..Len(net) : net[k] \in PacketSet
    BY <1>1
  <2>2. /\ back \in Seq(PacketSet)
        /\ Len(back) = IF i + 1 <= Len(net) THEN Len(net) - (i + 1) + 1 ELSE 0
        /\ \A j \in 1..(Len(net) - (i + 1) + 1) : back[j] = net[i + 1 + j - 1]
    BY <1>1, <2>1, SubSeqProperties
  <2> HIDE DEF back
  <2> QED
    BY <1>1, <2>2
<1>4. RemoveAt(net, i) = front \o back
  BY DEF RemoveAt
<1> HIDE DEF front, back
<1>5. /\ front \o back \in Seq(PacketSet)
      /\ Len(front \o back) = Len(front) + Len(back)
      /\ \A j \in 1..(Len(front) + Len(back)) :
            (front \o back)[j] = IF j <= Len(front) THEN front[j] ELSE back[j - Len(front)]
  BY <1>2, <1>3, ConcatProperties
<1>6. ASSUME NEW j \in 1..(Len(front) + Len(back))
      PROVE  \E k \in 1..Len(net) : (front \o back)[j] = net[k]
  <2>1. CASE j <= Len(front)
    <3>1. j \in 1..(i - 1) /\ j \in 1..Len(net)
      BY <1>1, <1>2, <1>3, <2>1
    <3> QED
      BY <1>2, <1>5, <2>1, <3>1
  <2>2. CASE ~(j <= Len(front))
    <3> DEFINE l == j - (i - 1)
    <3>1. l \in 1..(Len(net) - i) /\ i + l \in 1..Len(net) /\ l = j - Len(front)
      BY <1>1, <1>2, <1>3, <2>2
    <3> HIDE DEF l
    <3>2. (front \o back)[j] = back[l]
      BY <1>5, <2>2, <3>1
    <3> QED
      BY <1>3, <3>1, <3>2
  <2> QED
    BY <2>1, <2>2
<1> QED
  BY <1>4, <1>5, <1>6

LEMMA FaultyInv ==
    ASSUME Inv, NEW net \in Seq(PacketSet), Faulty(net),
           \A j \in 1..Len(net) : \E i \in 1..Len(network) : net[j] = network[i]
    PROVE  Inv'
<1>1. /\ Good(chan, network, peer, sent, handed, abandoned, faults)
      /\ abandoned \in BOOLEAN /\ faults \in 0..MaxFaults
      /\ faults < MaxFaults /\ faults' = faults + 1 /\ network' = net
      /\ UNCHANGED <<state, chan, peer, sent, handed, abandoned>>
  BY DEF Inv, Faulty
<1>2. faults' # 0 /\ faults' \in 0..MaxFaults
  BY <1>1, BoundAssumption
<1>3. Good(chan, net, peer, sent, handed, abandoned, faults')
  BY <1>1, <1>2, FaultGood
<1> QED
  BY <1>1, <1>2, <1>3 DEF Inv

LEMMA NetworkType ==
    ASSUME Inv
    PROVE  network \in Seq(PacketSet) /\ Len(network) \in Nat
           /\ DOMAIN network = 1..Len(network)
           /\ \A i \in 1..Len(network) : network[i] \in PacketSet
BY LenProperties, ElementOfSeq DEF Inv, Good, Typed

LEMMA LoseInv == Inv /\ Lose => Inv'
BY NetworkType, PacketRemoved, FaultyInv DEF Lose

LEMMA DuplicateInv == Inv /\ Duplicate => Inv'
<1> SUFFICES ASSUME Inv, NEW i \in 1..Len(network), Faulty(Append(network, network[i]))
             PROVE  Inv'
  BY NetworkType DEF Duplicate
<1> DEFINE net == Append(network, network[i])
<1>1. /\ net \in Seq(PacketSet)
      /\ \A j \in 1..Len(net) : \E k \in 1..Len(network) : net[j] = network[k]
  BY NetworkType, Appended
<1> HIDE DEF net
<1>2. Faulty(net)
  BY DEF net
<1> QED
  BY <1>1, <1>2, FaultyInv

LEMMA DelayInv == Inv /\ Delay => Inv'
<1> SUFFICES ASSUME Inv, NEW i \in 1..(Len(network) - 1),
                    Faulty(Append(RemoveAt(network, i), network[i]))
             PROVE  Inv'
  BY DEF Delay
<1> DEFINE rest == RemoveAt(network, i)
           net == Append(rest, network[i])
<1>1. i \in 1..Len(network)
  BY NetworkType
<1>2. /\ rest \in Seq(PacketSet)
      /\ \A j \in 1..Len(rest) : \E k \in 1..Len(network) : rest[j] = network[k]
  BY <1>1, NetworkType, PacketRemoved
<1>3. Faulty(net)
  OBVIOUS
<1> HIDE DEF rest
<1>4. /\ net \in Seq(PacketSet) /\ Len(net) = Len(rest) + 1
      /\ \A j \in 1..Len(rest) : net[j] = rest[j]
      /\ net[Len(rest) + 1] = network[i]
      /\ \A j \in 1..(Len(rest) + 1) : j \in 1..Len(rest) \/ j = Len(rest) + 1
  BY <1>1, <1>2, NetworkType, Appended
<1> HIDE DEF net
<1>5. \A j \in 1..Len(net) : \E k \in 1..Len(network) : net[j] = network[k]
  BY <1>1, <1>2, <1>4
<1> QED
  BY <1>3, <1>4, <1>5, FaultyInv

-----------------------------------------------------------------------------
(* The invariant holds.                                                    *)

LEMMA InitInv == Init => Inv
<1> SUFFICES ASSUME Init
             PROVE  Inv
  OBVIOUS
<1>1. /\ chan.outgoingSequence = 1 /\ chan.unsentFragments = FALSE
      /\ chan.unsentFragmentStart = 0 /\ chan.unsentBuffer = << >>
      /\ chan \in Chan
  BY EmptySeq DEF Init, Chan
<1>2. /\ peer.incomingSequence = 0 /\ peer.fragmentSequence = 0
      /\ peer.fragmentBuffer = << >> /\ peer \in Peer
  BY EmptySeq DEF Init, Peer
<1>3. /\ network = << >> /\ sent = << >> /\ handed = << >>
      /\ abandoned = FALSE /\ faults = 0 /\ state = "CS_CONNECTED"
  BY DEF Init
<1>4. Len(network) = 0 /\ Len(sent) = 0 /\ Len(handed) = 0 /\ Len(chan.unsentBuffer) = 0
      /\ Len(peer.fragmentBuffer) = 0
  BY <1>1, <1>2, <1>3, EmptySeq
<1>5. Typed(chan, network, peer, sent, handed)
  BY <1>1, <1>2, <1>3, EmptySeq DEF Typed
<1>6. /\ Counted(chan, sent) /\ Unsent(chan, sent, abandoned)
      /\ Numbered(chan, sent, abandoned)
  BY <1>1, <1>4, BoundAssumption DEF Counted, Unsent, Numbered
<1>7. Received(peer, chan, sent, abandoned)
  BY <1>1, <1>2, <1>4 DEF Received, LargeUnits
<1>8. /\ \A j \in 1..Len(network) : PacketOK(network[j], chan, sent, abandoned)
      /\ \A j \in 1..Len(handed) : OutputOK(handed[j], peer, sent, abandoned)
      /\ HandedInOrder(handed)
      /\ Separate(chan, network, peer, sent, handed)
  BY <1>4 DEF HandedInOrder, Separate
<1>9. Smooth(chan, network, peer, sent, handed, abandoned, faults)
  <2>1. Awaited(peer) = <<1, 0>>
    BY <1>2, <1>4 DEF Awaited
  <2>2. Coming(chan) = <<1, 0>>
    BY <1>1 DEF Coming
  <2>3. Linked(chan, network, peer)
    BY <1>3, <1>4, <2>1, <2>2 DEF Linked
  <2> QED
    BY <1>1, <1>2, <1>4, <2>3 DEF Smooth
<1>10. Good(chan, network, peer, sent, handed, abandoned, faults)
  BY <1>5, <1>6, <1>7, <1>8, <1>9 DEF Good
<1>11. faults \in 0..MaxFaults
  BY <1>3, BoundAssumption
<1> QED
  BY <1>3, <1>10, <1>11 DEF Inv

LEMMA EnterWorldInv == Inv /\ EnterWorld => Inv'
BY DEF Inv, EnterWorld

LEMMA NextInv == Inv /\ [Next]_vars => Inv'
<1> SUFFICES ASSUME Inv, [Next]_vars
             PROVE  Inv'
  OBVIOUS
<1>1. CASE UNCHANGED vars
  BY <1>1 DEF Inv, vars
<1>2. CASE Next
  BY <1>2, SendNextFragmentInv, SendClientMessageInv, SendClientGameStateInv,
     EnterWorldInv, SpawnServerInv, FinalMessageInv, DropClientInv, ReceiveInv,
     LoseInv, DuplicateInv, DelayInv DEF Next
<1> QED
  BY <1>1, <1>2

\* The inductive invariant of the channel: where each packet, the receiver's
\* buffer and each message handed out come from (Netchan_Transmit,
\* Netchan_TransmitNextFragment, Netchan_Process).
THEOREM Invariant == Spec => []Inv
<1>1. Init => Inv
  BY InitInv
<1>2. Inv /\ [Next]_vars => Inv'
  BY NextInv
<1> QED
  BY <1>1, <1>2, PTL DEF Spec

-----------------------------------------------------------------------------
(* What follows from it.                                                   *)

LEMMA Parts ==
    ASSUME Inv
    PROVE  /\ chan \in Chan /\ network \in Seq(PacketSet) /\ peer \in Peer
           /\ sent \in Seq(Message) /\ handed \in Seq(Output)
           /\ abandoned \in BOOLEAN
           /\ Len(network) \in Nat /\ Len(sent) \in Nat /\ Len(handed) \in Nat
           /\ DOMAIN network = 1..Len(network) /\ DOMAIN sent = 1..Len(sent)
           /\ DOMAIN handed = 1..Len(handed)
           /\ \A j \in 1..Len(network) : network[j] \in PacketSet
           /\ \A i \in 1..Len(sent) : sent[i] \in Message
           /\ \A j \in 1..Len(handed) : handed[j] \in Output
           /\ Counted(chan, sent) /\ Numbered(chan, sent, abandoned)
           /\ \A j \in 1..Len(network) : PacketOK(network[j], chan, sent, abandoned)
           /\ Received(peer, chan, sent, abandoned)
           /\ \A j \in 1..Len(handed) : OutputOK(handed[j], peer, sent, abandoned)
           /\ HandedInOrder(handed)
           /\ Separate(chan, network, peer, sent, handed)
           /\ Smooth(chan, network, peer, sent, handed, abandoned, faults)
<1>1. /\ chan \in Chan /\ network \in Seq(PacketSet) /\ peer \in Peer
      /\ sent \in Seq(Message) /\ handed \in Seq(Output)
  BY DEF Inv, Good, Typed
<1>2. /\ \A j \in 1..Len(network) : network[j] \in PacketSet
      /\ \A i \in 1..Len(sent) : sent[i] \in Message
      /\ \A j \in 1..Len(handed) : handed[j] \in Output
  BY <1>1, ElementOfSeq
<1> QED
  BY <1>1, <1>2, LenProperties DEF Inv, Good

LEMMA Bounds ==
    ASSUME Inv
    PROVE  /\ chan.outgoingSequence \in 1..(MaxMessages + 1)
           /\ MaxMessages + 1 \in 1..(2 * MaxMessages)
           /\ chan.outgoingSequence \in 1..(2 * MaxMessages)
<1>1. chan.outgoingSequence \in Nat \ {0} /\ chan.unsentFragments \in BOOLEAN
  BY Parts DEF Chan
<1>2. /\ chan.outgoingSequence - 1 + (IF chan.unsentFragments THEN 1 ELSE 0) <= Len(sent)
      /\ Len(sent) <= MaxMessages /\ Len(sent) \in Nat
  BY Parts DEF Counted
<1> QED
  BY <1>1, <1>2, BoundAssumption

LEMMA Retyped ==
    ASSUME NEW S, NEW T, NEW s \in Seq(S), \A i \in 1..Len(s) : s[i] \in T
    PROVE  s \in Seq(T)
<1>1. Len(s) \in Nat /\ DOMAIN s = 1..Len(s) /\ s \in [1..Len(s) -> S]
  BY LenProperties
<1>2. s \in [1..Len(s) -> T]
  BY <1>1
<1> QED
  BY <1>1, <1>2, SeqDef

LEMMA TypeHolds == Inv => TypeOK
<1> SUFFICES ASSUME Inv
             PROVE  TypeOK
  OBVIOUS
<1> DEFINE M == 2 * MaxMessages
<1>1. /\ state \in {"CS_FREE", "CS_ZOMBIE", "CS_CONNECTED", "CS_PRIMED", "CS_ACTIVE"}
      /\ abandoned \in BOOLEAN /\ faults \in 0..MaxFaults
  BY DEF Inv
<1>2. M \in Nat /\ chan.outgoingSequence \in 1..M /\ chan.outgoingSequence \in Nat
  BY Bounds, BoundAssumption
<1> HIDE DEF M
<1>3. chan.outgoingSequence \in 1..(2 * MaxMessages + 1)
  BY <1>2 DEF M
<1>4. /\ chan \in [outgoingSequence : 1..(2 * MaxMessages + 1),
                   unsentFragments : BOOLEAN, unsentFragmentStart : Nat,
                   unsentBuffer : Seq(Units)]
      /\ chan.unsentFragmentStart <= Len(chan.unsentBuffer)
  BY <1>3, Parts DEF Chan, Counted
<1>5. ASSUME NEW i \in DOMAIN network
      PROVE  Packet(network[i])
  <2> DEFINE p == network[i]
  <2>1. i \in 1..Len(network) /\ p \in PacketSet /\ PacketOK(p, chan, sent, abandoned)
    BY <1>5, Parts
  <2> HIDE DEF p
  <2>2. /\ p.sequence \in Nat \ {0} /\ p.fragmented \in BOOLEAN
        /\ p.fragmentStart \in Nat /\ p.data \in Seq(Units)
    BY <2>1 DEF PacketSet
  <2>3. p.sequence \in 1..(2 * MaxMessages)
    <3>1. p.sequence <= chan.outgoingSequence
      BY <2>1 DEF PacketOK
    <3> QED
      BY <1>2, <2>2, <3>1 DEF M
  <2>4. Len(p.data) <= FRAGMENT_SIZE
    BY <2>1 DEF PacketOK, Carries
  <2> QED
    BY <2>2, <2>3, <2>4 DEF Packet, p
<1>6. peer \in [incomingSequence : 0..(2 * MaxMessages),
                fragmentSequence : 0..(2 * MaxMessages),
                fragmentBuffer : Seq(Units)]
  <2>1. /\ peer.incomingSequence \in Nat /\ peer.fragmentSequence \in Nat
        /\ peer.incomingSequence < chan.outgoingSequence
        /\ peer.fragmentSequence <= chan.outgoingSequence
    BY Parts DEF Peer, Received
  <2>2. /\ peer.incomingSequence \in 0..(2 * MaxMessages)
        /\ peer.fragmentSequence \in 0..(2 * MaxMessages)
    BY <1>2, <2>1 DEF M
  <2> QED
    BY <2>2, Parts DEF Peer
<1>7. sent \in Seq([length : Lengths, key : 1..(2 * MaxMessages)])
  <2>1. ASSUME NEW i \in 1..Len(sent)
        PROVE  sent[i] \in [length : Lengths, key : 1..(2 * MaxMessages)]
    <3>1. sent[i] \in Message /\ sent[i].key <= chan.outgoingSequence
      BY Parts DEF Counted
    <3>2. sent[i].key \in Nat \ {0}
      BY <3>1 DEF Message
    <3>3. sent[i].key \in 1..(2 * MaxMessages)
      BY <1>2, <3>1, <3>2 DEF M
    <3> QED
      BY <3>1, <3>3 DEF Message
  <2> QED
    BY <2>1, Parts, Retyped
<1>8. handed \in Seq([sequence : 1..(2 * MaxMessages), data : Seq(Units)])
  <2>1. ASSUME NEW j \in 1..Len(handed)
        PROVE  handed[j] \in [sequence : 1..(2 * MaxMessages), data : Seq(Units)]
    <3>1. /\ handed[j] \in Output /\ handed[j].sequence <= peer.incomingSequence
          /\ peer.incomingSequence < chan.outgoingSequence
          /\ peer.incomingSequence \in Nat
      BY Parts DEF OutputOK, Received, Peer
    <3>2. handed[j].sequence \in Nat \ {0}
      BY <3>1 DEF Output
    <3>3. handed[j].sequence \in 1..(2 * MaxMessages)
      BY <1>2, <3>1, <3>2 DEF M
    <3> QED
      BY <3>1, <3>3 DEF Output
  <2> QED
    BY <2>1, Parts, Retyped
<1> QED
  BY <1>1, <1>4, <1>5, <1>6, <1>7, <1>8 DEF TypeOK

\* Every variable has its type; what was sent of unsentBuffer is never beyond
\* its end, and a packet holds no more than FRAGMENT_SIZE.
THEOREM TypeCorrect == Spec => []TypeOK
BY Invariant, TypeHolds, PTL

LEMMA WholeHolds == Inv => WholeUnlessAbandoned
<1> SUFFICES ASSUME Inv, ~abandoned
             PROVE  InSendingOrder
  BY DEF WholeUnlessAbandoned
<1>1. \A j \in DOMAIN handed : \E i \in DOMAIN sent : IsMessage(handed[j], i)
  BY Parts DEF OutputOK, IsMessage
<1>2. ASSUME NEW j \in DOMAIN handed, NEW k \in DOMAIN handed,
             NEW i \in DOMAIN sent, NEW l \in DOMAIN sent, j < k,
             IsMessage(handed[j], i), IsMessage(handed[k], l)
      PROVE  i < l
  <2>1. sent[i].key < sent[l].key
    BY <1>2, Parts DEF HandedInOrder, IsMessage
  <2>2. /\ i \in 1..Len(sent) /\ l \in 1..Len(sent)
        /\ sent[i].key \in Nat /\ sent[l].key \in Nat
    BY Parts DEF Message
  <2>3. l < i => sent[l].key < sent[i].key
    BY <2>2, Parts DEF Numbered
  <2> QED
    BY <2>1, <2>2, <2>3, Parts
<1> QED
  BY <1>1, <1>2 DEF InSendingOrder

\* As long as no caller has transmitted over unsent fragments the client is
\* given whole messages, in the order they were sent and each under the
\* number it was encoded with, whatever the network loses, duplicates or
\* reorders (Netchan_Process).
THEOREM Whole == Spec => []WholeUnlessAbandoned
BY Invariant, WholeHolds, PTL

\* What is given to the client holds something, and begins with a unit of a
\* small message, or of one in fragments
LEMMA FirstUnit ==
    ASSUME Inv, NEW j \in 1..Len(handed)
    PROVE  /\ 1 \in 1..Len(handed[j].data)
           /\ \A i \in 1..Len(sent) : handed[j].data = Data(i, sent[i].length) =>
                 handed[j].data[1] = <<i, 1>> /\ handed[j].data[1][1] = i
<1>1. handed[j].data \in Seq(Units) /\ handed[j].data # << >>
  BY Parts DEF Output, OutputOK
<1>2. 1 \in 1..Len(handed[j].data)
  <2> DEFINE d == handed[j].data
  <2>1. Len(d) \in Nat /\ Len(d) # 0
    BY <1>1, LenProperties, EmptySeq
  <2> HIDE DEF d
  <2>2. 1 \in 1..Len(d)
    BY <2>1
  <2> QED
    BY <2>2 DEF d
<1>3. ASSUME NEW i \in 1..Len(sent)
      PROVE  Data(i, sent[i].length)[1] = <<i, 1>>
  <2>1. i \in 1..MaxMessages
    BY Parts, BoundAssumption DEF Counted
  <2>2. sent[i].length \in Lengths
    BY Parts DEF Message
  <2>3. 1 \in 1..sent[i].length
    <3> DEFINE n == sent[i].length
    <3>1. n \in Lengths
      BY <2>2
    <3> HIDE DEF n
    <3>2. n \in Nat \ {0}
      BY <3>1, LengthAssumption
    <3>3. 1 \in 1..n
      BY <3>2
    <3> QED
      BY <3>3 DEF n
  <2> QED
    BY <2>1, <2>2, <2>3, DataTypes
<1>4. ASSUME NEW i \in 1..Len(sent), handed[j].data = Data(i, sent[i].length)
      PROVE  handed[j].data[1] = <<i, 1>> /\ handed[j].data[1][1] = i
  <2>1. handed[j].data[1] = <<i, 1>>
    BY <1>3, <1>4, Zenon
  <2> QED
    BY <2>1
<1> QED
  BY <1>2, <1>4

LEMMA TwiceHolds == Inv => NothingTwice
<1> SUFFICES ASSUME Inv, NEW j \in 1..Len(handed), NEW k \in 1..Len(handed), j < k
             PROVE  /\ handed[j].sequence < handed[k].sequence
                    /\ handed[j].data # handed[k].data
  BY Parts DEF NothingTwice
<1>1. handed[j].sequence < handed[k].sequence
  BY Parts DEF HandedInOrder
<1>2. handed[j].sequence \in Nat /\ handed[k].sequence \in Nat
  BY Parts DEF Output
<1> SUFFICES ASSUME handed[j].data = handed[k].data
             PROVE  FALSE
  BY <1>1
<1>3. 1 \in 1..Len(handed[j].data)
  BY FirstUnit
<1>4. CASE SmallOutput(handed[j], sent)
  <2>1. PICK i \in 1..Len(sent) :
           /\ ~Large(sent, i) /\ handed[j].data[1][1] = i
           /\ handed[j].sequence = sent[i].key
    BY <1>4, FirstUnit DEF SmallOutput
  <2>2. CASE SmallOutput(handed[k], sent)
    <3>1. PICK l \in 1..Len(sent) :
             handed[k].data[1][1] = l /\ handed[k].sequence = sent[l].key
      BY <2>2, FirstUnit DEF SmallOutput
    <3>2. i = l
      BY <2>1, <3>1
    <3> QED
      BY <1>1, <1>2, <2>1, <3>1, <3>2
  <2>3. CASE LargeUnits(handed[k].data, sent)
    BY <1>3, <2>1, <2>3 DEF LargeUnits
  <2> QED
    BY <2>2, <2>3, Parts DEF OutputOK
<1>5. CASE ~SmallOutput(handed[j], sent)
  <2>1. LargeUnits(handed[j].data, sent)
    BY <1>5, Parts DEF OutputOK
  <2>2. CASE SmallOutput(handed[k], sent)
    <3>1. PICK l \in 1..Len(sent) : ~Large(sent, l) /\ handed[k].data[1][1] = l
      BY <2>2, FirstUnit DEF SmallOutput
    <3> QED
      BY <1>3, <2>1, <3>1 DEF LargeUnits
  <2>3. CASE ~SmallOutput(handed[k], sent)
    <3>1. PICK m \in Nat :
             Split(handed[j].sequence, m, chan, network, peer, sent, handed)
      BY <1>5, Parts DEF Separate, Closed
    <3>2. /\ SplitAt(handed[j].data, handed[j].sequence, handed[j].sequence, m)
          /\ SplitAt(handed[k].data, handed[k].sequence, handed[j].sequence, m)
      BY <1>5, <2>3, <3>1 DEF Split
    <3>3. handed[j].data[1][1] <= m
      BY <1>2, <1>3, <3>2 DEF SplitAt
    <3>4. handed[k].data[1][1] > m
      BY <1>1, <1>2, <1>3, <3>2 DEF SplitAt
    <3>5. handed[j].data[1][1] \in Nat
      BY <1>3, <2>1, Parts DEF LargeUnits
    <3> QED
      BY <3>3, <3>4, <3>5
  <2> QED
    BY <2>2, <2>3
<1> QED
  BY <1>4, <1>5

\* No number and no message is given to the client twice, even when fragments
\* were abandoned and numbers used again (Netchan_Process drops what is not
\* newer than incomingSequence).
THEOREM Once == Spec => []NothingTwice
BY Invariant, TwiceHolds, PTL

LEMMA ArrivesHolds == Inv => ArrivesWithoutFaults
<1> SUFFICES ASSUME Inv, network = << >>, faults = 0, ~chan.unsentFragments, ~abandoned
             PROVE  Len(handed) = Len(sent) /\ InSendingOrder
  BY DEF ArrivesWithoutFaults
<1>1. /\ Linked(chan, network, peer) /\ Len(handed) = peer.incomingSequence
      /\ Len(sent) = chan.outgoingSequence - 1 + (IF chan.unsentFragments THEN 1 ELSE 0)
  BY Parts DEF Smooth
<1>2. Coming(chan) = Awaited(peer)
  BY <1>1 DEF Linked
<1>3. chan.outgoingSequence = peer.incomingSequence + 1
  BY <1>2 DEF Coming, Awaited
<1>4. chan.outgoingSequence \in Nat /\ peer.incomingSequence \in Nat
  BY Parts DEF Chan, Peer
<1>5. Len(handed) = Len(sent)
  BY <1>1, <1>3, <1>4
<1> QED
  BY <1>5, WholeHolds DEF WholeUnlessAbandoned

\* When nothing is lost, duplicated or reordered, and nothing was abandoned,
\* all that was sent has arrived when nothing is unsent or in flight.
THEOREM Arrives == Spec => []ArrivesWithoutFaults
BY Invariant, ArrivesHolds, PTL

-----------------------------------------------------------------------------
(* The channel that loses messages, and no more.                           *)

\* The messages as the abstract channel has them
Carried(s) ==
    [i \in DOMAIN s |-> [sequence |-> s[i].key, data |-> Data(i, s[i].length)]]

LEMMA SameInterval ==
    ASSUME NEW m \in Nat, NEW n \in Nat, 1..m = 1..n
    PROVE  m = n
<1>1. ASSUME m < n PROVE FALSE
  <2>1. n \in 1..n /\ n \notin 1..m
    BY <1>1
  <2> QED
    BY <2>1
<1>2. ASSUME n < m PROVE FALSE
  <2>1. m \in 1..m /\ m \notin 1..n
    BY <1>2
  <2> QED
    BY <2>1
<1> QED
  BY <1>1, <1>2

LEMMA CarriedTypes ==
    ASSUME NEW s \in Seq(Message)
    PROVE  /\ DOMAIN Carried(s) = 1..Len(s) /\ Len(Carried(s)) = Len(s)
           /\ \A i \in 1..Len(s) :
                 Carried(s)[i] = [sequence |-> s[i].key, data |-> Data(i, s[i].length)]
<1>1. DOMAIN s = 1..Len(s) /\ Len(s) \in Nat
  BY LenProperties
<1>2. /\ DOMAIN Carried(s) = 1..Len(s)
      /\ \A i \in 1..Len(s) :
            Carried(s)[i] = [sequence |-> s[i].key, data |-> Data(i, s[i].length)]
  BY <1>1 DEF Carried
<1> DEFINE T == {Carried(s)[i] : i \in 1..Len(s)}
           f == Carried(s)
<1>3. f \in [1..Len(s) -> T]
  BY <1>2 DEF Carried
<1> HIDE DEF f, T
<1>4. f \in Seq(T)
  BY <1>1, <1>3, SeqDef
<1>5. DOMAIN f = 1..Len(f) /\ Len(f) \in Nat
  BY <1>4, LenProperties
<1>6. DOMAIN f = 1..Len(s)
  BY <1>2 DEF f
<1>7. Len(f) = Len(s)
  BY <1>1, <1>5, <1>6, SameInterval
<1> QED
  BY <1>2, <1>7 DEF f

LEMMA CarriedPrefix ==
    ASSUME NEW s \in Seq(Message), NEW s2, Extended(s, s2)
    PROVE  IsPrefix(Carried(s), Carried(s2))
<1> DEFINE f == Carried(s)
           g == Carried(s2)
           n == Len(s)
           T == {g[i] : i \in 1..n} \cup {f[i] : i \in 1..n}
<1>1. /\ s2 \in Seq(Message) /\ n <= Len(s2) /\ n \in Nat /\ Len(s2) \in Nat
      /\ \A i \in 1..n : s2[i] = s[i] /\ i \in 1..Len(s2)
  BY LenProperties DEF Extended
<1>2. /\ Len(f) = n /\ Len(g) = Len(s2) /\ DOMAIN f = 1..n
      /\ \A i \in 1..n : f[i] = g[i]
  BY <1>1, CarriedTypes
<1>3. f \in [1..n -> T]
  BY <1>2 DEF Carried
<1> HIDE DEF f, g, n
<1>4. f \in Seq(T)
  BY <1>1, <1>3, SeqDef
<1>5. \A i \in 1..n : g[i] \in T
  OBVIOUS
<1> HIDE DEF T
<1>6. /\ SubSeq(g, 1, n) \in Seq(T)
      /\ Len(SubSeq(g, 1, n)) = IF 1 <= n THEN n - 1 + 1 ELSE 0
      /\ \A i \in 1..(n - 1 + 1) : SubSeq(g, 1, n)[i] = g[1 + i - 1]
  BY <1>1, <1>5, SubSeqProperties
<1>7. \A i \in 1..n : f[i] \in T
  BY <1>2, <1>5
<1>8. SubSeq(g, 1, n) = f
  <2> DEFINE h == SubSeq(g, 1, n)
  <2>1. h \in Seq(T) /\ Len(h) = n /\ \A i \in 1..n : h[i] = f[i]
    BY <1>1, <1>2, <1>6
  <2> HIDE DEF h
  <2>2. h = f
    BY <1>2, <1>4, <2>1, SeqEqual
  <2> QED
    BY <2>2 DEF h
<1>9. SubSeq(f, 1, n) = f
  <2> DEFINE h == SubSeq(f, 1, n)
  <2>1. /\ h \in Seq(T) /\ Len(h) = IF 1 <= n THEN n - 1 + 1 ELSE 0
        /\ \A i \in 1..(n - 1 + 1) : h[i] = f[1 + i - 1]
    BY <1>1, <1>7, SubSeqProperties
  <2>2. Len(h) = n /\ \A i \in 1..n : h[i] = f[i]
    BY <1>1, <2>1
  <2> HIDE DEF h
  <2>3. h = f
    BY <1>2, <1>4, <2>1, <2>2, SeqEqual
  <2> QED
    BY <2>3 DEF h
<1> QED
  BY <1>1, <1>2, <1>8, <1>9 DEF IsPrefix, f, g

\* Every step but receiving leaves what was handed out as it is, and only adds
\* to what was transmitted.
LEMMA SendingExtends ==
    ASSUME Inv, Inv', [Next]_vars
    PROVE  \/ Receive
           \/ /\ Extended(sent, sent') /\ handed' = handed
              /\ abandoned => abandoned'
<1>1. /\ sent \in Seq(Message) /\ sent' \in Seq(Message) /\ Len(sent) \in Nat
      /\ abandoned \in BOOLEAN /\ abandoned' \in BOOLEAN
  BY Parts DEF Inv, Good, Typed
<1>2. ASSUME UNCHANGED <<sent, handed>>, abandoned => abandoned'
      PROVE  Extended(sent, sent') /\ handed' = handed /\ (abandoned => abandoned')
  BY <1>1, <1>2 DEF Extended
<1>3. CASE SendNextFragment
  <2>1. TransmitNextFragment(Idle).sent = sent
    BY <1>3, IdleStep, NextFragmentStep DEF SendNextFragment
  <2> QED
    BY <1>2, <1>3, <2>1 DEF SendNextFragment, Commit
<1>4. ASSUME NEW n \in Lengths, Commit(Transmit(Idle, n)), Len(sent) < MaxMessages
      PROVE  Extended(sent, sent')
  <2>1. Len(Idle.sent) < MaxMessages
    BY <1>4, IdleStep
  <2>2. /\ GoodStep(Transmit(Idle, n), network, peer, handed,
                    abandoned \/ Idle.chan.unsentFragments, faults)
        /\ Extended(Idle.sent, Transmit(Idle, n).sent)
    BY <2>1, IdleStep, TransmitStep
  <2> QED
    BY <1>4, <2>2, IdleStep DEF Commit
<1>5. CASE SendClientMessage
  BY <1>1, <1>4, <1>5 DEF SendClientMessage
<1>6. CASE SendClientGameState
  <2> DEFINE t == Flushed(Idle)
  <2>1. PICK n \in Lengths : Commit(Transmit(t, n))
    BY <1>6 DEF SendClientGameState
  <2>2. GoodStep(t, network, peer, handed, abandoned, faults) /\ t.sent = sent
    BY IdleStep, FlushedStep
  <2> HIDE DEF t
  <2>3. Extended(sent, Transmit(t, n).sent)
    BY <1>6, <2>2, IdleStep, TransmitStep DEF SendClientGameState
  <2>4. Extended(sent, sent')
    BY <2>1, <2>3 DEF Commit
  <2> QED
    BY <1>6, <2>4 DEF SendClientGameState
<1>7. CASE EnterWorld
  BY <1>2, <1>7 DEF EnterWorld
<1>8. CASE SpawnServer
  BY <1>1, <1>4, <1>8 DEF SpawnServer
<1>9. CASE FinalMessage
  <2>1. PICK n \in Lengths, m \in Lengths :
           Commit(Transmit(Transmit(Idle, n), m)) /\ (abandoned => abandoned')
    BY <1>9 DEF FinalMessage
  <2> DEFINE first == Transmit(Idle, n)
             ab == abandoned \/ chan.unsentFragments
  <2>2. Len(sent) < MaxMessages /\ Len(sent) + 1 < MaxMessages
    BY <1>1, <1>9, BoundAssumption DEF FinalMessage
  <2>3. /\ GoodStep(first, network, peer, handed, ab, faults)
        /\ Len(first.sent) = Len(sent) + 1 /\ Extended(sent, first.sent)
    <3>1. /\ GoodStep(first, network, peer, handed,
                      abandoned \/ Idle.chan.unsentFragments, faults)
          /\ Len(first.sent) = Len(Idle.sent) + 1 /\ Extended(Idle.sent, first.sent)
      BY <2>2, IdleStep, TransmitStep
    <3> QED
      BY <3>1, IdleStep DEF ab
  <2>4. ab \in BOOLEAN
    BY IdleStep
  <2> HIDE DEF first, ab
  <2>5. /\ GoodStep(Transmit(first, m), network, peer, handed,
                    ab \/ first.chan.unsentFragments, faults)
        /\ Extended(first.sent, Transmit(first, m).sent)
    <3>1. Len(first.sent) < MaxMessages
      BY <2>2, <2>3
    <3> QED
      BY <2>3, <2>4, <3>1, IdleStep, TransmitStep
  <2>6. sent' = Transmit(first, m).sent
    BY <2>1 DEF Commit, first
  <2>7. Extended(sent, sent')
    BY <1>1, <2>3, <2>5, <2>6 DEF Extended
  <2> QED
    BY <1>9, <2>1, <2>7 DEF FinalMessage
<1>10. CASE \E silent \in BOOLEAN : DropClient(silent)
  BY <1>1, <1>2, <1>10 DEF DropClient
<1>11. CASE Lose \/ Duplicate \/ Delay
  BY <1>2, <1>11 DEF Lose, Duplicate, Delay, Faulty
<1>12. CASE UNCHANGED vars
  BY <1>2, <1>12 DEF vars
<1> QED
  BY <1>3, <1>5, <1>6, <1>7, <1>8, <1>9, <1>10, <1>11, <1>12 DEF Next

\* Receiving hands out one message, or none.
LEMMA ReceivingHands ==
    ASSUME Inv, Inv', Receive
    PROVE  /\ UNCHANGED <<sent, abandoned>>
           /\ \/ handed' = handed
              \/ \E o \in Output : handed' = Append(handed, o)
<1> DEFINE p == Head(network)
<1>1. /\ UNCHANGED <<sent, abandoned>> /\ network # << >> /\ Process(p)
  BY DEF Receive
<1> HIDE DEF p
<1>2. p \in PacketSet /\ p.fragmented \in BOOLEAN /\ peer \in Peer
  BY <1>1, FirstPacket DEF Inv, p
<1>3. p.sequence \in Nat \ {0} /\ p.data \in Seq(Units)
  BY <1>2 DEF PacketSet
<1>4. CASE Fresh(p) /\ ~p.fragmented
  <2>1. handed' = Append(handed, [sequence |-> p.sequence, data |-> p.data])
    BY <1>1, <1>4 DEF Process, Give
  <2> QED
    BY <1>1, <1>3, <2>1, OutputFields
<1>5. CASE Fresh(p) /\ p.fragmented /\ Fits(p) /\ Ends(p)
  <2> DEFINE b == Buffered(p) \o p.data
  <2>1. b \in Seq(Units)
    BY <1>2, <1>5, JoinedTypes
  <2>2. handed' = Append(handed, [sequence |-> p.sequence, data |-> b])
    BY <1>1, <1>5 DEF Process, Give
  <2> HIDE DEF b
  <2> QED
    BY <1>1, <1>3, <2>1, <2>2, OutputFields
<1>6. CASE ~Fresh(p) \/ (Fresh(p) /\ p.fragmented /\ (~Fits(p) \/ ~Ends(p)))
  BY <1>1, <1>6 DEF Process
<1> QED
  BY <1>2, <1>4, <1>5, <1>6

LEMMA OneMoreHanded ==
    ASSUME NEW h \in Seq(Output), NEW o \in Output
    PROVE  /\ Len(Append(h, o)) = Len(h) + 1 /\ Append(h, o)[Len(h) + 1] = o
           /\ \A j \in 1..Len(h) : Append(h, o)[j] = h[j]
           /\ Len(h) + 1 \in 1..Len(Append(h, o))
           /\ DOMAIN Append(h, o) = 1..(Len(h) + 1)
           /\ IsPrefix(h, Append(h, o))
<1> DEFINE g == Append(h, o)
           n == Len(h)
<1>1. /\ g \in Seq(Output) /\ Len(g) = n + 1 /\ g[n + 1] = o
      /\ \A j \in 1..n : g[j] = h[j]
      /\ n \in Nat
  BY AppendProperties, LenProperties
<1>2. DOMAIN g = 1..(n + 1)
  BY <1>1, LenProperties
<1> HIDE DEF g
<1>3. \A j \in 1..n : h[j] \in Output
  BY ElementOfSeq
<1>4. ASSUME NEW f, \A j \in 1..n : f[j] = h[j]
      PROVE  SubSeq(f, 1, n) = h
  <2> DEFINE q == SubSeq(f, 1, n)
  <2>1. /\ q \in Seq(Output) /\ Len(q) = IF 1 <= n THEN n - 1 + 1 ELSE 0
        /\ \A j \in 1..(n - 1 + 1) : q[j] = f[1 + j - 1]
    BY <1>1, <1>3, <1>4, SubSeqProperties
  <2>2. Len(q) = n /\ \A j \in 1..n : q[j] = h[j]
    BY <1>1, <1>4, <2>1
  <2> HIDE DEF q
  <2>3. q = h
    BY <2>1, <2>2, SeqEqual
  <2> QED
    BY <2>3 DEF q
<1>5. SubSeq(g, 1, n) = h /\ SubSeq(h, 1, n) = h
  BY <1>1, <1>4
<1>6. IsPrefix(h, g)
  BY <1>1, <1>5 DEF IsPrefix
<1> QED
  BY <1>1, <1>2, <1>6 DEF g

\* A message handed out while nothing was abandoned is one that was sent.
LEMMA HandedIsCarried ==
    ASSUME NEW s \in Seq(Message), NEW o \in Output, NEW i \in 1..Len(s),
           o.data = Data(i, s[i].length), o.sequence = s[i].key
    PROVE  o = Carried(s)[i]
<1>1. Carried(s)[i] = [sequence |-> s[i].key, data |-> Data(i, s[i].length)]
  BY CarriedTypes
<1> QED
  BY <1>1 DEF Output

LEMMA InitImplements == Init => Lossy!Init
<1> SUFFICES ASSUME Init
             PROVE  Lossy!Init
  OBVIOUS
<1>1. sent = << >> /\ handed = << >> /\ abandoned = FALSE
  BY DEF Init
<1>2. [i \in DOMAIN sent |->
         [sequence |-> sent[i].key, data |-> Data(i, sent[i].length)]] = << >>
  BY <1>1
<1> QED
  BY <1>1, <1>2 DEF Lossy!Init

LEMMA SendingImplements ==
    ASSUME sent \in Seq(Message), Extended(sent, sent'), handed' = handed,
           abandoned => abandoned'
    PROVE  Lossy!Send
<1>1. IsPrefix(Carried(sent), Carried(sent'))
  BY CarriedPrefix
<1>2. Lossy!IsPrefix(Carried(sent), Carried(sent'))
  BY <1>1 DEF IsPrefix, Lossy!IsPrefix
<1> QED
  BY <1>2 DEF Lossy!Send, Carried

LEMMA ReceivingImplements ==
    ASSUME Inv, Inv', NothingTwice', UNCHANGED <<sent, abandoned>>,
           NEW o \in Output, handed' = Append(handed, o)
    PROVE  Lossy!Next
<1> DEFINE n == Len(handed) + 1
<1>1. /\ sent \in Seq(Message) /\ handed \in Seq(Output) /\ abandoned \in BOOLEAN
      /\ DOMAIN handed = 1..Len(handed) /\ Len(handed) \in Nat
      /\ DOMAIN sent = 1..Len(sent) /\ Len(sent) \in Nat
      /\ \A j \in 1..Len(handed) : handed[j] \in Output
      /\ \A i \in 1..Len(sent) : sent[i] \in Message
  BY Parts
<1>2. /\ Len(handed') = n /\ handed'[n] = o /\ n \in 1..Len(handed')
      /\ DOMAIN handed' = 1..n /\ IsPrefix(handed, handed')
      /\ \A j \in 1..Len(handed) : handed'[j] = handed[j]
  BY <1>1, OneMoreHanded
<1>3. CASE abandoned
  <2>1. ASSUME NEW j \in DOMAIN handed
        PROVE  /\ handed[j].sequence < handed'[Len(handed')].sequence
               /\ handed[j].data # handed'[Len(handed')].data
    <3>1. j \in DOMAIN handed' /\ n \in DOMAIN handed' /\ j < n
      BY <1>1, <1>2
    <3>2. /\ handed'[j].sequence < handed'[n].sequence
          /\ handed'[j].data # handed'[n].data
      BY <3>1 DEF NothingTwice
    <3> QED
      BY <1>1, <1>2, <3>2
  <2>2. Lossy!IsPrefix(handed, handed')
    BY <1>2 DEF IsPrefix, Lossy!IsPrefix
  <2>3. Lossy!GiveMixed
    BY <1>2, <1>3, <2>1, <2>2 DEF Lossy!GiveMixed
  <2> QED
    BY <2>3 DEF Lossy!Next
<1>4. CASE ~abandoned
  <2>1. \A j \in 1..Len(handed') :
           \E i \in 1..Len(sent) :
              /\ handed'[j].data = Data(i, sent[i].length)
              /\ handed'[j].sequence = sent[i].key
    BY <1>4 DEF Inv, Good, OutputOK
  <2>2. PICK i \in 1..Len(sent) : o.data = Data(i, sent[i].length) /\ o.sequence = sent[i].key
    BY <1>2, <2>1
  <2>3. o = Carried(sent)[i]
    BY <1>1, <2>2, HandedIsCarried
  <2>4. ASSUME NEW j \in DOMAIN handed
        PROVE  \E k \in 1..(i - 1) : handed[j] = Carried(sent)[k]
    <3>1. j \in 1..Len(handed) /\ j \in 1..Len(handed') /\ j < n
      BY <1>1, <1>2
    <3>2. PICK k \in 1..Len(sent) :
             handed[j].data = Data(k, sent[k].length) /\ handed[j].sequence = sent[k].key
      BY <1>2, <2>1, <3>1
    <3>3. handed[j].sequence < o.sequence
      BY <1>2, <3>1 DEF Inv, Good, HandedInOrder
    <3>4. sent[k].key \in Nat /\ sent[i].key \in Nat
      BY <1>1 DEF Message
    <3>5. i < k => sent[i].key < sent[k].key
      BY <1>4, Parts DEF Numbered
    <3>6. k < i
      BY <2>2, <3>2, <3>3, <3>4, <3>5
    <3>7. handed[j] = Carried(sent)[k]
      BY <1>1, <3>1, <3>2, HandedIsCarried
    <3> QED
      BY <3>6, <3>7
  <2>5. DOMAIN Carried(sent) = 1..Len(sent)
    BY <1>1, CarriedTypes
  <2>6. /\ i \in DOMAIN Carried(sent)
        /\ \A j \in DOMAIN handed : \E k \in 1..(i - 1) : handed[j] = Carried(sent)[k]
        /\ handed' = Append(handed, Carried(sent)[i])
    BY <2>3, <2>4, <2>5
  <2>7. Lossy!Give
    BY <1>4, <2>6 DEF Lossy!Give, Carried
  <2> QED
    BY <2>7 DEF Lossy!Next
<1> QED
  BY <1>3, <1>4

LEMMA StepImplements ==
    Inv /\ Inv' /\ NothingTwice' /\ [Next]_vars => [Lossy!Next]_(Lossy!vars)
<1> SUFFICES ASSUME Inv, Inv', NothingTwice', [Next]_vars
             PROVE  [Lossy!Next]_(Lossy!vars)
  OBVIOUS
<1>1. sent \in Seq(Message)
  BY Parts
<1>2. CASE Extended(sent, sent') /\ handed' = handed /\ (abandoned => abandoned')
  BY <1>1, <1>2, SendingImplements DEF Lossy!Next
<1>3. CASE Receive
  <2>1. UNCHANGED <<sent, abandoned>>
    BY <1>3, ReceivingHands
  <2>2. CASE handed' = handed
    BY <2>1, <2>2 DEF Lossy!vars
  <2>3. ASSUME NEW o \in Output, handed' = Append(handed, o)
        PROVE  Lossy!Next
    BY <2>1, <2>3, ReceivingImplements
  <2> QED
    BY <1>3, <2>2, <2>3, ReceivingHands
<1> QED
  BY <1>2, <1>3, SendingExtends

\* The netchan implements a channel that only loses messages, until a caller
\* abandons fragments: each message it hands out was sent, with the number it
\* was encoded with, after all those handed out before, and what was handed out
\* is not taken back.  Once fragments are abandoned it still never hands out
\* the same message or number twice.
THEOREM Refinement == Spec => ImplementsLossyChannel
<1>1. Init => Lossy!Init
  BY InitImplements
<1>2. Inv /\ Inv' /\ NothingTwice' /\ [Next]_vars => [Lossy!Next]_(Lossy!vars)
  BY StepImplements
<1> QED
  BY <1>1, <1>2, Invariant, Once, PTL DEF Spec, ImplementsLossyChannel, Lossy!Spec

==============================================================================
