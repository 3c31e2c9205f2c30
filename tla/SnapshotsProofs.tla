--------------------------- MODULE SnapshotsProofs ---------------------------
(***************************************************************************)
(* What delta compression promises, for rings of any sizes, any number of  *)
(* remembered messages, any snapshots and other clients, and any number of *)
(* messages and maps: that a client sees what the server saw, that it      *)
(* still has the base of every difference, and that it is shown no map it  *)
(* has not begun.                                                          *)
(*                                                                         *)
(* The heart of the argument is the predicate Held: what a frame's part of *)
(* a ring still keeps, was written for that frame's message.  Writing at   *)
(* the end of the ring preserves it, because it takes exactly the          *)
(* positions that leave the ring (PutKeeps), so that a base that the       *)
(* server finds usable is read as it was written (EntriesHeld).  The other *)
(* half is the client's: it has every snapshot it acknowledged, unless     *)
(* that is older than the server would use (Known).                        *)
(***************************************************************************)
EXTENDS Snapshots, SequenceTheorems, FiniteSetTheorems, TLAPS

-----------------------------------------------------------------------------
(* The inductive invariant.  Its parts speak of the client's record at the *)
(* server (cl), the rings and where they go on (nx), the map played (lv),  *)
(* and the client's side (r), so that they can be stated of the middle of  *)
(* a step.                                                                 *)

SnapsSet == UNION {[D -> Content] : D \in SUBSET Number}

RemoteSet == [last : Number, level : 0..MaxLevel, valid : BOOLEAN, raced : BOOLEAN,
              forgot : Number, snaps : SnapsSet]

ClientSet == [state : State, deltaMessage : -1..MaxMessage,
              outgoingSequence : 1..(MaxMessage + 1), frames : [Slot -> Frame],
              gamestateSent : BOOLEAN, gamestateMessageNum : -1..MaxMessage]

ClientOK(cl) ==
    /\ cl \in ClientSet
    /\ cl.deltaMessage < cl.outgoingSequence
    /\ cl.gamestateMessageNum < cl.outgoingSequence
    /\ \A k \in Kind : FrameOf(cl, cl.outgoingSequence).num[k] = 0

\* The frame of message n was not used again
Recent(cl, n) == n > cl.outgoingSequence - PACKET_BACKUP

\* What of a frame was not written over was written for message n
Held(rings, nx, frame, n) ==
    \A k \in Kind : \A i \in frame.first[k]..(frame.first[k] + frame.num[k] - 1) :
        /\ i < nx[k]
        /\ i >= nx[k] - Size[k] => rings[k][i % Size[k]] = n

\* What the snapshot of message n with that frame shows
Shown(frame, n) == [k \in Kind |-> IF frame.num[k] = 0 THEN {} ELSE {n}]

Own(content, n) == \A k \in Kind : content[k] \subseteq {n}

\* A message on its way: what it shows is what was seen, and the client
\* still has its base, or was made to forget it
MessageOK(m, cl, rings, nx, lv, r) ==
    /\ r.last < m.seq /\ m.seq < cl.outgoingSequence /\ m.level <= lv
    /\ m.base # 0 => /\ m.snap /\ m.base > m.seq - PACKET_BACKUP
                      /\ m.base <= r.last /\ m.level <= r.level
    /\ m.snap =>
          /\ Own(m.new, m.seq)
          /\ cl.state # "CS_ZOMBIE" => m.level <= r.level
          /\ ~r.raced => r.level <= m.level
          /\ Recent(cl, m.seq) =>
                /\ m.new = Shown(FrameOf(cl, m.seq), m.seq)
                /\ m.level = lv => Held(rings, nx, FrameOf(cl, m.seq), m.seq)
    /\ ~r.raced /\ m.base > r.forgot =>
          m.base \in DOMAIN r.snaps /\ m.old = r.snaps[m.base]

MessagesOK(tc, cl, rings, nx, lv, r) ==
    /\ \A i \in 1..Len(tc) : MessageOK(tc[i], cl, rings, nx, lv, r)
    /\ \A i, j \in 1..Len(tc) : i < j => tc[i].seq < tc[j].seq

\* The client's snapshots are the ones it was shown
SnapsOK(cl, rings, nx, lv, r) ==
    /\ \A n \in DOMAIN r.snaps : r.forgot < n /\ n <= r.last
    /\ r.forgot <= r.last
    /\ r.valid => r.last \in DOMAIN r.snaps
    /\ r.last < cl.outgoingSequence
    /\ ~r.raced => \A n \in DOMAIN r.snaps :
          /\ Own(r.snaps[n], n)
          /\ Recent(cl, n) =>
                /\ r.snaps[n] = Shown(FrameOf(cl, n), n)
                /\ r.level = lv => Held(rings, nx, FrameOf(cl, n), n)

\* The client has the snapshot, was made to forget it, or has given it up
\* for its age
Known(r, n) ==
    n <= r.last /\ (n \in DOMAIN r.snaps \/ n <= r.forgot \/ n <= r.last - PACKET_BACKUP)

PacketOK(p, r) ==
    /\ p.ack <= r.last /\ p.level <= r.level
    /\ p.move = "delta" /\ p.level = r.level => Known(r, p.ack)

\* The maps come in order, each with its gamestates: the first before the
\* client is in the game
LevelsOK(cl, gs, lv, r) ==
    /\ r.level <= lv
    /\ cl.state = "CS_ACTIVE" => r.level = lv
    /\ \A i \in 1..Len(gs) : r.level <= gs[i].level /\ gs[i].level <= lv
    /\ \A i, j \in 1..Len(gs) : i < j => gs[i].level <= gs[j].level
    /\ cl.state # "CS_ZOMBIE" /\ ~cl.gamestateSent =>
          r.level < lv /\ \A i \in 1..Len(gs) : gs[i].level < lv

DeltaOK(cl, r) ==
    cl.state = "CS_ACTIVE" /\ cl.deltaMessage > 0 => Known(r, cl.deltaMessage)

Typed ==
    /\ next \in [Kind -> Nat]
    /\ \A k \in Kind : ring[k] \in [0..(Size[k] - 1) -> Number]
    /\ level \in 1..MaxLevel
    /\ toClient \in Seq(Message)
    /\ gamestates \in Seq([level : 1..MaxLevel])
    /\ toServer \in SUBSET Packet /\ (toServer = {} \/ \E p \in Packet : toServer = {p})
    /\ remote \in RemoteSet

Inv ==
    /\ Typed
    /\ ClientOK(client)
    /\ MessagesOK(toClient, client, ring, next, level, remote)
    /\ SnapsOK(client, ring, next, level, remote)
    /\ LevelsOK(client, gamestates, level, remote)
    /\ DeltaOK(client, remote)
    /\ \A p \in toServer : PacketOK(p, remote)

-----------------------------------------------------------------------------
(* The rings.                                                              *)

LEMMA ConstantFacts ==
    /\ PACKET_BACKUP \in Nat /\ PACKET_BACKUP > 0 /\ Margin \in Nat
    /\ Margin < PACKET_BACKUP /\ MaxMessage \in Nat /\ MaxLevel \in Nat /\ MaxLevel > 0
    /\ \A k \in Kind : Size[k] \in Nat /\ Size[k] > 0
BY SizeAssumption

\* Two positions less than a ring apart have slots of their own
LEMMA PositionOrdered ==
    ASSUME NEW S \in Nat, S > 0, NEW i \in Int, NEW j \in Int,
           i <= j, j - i < S, i % S = j % S
    PROVE  i = j
<1> DEFINE a == i \div S
           b == j \div S
<1>1. i = S * a + (i % S) /\ j = S * b + (j % S) /\ a \in Int /\ b \in Int
  OBVIOUS
<1>2. j - i = S * (b - a)
  <2> HIDE DEF a, b
  <2> QED
    BY <1>1
<1>3. S * (b - a) < S /\ S * (b - a) >= 0
  BY <1>2
<1> HIDE DEF a, b
<1>4. b - a < 1 /\ b - a >= 0
  BY <1>1, <1>3
<1> QED
  BY <1>1, <1>2, <1>4

LEMMA PositionUnique ==
    ASSUME NEW S \in Nat, S > 0, NEW i \in Int, NEW j \in Int,
           j - i < S, i - j < S, i % S = j % S
    PROVE  i = j
BY PositionOrdered

Positions == [Kind -> Nat]

LEMMA SumFacts ==
    ASSUME NEW f \in Positions, NEW g \in Positions
    PROVE  /\ Sum(f, g) \in Positions
           /\ \A k \in Kind : Sum(f, g)[k] = f[k] + g[k]
<1>1. \A k \in Kind : f[k] \in Nat /\ g[k] \in Nat
  BY DEF Positions
<1> QED
  BY <1>1 DEF Sum, Positions

LEMMA NoEntriesFacts ==
    NoEntries \in Positions /\ \A k \in Kind : NoEntries[k] = 0
BY DEF NoEntries, Positions

LEMMA PositionType ==
    ASSUME NEW f \in Positions, NEW k \in Kind
    PROVE  f[k] \in Nat
BY DEF Positions

RingsTyped(rings) == \A k \in Kind : rings[k] \in [0..(Size[k] - 1) -> Number]

LEMMA PutAt ==
    ASSUME NEW rings, NEW at, NEW num, NEW entry, NEW k \in Kind,
           NEW s \in 0..(Size[k] - 1)
    PROVE  Put(rings, at, num, entry)[k][s] =
             IF \E i \in at[k]..(at[k] + num[k] - 1) : i % Size[k] = s
             THEN entry ELSE rings[k][s]
BY DEF Put

LEMMA PutTyped ==
    ASSUME NEW rings, RingsTyped(rings), NEW at, NEW num, NEW entry \in Number
    PROVE  RingsTyped(Put(rings, at, num, entry))
<1> SUFFICES ASSUME NEW k \in Kind
             PROVE  Put(rings, at, num, entry)[k] \in [0..(Size[k] - 1) -> Number]
  BY DEF RingsTyped
<1>1. \A s \in 0..(Size[k] - 1) : rings[k][s] \in Number
  BY DEF RingsTyped
<1> QED
  BY <1>1 DEF Put

LEMMA SlotOfPosition ==
    ASSUME NEW k \in Kind, NEW i \in Int
    PROVE  i % Size[k] \in 0..(Size[k] - 1)
BY ConstantFacts

\* Entries written at the end take the positions that leave the ring
LEMMA PutKeeps ==
    ASSUME NEW rings, NEW nx \in Positions, NEW num \in Positions, NEW entry,
           NEW frame \in Frame, NEW n, Held(rings, nx, frame, n)
    PROVE  Held(Put(rings, nx, num, entry), Sum(nx, num), frame, n)
<1> DEFINE new == Put(rings, nx, num, entry)
           end == Sum(nx, num)
<1> SUFFICES ASSUME NEW k \in Kind,
                    NEW i \in frame.first[k]..(frame.first[k] + frame.num[k] - 1)
             PROVE  /\ i < end[k]
                    /\ i >= end[k] - Size[k] => new[k][i % Size[k]] = n
  BY DEF Held
<1>1. /\ nx[k] \in Nat /\ num[k] \in Nat /\ Size[k] \in Nat /\ Size[k] > 0
      /\ end[k] = nx[k] + num[k]
  BY SumFacts, PositionType, ConstantFacts
<1>2. frame.first[k] \in Nat /\ frame.num[k] \in Nat
  BY DEF Frame
<1>3. i \in Int /\ i < nx[k] /\ (i >= nx[k] - Size[k] => rings[k][i % Size[k]] = n)
  BY <1>2 DEF Held
<1> HIDE DEF end
<1>4. i < end[k]
  BY <1>1, <1>3
<1>5. ASSUME i >= end[k] - Size[k]
      PROVE  new[k][i % Size[k]] = n
  <2>1. rings[k][i % Size[k]] = n
    BY <1>1, <1>3, <1>5
  <2>2. ASSUME NEW j \in nx[k]..(nx[k] + num[k] - 1), j % Size[k] = i % Size[k]
        PROVE  FALSE
    <3>1. j \in Int /\ i < j /\ j - i < Size[k]
      BY <1>1, <1>3, <1>5, <2>2
    <3> DEFINE S == Size[k]
    <3>2. S \in Nat /\ S > 0 /\ i \in Int /\ i <= j /\ j - i < S /\ i % S = j % S
      BY <1>1, <1>3, <2>2, <3>1
    <3> HIDE DEF S
    <3>3. i = j
      BY <3>1, <3>2, PositionOrdered
    <3> QED
      BY <3>1, <3>3
  <2>3. i % Size[k] \in 0..(Size[k] - 1)
    BY <1>3, SlotOfPosition
  <2>4. new[k][i % Size[k]] = rings[k][i % Size[k]]
    BY <2>2, <2>3, PutAt
  <2> QED
    BY <2>1, <2>4
<1> QED
  BY <1>4, <1>5

\* What was written for a frame is held
LEMMA PutWrites ==
    ASSUME NEW rings, NEW at \in Positions, NEW num \in Positions, NEW n,
           NEW frame, frame = [first |-> at, num |-> num]
    PROVE  Held(Put(rings, at, num, n), Sum(at, num), frame, n)
<1> SUFFICES ASSUME NEW k \in Kind,
                    NEW i \in frame.first[k]..(frame.first[k] + frame.num[k] - 1)
             PROVE  /\ i < Sum(at, num)[k]
                    /\ Put(rings, at, num, n)[k][i % Size[k]] = n
  BY DEF Held
<1>1. /\ at[k] \in Nat /\ num[k] \in Nat /\ Sum(at, num)[k] = at[k] + num[k]
      /\ i \in at[k]..(at[k] + num[k] - 1)
  BY SumFacts, PositionType
<1>2. i \in Int /\ i % Size[k] \in 0..(Size[k] - 1)
  BY <1>1, SlotOfPosition
<1>3. Put(rings, at, num, n)[k][i % Size[k]] = n
  BY <1>1, <1>2, PutAt
<1> QED
  BY <1>1, <1>3

\* A frame that is all in the ring is read as it was written
LEMMA EntriesHeld ==
    ASSUME NEW rings, NEW nx \in Positions, NEW frame \in Frame, NEW n,
           Held(rings, nx, frame, n),
           \A k \in Kind : frame.first[k] >= nx[k] - Size[k]
    PROVE  Entries(rings, frame) = Shown(frame, n)
<1> DEFINE read(k) == {rings[k][i % Size[k]] :
                          i \in frame.first[k]..(frame.first[k] + frame.num[k] - 1)}
           show(k) == IF frame.num[k] = 0 THEN {} ELSE {n}
<1>1. ASSUME NEW k \in Kind
      PROVE  read(k) = show(k)
  <2>1. frame.first[k] \in Nat /\ frame.num[k] \in Nat
    BY DEF Frame
  <2>2. nx[k] \in Nat /\ Size[k] \in Nat
    BY PositionType, ConstantFacts
  <2>3. \A i \in frame.first[k]..(frame.first[k] + frame.num[k] - 1) :
           rings[k][i % Size[k]] = n
    BY <2>1, <2>2 DEF Held
  <2>4. CASE frame.num[k] = 0
    BY <2>1, <2>4
  <2>5. CASE frame.num[k] # 0
    <3>1. frame.first[k] \in frame.first[k]..(frame.first[k] + frame.num[k] - 1)
      BY <2>1, <2>5
    <3>2. read(k) = {n}
      BY <2>3, <3>1
    <3> QED
      BY <2>5, <3>2
  <2> QED
    BY <2>4, <2>5
<1> HIDE DEF read, show
<1>2. [k \in Kind |-> read(k)] = [k \in Kind |-> show(k)]
  BY <1>1
<1> QED
  BY <1>2 DEF Entries, Shown, read, show

\* An empty frame holds and shows nothing
LEMMA EmptyFrame ==
    ASSUME NEW rings, NEW nx, NEW frame \in Frame, NEW n,
           \A k \in Kind : frame.num[k] = 0
    PROVE  Entries(rings, frame) = Shown(frame, n) /\ Held(rings, nx, frame, n)
<1>1. \A k \in Kind : frame.first[k]..(frame.first[k] + frame.num[k] - 1) = {}
  BY DEF Frame
<1>2. Held(rings, nx, frame, n)
  BY <1>1 DEF Held
<1> DEFINE read(k) == {rings[k][i % Size[k]] :
                          i \in frame.first[k]..(frame.first[k] + frame.num[k] - 1)}
           show(k) == IF frame.num[k] = 0 THEN {} ELSE {n}
<1>3. ASSUME NEW k \in Kind
      PROVE  read(k) = show(k)
  BY <1>1, <1>3
<1> HIDE DEF read, show
<1>4. [k \in Kind |-> read(k)] = [k \in Kind |-> show(k)]
  BY <1>3
<1> QED
  BY <1>2, <1>4 DEF Entries, Shown, read, show

LEMMA ShownOwn ==
    ASSUME NEW frame, NEW n
    PROVE  Own(Shown(frame, n), n)
BY DEF Own, Shown

LEMMA EntriesTyped ==
    ASSUME NEW rings, RingsTyped(rings), NEW frame \in Frame
    PROVE  Entries(rings, frame) \in Content
<1>1. ASSUME NEW k \in Kind, NEW i \in frame.first[k]..(frame.first[k] + frame.num[k] - 1)
      PROVE  rings[k][i % Size[k]] \in -1..MaxMessage
  <2>1. frame.first[k] \in Nat /\ frame.num[k] \in Nat
    BY DEF Frame
  <2>2. i % Size[k] \in 0..(Size[k] - 1)
    BY <2>1, SlotOfPosition
  <2>3. rings[k][i % Size[k]] \in Number
    BY <2>2 DEF RingsTyped
  <2> QED
    BY <2>3, ConstantFacts DEF Number
<1> QED
  BY <1>1 DEF Entries, Content

-----------------------------------------------------------------------------
(* The client's record, and its frames.                                    *)

FramesSet == [Slot -> Frame]

LEMMA ClientFields ==
    ASSUME NEW cl \in ClientSet
    PROVE  /\ cl.outgoingSequence \in Nat /\ cl.outgoingSequence > 0
           /\ cl.outgoingSequence <= MaxMessage + 1
           /\ cl.outgoingSequence \in 1..(MaxMessage + 1)
           /\ cl.frames \in FramesSet /\ cl.state \in State
           /\ cl.deltaMessage \in Int /\ cl.deltaMessage \in -1..MaxMessage
           /\ cl.gamestateMessageNum \in Int /\ cl.gamestateMessageNum \in -1..MaxMessage
           /\ cl.gamestateSent \in BOOLEAN
<1>1. /\ cl.outgoingSequence \in 1..(MaxMessage + 1)
      /\ cl.deltaMessage \in -1..MaxMessage
      /\ cl.gamestateMessageNum \in -1..MaxMessage /\ cl.gamestateSent \in BOOLEAN
      /\ cl.state \in State /\ cl.frames \in FramesSet
  BY DEF ClientSet, FramesSet
<1> QED
  BY <1>1, ConstantFacts

LEMMA SlotOfMessage ==
    ASSUME NEW n \in Int
    PROVE  n % PACKET_BACKUP \in Slot
BY ConstantFacts DEF Slot

LEMMA FrameTyped ==
    ASSUME NEW cl \in ClientSet, NEW n \in Int
    PROVE  FrameOf(cl, n) \in Frame
BY ClientFields, SlotOfMessage DEF FrameOf, FramesSet

PutFrame(frames, s, f) == [frames EXCEPT ![s] = f]

LEMMA PutFrameFacts ==
    ASSUME NEW frames \in FramesSet, NEW s \in Slot, NEW f \in Frame
    PROVE  /\ PutFrame(frames, s, f) \in FramesSet
           /\ PutFrame(frames, s, f)[s] = f
           /\ \A t \in Slot : t # s => PutFrame(frames, s, f)[t] = frames[t]
BY DEF PutFrame, FramesSet

\* The client with message out to be sent next, and these frames
WithFrames(cl, out, frames) ==
    [cl EXCEPT !.outgoingSequence = out, !.frames = frames]

SameOtherwise(cl, b) ==
    /\ b.state = cl.state /\ b.deltaMessage = cl.deltaMessage
    /\ b.gamestateSent = cl.gamestateSent
    /\ b.gamestateMessageNum = cl.gamestateMessageNum

LEMMA WithFramesFacts ==
    ASSUME NEW cl \in ClientSet, NEW out \in 1..(MaxMessage + 1), NEW frames \in FramesSet
    PROVE  /\ WithFrames(cl, out, frames) \in ClientSet
           /\ WithFrames(cl, out, frames).outgoingSequence = out
           /\ WithFrames(cl, out, frames).frames = frames
           /\ SameOtherwise(cl, WithFrames(cl, out, frames))
BY DEF WithFrames, ClientSet, FramesSet, SameOtherwise

LEMMA FrameIn ==
    ASSUME NEW at \in Positions, NEW num \in Positions
    PROVE  /\ [first |-> at, num |-> num] \in Frame
           /\ [first |-> at, num |-> num].first = at
           /\ [first |-> at, num |-> num].num = num
BY DEF Frame, Positions

\* One frame is put in the place of the one PACKET_BACKUP messages before
LEMMA PutFrameOf ==
    ASSUME NEW cl \in ClientSet, NEW out \in Nat, NEW f \in Frame, NEW b,
           b.frames = PutFrame(cl.frames, out % PACKET_BACKUP, f)
    PROVE  /\ FrameOf(b, out) = f
           /\ \A n \in Int : out - PACKET_BACKUP < n /\ n < out =>
                 FrameOf(b, n) = FrameOf(cl, n)
<1>1. /\ cl.frames \in FramesSet /\ out % PACKET_BACKUP \in Slot
  BY ClientFields, SlotOfMessage
<1>2. FrameOf(b, out) = f
  BY <1>1, PutFrameFacts DEF FrameOf
<1>3. ASSUME NEW n \in Int, out - PACKET_BACKUP < n, n < out
      PROVE  FrameOf(b, n) = FrameOf(cl, n)
  <2>1. n % PACKET_BACKUP \in Slot
    BY SlotOfMessage
  <2>2. n % PACKET_BACKUP # out % PACKET_BACKUP
    <3> SUFFICES ASSUME n % PACKET_BACKUP = out % PACKET_BACKUP
                 PROVE  FALSE
      OBVIOUS
    <3> DEFINE S == PACKET_BACKUP
    <3>1. S \in Nat /\ S > 0 /\ n <= out /\ out - n < S /\ n % S = out % S
      BY <1>3, ConstantFacts
    <3> HIDE DEF S
    <3>2. n = out
      BY <3>1, PositionOrdered
    <3> QED
      BY <1>3, <3>2
  <2> QED
    BY <1>1, <2>1, <2>2, PutFrameFacts DEF FrameOf
<1> QED
  BY <1>2, <1>3

LEMMA TransmittedFacts ==
    ASSUME NEW cl \in ClientSet, cl.outgoingSequence <= MaxMessage, NEW nx \in Positions
    PROVE  /\ Transmitted(cl, nx) \in ClientSet
           /\ Transmitted(cl, nx).outgoingSequence = cl.outgoingSequence + 1
           /\ SameOtherwise(cl, Transmitted(cl, nx))
           /\ \A k \in Kind :
                 FrameOf(Transmitted(cl, nx), cl.outgoingSequence + 1).num[k] = 0
           /\ \A n \in Int :
                 /\ cl.outgoingSequence + 1 - PACKET_BACKUP < n
                 /\ n <= cl.outgoingSequence
                 => FrameOf(Transmitted(cl, nx), n) = FrameOf(cl, n)
<1> DEFINE out == cl.outgoingSequence + 1
           f == [first |-> nx, num |-> NoEntries]
           frames == PutFrame(cl.frames, out % PACKET_BACKUP, f)
           t == Transmitted(cl, nx)
<1>1. /\ out \in Nat /\ out \in 1..(MaxMessage + 1) /\ cl.frames \in FramesSet
      /\ cl.outgoingSequence \in Nat
  BY ClientFields, ConstantFacts
<1>2. f \in Frame /\ \A k \in Kind : f.num[k] = 0
  BY NoEntriesFacts, FrameIn
<1>3. t = WithFrames(cl, out, frames)
  BY <1>1 DEF Transmitted, WithFrames, PutFrame, ClientSet
<1> HIDE DEF t, f
<1>4. frames \in FramesSet
  BY <1>1, <1>2, SlotOfMessage, PutFrameFacts
<1> HIDE DEF out, frames
<1>5. /\ t \in ClientSet /\ t.outgoingSequence = out /\ SameOtherwise(cl, t)
      /\ t.frames = frames
  BY <1>1, <1>3, <1>4, WithFramesFacts
<1>6. /\ FrameOf(t, out) = f
      /\ \A n \in Int : out - PACKET_BACKUP < n /\ n < out => FrameOf(t, n) = FrameOf(cl, n)
  BY <1>1, <1>2, <1>5, PutFrameOf DEF frames
<1>7. \A n \in Int : n <= cl.outgoingSequence => n < out
  BY <1>1 DEF out
<1> QED
  BY <1>1, <1>2, <1>5, <1>6, <1>7, ConstantFacts DEF out, t

\* The frame of the message to be sent is what was built, for a client in
\* the game, and empty for others
LEMMA BuiltFacts ==
    ASSUME NEW cl, ClientOK(cl), NEW at \in Positions, NEW own \in Positions
    PROVE  /\ Built(cl, at, own) \in ClientSet
           /\ Built(cl, at, own).outgoingSequence = cl.outgoingSequence
           /\ SameOtherwise(cl, Built(cl, at, own))
           /\ \A n \in Int :
                 /\ cl.outgoingSequence - PACKET_BACKUP < n
                 /\ n < cl.outgoingSequence
                 => FrameOf(Built(cl, at, own), n) = FrameOf(cl, n)
           /\ IF cl.state = "CS_ACTIVE"
              THEN FrameOf(Built(cl, at, own), cl.outgoingSequence) =
                      [first |-> at, num |-> own]
              ELSE \A k \in Kind :
                      FrameOf(Built(cl, at, own), cl.outgoingSequence).num[k] = 0
<1> DEFINE out == cl.outgoingSequence
           slot == out % PACKET_BACKUP
           b == Built(cl, at, own)
<1>1. /\ cl \in ClientSet /\ out \in Nat /\ out \in 1..(MaxMessage + 1)
      /\ cl.frames \in FramesSet /\ slot \in Slot
      /\ \A k \in Kind : FrameOf(cl, out).num[k] = 0
  BY ClientFields, SlotOfMessage DEF ClientOK
<1>2. ASSUME NEW f \in Frame, b = WithFrames(cl, out, PutFrame(cl.frames, slot, f))
      PROVE  /\ b \in ClientSet /\ b.outgoingSequence = out /\ SameOtherwise(cl, b)
             /\ FrameOf(b, out) = f
             /\ \A n \in Int : out - PACKET_BACKUP < n /\ n < out =>
                   FrameOf(b, n) = FrameOf(cl, n)
  <2> HIDE DEF b
  <2>1. PutFrame(cl.frames, slot, f) \in FramesSet
    BY <1>1, PutFrameFacts
  <2> HIDE DEF out
  <2>2. /\ b \in ClientSet /\ b.outgoingSequence = out /\ SameOtherwise(cl, b)
        /\ b.frames = PutFrame(cl.frames, slot, f)
    BY <1>1, <1>2, <2>1, WithFramesFacts
  <2> QED
    BY <1>1, <2>2, PutFrameOf
<1>3. CASE cl.state = "CS_ACTIVE"
  <2> DEFINE f == [first |-> at, num |-> own]
  <2>1. b = WithFrames(cl, out, PutFrame(cl.frames, slot, f))
    BY <1>1, <1>3 DEF Built, WithFrames, PutFrame, ClientSet
  <2>2. f \in Frame
    BY FrameIn
  <2> HIDE DEF f, b
  <2>3. /\ b \in ClientSet /\ b.outgoingSequence = out /\ SameOtherwise(cl, b)
        /\ FrameOf(b, out) = f
        /\ \A n \in Int : out - PACKET_BACKUP < n /\ n < out => FrameOf(b, n) = FrameOf(cl, n)
    BY <1>2, <2>1, <2>2
  <2> QED
    BY <1>3, <2>3 DEF b, f
<1>4. CASE cl.state = "CS_ZOMBIE"
  <2> DEFINE old == cl.frames[slot]
             f == [old EXCEPT !.num = NoEntries]
  <2>1. b = WithFrames(cl, out, PutFrame(cl.frames, slot, f))
    BY <1>1, <1>4 DEF Built, WithFrames, PutFrame, ClientSet
  <2>2. f \in Frame /\ \A k \in Kind : f.num[k] = 0
    <3>1. old \in Frame
      BY <1>1 DEF FramesSet
    <3>2. f \in Frame /\ f.num = NoEntries
      BY <3>1, NoEntriesFacts DEF Frame, Positions
    <3> QED
      BY <3>2, NoEntriesFacts
  <2> HIDE DEF f, b
  <2>3. /\ b \in ClientSet /\ b.outgoingSequence = out /\ SameOtherwise(cl, b)
        /\ FrameOf(b, out) = f
        /\ \A n \in Int : out - PACKET_BACKUP < n /\ n < out => FrameOf(b, n) = FrameOf(cl, n)
    BY <1>2, <2>1, <2>2
  <2> QED
    BY <1>4, <2>2, <2>3 DEF b
<1>5. CASE cl.state \notin {"CS_ACTIVE", "CS_ZOMBIE"}
  <2>1. b = cl
    BY <1>5 DEF Built
  <2> QED
    BY <1>1, <1>5, <2>1 DEF SameOtherwise
<1> QED
  BY <1>3, <1>4, <1>5

-----------------------------------------------------------------------------
(* What the server's steps leave of messages and snapshots.                *)

LEMMA SnapsFacts ==
    ASSUME NEW r \in RemoteSet
    PROVE  /\ r.last \in Number /\ r.last \in Nat /\ r.level \in 0..MaxLevel
           /\ r.level \in Nat /\ r.valid \in BOOLEAN /\ r.raced \in BOOLEAN
           /\ r.forgot \in Number /\ r.forgot \in Nat
           /\ r.snaps \in SnapsSet /\ DOMAIN r.snaps \subseteq Number
           /\ \A n \in DOMAIN r.snaps : n \in Nat /\ r.snaps[n] \in Content
<1>1. /\ r.last \in Number /\ r.level \in 0..MaxLevel /\ r.valid \in BOOLEAN
      /\ r.raced \in BOOLEAN /\ r.forgot \in Number /\ r.snaps \in SnapsSet
  BY DEF RemoteSet
<1>2. PICK D \in SUBSET Number : r.snaps \in [D -> Content]
  BY <1>1 DEF SnapsSet
<1>3. DOMAIN r.snaps = D /\ \A n \in D : r.snaps[n] \in Content
  BY <1>2
<1>4. \A n \in Number : n \in Nat
  BY ConstantFacts DEF Number
<1>5. r.last \in Nat /\ r.level \in Nat /\ r.forgot \in Nat
  BY <1>1, <1>4, ConstantFacts
<1>6. \A n \in DOMAIN r.snaps : n \in Nat /\ r.snaps[n] \in Content
  BY <1>3, <1>4
<1> QED
  BY <1>1, <1>3, <1>5, <1>6

LEMMA MessageFields ==
    ASSUME NEW m \in Message
    PROVE  /\ m.seq \in Nat /\ m.level \in Nat /\ m.base \in Nat /\ m.snap \in BOOLEAN
           /\ m.seq \in Number /\ m.old \in Content /\ m.new \in Content
<1>1. /\ m.seq \in Number /\ m.level \in 0..MaxLevel /\ m.base \in Number
      /\ m.snap \in BOOLEAN /\ m.old \in Content /\ m.new \in Content
  BY DEF Message
<1>2. \A n \in Number : n \in Nat
  BY ConstantFacts DEF Number
<1>3. m.seq \in Nat /\ m.base \in Nat
  BY <1>1, <1>2
<1>4. m.level \in Nat
  BY <1>1, ConstantFacts
<1> QED
  BY <1>1, <1>3, <1>4

\* Frames in use stay, and so does what they hold on the same map
Kept(cl, rings, nx, lv, b, rings2, nx2, lv2) ==
    /\ cl.outgoingSequence <= b.outgoingSequence /\ lv <= lv2
    /\ b.state # "CS_ZOMBIE" => cl.state # "CS_ZOMBIE"
    /\ \A n \in Nat : n < cl.outgoingSequence /\ Recent(b, n) =>
          /\ FrameOf(b, n) = FrameOf(cl, n)
          /\ lv2 = lv /\ Held(rings, nx, FrameOf(cl, n), n) =>
                Held(rings2, nx2, FrameOf(b, n), n)

LEMMA RecentKept ==
    ASSUME NEW cl \in ClientSet, NEW b \in ClientSet, NEW n \in Nat,
           cl.outgoingSequence <= b.outgoingSequence, Recent(b, n)
    PROVE  Recent(cl, n)
BY ClientFields, ConstantFacts DEF Recent

LEMMA MessagesKept ==
    ASSUME NEW tc \in Seq(Message), NEW cl \in ClientSet, NEW rings, NEW nx,
           NEW lv \in Nat, NEW b \in ClientSet, NEW rings2, NEW nx2, NEW lv2 \in Nat,
           NEW r \in RemoteSet, MessagesOK(tc, cl, rings, nx, lv, r),
           Kept(cl, rings, nx, lv, b, rings2, nx2, lv2)
    PROVE  MessagesOK(tc, b, rings2, nx2, lv2, r)
<1> SUFFICES ASSUME NEW i \in 1..Len(tc)
             PROVE  MessageOK(tc[i], b, rings2, nx2, lv2, r)
  BY DEF MessagesOK
<1> DEFINE m == tc[i]
<1>1. m \in Message /\ MessageOK(m, cl, rings, nx, lv, r)
  BY ElementOfSeq DEF MessagesOK
<1> HIDE DEF m
<1>2. /\ m.seq \in Nat /\ m.level \in Nat
      /\ cl.outgoingSequence \in Nat /\ b.outgoingSequence \in Nat
  BY <1>1, MessageFields, ClientFields
<1>3. m.seq < cl.outgoingSequence /\ m.level <= lv
  BY <1>1 DEF MessageOK
<1>4. m.seq < b.outgoingSequence /\ m.level <= lv2
  BY <1>2, <1>3 DEF Kept
<1>5. b.state # "CS_ZOMBIE" => cl.state # "CS_ZOMBIE"
  BY DEF Kept
<1>6. ASSUME m.snap, Recent(b, m.seq)
      PROVE  /\ m.new = Shown(FrameOf(b, m.seq), m.seq)
             /\ m.level = lv2 => Held(rings2, nx2, FrameOf(b, m.seq), m.seq)
  <2>1. Recent(cl, m.seq)
    BY <1>2, <1>6, RecentKept DEF Kept
  <2>2. /\ m.new = Shown(FrameOf(cl, m.seq), m.seq)
        /\ m.level = lv => Held(rings, nx, FrameOf(cl, m.seq), m.seq)
    BY <1>1, <1>6, <2>1 DEF MessageOK
  <2>3. /\ FrameOf(b, m.seq) = FrameOf(cl, m.seq)
        /\ lv2 = lv /\ Held(rings, nx, FrameOf(cl, m.seq), m.seq) =>
              Held(rings2, nx2, FrameOf(b, m.seq), m.seq)
    BY <1>2, <1>3, <1>6 DEF Kept
  <2>4. m.level = lv2 => lv2 = lv
    BY <1>2, <1>3 DEF Kept
  <2> QED
    BY <2>2, <2>3, <2>4
<1>7. MessageOK(m, b, rings2, nx2, lv2, r)
  BY <1>1, <1>4, <1>5, <1>6 DEF MessageOK
<1> QED
  BY <1>7 DEF m

LEMMA SnapsKept ==
    ASSUME NEW cl \in ClientSet, NEW rings, NEW nx,
           NEW lv \in Nat, NEW b \in ClientSet, NEW rings2, NEW nx2, NEW lv2 \in Nat,
           NEW r \in RemoteSet, SnapsOK(cl, rings, nx, lv, r), r.level <= lv,
           Kept(cl, rings, nx, lv, b, rings2, nx2, lv2)
    PROVE  SnapsOK(b, rings2, nx2, lv2, r)
<1>1. /\ r.last \in Nat /\ r.level \in Nat /\ \A n \in DOMAIN r.snaps : n \in Nat
      /\ cl.outgoingSequence \in Nat /\ b.outgoingSequence \in Nat
  BY SnapsFacts, ClientFields
<1>2. r.last < cl.outgoingSequence /\ r.last < b.outgoingSequence
  BY <1>1 DEF SnapsOK, Kept
<1>3. ASSUME ~r.raced, NEW n \in DOMAIN r.snaps, Recent(b, n)
      PROVE  /\ r.snaps[n] = Shown(FrameOf(b, n), n)
             /\ r.level = lv2 => Held(rings2, nx2, FrameOf(b, n), n)
  <2>1. n \in Nat /\ n <= r.last
    BY <1>1 DEF SnapsOK
  <2>2. n < cl.outgoingSequence
    BY <1>1, <1>2, <2>1
  <2>3. Recent(cl, n)
    BY <1>3, <2>1, RecentKept DEF Kept
  <2>4. /\ r.snaps[n] = Shown(FrameOf(cl, n), n)
        /\ r.level = lv => Held(rings, nx, FrameOf(cl, n), n)
    BY <1>3, <2>3 DEF SnapsOK
  <2>5. /\ FrameOf(b, n) = FrameOf(cl, n)
        /\ lv2 = lv /\ Held(rings, nx, FrameOf(cl, n), n) =>
              Held(rings2, nx2, FrameOf(b, n), n)
    BY <1>3, <2>1, <2>2 DEF Kept
  <2>6. r.level = lv2 => lv2 = lv
    BY <1>1 DEF Kept
  <2> QED
    BY <2>4, <2>5, <2>6
<1> QED
  BY <1>2, <1>3 DEF SnapsOK

\* A message is added behind the others
LEMMA MessageAdded ==
    ASSUME NEW tc \in Seq(Message), NEW m \in Message, NEW cl \in ClientSet,
           NEW rings, NEW nx, NEW lv, NEW r, MessagesOK(tc, cl, rings, nx, lv, r),
           MessageOK(m, cl, rings, nx, lv, r),
           \A i \in 1..Len(tc) : tc[i].seq < m.seq
    PROVE  /\ MessagesOK(Append(tc, m), cl, rings, nx, lv, r)
           /\ Append(tc, m) \in Seq(Message)
<1> DEFINE new == Append(tc, m)
<1>1. /\ new \in Seq(Message) /\ Len(new) = Len(tc) + 1 /\ Len(tc) \in Nat
      /\ new[Len(tc) + 1] = m /\ \A i \in 1..Len(tc) : new[i] = tc[i]
  BY AppendProperties, LenProperties
<1> HIDE DEF new
<1>2. \A i \in 1..Len(new) : i = Len(tc) + 1 \/ i \in 1..Len(tc)
  BY <1>1
<1>3. \A i \in 1..Len(new) : MessageOK(new[i], cl, rings, nx, lv, r)
  BY <1>1, <1>2 DEF MessagesOK
<1>4. ASSUME NEW i \in 1..Len(new), NEW j \in 1..Len(new), i < j
      PROVE  new[i].seq < new[j].seq
  <2>1. i \in 1..Len(tc) /\ new[i] = tc[i]
    BY <1>1, <1>4
  <2>2. CASE j = Len(tc) + 1
    BY <1>1, <2>1, <2>2
  <2>3. CASE j \in 1..Len(tc)
    BY <1>1, <1>4, <2>1, <2>3 DEF MessagesOK
  <2> QED
    BY <1>2, <2>2, <2>3
<1> QED
  BY <1>1, <1>3, <1>4 DEF MessagesOK, new

-----------------------------------------------------------------------------
(* The message that is written.                                            *)

\* The frame of the message to be written is all in the rings
Ready(b, rings, nx) ==
    LET frame == FrameOf(b, b.outgoingSequence)
    IN  /\ Entries(rings, frame) = Shown(frame, b.outgoingSequence)
        /\ Held(rings, nx, frame, b.outgoingSequence)

\* What holds of the server and the client's side when a message is written
Writing(b, rings, nx, r) ==
    /\ b \in ClientSet /\ b.outgoingSequence <= MaxMessage
    /\ b.deltaMessage < b.outgoingSequence /\ nx \in Positions /\ RingsTyped(rings)
    /\ r \in RemoteSet /\ level \in 1..MaxLevel /\ r.level <= level
    /\ b.state = "CS_ACTIVE" => r.level = level
    /\ SnapsOK(b, rings, nx, level, r) /\ DeltaOK(b, r)

MessageWith(p, base, old, new) ==
    [p EXCEPT !.snap = TRUE, !.base = base, !.old = old, !.new = new]

LEMMA MessageWithFacts ==
    ASSUME NEW p \in Message, NEW base \in Number, NEW old \in Content, NEW new \in Content
    PROVE  /\ MessageWith(p, base, old, new) \in Message
           /\ MessageWith(p, base, old, new).seq = p.seq
           /\ MessageWith(p, base, old, new).level = p.level
           /\ MessageWith(p, base, old, new).snap
           /\ MessageWith(p, base, old, new).base = base
           /\ MessageWith(p, base, old, new).old = old
           /\ MessageWith(p, base, old, new).new = new
BY DEF Message, MessageWith

LEMMA NothingTyped == Nothing \in Content
BY DEF Nothing, Content

LEMMA PlainOK ==
    ASSUME NEW b, NEW rings, NEW nx, NEW r, Writing(b, rings, nx, r)
    PROVE  /\ Plain(b) \in Message /\ Plain(b).seq = b.outgoingSequence
           /\ MessageOK(Plain(b), Transmitted(b, nx), rings, nx, level, r)
<1>1. /\ b \in ClientSet /\ b.outgoingSequence <= MaxMessage /\ nx \in Positions
      /\ r \in RemoteSet /\ level \in 1..MaxLevel
      /\ SnapsOK(b, rings, nx, level, r)
  BY DEF Writing
<1>2. /\ b.outgoingSequence \in Nat /\ b.outgoingSequence \in Number
      /\ level \in 0..MaxLevel /\ level \in Nat /\ 0 \in Number
  BY <1>1, ClientFields, ConstantFacts DEF Number
<1>3. Plain(b) \in Message
  BY <1>2, NothingTyped DEF Plain, Message
<1>4. /\ Plain(b).seq = b.outgoingSequence /\ Plain(b).level = level
      /\ Plain(b).base = 0 /\ Plain(b).snap = FALSE
  BY DEF Plain
<1>5. Transmitted(b, nx).outgoingSequence = b.outgoingSequence + 1
  BY <1>1, TransmittedFacts
<1>6. r.last < b.outgoingSequence
  BY <1>1 DEF SnapsOK
<1>7. ~(Plain(b).base > r.forgot)
  BY <1>1, <1>4, SnapsFacts
<1> QED
  BY <1>2, <1>3, <1>4, <1>5, <1>6, <1>7 DEF MessageOK

\* A base that is usable is one the client has, unless it was made to
\* forget it, and is read as it was shown
LEMMA BaseOK ==
    ASSUME NEW b, NEW rings, NEW nx, NEW r, Writing(b, rings, nx, r), Usable(b, nx)
    PROVE  /\ b.deltaMessage \in Number /\ b.deltaMessage # 0
           /\ b.deltaMessage > b.outgoingSequence - PACKET_BACKUP
           /\ b.deltaMessage <= r.last /\ b.state = "CS_ACTIVE"
           /\ FrameOf(b, b.deltaMessage) \in Frame
           /\ ~r.raced /\ b.deltaMessage > r.forgot =>
                 /\ b.deltaMessage \in DOMAIN r.snaps
                 /\ Entries(rings, FrameOf(b, b.deltaMessage)) = r.snaps[b.deltaMessage]
<1> DEFINE d == b.deltaMessage
           out == b.outgoingSequence
<1>1. /\ b \in ClientSet /\ nx \in Positions /\ r \in RemoteSet
      /\ r.level = level /\ SnapsOK(b, rings, nx, level, r) /\ DeltaOK(b, r)
      /\ b.state = "CS_ACTIVE" /\ d > 0 /\ out - d < PACKET_BACKUP - Margin
      /\ \A k \in Kind : FrameOf(b, d).first[k] >= nx[k] - Size[k]
  BY DEF Writing, Usable
<1>2. /\ d \in Int /\ d \in -1..MaxMessage /\ out \in Nat /\ r.last \in Nat
      /\ r.forgot \in Nat
  BY <1>1, ClientFields, SnapsFacts
<1>3. d \in Nat /\ d \in Number /\ d # 0
  BY <1>1, <1>2, ConstantFacts DEF Number
<1>4. d > out - PACKET_BACKUP
  BY <1>1, <1>2, ConstantFacts
<1>5. FrameOf(b, d) \in Frame
  BY <1>1, <1>2, FrameTyped
<1>6. Recent(b, d)
  BY <1>4 DEF Recent
<1>7. d <= r.last /\ (d > r.forgot => d \in DOMAIN r.snaps)
  <2>1. Known(r, d)
    BY <1>1 DEF DeltaOK
  <2>2. r.last < out
    BY <1>1 DEF SnapsOK
  <2>3. ~(d <= r.last - PACKET_BACKUP)
    BY <1>2, <1>4, <2>2, ConstantFacts
  <2> HIDE DEF d, out
  <2> QED
    BY <1>2, <2>1, <2>3 DEF Known
<1>8. ASSUME ~r.raced, d > r.forgot
      PROVE  Entries(rings, FrameOf(b, d)) = r.snaps[d]
  <2>1. r.snaps[d] = Shown(FrameOf(b, d), d) /\ Held(rings, nx, FrameOf(b, d), d)
    BY <1>1, <1>6, <1>7, <1>8 DEF SnapsOK
  <2> QED
    BY <1>1, <1>5, <2>1, EntriesHeld
<1> QED
  BY <1>1, <1>3, <1>4, <1>5, <1>7, <1>8

LEMMA SnapshotOK ==
    ASSUME NEW b, NEW rings, NEW nx, NEW r, Writing(b, rings, nx, r), Ready(b, rings, nx),
           b.state \in {"CS_ACTIVE", "CS_ZOMBIE"}, NEW forDemo \in BOOLEAN
    PROVE  LET m == Snapshot(b, rings, nx, forDemo)
           IN  /\ m \in Message /\ m.seq = b.outgoingSequence
               /\ MessageOK(m, Transmitted(b, nx), rings, nx, level, r)
<1> DEFINE m == Snapshot(b, rings, nx, forDemo)
           t == Transmitted(b, nx)
           out == b.outgoingSequence
           base == IF Usable(b, nx) /\ ~forDemo THEN b.deltaMessage ELSE 0
           old == IF base = 0 THEN Nothing ELSE Entries(rings, FrameOf(b, base))
           new == Entries(rings, FrameOf(b, out))
<1>1. /\ b \in ClientSet /\ out <= MaxMessage /\ nx \in Positions /\ RingsTyped(rings)
      /\ r \in RemoteSet /\ level \in 1..MaxLevel /\ r.level <= level
      /\ b.state = "CS_ACTIVE" => r.level = level
      /\ SnapsOK(b, rings, nx, level, r)
  BY DEF Writing
<1>2. m = MessageWith(Plain(b), base, old, new)
  BY DEF Snapshot, MessageWith
<1>3. /\ out \in Nat /\ out \in Number /\ level \in 0..MaxLevel /\ level \in Nat
      /\ 0 \in Number /\ r.last \in Nat /\ r.level \in Nat /\ r.forgot \in Nat
  BY <1>1, ClientFields, SnapsFacts, ConstantFacts DEF Number
<1>4. base = 0 \/ (Usable(b, nx) /\ base = b.deltaMessage)
  OBVIOUS
<1>5. base # 0 =>
         /\ base \in Number /\ base > out - PACKET_BACKUP /\ b.state = "CS_ACTIVE"
         /\ FrameOf(b, base) \in Frame /\ old = Entries(rings, FrameOf(b, base))
         /\ base <= r.last
         /\ ~r.raced /\ base > r.forgot => base \in DOMAIN r.snaps /\ old = r.snaps[base]
  BY <1>4, BaseOK
<1>6. base \in Number
  BY <1>3, <1>4, <1>5
<1>7. old \in Content
  <2>1. CASE base = 0
    BY <2>1, NothingTyped
  <2>2. CASE base # 0
    BY <1>1, <1>5, <2>2, EntriesTyped
  <2> QED
    BY <2>1, <2>2
<1>8. FrameOf(b, out) \in Frame /\ new \in Content
  BY <1>1, <1>3, FrameTyped, EntriesTyped
<1>9. new = Shown(FrameOf(b, out), out) /\ Held(rings, nx, FrameOf(b, out), out)
  BY DEF Ready
<1> HIDE DEF m, base, old, new
<1>10. /\ m \in Message /\ m.seq = out /\ m.level = level /\ m.snap
       /\ m.base = base /\ m.old = old /\ m.new = new
  <2>1. Plain(b) \in Message /\ Plain(b).seq = out /\ Plain(b).level = level
    BY PlainOK DEF Plain
  <2> QED
    BY <1>2, <1>6, <1>7, <1>8, <2>1, MessageWithFacts
<1>11. /\ t.outgoingSequence = out + 1 /\ t.state = b.state
       /\ \A n \in Int : out + 1 - PACKET_BACKUP < n /\ n <= out => FrameOf(t, n) = FrameOf(b, n)
  BY <1>1, TransmittedFacts DEF SameOtherwise
<1> HIDE DEF t
<1>12. Recent(t, out) => FrameOf(t, out) = FrameOf(b, out)
  BY <1>3, <1>11, ConstantFacts DEF Recent
<1>13. Own(new, out)
  BY <1>9, ShownOwn
<1>14. r.last < out
  BY <1>1 DEF SnapsOK
<1>15. m.base # 0 => /\ m.snap /\ m.base > m.seq - PACKET_BACKUP
                     /\ m.base <= r.last /\ m.level <= r.level
  BY <1>1, <1>3, <1>5, <1>10
<1>16. t.state # "CS_ZOMBIE" => m.level <= r.level
  BY <1>1, <1>3, <1>10, <1>11
<1>17. Recent(t, m.seq) => /\ m.new = Shown(FrameOf(t, m.seq), m.seq)
                           /\ Held(rings, nx, FrameOf(t, m.seq), m.seq)
  BY <1>9, <1>10, <1>12
<1>18. r.last < m.seq /\ m.seq < t.outgoingSequence /\ m.level <= level /\ r.level <= m.level
  BY <1>1, <1>3, <1>10, <1>11, <1>14
<1>19. ~r.raced /\ m.base > r.forgot =>
          m.base \in DOMAIN r.snaps /\ m.old = r.snaps[m.base]
  <2>1. m.base > r.forgot => m.base # 0
    BY <1>3
  <2> QED
    BY <1>5, <1>10, <2>1
<1>20. MessageOK(m, t, rings, nx, level, r)
  BY <1>10, <1>13, <1>15, <1>16, <1>17, <1>18, <1>19 DEF MessageOK
<1> QED
  BY <1>10, <1>20 DEF m, t

LEMMA WrittenOK ==
    ASSUME NEW b, NEW rings, NEW nx, NEW r, Writing(b, rings, nx, r), Ready(b, rings, nx),
           NEW m \in Written(b, rings, nx)
    PROVE  /\ m \in Message /\ m.seq = b.outgoingSequence
           /\ MessageOK(m, Transmitted(b, nx), rings, nx, level, r)
<1>1. CASE m = Plain(b)
  BY <1>1, PlainOK
<1>2. CASE m # Plain(b)
  <2>1. b.state \in {"CS_ACTIVE", "CS_ZOMBIE"}
    BY <1>2 DEF Written
  <2>2. PICK forDemo \in BOOLEAN : m = Snapshot(b, rings, nx, forDemo)
    BY <1>2, <2>1 DEF Written
  <2> QED
    BY <2>1, <2>2, SnapshotOK
<1> QED
  BY <1>1, <1>2

-----------------------------------------------------------------------------
(* The server's steps.                                                     *)

LEMMA TypedFacts ==
    ASSUME Inv
    PROVE  /\ next \in Positions /\ RingsTyped(ring) /\ level \in 1..MaxLevel
           /\ level \in Nat /\ toClient \in Seq(Message) /\ remote \in RemoteSet
           /\ client \in ClientSet /\ ClientOK(client)
           /\ remote.level <= level /\ remote.level \in Nat
<1>1. /\ next \in Positions /\ RingsTyped(ring) /\ level \in 1..MaxLevel
      /\ toClient \in Seq(Message) /\ remote \in RemoteSet /\ ClientOK(client)
      /\ remote.level <= level
  BY DEF Inv, Typed, Positions, RingsTyped, LevelsOK
<1>2. level \in Nat /\ client \in ClientSet /\ remote.level \in Nat
  BY <1>1, ConstantFacts, SnapsFacts DEF ClientOK
<1> QED
  BY <1>1, <1>2

LEMMA TransmittedKept ==
    ASSUME NEW b \in ClientSet, b.outgoingSequence <= MaxMessage, NEW nx \in Positions,
           NEW rings, NEW nx1, NEW lv \in Nat
    PROVE  Kept(b, rings, nx1, lv, Transmitted(b, nx), rings, nx1, lv)
<1> DEFINE t == Transmitted(b, nx)
           out == b.outgoingSequence
<1>1. /\ t.outgoingSequence = out + 1 /\ t.state = b.state
      /\ \A n \in Int : out + 1 - PACKET_BACKUP < n /\ n <= out => FrameOf(t, n) = FrameOf(b, n)
  BY TransmittedFacts DEF SameOtherwise
<1>2. out \in Nat
  BY ClientFields
<1> HIDE DEF t, out
<1>3. ASSUME NEW n \in Nat, n < out, Recent(t, n)
      PROVE  FrameOf(t, n) = FrameOf(b, n)
  <2>1. n > out + 1 - PACKET_BACKUP
    BY <1>1, <1>2, <1>3, ConstantFacts DEF Recent
  <2>2. out + 1 - PACKET_BACKUP < n /\ n <= out
    BY <1>2, <1>3, <2>1, ConstantFacts
  <2> QED
    BY <1>1, <2>2
<1>4. out <= t.outgoingSequence
  BY <1>1, <1>2
<1>5. \A n \in Nat : n < out /\ Recent(t, n) =>
          /\ FrameOf(t, n) = FrameOf(b, n)
          /\ lv = lv /\ Held(rings, nx1, FrameOf(b, n), n) =>
                Held(rings, nx1, FrameOf(t, n), n)
  BY <1>3
<1> QED
  BY <1>1, <1>4, <1>5 DEF Kept, t, out

\* A message is written from b, what became of the client in the step, and
\* goes out
LEMMA SentOK ==
    ASSUME Inv, CanSend(client), NEW b \in ClientSet,
           b.outgoingSequence = client.outgoingSequence,
           b.deltaMessage < client.outgoingSequence, DeltaOK(b, remote),
           b.gamestateMessageNum <= client.outgoingSequence,
           b.state = "CS_ACTIVE" => client.state = "CS_ACTIVE",
           NEW rings, RingsTyped(rings), NEW nx \in Positions,
           Kept(client, ring, next, level, b, rings, nx, level), Ready(b, rings, nx),
           NEW m \in Written(b, rings, nx)
    PROVE  LET t == Transmitted(b, nx)
           IN  /\ ClientOK(t) /\ SameOtherwise(b, t)
               /\ MessagesOK(Append(toClient, m), t, rings, nx, level, remote)
               /\ SnapsOK(t, rings, nx, level, remote)
               /\ Append(toClient, m) \in Seq(Message)
               /\ \A lv \in Nat : \A nx1 : Kept(b, rings, nx1, lv, t, rings, nx1, lv)
<1> DEFINE t == Transmitted(b, nx)
           out == client.outgoingSequence
<1>1. /\ level \in 1..MaxLevel /\ level \in Nat /\ toClient \in Seq(Message)
      /\ remote \in RemoteSet /\ client \in ClientSet /\ ClientOK(client)
      /\ remote.level <= level
  BY TypedFacts
<1>2. /\ out <= MaxMessage /\ out \in Nat /\ b.deltaMessage \in Int
      /\ b.gamestateMessageNum \in Int
  BY <1>1, ClientFields DEF CanSend
<1>3. /\ MessagesOK(toClient, b, rings, nx, level, remote)
      /\ SnapsOK(b, rings, nx, level, remote)
  BY <1>1, MessagesKept, SnapsKept DEF Inv
<1>4. b.deltaMessage < out /\ (b.state = "CS_ACTIVE" => remote.level = level)
  BY <1>1 DEF Inv, LevelsOK
<1>5. Writing(b, rings, nx, remote)
  BY <1>1, <1>2, <1>3, <1>4 DEF Writing
<1>6. /\ m \in Message /\ m.seq = out
      /\ MessageOK(m, Transmitted(b, nx), rings, nx, level, remote)
  BY <1>5, WrittenOK
<1>7. /\ t \in ClientSet /\ t.outgoingSequence = out + 1 /\ SameOtherwise(b, t)
      /\ \A k \in Kind : FrameOf(t, out + 1).num[k] = 0
  BY <1>2, TransmittedFacts
<1>8. \A lv \in Nat : \A nx1 : Kept(b, rings, nx1, lv, t, rings, nx1, lv)
  BY <1>2, TransmittedKept
<1>9. MessageOK(m, t, rings, nx, level, remote)
  BY <1>6
<1> HIDE DEF t
<1>10. /\ MessagesOK(toClient, t, rings, nx, level, remote)
       /\ SnapsOK(t, rings, nx, level, remote)
  BY <1>1, <1>3, <1>7, <1>8, MessagesKept, SnapsKept
<1>11. \A i \in 1..Len(toClient) : toClient[i].seq < m.seq
  BY <1>3, <1>6 DEF MessagesOK, MessageOK
<1>12. /\ MessagesOK(Append(toClient, m), t, rings, nx, level, remote)
       /\ Append(toClient, m) \in Seq(Message)
  BY <1>1, <1>6, <1>7, <1>9, <1>10, <1>11, MessageAdded
<1>13. t.deltaMessage < t.outgoingSequence /\ t.gamestateMessageNum < t.outgoingSequence
  BY <1>2, <1>4, <1>7 DEF SameOtherwise
<1>14. ClientOK(t)
  BY <1>7, <1>13 DEF ClientOK
<1> QED
  BY <1>7, <1>8, <1>10, <1>12, <1>14 DEF t

\* The rings after a frame: what others see before and after, and what the
\* client sees between
LEMMA RingsAfter ==
    ASSUME NEW rings, RingsTyped(rings), NEW nx \in Positions,
           NEW before \in Positions, NEW own \in Positions, NEW after \in Positions,
           NEW n \in Number
    PROVE  LET at == Sum(nx, before)
               end == Sum(Sum(at, own), after)
               rings2 == Put(Put(Put(rings, nx, before, 0), at, own, n),
                             Sum(at, own), after, 0)
           IN  /\ at \in Positions /\ end \in Positions /\ RingsTyped(rings2)
               /\ \A k \in Kind : end[k] = nx[k] + before[k] + own[k] + after[k]
               /\ \A k \in Kind : at[k] = nx[k] + before[k]
               /\ \A frame \in Frame : \A j : Held(rings, nx, frame, j) =>
                     Held(rings2, end, frame, j)
               /\ Held(rings2, end, [first |-> at, num |-> own], n)
<1> DEFINE at == Sum(nx, before)
           mid == Sum(at, own)
           end == Sum(mid, after)
           ringsA == Put(rings, nx, before, 0)
           ringsB == Put(ringsA, at, own, n)
           rings2 == Put(ringsB, mid, after, 0)
           f == [first |-> at, num |-> own]
<1>1. at \in Positions /\ \A k \in Kind : at[k] = nx[k] + before[k]
  BY SumFacts
<1>2. 0 \in Number
  BY ConstantFacts DEF Number
<1>3. RingsTyped(ringsA) /\ \A frame \in Frame : \A j : Held(rings, nx, frame, j) =>
                              Held(ringsA, at, frame, j)
  BY <1>2, PutTyped, PutKeeps
<1> HIDE DEF at, ringsA
<1>4. mid \in Positions /\ \A k \in Kind : mid[k] = at[k] + own[k]
  BY <1>1, SumFacts
<1>5. RingsTyped(ringsB) /\ \A frame \in Frame : \A j : Held(ringsA, at, frame, j) =>
                              Held(ringsB, mid, frame, j)
  BY <1>1, <1>3, PutTyped, PutKeeps
<1>6. f \in Frame
  BY <1>1, FrameIn
<1>7. Held(ringsB, mid, f, n)
  BY <1>1, PutWrites
<1> HIDE DEF mid, ringsB, f
<1>8. end \in Positions /\ \A k \in Kind : end[k] = mid[k] + after[k]
  BY <1>4, SumFacts
<1>9. RingsTyped(rings2) /\ \A frame \in Frame : \A j : Held(ringsB, mid, frame, j) =>
                              Held(rings2, end, frame, j)
  BY <1>2, <1>4, <1>5, PutTyped, PutKeeps
<1> HIDE DEF end, rings2
<1>10. ASSUME NEW k \in Kind
       PROVE  end[k] = nx[k] + before[k] + own[k] + after[k]
  <2>1. nx[k] \in Nat /\ before[k] \in Nat /\ own[k] \in Nat /\ after[k] \in Nat
    BY PositionType
  <2> QED
    BY <1>1, <1>4, <1>8, <2>1
<1>11. \A frame \in Frame : \A j : Held(rings, nx, frame, j) => Held(rings2, end, frame, j)
  BY <1>3, <1>5, <1>9
<1>12. Held(rings2, end, f, n)
  BY <1>6, <1>7, <1>9
<1> QED
  BY <1>1, <1>8, <1>9, <1>10, <1>11, <1>12 DEF at, mid, end, ringsA, ringsB, rings2, f

\* What the invariant says after a step
InvP ==
    /\ Typed'
    /\ ClientOK(client')
    /\ MessagesOK(toClient', client', ring', next', level', remote')
    /\ SnapsOK(client', ring', next', level', remote')
    /\ LevelsOK(client', gamestates', level', remote')
    /\ DeltaOK(client', remote')
    /\ \A p \in toServer' : PacketOK(p, remote')

\* Writing no entries leaves the rings, whatever the entry
LEMMA PutNothing ==
    ASSUME NEW rings, NEW at \in Positions, NEW n
    PROVE  Put(rings, at, NoEntries, n) = Put(rings, at, NoEntries, 0)
<1>1. \A k \in Kind : at[k]..(at[k] + NoEntries[k] - 1) = {}
  BY PositionType, NoEntriesFacts
<1> DEFINE put(j) == [k \in Kind |-> [s \in 0..(Size[k] - 1) |->
                        IF \E i \in at[k]..(at[k] + NoEntries[k] - 1) : i % Size[k] = s
                        THEN j ELSE rings[k][s]]]
           none == [k \in Kind |-> [s \in 0..(Size[k] - 1) |-> rings[k][s]]]
<1>2. ASSUME NEW j
      PROVE  put(j) = none
  BY <1>1
<1> QED
  BY <1>2 DEF Put

LEMMA SeenAndOthers ==
    /\ Seen \subseteq Positions /\ Others \subseteq Positions
    /\ \A own \in Seen, before, after \in Others, k \in Kind :
          before[k] + own[k] + after[k] <= Size[k]
BY FrameFits DEF Positions

LEMMA SendClientMessagesStep ==
    ASSUME Inv, NEW due \in BOOLEAN, SendClientMessages(due)
    PROVE  InvP
<1>1. PICK before \in Others, after \in Others, own \in Seen \cup {NoEntries} :
        LET at == Sum(next, before)
            cl == Built(client, at, own)
        IN  /\ own = NoEntries <=> ~(due /\ client.state = "CS_ACTIVE")
            /\ next' = Sum(Sum(at, own), after)
            /\ ring' = Put(Put(Put(ring, next, before, 0),
                               at, own, client.outgoingSequence),
                           Sum(at, own), after, 0)
            /\ IF due
               THEN /\ \E m \in Written(cl, ring', next') : toClient' = Append(toClient, m)
                    /\ client' = Transmitted(cl, next')
               ELSE UNCHANGED <<client, toClient>>
  BY DEF SendClientMessages
<1> DEFINE at == Sum(next, before)
           cl == Built(client, at, own)
           out == client.outgoingSequence
           entry == IF due THEN out ELSE 0
           frame == [first |-> at, num |-> own]
<1>2. /\ next \in Positions /\ RingsTyped(ring) /\ level \in 1..MaxLevel
      /\ level \in Nat /\ toClient \in Seq(Message) /\ remote \in RemoteSet
      /\ client \in ClientSet /\ ClientOK(client)
      /\ remote.level <= level /\ remote.level \in Nat
  BY TypedFacts
<1>3. /\ before \in Positions /\ after \in Positions /\ own \in Positions
  BY SeenAndOthers, NoEntriesFacts
<1>4. /\ level' = level /\ gamestates' = gamestates /\ toServer' = toServer
      /\ remote' = remote /\ (due => CanSend(client))
  BY DEF SendClientMessages
<1>5. at \in Positions
  BY <1>2, <1>3, SumFacts
<1>6. /\ next' = Sum(Sum(at, own), after)
      /\ ring' = Put(Put(Put(ring, next, before, 0), at, own, entry),
                     Sum(at, own), after, 0)
  <2>1. CASE due
    BY <1>1, <2>1
  <2>2. CASE ~due
    <3>1. own = NoEntries
      BY <1>1, <2>2
    <3>2. Put(Put(ring, next, before, 0), at, own, out) =
             Put(Put(ring, next, before, 0), at, own, entry)
      BY <1>5, <2>2, <3>1, PutNothing
    <3> QED
      BY <1>1, <3>2
  <2> QED
    BY <2>1, <2>2
<1>7. out \in Nat /\ entry \in Number
  <2>1. out \in Nat
    BY <1>2, ClientFields
  <2>2. due => out <= MaxMessage
    BY <1>4 DEF CanSend
  <2> QED
    BY <2>1, <2>2, ConstantFacts DEF Number
<1> HIDE DEF entry
<1>8. /\ next' \in Positions /\ RingsTyped(ring')
      /\ \A k \in Kind : next'[k] = next[k] + before[k] + own[k] + after[k]
      /\ \A k \in Kind : at[k] = next[k] + before[k]
      /\ \A f \in Frame : \A j : Held(ring, next, f, j) => Held(ring', next', f, j)
      /\ Held(ring', next', frame, entry)
  BY <1>2, <1>3, <1>6, <1>7, RingsAfter
<1> HIDE DEF at
<1>9. ASSUME NEW b \in ClientSet, b.outgoingSequence = out, b.state = client.state,
             \A n \in Int : out - PACKET_BACKUP < n /\ n < out =>
                 FrameOf(b, n) = FrameOf(client, n)
      PROVE  Kept(client, ring, next, level, b, ring', next', level)
  <2>1. ASSUME NEW n \in Nat, n < out, Recent(b, n)
        PROVE  /\ FrameOf(b, n) = FrameOf(client, n)
               /\ Held(ring, next, FrameOf(client, n), n) =>
                     Held(ring', next', FrameOf(b, n), n)
    <3>1. FrameOf(b, n) = FrameOf(client, n)
      BY <1>9, <2>1 DEF Recent
    <3>2. FrameOf(client, n) \in Frame
      BY <1>2, FrameTyped
    <3> QED
      BY <1>8, <3>1, <3>2
  <2>2. out <= b.outgoingSequence /\ level <= level
    BY <1>2, <1>7, <1>9
  <2> HIDE DEF out
  <2>3. \A n \in Nat : n < out /\ Recent(b, n) =>
          /\ FrameOf(b, n) = FrameOf(client, n)
          /\ level = level /\ Held(ring, next, FrameOf(client, n), n) =>
                Held(ring', next', FrameOf(b, n), n)
    BY <2>1
  <2> QED
    BY <1>9, <2>2, <2>3 DEF Kept, out
<1>10. /\ Typed => next' \in [Kind -> Nat]
       /\ \A k \in Kind : ring'[k] \in [0..(Size[k] - 1) -> Number]
  BY <1>8 DEF Positions, RingsTyped
<1>11. CASE ~due
  <2>1. client' = client /\ toClient' = toClient
    BY <1>1, <1>11
  <2>2. Kept(client, ring, next, level, client, ring', next', level)
    BY <1>2, <1>9
  <2>3. /\ MessagesOK(toClient, client, ring', next', level, remote)
        /\ SnapsOK(client, ring', next', level, remote)
    BY <1>2, <2>2, MessagesKept, SnapsKept DEF Inv
  <2> QED
    BY <1>4, <1>10, <2>1, <2>3 DEF Inv, InvP, Typed
<1>12. CASE due
  <2>1. PICK m \in Written(cl, ring', next') : toClient' = Append(toClient, m)
    BY <1>1, <1>12 DEF at
  <2>2. client' = Transmitted(cl, next')
    BY <1>1, <1>12 DEF at
  <2>3. /\ cl \in ClientSet /\ cl.outgoingSequence = out /\ SameOtherwise(client, cl)
        /\ \A n \in Int : out - PACKET_BACKUP < n /\ n < out =>
              FrameOf(cl, n) = FrameOf(client, n)
        /\ IF client.state = "CS_ACTIVE" THEN FrameOf(cl, out) = frame
           ELSE \A k \in Kind : FrameOf(cl, out).num[k] = 0
    BY <1>2, <1>3, <1>5, BuiltFacts
  <2> HIDE DEF cl
  <2>4. FrameOf(cl, out) \in Frame
    BY <1>7, <2>3, FrameTyped
  <2>5. Ready(cl, ring', next')
    <3>1. CASE client.state = "CS_ACTIVE"
      <4>1. FrameOf(cl, out) = frame /\ entry = out /\ own \in Seen
        BY <1>1, <1>12, <2>3, <3>1 DEF entry
      <4>2. \A k \in Kind : frame.first[k] >= next'[k] - Size[k]
        <5> SUFFICES ASSUME NEW k \in Kind
                     PROVE  frame.first[k] >= next'[k] - Size[k]
          OBVIOUS
        <5>1. /\ before[k] + own[k] + after[k] <= Size[k]
              /\ next'[k] = next[k] + before[k] + own[k] + after[k]
              /\ at[k] = next[k] + before[k] /\ frame.first = at
          BY <1>8, <4>1, SeenAndOthers
        <5>2. /\ before[k] \in Nat /\ own[k] \in Nat /\ after[k] \in Nat
              /\ next[k] \in Nat /\ Size[k] \in Nat
          BY <1>2, <1>3, PositionType, ConstantFacts
        <5> QED
          BY <5>1, <5>2
      <4>3. Held(ring', next', frame, out)
        BY <1>8, <4>1
      <4> HIDE DEF frame
      <4>4. Entries(ring', frame) = Shown(frame, out)
        BY <1>8, <2>4, <4>1, <4>2, <4>3, EntriesHeld
      <4> QED
        BY <2>3, <4>1, <4>3, <4>4 DEF Ready
    <3>2. CASE client.state # "CS_ACTIVE"
      BY <2>3, <2>4, <3>2, EmptyFrame DEF Ready
    <3> QED
      BY <3>1, <3>2
  <2>6. /\ cl.deltaMessage = client.deltaMessage /\ cl.state = client.state
        /\ cl.gamestateSent = client.gamestateSent
        /\ cl.gamestateMessageNum = client.gamestateMessageNum
        /\ cl.gamestateMessageNum <= out /\ cl.deltaMessage < out
        /\ DeltaOK(cl, remote)
    BY <1>2, <1>7, <2>3, ClientFields DEF SameOtherwise, ClientOK, Inv, DeltaOK
  <2>7. Kept(client, ring, next, level, cl, ring', next', level)
    BY <1>9, <2>3, <2>6
  <2>8. /\ ClientOK(client') /\ SameOtherwise(cl, client')
        /\ MessagesOK(toClient', client', ring', next', level, remote)
        /\ SnapsOK(client', ring', next', level, remote)
        /\ toClient' \in Seq(Message)
    BY <1>4, <1>8, <1>12, <2>1, <2>2, <2>3, <2>5, <2>6, <2>7, SentOK
  <2>9. /\ client'.deltaMessage = client.deltaMessage /\ client'.state = client.state
        /\ client'.gamestateSent = client.gamestateSent
    BY <2>6, <2>8 DEF SameOtherwise
  <2>10. LevelsOK(client', gamestates, level, remote) /\ DeltaOK(client', remote)
    BY <2>9 DEF Inv, LevelsOK, DeltaOK
  <2> QED
    BY <1>4, <1>10, <2>8, <2>10 DEF Inv, InvP, Typed
<1> QED
  BY <1>11, <1>12

\* The frames are not touched, the rest may be
SameFrames(cl, b) ==
    b.outgoingSequence = cl.outgoingSequence /\ b.frames = cl.frames

LEMMA SameKept ==
    ASSUME NEW cl \in ClientSet, NEW b \in ClientSet, SameFrames(cl, b),
           b.state # "CS_ZOMBIE" => cl.state # "CS_ZOMBIE",
           NEW rings, NEW nx, NEW nx2, NEW lv \in Nat, NEW lv2 \in Nat, lv <= lv2,
           lv2 = lv => nx2 = nx
    PROVE  Kept(cl, rings, nx, lv, b, rings, nx2, lv2)
<1>1. cl.outgoingSequence <= b.outgoingSequence
  BY ClientFields DEF SameFrames
<1>2. \A n \in Nat : FrameOf(b, n) = FrameOf(cl, n)
  BY DEF SameFrames, FrameOf
<1>3. ASSUME NEW n \in Nat, lv2 = lv, Held(rings, nx, FrameOf(cl, n), n)
      PROVE  Held(rings, nx2, FrameOf(b, n), n)
  BY <1>2, <1>3
<1> QED
  BY <1>1, <1>2, <1>3 DEF Kept

LEMMA SameClientOK ==
    ASSUME NEW cl, ClientOK(cl), NEW b \in ClientSet, SameFrames(cl, b),
           b.deltaMessage < b.outgoingSequence,
           b.gamestateMessageNum < b.outgoingSequence
    PROVE  ClientOK(b)
BY DEF ClientOK, SameFrames, FrameOf

LEMMA ReconnectedFacts ==
    ASSUME NEW cl \in ClientSet
    PROVE  /\ Reconnected(cl) \in ClientSet /\ SameFrames(cl, Reconnected(cl))
           /\ Reconnected(cl).deltaMessage = cl.deltaMessage
           /\ Reconnected(cl).gamestateMessageNum = cl.gamestateMessageNum
           /\ Reconnected(cl).state # "CS_ACTIVE"
           /\ Reconnected(cl).state # "CS_ZOMBIE" => cl.state # "CS_ZOMBIE"
BY DEF Reconnected, SameFrames, ClientSet, State

\* A new map begins for a client that was sent what it was sent
LEMMA NewMap ==
    ASSUME Inv, SpawnServer, NEW t, client' = Reconnected(t), ClientOK(t),
           NEW tc, toClient' = tc, tc \in Seq(Message),
           MessagesOK(tc, t, ring, next, level, remote),
           SnapsOK(t, ring, next, level, remote)
    PROVE  InvP
<1> DEFINE lv == level + 1
           b == Reconnected(t)
<1>1. /\ level \in 1..MaxLevel /\ level \in Nat /\ remote \in RemoteSet
      /\ remote.level <= level /\ remote.level \in Nat /\ RingsTyped(ring)
      /\ gamestates \in Seq([level : 1..MaxLevel])
  BY TypedFacts DEF Inv, Typed
<1>2. /\ level < MaxLevel /\ level' = lv /\ next' = NoEntries /\ ring' = ring
      /\ gamestates' = gamestates /\ toServer' = toServer /\ remote' = remote
  BY DEF SpawnServer
<1>3. lv \in Nat /\ lv \in 1..MaxLevel /\ level <= lv /\ lv # level
  BY <1>1, <1>2, ConstantFacts
<1>4. /\ t \in ClientSet /\ t.outgoingSequence \in Nat
      /\ t.deltaMessage < t.outgoingSequence
      /\ t.gamestateMessageNum < t.outgoingSequence
  BY ClientFields DEF ClientOK
<1>5. /\ b \in ClientSet /\ SameFrames(t, b) /\ b.deltaMessage = t.deltaMessage
      /\ b.gamestateMessageNum = t.gamestateMessageNum /\ b.state # "CS_ACTIVE"
      /\ b.state # "CS_ZOMBIE" => t.state # "CS_ZOMBIE"
  BY <1>4, ReconnectedFacts
<1> HIDE DEF b
<1>6. Kept(t, ring, next, level, b, ring, NoEntries, lv)
  <2> HIDE DEF lv
  <2> QED
    BY <1>1, <1>3, <1>4, <1>5, SameKept
<1>7. ClientOK(b)
  BY <1>4, <1>5, SameClientOK DEF SameFrames
<1>8. /\ MessagesOK(tc, b, ring, NoEntries, lv, remote)
      /\ SnapsOK(b, ring, NoEntries, lv, remote)
  <2> HIDE DEF lv
  <2> QED
    BY <1>1, <1>3, <1>4, <1>5, <1>6, MessagesKept, SnapsKept
<1>9. LevelsOK(b, gamestates, lv, remote)
  <2>1. \A i \in 1..Len(gamestates) :
           /\ gamestates[i].level \in Nat /\ remote.level <= gamestates[i].level
           /\ gamestates[i].level <= level
    <3> TAKE i \in 1..Len(gamestates)
    <3>1. gamestates[i] \in [level : 1..MaxLevel]
      BY <1>1, ElementOfSeq
    <3>2. gamestates[i].level \in Nat
      BY <3>1, ConstantFacts
    <3> QED
      BY <3>2 DEF Inv, LevelsOK
  <2>2. \A i \in 1..Len(gamestates) : gamestates[i].level < lv /\ gamestates[i].level <= lv
    BY <1>1, <2>1
  <2>3. remote.level < lv /\ remote.level <= lv
    BY <1>1
  <2> HIDE DEF lv
  <2> QED
    BY <1>5, <2>1, <2>2, <2>3 DEF Inv, LevelsOK
<1>10. DeltaOK(b, remote)
  BY <1>5 DEF DeltaOK
<1>11. NoEntries \in [Kind -> Nat] /\ client' = b
  BY NoEntriesFacts DEF Positions, b
<1> HIDE DEF lv
<1> QED
  BY <1>2, <1>3, <1>7, <1>8, <1>9, <1>10, <1>11 DEF Inv, InvP, Typed

\* The frame of the next message is empty between the frames
LEMMA EmptyReady ==
    ASSUME NEW cl \in ClientSet,
           \A k \in Kind : FrameOf(cl, cl.outgoingSequence).num[k] = 0,
           NEW rings, NEW nx
    PROVE  Ready(cl, rings, nx)
<1>1. FrameOf(cl, cl.outgoingSequence) \in Frame
  BY ClientFields, FrameTyped
<1> QED
  BY <1>1, EmptyFrame DEF Ready

LEMMA SpawnServerStep ==
    ASSUME Inv, SpawnServer
    PROVE  InvP
<1>1. /\ next \in Positions /\ RingsTyped(ring) /\ level \in Nat
      /\ client \in ClientSet /\ ClientOK(client) /\ toClient \in Seq(Message)
  BY TypedFacts
<1>2. CASE client.state \in {"CS_PRIMED", "CS_ACTIVE"}
  <2> DEFINE t == Transmitted(client, next)
  <2>1. CanSend(client) /\ client' = Reconnected(t)
    BY <1>2 DEF SpawnServer
  <2>2. PICK m \in Written(client, ring, next) : toClient' = Append(toClient, m)
    BY <1>2 DEF SpawnServer
  <2>3. Kept(client, ring, next, level, client, ring, next, level)
    BY <1>1, SameKept DEF SameFrames
  <2>4. /\ client.gamestateMessageNum <= client.outgoingSequence
        /\ client.deltaMessage < client.outgoingSequence /\ DeltaOK(client, remote)
    BY <1>1, ClientFields DEF ClientOK, Inv
  <2>5. /\ ClientOK(t)
        /\ MessagesOK(Append(toClient, m), t, ring, next, level, remote)
        /\ SnapsOK(t, ring, next, level, remote)
        /\ Append(toClient, m) \in Seq(Message)
    <3>1. Ready(client, ring, next)
      BY <1>1, EmptyReady DEF ClientOK
    <3> QED
      BY <1>1, <2>1, <2>3, <2>4, <3>1, SentOK
  <2> QED
    BY <2>1, <2>2, <2>5, NewMap
<1>3. CASE client.state \notin {"CS_PRIMED", "CS_ACTIVE"}
  <2>1. client' = Reconnected(client) /\ toClient' = toClient
    BY <1>3 DEF SpawnServer
  <2> QED
    BY <1>1, <2>1, NewMap DEF Inv
<1> QED
  BY <1>2, <1>3

\* A step that changes only the client's record, and not its frames
LEMMA RecordStep ==
    ASSUME Inv, NEW b \in ClientSet, client' = b, SameFrames(client, b),
           b.deltaMessage < b.outgoingSequence,
           b.gamestateMessageNum = client.gamestateMessageNum,
           b.gamestateSent = client.gamestateSent,
           b.state # "CS_ZOMBIE" => client.state # "CS_ZOMBIE",
           b.state = "CS_ACTIVE" => remote.level = level,
           DeltaOK(b, remote),
           UNCHANGED <<next, ring, level, toClient, gamestates, remote>>,
           toServer' = {} \/ toServer' = toServer
    PROVE  InvP
<1>1. /\ level \in Nat /\ remote \in RemoteSet /\ client \in ClientSet
      /\ ClientOK(client) /\ toClient \in Seq(Message) /\ remote.level <= level
  BY TypedFacts
<1>2. ClientOK(b)
  BY <1>1, SameClientOK DEF ClientOK, SameFrames
<1>3. Kept(client, ring, next, level, b, ring, next, level)
  BY <1>1, SameKept
<1>4. /\ MessagesOK(toClient, b, ring, next, level, remote)
      /\ SnapsOK(b, ring, next, level, remote)
  BY <1>1, <1>3, MessagesKept, SnapsKept DEF Inv
<1>5. LevelsOK(b, gamestates, level, remote)
  BY DEF Inv, LevelsOK
<1>6. toServer' \in SUBSET Packet /\ (toServer' = {} \/ \E p \in Packet : toServer' = {p})
  BY DEF Inv, Typed
<1>7. \A p \in toServer' : PacketOK(p, remote)
  BY DEF Inv
<1>8. Typed'
  BY <1>6 DEF Inv, Typed
<1> QED
  BY <1>2, <1>4, <1>5, <1>7, <1>8 DEF InvP

LEMMA MapRestartStep ==
    ASSUME Inv, MapRestart
    PROVE  InvP
<1> DEFINE b == [client EXCEPT !.deltaMessage = -1]
<1>1. client \in ClientSet /\ ClientOK(client)
  BY TypedFacts
<1>2. /\ b \in ClientSet /\ SameFrames(client, b) /\ b.deltaMessage = -1
      /\ b.gamestateMessageNum = client.gamestateMessageNum
      /\ b.gamestateSent = client.gamestateSent /\ b.state = client.state
  BY <1>1, ConstantFacts DEF ClientSet, SameFrames
<1>3. client' = b
  BY DEF MapRestart
<1> HIDE DEF b
<1>4. b.deltaMessage < b.outgoingSequence /\ DeltaOK(b, remote)
  BY <1>2, ClientFields DEF DeltaOK
<1> QED
  BY <1>2, <1>3, <1>4, RecordStep DEF MapRestart, Inv, LevelsOK

LEMMA DropClientStep ==
    ASSUME Inv, DropClient
    PROVE  InvP
<1> DEFINE b == [client EXCEPT !.state = "CS_ZOMBIE"]
<1>1. client \in ClientSet /\ ClientOK(client)
  BY TypedFacts
<1>2. /\ b \in ClientSet /\ SameFrames(client, b) /\ b.deltaMessage = client.deltaMessage
      /\ b.gamestateMessageNum = client.gamestateMessageNum
      /\ b.gamestateSent = client.gamestateSent /\ b.state = "CS_ZOMBIE"
  BY <1>1 DEF ClientSet, SameFrames, State
<1>3. client' = b
  BY DEF DropClient
<1> HIDE DEF b
<1>4. b.deltaMessage < b.outgoingSequence /\ DeltaOK(b, remote)
  BY <1>1, <1>2 DEF ClientOK, DeltaOK, SameFrames
<1> QED
  BY <1>2, <1>3, <1>4, RecordStep DEF DropClient

-----------------------------------------------------------------------------
(* The client's packets.                                                   *)

LEMMA PacketFields ==
    ASSUME NEW p \in Packet
    PROVE  /\ p.ack \in Number /\ p.ack \in Nat /\ p.level \in Nat
           /\ p.move \in {"delta", "nodelta", "none"}
<1>1. p.ack \in Number /\ p.level \in 0..MaxLevel /\ p.move \in {"delta", "nodelta", "none"}
  BY DEF Packet
<1>2. \A n \in Number : n \in Nat
  BY ConstantFacts DEF Number
<1>3. p.ack \in Nat /\ p.level \in Nat
  BY <1>1, <1>2, ConstantFacts
<1> QED
  BY <1>1, <1>3

\* The gamestate of a map, for the first time or again, to a client that may
\* just have acknowledged another message
LEMMA GamestateSentStep ==
    ASSUME Inv, client.state # "CS_ZOMBIE",
           NEW cl \in ClientSet, SameFrames(client, cl),
           cl.deltaMessage < cl.outgoingSequence, SendClientGameState(cl),
           toServer' = {} \/ toServer' = toServer,
           UNCHANGED <<next, ring, level, remote>>
    PROVE  InvP
<1> DEFINE b == [cl EXCEPT !.state = "CS_PRIMED", !.gamestateSent = TRUE,
                           !.gamestateMessageNum = cl.outgoingSequence]
           t == Transmitted(b, next)
           g == [level |-> level]
           gs == Append(gamestates, g)
<1>1. /\ next \in Positions /\ RingsTyped(ring) /\ level \in Nat /\ level \in 1..MaxLevel
      /\ client \in ClientSet /\ ClientOK(client) /\ toClient \in Seq(Message)
      /\ gamestates \in Seq([level : 1..MaxLevel]) /\ remote.level <= level
      /\ remote.level \in Nat
  BY TypedFacts DEF Inv, Typed
<1>2. /\ CanSend(cl) /\ toClient' = Append(toClient, Plain(cl))
      /\ gamestates' = gs /\ client' = t
  BY DEF SendClientGameState
<1>3. CanSend(client) /\ cl.outgoingSequence \in -1..MaxMessage
  BY <1>1, <1>2, ClientFields, ConstantFacts DEF CanSend, SameFrames
<1>4. /\ b \in ClientSet /\ SameFrames(client, b) /\ b.deltaMessage = cl.deltaMessage
      /\ b.gamestateMessageNum = cl.outgoingSequence
      /\ b.outgoingSequence = cl.outgoingSequence
      /\ b.state = "CS_PRIMED" /\ b.gamestateSent
  BY <1>1, <1>3 DEF ClientSet, SameFrames, State
<1>5. /\ Plain(b) = Plain(cl) /\ Plain(b) \in Written(b, ring, next)
  BY <1>4 DEF Plain, Written, SameFrames
<1> HIDE DEF b
<1>6. Kept(client, ring, next, level, b, ring, next, level)
  BY <1>1, <1>4, SameKept
<1>7. Ready(b, ring, next)
  BY <1>1, <1>4, EmptyReady DEF ClientOK, SameFrames, FrameOf
<1>8. /\ b.gamestateMessageNum <= client.outgoingSequence
      /\ b.deltaMessage < client.outgoingSequence /\ DeltaOK(b, remote)
  BY <1>1, <1>4, ClientFields DEF SameFrames, DeltaOK
<1>9. /\ ClientOK(t) /\ SameOtherwise(b, t)
      /\ MessagesOK(Append(toClient, Plain(b)), t, ring, next, level, remote)
      /\ SnapsOK(t, ring, next, level, remote)
      /\ Append(toClient, Plain(b)) \in Seq(Message)
  BY <1>1, <1>3, <1>4, <1>5, <1>6, <1>7, <1>8, SentOK DEF SameFrames
<1> HIDE DEF t
<1>10. /\ gs \in Seq([level : 1..MaxLevel]) /\ Len(gs) = Len(gamestates) + 1
       /\ Len(gamestates) \in Nat /\ gs[Len(gamestates) + 1] = g
       /\ \A i \in 1..Len(gamestates) : gs[i] = gamestates[i]
  BY <1>1, AppendProperties, LenProperties
<1>11. LevelsOK(t, gs, level, remote)
  <2>1. \A i \in 1..Len(gamestates) :
           remote.level <= gs[i].level /\ gs[i].level <= level
    BY <1>10 DEF Inv, LevelsOK
  <2>2. \A i \in 1..Len(gs) : i \in 1..Len(gamestates) \/ (i = Len(gamestates) + 1 /\ gs[i].level = level)
    BY <1>10
  <2>3. \A i \in 1..Len(gs) : remote.level <= gs[i].level /\ gs[i].level <= level
    BY <1>1, <2>1, <2>2
  <2>4. ASSUME NEW i \in 1..Len(gs), NEW j \in 1..Len(gs), i < j
        PROVE  gs[i].level <= gs[j].level
    <3>1. i \in 1..Len(gamestates) /\ gs[i] = gamestates[i]
      BY <1>10, <2>4
    <3>2. CASE j \in 1..Len(gamestates)
      BY <1>10, <2>4, <3>1, <3>2 DEF Inv, LevelsOK
    <3>3. CASE gs[j].level = level
      BY <2>1, <3>1, <3>3
    <3> QED
      BY <2>2, <3>2, <3>3
  <2>5. t.state = "CS_PRIMED" /\ t.gamestateSent
    BY <1>4, <1>9 DEF SameOtherwise
  <2> HIDE DEF gs, g
  <2> QED
    BY <1>1, <2>3, <2>4, <2>5 DEF LevelsOK
<1>12. DeltaOK(t, remote)
  BY <1>4, <1>9 DEF SameOtherwise, DeltaOK
<1> HIDE DEF gs
<1>13. /\ toServer' \in SUBSET Packet
       /\ (toServer' = {} \/ \E p \in Packet : toServer' = {p})
       /\ \A p \in toServer' : PacketOK(p, remote)
  BY DEF Inv, Typed
<1>14. Typed'
  BY <1>2, <1>5, <1>9, <1>10, <1>13 DEF Inv, Typed
<1> QED
  BY <1>2, <1>5, <1>9, <1>11, <1>12, <1>13, <1>14 DEF InvP

LEMMA GamestateAnyTime ==
    ASSUME Inv, client.state # "CS_ZOMBIE", SendClientGameState(client),
           toServer' = {} \/ toServer' = toServer,
           UNCHANGED <<next, ring, level, remote>>
    PROVE  InvP
<1>1. /\ client \in ClientSet /\ SameFrames(client, client)
      /\ client.deltaMessage < client.outgoingSequence
  BY TypedFacts DEF SameFrames, ClientOK
<1> QED
  BY <1>1, GamestateSentStep

\* What a move acknowledges
LEMMA AcknowledgedFacts ==
    ASSUME Inv, NEW p \in toServer
    PROVE  /\ Acknowledged(p) \in -1..MaxMessage
           /\ Acknowledged(p) < client.outgoingSequence
           /\ p.level = remote.level /\ Acknowledged(p) > 0 =>
                 Known(remote, Acknowledged(p))
<1>1. /\ p \in Packet /\ PacketOK(p, remote) /\ remote \in RemoteSet
      /\ client \in ClientSet
  BY TypedFacts DEF Inv, Typed
<1>2. /\ p.ack \in Nat /\ p.ack \in -1..MaxMessage /\ remote.last \in Nat
      /\ client.outgoingSequence \in Nat /\ client.outgoingSequence > 0
  BY <1>1, PacketFields, SnapsFacts, ClientFields, ConstantFacts DEF Number
<1>3. p.ack <= remote.last /\ remote.last < client.outgoingSequence
  BY <1>1 DEF PacketOK, Inv, SnapsOK
<1>4. Acknowledged(p) = -1 \/ (Acknowledged(p) = p.ack /\ p.move = "delta")
  BY DEF Acknowledged
<1>5. Acknowledged(p) > 0 => p.move = "delta" /\ Acknowledged(p) = p.ack
  BY <1>4
<1> QED
  BY <1>1, <1>2, <1>3, <1>4, <1>5, ConstantFacts DEF PacketOK

LEMMA UserMoveStep ==
    ASSUME Inv, NEW p \in toServer, NEW heeded \in BOOLEAN, p.level = level,
           client.state # "CS_ZOMBIE", client' = UserMove(client, p, heeded),
           UNCHANGED <<next, ring, level, toClient, gamestates, remote>>, toServer' = {}
    PROVE  InvP
<1> DEFINE b == UserMove(client, p, heeded)
           entered == heeded /\ client.state = "CS_PRIMED"
           early == heeded /\ client.state = "CS_CONNECTED"
           state == IF entered THEN "CS_ACTIVE" ELSE client.state
           delta == IF entered \/ early THEN -1 ELSE Acknowledged(p)
<1>1. /\ client \in ClientSet /\ ClientOK(client) /\ remote \in RemoteSet
      /\ remote.level <= level /\ remote.level \in Nat /\ level \in Nat
  BY TypedFacts
<1>2. p \in Packet /\ PacketOK(p, remote)
  BY DEF Inv, Typed
<1>3. remote.level = level
  BY <1>1, <1>2 DEF PacketOK
<1>4. delta = -1 \/ delta = Acknowledged(p)
  OBVIOUS
<1>5. client.outgoingSequence \in Nat /\ client.state \in State
  BY <1>1, ClientFields
<1>6. delta \in -1..MaxMessage /\ delta < client.outgoingSequence
  <2> HIDE DEF delta
  <2> QED
    BY <1>4, <1>5, AcknowledgedFacts, ConstantFacts
<1>7. delta > 0 => Known(remote, delta)
  <2> HIDE DEF delta
  <2> QED
    BY <1>3, <1>4, AcknowledgedFacts
<1>8. b = [client EXCEPT !.state = state, !.deltaMessage = delta]
  BY <1>1 DEF UserMove, ClientSet
<1>9. state \in State /\ (state # "CS_ZOMBIE" => client.state # "CS_ZOMBIE")
  BY <1>5 DEF State
<1> HIDE DEF b, state, delta
<1>10. /\ b \in ClientSet /\ SameFrames(client, b) /\ b.deltaMessage = delta
       /\ b.gamestateMessageNum = client.gamestateMessageNum
       /\ b.gamestateSent = client.gamestateSent /\ b.state = state
  BY <1>1, <1>6, <1>8, <1>9 DEF ClientSet, SameFrames
<1>11. b.deltaMessage < b.outgoingSequence /\ DeltaOK(b, remote)
  BY <1>6, <1>7, <1>10 DEF SameFrames, DeltaOK
<1>12. client' = b
  BY DEF b
<1> QED
  BY <1>3, <1>9, <1>10, <1>11, <1>12, RecordStep

LEMMA MoveUnauthenticatedStep ==
    ASSUME Inv, NEW p \in toServer, MoveUnauthenticated(client, p), toServer' = {},
           UNCHANGED <<next, ring, level, remote>>
    PROVE  InvP
<1> DEFINE delta == Acknowledged(p)
           b == [client EXCEPT !.deltaMessage = delta]
<1>1. client \in ClientSet
  BY TypedFacts
<1>2. delta \in -1..MaxMessage /\ delta < client.outgoingSequence
  BY AcknowledgedFacts
<1>3. SendClientGameState(b) /\ client.state # "CS_ZOMBIE"
  BY DEF MoveUnauthenticated
<1> HIDE DEF delta
<1>4. b \in ClientSet /\ SameFrames(client, b) /\ b.deltaMessage = delta
  BY <1>1, <1>2 DEF ClientSet, SameFrames
<1>5. b.deltaMessage < b.outgoingSequence
  BY <1>2, <1>4 DEF SameFrames
<1> HIDE DEF b
<1> QED
  BY <1>3, <1>4, <1>5, GamestateSentStep

LEMMA PacketEventStep ==
    ASSUME Inv, PacketEvent
    PROVE  InvP
<1>1. PICK p \in toServer, heeded \in BOOLEAN :
        /\ toServer' = {}
        /\ \/ /\ client.state # "CS_ZOMBIE" /\ p.level # level
              /\ ~client.gamestateSent /\ p.ack > client.gamestateMessageNum
              /\ SendClientGameState(client)
           \/ /\ client.state # "CS_ZOMBIE" /\ p.level = level /\ p.move # "none"
              /\ client' = UserMove(client, p, heeded)
              /\ UNCHANGED <<toClient, gamestates>>
           \/ /\ p.level = level /\ p.move # "none"
              /\ MoveUnauthenticated(client, p)
           \/ /\ client.state = "CS_ZOMBIE" \/ p.level # level \/ p.move = "none"
              /\ UNCHANGED <<client, toClient, gamestates>>
        /\ UNCHANGED <<next, ring, level, remote>>
  BY DEF PacketEvent
<1>2. CASE client.state # "CS_ZOMBIE" /\ SendClientGameState(client)
  BY <1>1, <1>2, GamestateAnyTime
<1>3. CASE /\ client.state # "CS_ZOMBIE" /\ p.level = level
           /\ client' = UserMove(client, p, heeded)
           /\ UNCHANGED <<toClient, gamestates>>
  BY <1>1, <1>3, UserMoveStep
<1>4. CASE UNCHANGED <<client, toClient, gamestates>>
  <2>1. client \in ClientSet /\ ClientOK(client)
    BY TypedFacts
  <2>2. SameFrames(client, client)
    BY DEF SameFrames
  <2>3. /\ client.state = "CS_ACTIVE" => remote.level = level
        /\ DeltaOK(client, remote)
    BY DEF Inv, LevelsOK
  <2> QED
    BY <1>1, <1>4, <2>1, <2>2, <2>3, RecordStep DEF ClientOK
<1>5. CASE MoveUnauthenticated(client, p)
  BY <1>1, <1>5, MoveUnauthenticatedStep
<1> QED
  BY <1>1, <1>2, <1>3, <1>4, <1>5

LEMMA DownloadOverStep ==
    ASSUME Inv, DownloadOver
    PROVE  InvP
BY GamestateAnyTime DEF DownloadOver

LEMMA SendPacketStep ==
    ASSUME Inv, SendPacket
    PROVE  InvP
<1> DEFINE move == CASE remote.level = 0 -> "none"
                     [] remote.level # 0 /\ remote.valid -> "delta"
                     [] OTHER -> "nodelta"
           p == [ack |-> remote.last, level |-> remote.level, move |-> move]
<1>1. /\ toServer' = {p}
      /\ UNCHANGED <<next, ring, client, level, toClient, gamestates, remote>>
  BY DEF SendPacket, server
<1>2. remote \in RemoteSet
  BY TypedFacts
<1>3. /\ move \in {"delta", "nodelta", "none"} /\ (move = "delta" => remote.valid)
  <2>1. CASE remote.level = 0
    BY <2>1
  <2>2. CASE remote.level # 0 /\ remote.valid
    BY <2>2
  <2>3. CASE remote.level # 0 /\ ~remote.valid
    BY <2>3
  <2> QED
    BY <2>1, <2>2, <2>3
<1> HIDE DEF move
<1>4. p \in Packet
  BY <1>2, <1>3, SnapsFacts DEF Packet
<1>5. PacketOK(p, remote)
  BY <1>2, <1>3, SnapsFacts DEF PacketOK, Known, Inv, SnapsOK
<1> HIDE DEF p
<1> QED
  BY <1>1, <1>4, <1>5 DEF Inv, InvP, Typed

-----------------------------------------------------------------------------
(* The client's steps.                                                     *)

LEMMA TailTyped ==
    ASSUME NEW S, NEW t \in Seq(S), t # << >>
    PROVE  /\ Tail(t) \in Seq(S) /\ 1 \in 1..Len(t) /\ Head(t) = t[1] /\ t[1] \in S
           /\ Len(t) \in Nat /\ Len(Tail(t)) = Len(t) - 1
           /\ \A k \in 1..Len(Tail(t)) :
                 k \in Nat /\ k + 1 \in 1..Len(t) /\ Tail(t)[k] = t[k + 1]
<1>1. /\ Tail(t) \in Seq(S) /\ Len(Tail(t)) = Len(t) - 1 /\ Head(t) \in S
      /\ \A k \in 1..Len(Tail(t)) : Tail(t)[k] = t[k + 1]
  BY HeadTailProperties
<1>2. Len(t) \in Nat /\ Len(t) # 0 /\ Head(t) = t[1]
  BY LenProperties, EmptySeq
<1> QED
  BY <1>1, <1>2

\* The messages behind the first
LEMMA TailOK ==
    ASSUME NEW tc \in Seq(Message), tc # << >>, NEW cl, NEW rings, NEW nx, NEW lv, NEW r,
           MessagesOK(tc, cl, rings, nx, lv, r)
    PROVE  /\ MessagesOK(Tail(tc), cl, rings, nx, lv, r)
           /\ MessageOK(Head(tc), cl, rings, nx, lv, r) /\ Head(tc) \in Message
           /\ \A i \in 1..Len(Tail(tc)) : Head(tc).seq < Tail(tc)[i].seq
<1> DEFINE rest == Tail(tc)
<1>1. /\ rest \in Seq(Message) /\ 1 \in 1..Len(tc) /\ Head(tc) = tc[1]
      /\ tc[1] \in Message
      /\ \A k \in 1..Len(rest) : k \in Nat /\ k + 1 \in 1..Len(tc) /\ rest[k] = tc[k + 1]
  BY TailTyped
<1> HIDE DEF rest
<1>2. \A i \in 1..Len(rest) : MessageOK(rest[i], cl, rings, nx, lv, r)
  BY <1>1 DEF MessagesOK
<1>3. ASSUME NEW i \in 1..Len(rest), NEW j \in 1..Len(rest), i < j
      PROVE  rest[i].seq < rest[j].seq
  <2>1. i + 1 \in 1..Len(tc) /\ j + 1 \in 1..Len(tc) /\ i + 1 < j + 1
    BY <1>1, <1>3
  <2> QED
    BY <1>1, <2>1 DEF MessagesOK
<1>4. ASSUME NEW i \in 1..Len(rest)
      PROVE  Head(tc).seq < rest[i].seq
  <2>1. i + 1 \in 1..Len(tc) /\ 1 < i + 1
    BY <1>1
  <2> QED
    BY <1>1, <2>1 DEF MessagesOK
<1>5. MessageOK(Head(tc), cl, rings, nx, lv, r)
  BY <1>1 DEF MessagesOK
<1> QED
  BY <1>1, <1>2, <1>3, <1>4, <1>5 DEF MessagesOK, rest

LEMMA LoseMessageStep ==
    ASSUME Inv, LoseMessage
    PROVE  InvP
<1>1. /\ toClient # << >> /\ toClient' = Tail(toClient) /\ UNCHANGED <<next, ring, client>>
      /\ UNCHANGED <<level, gamestates, toServer, remote>>
  BY DEF LoseMessage, server
<1>2. toClient \in Seq(Message)
  BY TypedFacts
<1>3. /\ Tail(toClient) \in Seq(Message)
      /\ MessagesOK(Tail(toClient), client, ring, next, level, remote)
  BY <1>1, <1>2, TailTyped, TailOK DEF Inv
<1> QED
  BY <1>1, <1>3 DEF Inv, InvP, Typed

\* The client's side after message m, with the snapshots snaps
Got(r, last, valid, snaps) ==
    [r EXCEPT !.last = last, !.valid = valid, !.snaps = snaps]

LEMMA GotFacts ==
    ASSUME NEW r \in RemoteSet, NEW last \in Number, NEW valid \in BOOLEAN,
           NEW snaps \in SnapsSet
    PROVE  /\ Got(r, last, valid, snaps) \in RemoteSet
           /\ Got(r, last, valid, snaps).last = last
           /\ Got(r, last, valid, snaps).valid = valid
           /\ Got(r, last, valid, snaps).snaps = snaps
           /\ Got(r, last, valid, snaps).level = r.level
           /\ Got(r, last, valid, snaps).raced = r.raced
           /\ Got(r, last, valid, snaps).forgot = r.forgot
BY DEF Got, RemoteSet

LEMMA DecodedTyped ==
    ASSUME NEW m \in Message
    PROVE  Decoded(m) \in Content
<1>1. m.new \in Content
  BY MessageFields
<1>2. -1 \in -1..MaxMessage
  BY ConstantFacts
<1>3. [k \in Kind |-> {-1}] \in Content
  BY <1>2 DEF Content
<1> QED
  BY <1>1, <1>3 DEF Decoded

\* The snapshots with numbers in D: that of n is c, the others are kept
SnapsWith(D, n, c, old) == [i \in D |-> IF i = n THEN c ELSE old[i]]

LEMMA SnapsWithFacts ==
    ASSUME NEW D \in SUBSET Number, NEW n, NEW c \in Content, NEW old,
           \A i \in D : i = n \/ old[i] \in Content
    PROVE  /\ SnapsWith(D, n, c, old) \in SnapsSet /\ DOMAIN SnapsWith(D, n, c, old) = D
           /\ \A i \in D : SnapsWith(D, n, c, old)[i] = IF i = n THEN c ELSE old[i]
<1>1. SnapsWith(D, n, c, old) \in [D -> Content]
  BY DEF SnapsWith
<1>2. SnapsWith(D, n, c, old) \in SnapsSet
  BY <1>1 DEF SnapsSet
<1> QED
  BY <1>2 DEF SnapsWith

LEMMA ReceiveMessageStep ==
    ASSUME Inv, ReceiveMessage
    PROVE  InvP
<1> DEFINE m == Head(toClient)
           rest == Tail(toClient)
           kept == {n \in DOMAIN remote.snaps : n > m.seq - PACKET_BACKUP}
           valid == m.snap /\ (m.base = 0 \/ m.base \in kept)
           D == kept \cup (IF valid THEN {m.seq} ELSE {})
           snaps == [n \in D |-> IF n = m.seq THEN Decoded(m) ELSE remote.snaps[n]]
           r == Got(remote, m.seq, valid, snaps)
<1>1. /\ toClient # << >> /\ toClient' = rest /\ UNCHANGED <<next, ring, client>>
      /\ UNCHANGED <<level, gamestates, toServer>> /\ remote' = r
  BY DEF ReceiveMessage, server, Got
<1>2. /\ toClient \in Seq(Message) /\ remote \in RemoteSet /\ client \in ClientSet
      /\ level \in Nat /\ remote.level \in Nat /\ remote.level <= level
      /\ RingsTyped(ring)
  BY TypedFacts
<1>3. /\ rest \in Seq(Message) /\ m \in Message
      /\ MessagesOK(rest, client, ring, next, level, remote)
      /\ MessageOK(m, client, ring, next, level, remote)
      /\ \A i \in 1..Len(rest) : m.seq < rest[i].seq
  BY <1>1, <1>2, TailTyped, TailOK DEF Inv
<1> HIDE DEF m, rest
<1>4. /\ m.seq \in Number /\ m.seq \in Nat /\ m.level \in Nat /\ m.base \in Nat
      /\ m.snap \in BOOLEAN /\ remote.last \in Nat /\ remote.forgot \in Nat
      /\ \A n \in DOMAIN remote.snaps : n \in Number /\ n \in Nat /\ remote.snaps[n] \in Content
      /\ Decoded(m) \in Content
  BY <1>2, <1>3, MessageFields, SnapsFacts, DecodedTyped
<1>5. /\ SnapsOK(client, ring, next, level, remote)
      /\ remote.last < m.seq /\ m.seq < client.outgoingSequence
      /\ remote.forgot <= remote.last
      /\ \A n \in DOMAIN remote.snaps : remote.forgot < n /\ n <= remote.last
  BY <1>3 DEF Inv, MessageOK, SnapsOK
<1>6. \A n \in DOMAIN remote.snaps : n # m.seq /\ n < m.seq
  BY <1>4, <1>5
<1>7. /\ kept \subseteq DOMAIN remote.snaps
      /\ \A n \in DOMAIN remote.snaps : n \in kept <=> n > m.seq - PACKET_BACKUP
  OBVIOUS
<1>8. valid \in BOOLEAN /\ (valid => m.snap /\ (m.base = 0 \/ m.base \in kept))
  OBVIOUS
<1> HIDE DEF kept, valid
<1>9. /\ D \in SUBSET Number /\ kept \subseteq D /\ (valid => m.seq \in D)
      /\ \A n \in D : n \in kept \/ (n = m.seq /\ valid)
  BY <1>4, <1>7
<1> HIDE DEF D
<1>10. /\ snaps \in SnapsSet /\ DOMAIN snaps = D
       /\ \A n \in D : snaps[n] = IF n = m.seq THEN Decoded(m) ELSE remote.snaps[n]
  <2> DEFINE c == Decoded(m)
             old == remote.snaps
  <2>1. \A n \in D : n = m.seq \/ old[n] \in Content
    BY <1>4, <1>7, <1>9
  <2>2. c \in Content /\ snaps = SnapsWith(D, m.seq, c, old)
    BY <1>4 DEF SnapsWith
  <2> HIDE DEF c, old, snaps
  <2>3. /\ snaps \in SnapsSet /\ DOMAIN snaps = D
        /\ \A n \in D : snaps[n] = IF n = m.seq THEN c ELSE old[n]
    BY <1>9, <2>1, <2>2, SnapsWithFacts
  <2> QED
    BY <2>3 DEF c, old
<1> HIDE DEF snaps
<1>11. /\ r \in RemoteSet /\ r.last = m.seq /\ r.valid = valid /\ r.snaps = snaps
       /\ r.level = remote.level /\ r.raced = remote.raced
       /\ r.forgot = remote.forgot
  BY <1>2, <1>4, <1>8, <1>10, GotFacts
<1> HIDE DEF r
<1>12. \A n \in kept : n \in DOMAIN r.snaps /\ r.snaps[n] = remote.snaps[n]
  BY <1>6, <1>7, <1>9, <1>10, <1>11
<1>13. ASSUME NEW n \in Int, Known(remote, n)
       PROVE  n <= remote.last /\ Known(r, n)
  <2>1. n <= remote.last /\ n <= m.seq
    BY <1>4, <1>5, <1>13 DEF Known
  <2>2. CASE n \in DOMAIN remote.snaps
    <3>1. n \in kept \/ n <= m.seq - PACKET_BACKUP
      BY <1>4, <1>7, <2>2, ConstantFacts
    <3> QED
      BY <1>11, <1>12, <2>1, <3>1 DEF Known
  <2>3. CASE n <= remote.last - PACKET_BACKUP
    <3>1. n <= m.seq - PACKET_BACKUP
      BY <1>4, <1>5, <1>13, <2>3, ConstantFacts
    <3> QED
      BY <1>11, <2>1, <3>1 DEF Known
  <2>4. CASE n <= remote.forgot
    BY <1>11, <2>1, <2>4 DEF Known
  <2> QED
    BY <1>13, <2>1, <2>2, <2>3, <2>4 DEF Known
<1>14. MessagesOK(rest, client, ring, next, level, r)
  <2> SUFFICES ASSUME NEW i \in 1..Len(rest)
               PROVE  MessageOK(rest[i], client, ring, next, level, r)
    BY <1>3 DEF MessagesOK
  <2> DEFINE x == rest[i]
  <2>1. /\ x \in Message /\ MessageOK(x, client, ring, next, level, remote)
        /\ m.seq < x.seq
    BY <1>3, ElementOfSeq DEF MessagesOK
  <2> HIDE DEF x
  <2>2. x.seq \in Nat /\ x.base \in Nat
    BY <2>1, MessageFields
  <2>3. ASSUME ~r.raced, x.base > r.forgot
        PROVE  x.base \in DOMAIN r.snaps /\ x.old = r.snaps[x.base]
    <3>1. /\ x.base \in DOMAIN remote.snaps /\ x.old = remote.snaps[x.base]
          /\ x.base > x.seq - PACKET_BACKUP
      BY <1>4, <1>11, <2>1, <2>2, <2>3 DEF MessageOK
    <3>2. x.base \in kept
      BY <1>4, <1>7, <2>1, <2>2, <3>1, ConstantFacts
    <3> QED
      BY <1>12, <3>1, <3>2
  <2>4. r.last < x.seq /\ (x.base # 0 => x.base <= r.last)
    BY <1>4, <1>5, <1>11, <2>1, <2>2 DEF MessageOK
  <2>5. MessageOK(x, client, ring, next, level, r)
    BY <1>11, <2>1, <2>3, <2>4 DEF MessageOK
  <2> QED
    BY <2>5 DEF x
<1>15. SnapsOK(client, ring, next, level, r)
  <2>1. ASSUME NEW n \in DOMAIN r.snaps
        PROVE  r.forgot < n /\ n <= r.last
    <3>1. CASE n = m.seq
      BY <1>4, <1>5, <1>11, <3>1
    <3>2. CASE n \in kept
      BY <1>4, <1>5, <1>6, <1>7, <1>11, <3>2
    <3> QED
      BY <1>9, <1>10, <1>11, <2>1, <3>1, <3>2
  <2>2. r.valid => r.last \in DOMAIN r.snaps
    BY <1>9, <1>10, <1>11
  <2>3. ASSUME ~r.raced, NEW n \in DOMAIN r.snaps
        PROVE  /\ Own(r.snaps[n], n)
               /\ Recent(client, n) =>
                    /\ r.snaps[n] = Shown(FrameOf(client, n), n)
                    /\ r.level = level => Held(ring, next, FrameOf(client, n), n)
    <3>1. CASE n \in kept
      BY <1>5, <1>7, <1>11, <1>12, <2>3, <3>1 DEF SnapsOK
    <3>2. CASE n = m.seq /\ valid
      <4>1. r.snaps[n] = Decoded(m)
        BY <1>9, <1>10, <1>11, <3>2
      <4>2. ~remote.raced /\ m.snap
        BY <1>8, <1>11, <2>3, <3>2
      <4>3. Decoded(m) = m.new
        <5>1. m.base # 0 => m.base > remote.forgot
          BY <1>5, <1>7, <1>8, <3>2
        <5> QED
          BY <1>3, <4>2, <5>1 DEF Decoded, MessageOK
      <4>4. /\ Own(m.new, m.seq) /\ remote.level <= m.level /\ m.level <= level
            /\ Recent(client, m.seq) =>
                  /\ m.new = Shown(FrameOf(client, m.seq), m.seq)
                  /\ m.level = level => Held(ring, next, FrameOf(client, m.seq), m.seq)
        BY <1>3, <4>2 DEF MessageOK
      <4>5. remote.level = level => m.level = level
        BY <1>2, <1>4, <4>4
      <4> QED
        BY <1>11, <3>2, <4>1, <4>3, <4>4, <4>5
    <3> QED
      BY <1>9, <1>10, <1>11, <2>3, <3>1, <3>2
  <2>4. r.last < client.outgoingSequence /\ r.forgot <= r.last
    BY <1>4, <1>5, <1>11
  <2> QED
    BY <2>1, <2>2, <2>3, <2>4 DEF SnapsOK
<1>16. LevelsOK(client, gamestates, level, r)
  BY <1>11 DEF Inv, LevelsOK
<1>17. DeltaOK(client, r)
  <2>1. client.deltaMessage \in Int
    BY <1>2, ClientFields
  <2> QED
    BY <1>13, <2>1 DEF Inv, DeltaOK
<1>18. ASSUME NEW p \in toServer
       PROVE  PacketOK(p, r)
  <2>1. p \in Packet /\ PacketOK(p, remote)
    BY DEF Inv, Typed
  <2>2. p.ack \in Nat
    BY <2>1, PacketFields
  <2>3. p.ack <= r.last
    BY <1>4, <1>5, <1>11, <2>1, <2>2 DEF PacketOK
  <2> QED
    BY <1>11, <1>13, <2>1, <2>2, <2>3 DEF PacketOK
<1> QED
  BY <1>1, <1>3, <1>11, <1>14, <1>15, <1>16, <1>17, <1>18 DEF Inv, InvP, Typed

\* The client's side when a gamestate begins map lv
Began(r, lv, raced, forgot) ==
    [r EXCEPT !.level = lv, !.valid = FALSE, !.snaps = << >>, !.forgot = forgot,
              !.raced = raced]

LEMMA NoSnaps == << >> \in SnapsSet /\ DOMAIN << >> = {}
<1>1. << >> \in [{} -> Content]
  OBVIOUS
<1>2. {} \in SUBSET Number
  OBVIOUS
<1> QED
  BY <1>1, <1>2 DEF SnapsSet

LEMMA BeganFacts ==
    ASSUME NEW r \in RemoteSet, NEW lv \in 0..MaxLevel, NEW raced \in BOOLEAN,
           NEW forgot \in Number
    PROVE  /\ Began(r, lv, raced, forgot) \in RemoteSet
           /\ Began(r, lv, raced, forgot).last = r.last
           /\ ~Began(r, lv, raced, forgot).valid
           /\ DOMAIN Began(r, lv, raced, forgot).snaps = {}
           /\ Began(r, lv, raced, forgot).level = lv
           /\ Began(r, lv, raced, forgot).raced = raced
           /\ Began(r, lv, raced, forgot).forgot = forgot
<1> DEFINE none == << >>
<1>1. none \in SnapsSet /\ DOMAIN none = {}
  BY NoSnaps
<1>2. Began(r, lv, raced, forgot) =
         [r EXCEPT !.level = lv, !.valid = FALSE, !.snaps = none, !.forgot = forgot,
                   !.raced = raced]
  BY DEF Began
<1> HIDE DEF none
<1> QED
  BY <1>1, <1>2 DEF RemoteSet

LEMMA ReceiveGamestateStep ==
    ASSUME Inv, ReceiveGamestate
    PROVE  InvP
<1> DEFINE g == Head(gamestates)
           rest == Tail(gamestates)
           lv == g.level
           raced == \E i \in DOMAIN toClient :
                       toClient[i].snap /\ toClient[i].level < lv
           forgot == IF lv = remote.level THEN remote.last ELSE 0
           r == Began(remote, lv, raced, forgot)
<1>1. /\ gamestates # << >> /\ gamestates' = rest /\ UNCHANGED <<next, ring, client, level>>
      /\ UNCHANGED <<toClient, toServer>> /\ remote' = r
  BY DEF ReceiveGamestate, server, Began
<1>2. /\ toClient \in Seq(Message) /\ remote \in RemoteSet /\ client \in ClientSet
      /\ level \in Nat /\ remote.level \in Nat /\ remote.last \in Nat
      /\ gamestates \in Seq([level : 1..MaxLevel])
  BY TypedFacts, SnapsFacts DEF Inv, Typed
<1>3. /\ rest \in Seq([level : 1..MaxLevel]) /\ 1 \in 1..Len(gamestates)
      /\ g = gamestates[1] /\ g \in [level : 1..MaxLevel]
      /\ \A k \in 1..Len(rest) :
            k \in Nat /\ k + 1 \in 1..Len(gamestates) /\ rest[k] = gamestates[k + 1]
  BY <1>1, <1>2, TailTyped
<1>4. /\ lv \in 1..MaxLevel /\ lv \in Nat /\ lv \in 0..MaxLevel
  BY <1>3, ConstantFacts
<1>5. /\ remote.level <= lv /\ lv <= level
      /\ client.state # "CS_ZOMBIE" /\ ~client.gamestateSent => lv < level
      /\ client.state = "CS_ACTIVE" => remote.level = level
  BY <1>3 DEF Inv, LevelsOK
<1>6. /\ raced \in BOOLEAN /\ forgot \in Number /\ forgot \in Nat /\ forgot <= remote.last
      /\ lv = remote.level => forgot = remote.last
  BY <1>2, SnapsFacts, ConstantFacts DEF Number
<1>7. ~raced => \A i \in 1..Len(toClient) : toClient[i].snap => ~(toClient[i].level < lv)
  <2>1. DOMAIN toClient = 1..Len(toClient)
    BY <1>2, LenProperties
  <2> QED
    BY <2>1
<1> HIDE DEF g, rest, raced, forgot, lv
<1>8. /\ r \in RemoteSet /\ r.last = remote.last /\ ~r.valid /\ DOMAIN r.snaps = {}
      /\ r.level = lv /\ r.raced = raced /\ r.forgot = forgot
  BY <1>2, <1>4, <1>6, BeganFacts
<1> HIDE DEF r
<1>9. client.state = "CS_ACTIVE" => lv = remote.level /\ lv = level
  BY <1>2, <1>4, <1>5
<1>10. MessagesOK(toClient, client, ring, next, level, r)
  <2> SUFFICES ASSUME NEW i \in 1..Len(toClient)
               PROVE  MessageOK(toClient[i], client, ring, next, level, r)
    BY DEF Inv, MessagesOK
  <2> DEFINE x == toClient[i]
  <2>1. /\ x \in Message /\ MessageOK(x, client, ring, next, level, remote)
        /\ (~raced => (x.snap => ~(x.level < lv)))
    BY <1>2, <1>7, ElementOfSeq DEF Inv, MessagesOK
  <2> HIDE DEF x
  <2>2. x.level \in Nat /\ x.base \in Nat
    BY <2>1, MessageFields
  <2>3. x.base # 0 => x.snap /\ x.level <= lv /\ x.level <= remote.level
                      /\ x.base <= remote.last
    BY <1>2, <1>4, <1>5, <2>1, <2>2 DEF MessageOK
  <2>4. x.snap /\ client.state # "CS_ZOMBIE" => x.level <= lv
    BY <1>2, <1>4, <1>5, <2>1, <2>2 DEF MessageOK
  <2>5. ~raced /\ x.snap => lv <= x.level
    BY <1>4, <2>1, <2>2
  <2>6. ~(~raced /\ x.base > forgot)
    <3> SUFFICES ASSUME ~raced, x.base > forgot
                 PROVE  FALSE
      OBVIOUS
    <3>1. x.base # 0 /\ x.snap
      BY <1>6, <2>2, <2>3
    <3>2. lv = remote.level
      BY <1>2, <1>4, <1>5, <2>2, <2>3, <2>5, <3>1
    <3> QED
      BY <1>2, <1>6, <2>2, <2>3, <3>1, <3>2
  <2>7. MessageOK(x, client, ring, next, level, r)
    BY <1>8, <2>1, <2>3, <2>4, <2>5, <2>6 DEF MessageOK
  <2> QED
    BY <2>7 DEF x
<1>11. SnapsOK(client, ring, next, level, r)
  BY <1>6, <1>8 DEF Inv, SnapsOK
<1>12. LevelsOK(client, rest, level, r)
  <2>1. ASSUME NEW i \in 1..Len(rest)
        PROVE  /\ lv <= rest[i].level /\ rest[i].level <= level
               /\ client.state # "CS_ZOMBIE" /\ ~client.gamestateSent =>
                     rest[i].level < level
    <3>1. i + 1 \in 1..Len(gamestates) /\ 1 < i + 1 /\ rest[i] = gamestates[i + 1]
      BY <1>3
    <3> QED
      BY <1>3, <3>1 DEF Inv, LevelsOK, lv
  <2>2. ASSUME NEW i \in 1..Len(rest), NEW j \in 1..Len(rest), i < j
        PROVE  rest[i].level <= rest[j].level
    <3>1. i + 1 \in 1..Len(gamestates) /\ j + 1 \in 1..Len(gamestates) /\ i + 1 < j + 1
      BY <1>3, <2>2
    <3> QED
      BY <1>3, <3>1 DEF Inv, LevelsOK
  <2> QED
    BY <1>5, <1>8, <1>9, <2>1, <2>2 DEF LevelsOK
<1>13. DeltaOK(client, r)
  BY <1>6, <1>8, <1>9 DEF Inv, DeltaOK, Known
<1>14. ASSUME NEW p \in toServer
       PROVE  PacketOK(p, r)
  <2>1. p \in Packet /\ PacketOK(p, remote)
    BY DEF Inv, Typed
  <2>2. p.level \in Nat
    BY <2>1, PacketFields
  <2>3. p.level <= lv /\ (p.level = lv => lv = remote.level)
    BY <1>2, <1>4, <1>5, <2>1, <2>2 DEF PacketOK
  <2> QED
    BY <1>6, <1>8, <2>1, <2>3 DEF PacketOK, Known
<1> QED
  BY <1>1, <1>3, <1>8, <1>10, <1>11, <1>12, <1>13, <1>14 DEF Inv, InvP, Typed

-----------------------------------------------------------------------------
(* The theorems.                                                           *)

LEMMA InitInv ==
    ASSUME Init
    PROVE  Inv
<1> DEFINE f == [first |-> NoEntries, num |-> NoEntries]
           frames == [s \in Slot |-> f]
<1>1. /\ next = NoEntries /\ ring = [k \in Kind |-> [s \in 0..(Size[k] - 1) |-> 0]]
      /\ client = [state |-> "CS_CONNECTED", deltaMessage |-> 0, outgoingSequence |-> 1,
                   frames |-> frames,
                   gamestateSent |-> FALSE, gamestateMessageNum |-> -1]
      /\ level = 1 /\ toClient = << >> /\ gamestates = << >> /\ toServer = {}
      /\ remote = [last |-> 0, level |-> 0, valid |-> FALSE, raced |-> FALSE,
                   forgot |-> 0, snaps |-> << >>]
  BY DEF Init
<1>2. f \in Frame /\ \A k \in Kind : f.num[k] = 0
  BY NoEntriesFacts, FrameIn
<1> HIDE DEF f
<1>3. frames \in FramesSet /\ \A s \in Slot : frames[s] = f
  BY <1>2 DEF FramesSet
<1> HIDE DEF frames
<1>4. /\ 0 \in Number /\ 0 \in -1..MaxMessage /\ -1 \in -1..MaxMessage
      /\ 1 \in 1..(MaxMessage + 1) /\ 0 \in 0..MaxLevel /\ 1 \in 1..MaxLevel
  BY ConstantFacts DEF Number
<1>5. /\ client \in ClientSet /\ client.outgoingSequence = 1 /\ client.deltaMessage = 0
      /\ client.gamestateMessageNum = -1 /\ client.frames = frames
      /\ client.state = "CS_CONNECTED"
  BY <1>1, <1>3, <1>4 DEF ClientSet, State, FramesSet
<1>6. ClientOK(client)
  <2>1. 1 % PACKET_BACKUP \in Slot
    BY SlotOfMessage
  <2>2. FrameOf(client, 1) = f
    BY <1>3, <1>5, <2>1 DEF FrameOf
  <2> QED
    BY <1>2, <1>5, <2>2 DEF ClientOK
<1>7. /\ remote \in RemoteSet /\ remote.last = 0 /\ remote.level = 0 /\ ~remote.valid
      /\ remote.forgot = 0 /\ DOMAIN remote.snaps = {}
  <2> DEFINE none == << >>
  <2>1. none \in SnapsSet /\ DOMAIN none = {}
    BY NoSnaps
  <2>2. remote = [last |-> 0, level |-> 0, valid |-> FALSE, raced |-> FALSE,
                  forgot |-> 0, snaps |-> none]
    BY <1>1
  <2> HIDE DEF none
  <2> QED
    BY <1>4, <2>1, <2>2 DEF RemoteSet
<1>8. /\ Len(toClient) = 0 /\ Len(gamestates) = 0
  BY <1>1
<1>9. \A S : << >> \in Seq(S)
  BY EmptySeq
<1>10. RingsTyped(ring)
  BY <1>1, <1>4 DEF RingsTyped
<1>11. Typed
  BY <1>1, <1>4, <1>7, <1>9, <1>10, NoEntriesFacts DEF Typed, Positions, RingsTyped
<1>12. MessagesOK(toClient, client, ring, next, level, remote)
  BY <1>8 DEF MessagesOK
<1>13. SnapsOK(client, ring, next, level, remote)
  BY <1>5, <1>7 DEF SnapsOK
<1>14. LevelsOK(client, gamestates, level, remote)
  BY <1>1, <1>5, <1>7, <1>8 DEF LevelsOK
<1>15. DeltaOK(client, remote)
  BY <1>5 DEF DeltaOK
<1> QED
  BY <1>1, <1>6, <1>11, <1>12, <1>13, <1>14, <1>15 DEF Inv

LEMMA NextInv ==
    ASSUME Inv, [Next]_vars
    PROVE  Inv'
<1>1. SUFFICES InvP
  BY DEF Inv, InvP
<1>2. ASSUME NEW due \in BOOLEAN, SendClientMessages(due)
      PROVE  InvP
  BY <1>2, SendClientMessagesStep
<1>3. CASE SpawnServer
  BY <1>3, SpawnServerStep
<1>4. CASE MapRestart
  BY <1>4, MapRestartStep
<1>5. CASE DropClient
  BY <1>5, DropClientStep
<1>6. CASE PacketEvent \/ DownloadOver
  BY <1>6, PacketEventStep, DownloadOverStep
<1>7. CASE SendPacket
  BY <1>7, SendPacketStep
<1>8. CASE ReceiveMessage
  BY <1>8, ReceiveMessageStep
<1>9. CASE LoseMessage
  BY <1>9, LoseMessageStep
<1>10. CASE ReceiveGamestate
  BY <1>10, ReceiveGamestateStep
<1>11. CASE UNCHANGED vars
  BY <1>11 DEF vars, server, Inv, InvP, Typed
<1> QED
  BY <1>2, <1>3, <1>4, <1>5, <1>6, <1>7, <1>8, <1>9, <1>10, <1>11 DEF Next

\* The inductive invariant holds in every state, for rings of any size, any
\* number of messages remembered and any margin below it.
THEOREM Invariant == Spec => []Inv
BY InitInv, NextInv, PTL DEF Spec

\* svs.nextSnapshotEntities and the rings, the client_t, the messages and the
\* client's snapshots keep their types, and no acknowledge is of a message
\* that was not sent.
THEOREM TypeCorrect == Spec => []TypeOK
<1>1. ASSUME Inv
      PROVE  TypeOK
  <2>1. /\ next \in [Kind -> Nat]
        /\ \A k \in Kind : ring[k] \in [0..(Size[k] - 1) -> Number]
        /\ level \in 1..MaxLevel /\ toClient \in Seq(Message)
        /\ gamestates \in Seq([level : 1..MaxLevel])
        /\ toServer \in SUBSET Packet /\ (toServer = {} \/ \E p \in Packet : toServer = {p})
        /\ remote \in RemoteSet /\ ClientOK(client)
    BY <1>1 DEF Inv, Typed
  <2>2. Cardinality(toServer) <= 1
    <3>1. \A p : Cardinality({p}) = 1
      BY FS_Singleton
    <3>2. Cardinality({}) = 0
      BY FS_EmptySet
    <3>3. CASE toServer = {}
      BY <3>2, <3>3
    <3>4. ASSUME NEW p, toServer = {p}
          PROVE  Cardinality(toServer) <= 1
      <4>1. Cardinality(toServer) = 1
        BY <3>1, <3>4
      <4> QED
        BY <4>1
    <3> QED
      BY <2>1, <3>3, <3>4
  <2>3. /\ remote.last \in Number /\ remote.level \in 0..MaxLevel
        /\ {remote.valid, remote.raced} \subseteq BOOLEAN /\ remote.forgot \in Number
        /\ \A n \in DOMAIN remote.snaps : n \in Number /\ remote.snaps[n] \in Content
    BY <2>1, SnapsFacts
  <2> QED
    BY <2>1, <2>2, <2>3 DEF TypeOK, ClientOK, ClientSet
<1> QED
  BY <1>1, Invariant, PTL

\* The client sees what the server saw: a difference is taken to entries that
\* are still those of its base, whatever all clients' snapshots wrote since,
\* and the client decodes it with the same ones.
THEOREM WhatWasSeen == Spec => []SeesTheGame
<1>1. Inv => SeesTheGame
  BY DEF Inv, SnapsOK, Own, SeesTheGame
<1> QED
  BY <1>1, Invariant, PTL

\* The client has the base of every difference on its way to it, whatever was
\* lost, refused or overflowed before: the choice of oldframe is sound.
THEOREM BaseIsThere == Spec => []HasBase
<1>1. ASSUME Inv
      PROVE  HasBase
  <2>1. toClient \in Seq(Message) /\ MessagesOK(toClient, client, ring, next, level, remote)
    BY <1>1 DEF Inv, Typed
  <2>2. DOMAIN toClient = 1..Len(toClient)
    BY <2>1, LenProperties
  <2> QED
    BY <2>1, <2>2 DEF HasBase, MessagesOK, MessageOK
<1> QED
  BY <1>1, Invariant, PTL

\* A client is sent no snapshot of a map it has not begun: SV_SpawnServer
\* takes it out of the game until it moves on the new one.
THEOREM MapsInOrder == Spec => []OwnMap
<1>1. ASSUME Inv
      PROVE  OwnMap
  <2>1. toClient \in Seq(Message) /\ MessagesOK(toClient, client, ring, next, level, remote)
    BY <1>1 DEF Inv, Typed
  <2>2. DOMAIN toClient = 1..Len(toClient)
    BY <2>1, LenProperties
  <2> QED
    BY <2>1, <2>2 DEF OwnMap, MessagesOK, MessageOK
<1> QED
  BY <1>1, Invariant, PTL

=============================================================================
