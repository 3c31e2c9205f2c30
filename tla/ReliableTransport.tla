-------------------------- MODULE ReliableTransport --------------------------
(***************************************************************************)
(* The reliable message transport of net_reliabletransport.c: a sliding    *)
(* window with cumulative and selective acknowledges, run by the server    *)
(* and by the client over UDP, one netreliablemsg_t at each end.           *)
(*                                                                         *)
(* Both ends run the same code, so every variable is a function of the     *)
(* endpoint.  A fragment is named by its sequence number; what it carries  *)
(* is a member of Data.  Stream[e] is what the application at e queues, in *)
(* order: the protocol never looks at a payload.  delivered[e], the only   *)
(* history variable, is what the application at e has been handed.         *)
(*                                                                         *)
(* Time is abstracted: a frame transmits zero or more times, and the       *)
(* 350 ms between two bare acknowledges are a bare acknowledge that may    *)
(* be sent at any moment.                                                  *)
(***************************************************************************)
EXTENDS Integers, Sequences, FiniteSets

CONSTANTS
    Server, Client,  \* the two endpoints
    Data, NoData,    \* what a fragment carries; what an unset slot holds
    Stream,          \* Stream[e] : what the application at e queues
    TxWindow,        \* txwindow.windowsize, 20 in the code
    RxWindow,        \* rxwindow.windowsize, 4 in the code
    BufferSize,      \* DEFAULT_BUFFER_SIZE, 32 in the code
    Greedy,          \* the endpoints whose application reads all it can
    MaxInFlight,     \* bound: packets on the way to one endpoint
    MaxFaults        \* bound: packets lost or duplicated

Endpoint == {Server, Client}

ASSUME EndpointAssumption == Server # Client /\ Greedy \subseteq Endpoint

ASSUME DataAssumption ==
    NoData \notin Data /\ Stream \in [Endpoint -> Seq(Data)]

\* RxWindow <= 4 keeps a selective acknowledge list at two ranges or fewer,
\* so that the loop that writes it never stops early.
ASSUME WindowAssumption ==
    /\ TxWindow \in Nat /\ RxWindow \in 1..4 /\ BufferSize \in Nat
    /\ RxWindow <= TxWindow /\ TxWindow <= BufferSize

ASSUME BoundAssumption == MaxInFlight \in Nat /\ MaxFaults \in Nat

VARIABLES
    txSequence,     \* [Endpoint -> Nat] the next fragment to queue
    txAcknowledge,  \* [Endpoint -> Nat] the oldest fragment still buffered
    txFrame,        \* [Endpoint -> Nat] the next fragment to transmit
    txBufferlen,    \* [Endpoint -> Nat] the length of the send ring
    txFragments,    \* the send ring: slot Index(s, txBufferlen) keeps s
    rxSequence,     \* [Endpoint -> Nat] the next fragment to hand out
    rxFragments,    \* the receive ring, of BufferSize slots
    rxSelackoffset, \* where the next selective acknowledge list starts
    net,            \* [Endpoint -> set of packets on the way to it]
    faults,         \* packets lost or duplicated so far
    delivered       \* [Endpoint -> Seq(Data)] what the application was handed

txVars == <<txSequence, txAcknowledge, txFrame, txBufferlen, txFragments>>
rxVars == <<rxSequence, rxFragments, rxSelackoffset, delivered>>
netVars == <<net, faults>>
vars == <<txVars, rxVars, netVars>>

Peer(e) == IF e = Server THEN Client ELSE Server

Slot == [data : Data \cup {NoData}, ack : Int]
Unset == [data |-> NoData, ack |-> -1]
Packet == [sequence : Int, acknowledge : Nat, selack : SUBSET Nat,
           data : Data \cup {NoData}]

-----------------------------------------------------------------------------
(* The rings *)

\* The slot of a ring of len slots that fragment s goes to.
Index(s, len) == s % len

\* Mutant of Arrived: the slot is in use, for whatever fragment.
ArrivedAny(e, s) == rxFragments[e][Index(s, BufferSize)].ack >= 0

\* Fragment s is in its slot of the receive ring.
Arrived(e, s) == rxFragments[e][Index(s, BufferSize)].ack = s

\* ReliableMessagesGetAcknowledge: the next n fragments have arrived; there
\* are no more than n of them.
Readable(e, n) == \A s \in rxSequence[e]..(rxSequence[e] + n - 1) : Arrived(e, s)

NoneAfter(e, n) == n = RxWindow \/ ~Arrived(e, rxSequence[e] + n)

\* ReliableMessageWriteSelectiveAcklist: the fragments of the receive window,
\* from selackoffset on, that have arrived.
SelectiveAcks(e) ==
    {s \in (rxSequence[e] + rxSelackoffset[e])..(rxSequence[e] + RxWindow - 1) :
        Arrived(e, s)}

Used(e) == txSequence[e] - txAcknowledge[e]

\* ReliableMessageChangeSendBufferSize: the ring of len slots copied to one
\* of newlen slots, fragment by fragment.  The other slots of the new ring
\* are not written.
Resized(ring, len, lo, hi, newlen) ==
    [i \in 0..(newlen - 1) |->
        IF \E s \in lo..(hi - 1) : Index(s, newlen) = i
        THEN ring[Index(CHOOSE s \in lo..(hi - 1) : Index(s, newlen) = i, len)]
        ELSE Unset]

\* Fragments lo to hi - 1 of stream written to their slots.
Filled(ring, len, stream, lo, hi) ==
    [i \in 0..(len - 1) |->
        IF \E s \in lo..(hi - 1) : Index(s, len) = i
        THEN [data |-> stream[(CHOOSE s \in lo..(hi - 1) :
                                  Index(s, len) = i) + 1],
              ack  |-> -1]
        ELSE ring[i]]

\* Mutant of Marked: the sequence number is taken for the slot.
MarkedUnmasked(ring, len, selack) ==
    [i \in (0..(len - 1)) \cup selack |->
        IF i \in selack
        THEN [(IF i < len THEN ring[i] ELSE Unset) EXCEPT !.ack = i]
        ELSE ring[i]]

\* Mutant of Marked: each mark is one fragment too far.
MarkedNext(ring, len, selack) ==
    [i \in 0..(len - 1) |->
        IF \E s \in selack : Index(s + 1, len) = i
        THEN [ring[i] EXCEPT
                 !.ack = (CHOOSE s \in selack : Index(s + 1, len) = i) + 1]
        ELSE ring[i]]

\* The selective acknowledges of a packet marked in the send ring.
Marked(ring, len, selack) ==
    [i \in 0..(len - 1) |->
        IF \E s \in selack : Index(s, len) = i
        THEN [ring[i] EXCEPT !.ack = CHOOSE s \in selack : Index(s, len) = i]
        ELSE ring[i]]

-----------------------------------------------------------------------------
(* ReliableMessageSetup, at both ends. *)

Init ==
    /\ txSequence = [e \in Endpoint |-> 0]
    /\ txAcknowledge = [e \in Endpoint |-> 0]
    /\ txFrame = [e \in Endpoint |-> 0]
    /\ txBufferlen = [e \in Endpoint |-> BufferSize]
    /\ txFragments = [e \in Endpoint |-> [i \in 0..(BufferSize - 1) |-> Unset]]
    /\ rxSequence = [e \in Endpoint |-> 0]
    /\ rxFragments = [e \in Endpoint |-> [i \in 0..(BufferSize - 1) |-> Unset]]
    /\ rxSelackoffset = [e \in Endpoint |-> 0]
    /\ net = [e \in Endpoint |-> {}]
    /\ faults = 0
    /\ delivered = [e \in Endpoint |-> <<>>]

-----------------------------------------------------------------------------
(* ReliableMessageSend: the application queues a message of n fragments.   *)
(* need is len / MAX_FRAGMENT_SIZE + 1, which is n, or n + 1 when the last *)
(* fragment is full.  When the ring is too short it grows to one and a     *)
(* half times what is used and needed; when the allocation fails, what     *)
(* fits is queued and the length queued is returned.                       *)

Queue(e, len, ring, n) ==
    /\ txBufferlen' = [txBufferlen EXCEPT ![e] = len]
    /\ txFragments' = [txFragments EXCEPT
          ![e] = Filled(ring, len, Stream[e], txSequence[e],
                       txSequence[e] + n)]
    /\ txSequence' = [txSequence EXCEPT ![e] = @ + n]
    /\ UNCHANGED <<txAcknowledge, txFrame, rxVars, netVars>>

\* Mutant of Fits: off by one.
FitsBarely(e, need) == txBufferlen[e] - Used(e) >= need - 1

Fits(e, need) == txBufferlen[e] - Used(e) >= need

Send(e, n, need) ==
    /\ Fits(e, need)
    /\ Queue(e, txBufferlen[e], txFragments[e], n)

SendGrow(e, n, need) ==
    LET want == need + Used(e)
        len  == want + want \div 2
    IN  /\ ~Fits(e, need)
        /\ Queue(e, len,
                 Resized(txFragments[e], txBufferlen[e], txAcknowledge[e],
                         txSequence[e], len),
                 n)

\* The allocation of the longer ring fails.
SendTruncated(e, n, need) ==
    LET free == txBufferlen[e] - Used(e)
    IN  /\ ~Fits(e, need)
        /\ Queue(e, txBufferlen[e], txFragments[e],
                 IF n <= free THEN n ELSE free)

-----------------------------------------------------------------------------
(* ReliableMessagesTransmitNextFragment: each call does one of these. *)

Post(e, p) ==
    /\ Cardinality(net[Peer(e)]) < MaxInFlight
    /\ net' = [net EXCEPT ![Peer(e)] = @ \cup {p}]
    /\ rxSelackoffset' = [rxSelackoffset EXCEPT ![e] = 1]

\* Mutant of TransmitAck: nothing is sent when no fragment waits to be read.
TransmitAckSeldom(e) ==
    /\ txAcknowledge[e] = txSequence[e]
    /\ SelectiveAcks(e) # {}
    /\ Post(e, [sequence |-> -1, acknowledge |-> rxSequence[e],
                selack |-> SelectiveAcks(e), data |-> NoData])
    /\ UNCHANGED <<txVars, rxSequence, rxFragments, delivered, faults>>

\* Nothing is buffered: only an acknowledge goes out.
TransmitAck(e) ==
    /\ txAcknowledge[e] = txSequence[e]
    /\ Post(e, [sequence |-> -1, acknowledge |-> rxSequence[e],
                selack |-> SelectiveAcks(e), data |-> NoData])
    /\ UNCHANGED <<txVars, rxSequence, rxFragments, delivered, faults>>

\* The frame number that the call works on.
CurrentFrame(e) ==
    IF txFrame[e] < txAcknowledge[e] THEN txAcknowledge[e] ELSE txFrame[e]

CurrentSlot(e) == txFragments[e][Index(CurrentFrame(e), txBufferlen[e])]

\* Already received by the remote end, or not queued yet.
Skipped(e) ==
    \/ CurrentFrame(e) >= txSequence[e]
    \/ CurrentSlot(e).ack = CurrentFrame(e)

\* Mutant of NextFrame: it does not go back to the oldest fragment.
NextFrameStuck(e) ==
    IF CurrentFrame(e) + 1 >= txAcknowledge[e] + TxWindow
    THEN CurrentFrame(e)
    ELSE CurrentFrame(e) + 1

NextFrame(e) ==
    IF CurrentFrame(e) + 1 >= txAcknowledge[e] + TxWindow
    THEN txAcknowledge[e]
    ELSE CurrentFrame(e) + 1

TransmitFragment(e) ==
    /\ txAcknowledge[e] # txSequence[e]
    /\ ~Skipped(e)
    /\ Post(e, [sequence |-> CurrentFrame(e), acknowledge |-> rxSequence[e],
                selack |-> SelectiveAcks(e), data |-> CurrentSlot(e).data])
    /\ txFrame' = [txFrame EXCEPT ![e] = NextFrame(e)]
    /\ UNCHANGED <<txSequence, txAcknowledge, txBufferlen, txFragments,
                   rxSequence, rxFragments, delivered, faults>>

SkipFragment(e) ==
    /\ txAcknowledge[e] # txSequence[e]
    /\ Skipped(e)
    /\ txFrame' = [txFrame EXCEPT ![e] = NextFrame(e)]
    /\ UNCHANGED <<txSequence, txAcknowledge, txBufferlen, txFragments,
                   rxVars, netVars>>

-----------------------------------------------------------------------------
(* ReliableMessagesReceiveNextFragment: a packet arrives from the network. *)

\* The checks before anything of the packet is used.  (The code marks the
\* first ranges of a selective acknowledge before it finds a later one out
\* of the window; NoBadAcknowledge shows that it finds none.)
Acceptable(e, p) ==
    /\ p.sequence < rxSequence[e] + RxWindow
    /\ p.acknowledge <= txAcknowledge[e] + TxWindow
    /\ p.acknowledge >= txAcknowledge[e]
    /\ p.acknowledge <= txSequence[e]
    /\ \A s \in p.selack : s < p.acknowledge + TxWindow

\* Whether the packet leaves less in use than a ring of the default length
\* holds, while the ring is longer.
Shrinks(e, p) ==
    /\ txAcknowledge[e] < p.acknowledge
    /\ txSequence[e] - p.acknowledge < BufferSize
    /\ txBufferlen[e] > BufferSize

\* The send side of an accepted packet.  Shrinking needs an allocation, and
\* goes on as before when it fails.
TakeAcknowledge(e, p) ==
    LET marked == Marked(txFragments[e], txBufferlen[e], p.selack)
    IN  /\ txAcknowledge' = [txAcknowledge EXCEPT ![e] = p.acknowledge]
        /\ \/ /\ txFragments' = [txFragments EXCEPT ![e] = marked]
              /\ UNCHANGED txBufferlen
           \/ /\ Shrinks(e, p)
              /\ txFragments' = [txFragments EXCEPT
                    ![e] = Resized(marked, txBufferlen[e], p.acknowledge,
                                   txSequence[e], BufferSize)]
              /\ txBufferlen' = [txBufferlen EXCEPT ![e] = BufferSize]
        /\ UNCHANGED <<txSequence, txFrame>>

\* The receive side: an acknowledge alone and an old fragment store nothing.
StoreFragment(e, p) ==
    /\ rxFragments' =
          IF p.sequence < rxSequence[e]
          THEN rxFragments
          ELSE [rxFragments EXCEPT ![e][Index(p.sequence, BufferSize)] =
                   [data |-> p.data, ack |-> p.sequence]]
    /\ UNCHANGED <<rxSequence, rxSelackoffset, delivered>>

ReceiveNextFragment(e, p) ==
    \/ /\ Acceptable(e, p)
       /\ TakeAcknowledge(e, p)
       /\ StoreFragment(e, p)
    \/ /\ ~Acceptable(e, p)
       /\ UNCHANGED <<txVars, rxVars>>

-----------------------------------------------------------------------------
(* ReliableMessageReceive: the application takes n fragments in order.  An *)
(* application in Greedy reads until nothing is left, in as many calls as  *)
(* it takes, as SV_ReceiveReliableMessages does; each call that takes more *)
(* than one fragment sets selackoffset.                                    *)

Receive(e, n) ==
    /\ Readable(e, n)
    /\ e \in Greedy => NoneAfter(e, n)
    /\ delivered' = [delivered EXCEPT
          ![e] = @ \o [i \in 1..n |->
                   rxFragments[e][Index(rxSequence[e] + i - 1, BufferSize)].data]]
    /\ rxSequence' = [rxSequence EXCEPT ![e] = @ + n]
    /\ \/ n > 1 /\ rxSelackoffset' = [rxSelackoffset EXCEPT ![e] = 1]
       \/ (n = 1 \/ e \in Greedy) /\ UNCHANGED rxSelackoffset
    /\ UNCHANGED <<txVars, rxFragments, netVars>>

-----------------------------------------------------------------------------
(* The network: UDP, which loses, duplicates and reorders. *)

Arrive(e, p) ==
    /\ net' = [net EXCEPT ![e] = @ \ {p}]
    /\ UNCHANGED faults
    /\ ReceiveNextFragment(e, p)

ArriveTwice(e, p) ==
    /\ faults < MaxFaults
    /\ faults' = faults + 1
    /\ UNCHANGED net
    /\ ReceiveNextFragment(e, p)

Lose(e, p) ==
    /\ faults < MaxFaults
    /\ faults' = faults + 1
    /\ net' = [net EXCEPT ![e] = @ \ {p}]
    /\ UNCHANGED <<txVars, rxVars>>

-----------------------------------------------------------------------------
Transmit(e) == TransmitAck(e) \/ TransmitFragment(e) \/ SkipFragment(e)

Write(e) ==
    \E n \in 1..(Len(Stream[e]) - txSequence[e]) : \E need \in {n, n + 1} :
        \/ Send(e, n, need)
        \/ SendGrow(e, n, need)
        \/ SendTruncated(e, n, need)

Read(e) == \E n \in 1..RxWindow : Receive(e, n)

Network(e) ==
    \E p \in net[e] : Arrive(e, p) \/ ArriveTwice(e, p) \/ Lose(e, p)

Next ==
    \E e \in Endpoint : Write(e) \/ Transmit(e) \/ Read(e) \/ Network(e)

Spec == Init /\ [][Next]_vars

-----------------------------------------------------------------------------
(* Fairness.  The main loop runs ReliableMessagesFrame and then reads, in   *)
(* every frame.  A packet that carries fragment f (or only an acknowledge, *)
(* f = -1) and that the network does not lose arrives.                     *)

ArriveCarrying(e, f) == \E p \in net[e] : p.sequence = f /\ Arrive(e, p)

Fairness ==
    \A e \in Endpoint :
        /\ WF_vars(Transmit(e))
        /\ WF_vars(Read(e))
        /\ \A f \in -1..(Len(Stream[Peer(e)]) - 1) :
               WF_vars(ArriveCarrying(e, f))

FairSpec == Spec /\ Fairness

-----------------------------------------------------------------------------
(* Properties *)

SlotsOf(e) == 0..(txBufferlen[e] - 1)

\* The state has the shape of netreliablemsg_t, the send ring is never
\* shorter than what it keeps, and every packet is well formed.
TypeOK ==
    /\ txSequence \in [Endpoint -> Nat]
    /\ txAcknowledge \in [Endpoint -> Nat]
    /\ txFrame \in [Endpoint -> Nat]
    /\ txBufferlen \in [Endpoint -> Nat]
    /\ DOMAIN txFragments = Endpoint
    /\ \A e \in Endpoint : txFragments[e] \in [SlotsOf(e) -> Slot]
    /\ rxSequence \in [Endpoint -> Nat]
    /\ rxFragments \in [Endpoint -> [0..(BufferSize - 1) -> Slot]]
    /\ rxSelackoffset \in [Endpoint -> {0, 1}]
    /\ net \in [Endpoint -> SUBSET Packet]
    /\ faults \in Nat
    /\ delivered \in [Endpoint -> Seq(Data)]

\* What the application at e has been handed is, fragment for fragment, a
\* prefix of what the application at the other end queued: nothing is lost,
\* repeated, reordered or taken from a slot that was used again.
InOrderDelivery ==
    \A e \in Endpoint :
        /\ Len(delivered[e]) = rxSequence[e]
        /\ rxSequence[e] <= txSequence[Peer(e)]
        /\ \A i \in 1..Len(delivered[e]) :
              delivered[e][i] = Stream[Peer(e)][i]

\* A fragment leaves the send buffer only after the application at the other
\* end has read it: txwindow.acknowledge is never ahead of the peer's
\* rxwindow.sequence, nor further behind it than one window.
AcknowledgedIsDelivered ==
    \A e \in Endpoint :
        /\ txAcknowledge[e] <= rxSequence[Peer(e)]
        /\ rxSequence[Peer(e)] <= txAcknowledge[e] + TxWindow

\* Every fragment that may have to be sent again is intact in its slot,
\* whatever was queued, acknowledged, grown or shrunk since.
SendBufferIntact ==
    \A e \in Endpoint :
        /\ Used(e) <= txBufferlen[e]
        /\ \A s \in txAcknowledge[e]..(txSequence[e] - 1) :
              txFragments[e][Index(s, txBufferlen[e])].data = Stream[e][s + 1]

\* The endpoint holds fragment s, or has already handed it out.
Held(e, s) ==
    \/ s < rxSequence[e]
    \/ s < rxSequence[e] + RxWindow /\ Arrived(e, s)

\* TransmitNextFragment skips only fragments that the other end holds: a mark
\* "already received by the remote end" is never left over from an earlier
\* fragment of the slot, and never put in the slot of another fragment.
SkipsOnlyHeld ==
    \A e \in Endpoint :
        \A s \in txAcknowledge[e]..(txSequence[e] - 1) :
            txFragments[e][Index(s, txBufferlen[e])].ack = s => Held(Peer(e), s)

\* Between two ends that run this code, the error exits of
\* ReliableMessagesReceiveNextFragment for an acknowledge out of the window
\* ("Illegible"), above the sequence ("Invalid") or a selective acknowledge
\* out of the window are never taken, however late a packet arrives.
NoBadAcknowledge ==
    \A e \in Endpoint : \A p \in net[e] :
        /\ p.acknowledge <= txAcknowledge[e] + TxWindow
        /\ p.acknowledge <= txSequence[e]
        /\ \A s \in p.selack : s < p.acknowledge + TxWindow

\* A selective acknowledge is a promise: what an endpoint held it still holds
\* after any step, since no later fragment is stored over it.
HeldIsKept ==
    [][\A e \in Endpoint : \A s \in 0..(Len(Stream[Peer(e)]) - 1) :
          Held(e, s) => Held(e, s)']_vars

\* Every fragment queued is eventually handed to the application at the other
\* end, although a packet whose fragment is out of the receive window is
\* dropped together with the acknowledges it carries.
EventuallyDelivered ==
    \A e \in Endpoint : \A n \in 1..Len(Stream[e]) :
        txSequence[e] >= n ~> rxSequence[Peer(e)] >= n

\* The sender eventually learns of every fragment handed out, and so frees
\* its buffer (net_reliabletransport.c:224: "Let the remote end still know
\* about the current acknowledge state even when nothing is going to be
\* sent").
EventuallyAcknowledged ==
    \A e \in Endpoint : \A n \in 1..Len(Stream[e]) :
        rxSequence[Peer(e)] >= n ~> txAcknowledge[e] >= n

-----------------------------------------------------------------------------
(* The inductive invariant: the properties above, and what they rest on. *)

\* The counters are ordered and the ring is at least of its default length.
CountersOrdered ==
    \A e \in Endpoint :
        /\ txAcknowledge[e] <= txSequence[e]
        /\ txSequence[e] <= Len(Stream[e])
        /\ txFrame[e] < txAcknowledge[e] + TxWindow
        /\ BufferSize <= txBufferlen[e]

\* Fragment s was queued at e and has been transmitted within the window.
WithinWindow(e, s) == s < txSequence[e] /\ s < txAcknowledge[e] + TxWindow

\* Whatever has arrived in the receive window is what was queued there.
ReceiveBufferIntact ==
    \A e \in Endpoint :
        \A s \in rxSequence[e]..(rxSequence[e] + RxWindow - 1) :
            Arrived(e, s) =>
                /\ WithinWindow(Peer(e), s)
                /\ rxFragments[e][Index(s, BufferSize)].data = Stream[Peer(e)][s + 1]

\* No slot keeps a fragment from beyond the receive window.
NothingAhead ==
    \A e \in Endpoint : \A i \in 0..(BufferSize - 1) :
        rxFragments[e][i].ack < rxSequence[e] + RxWindow

\* What a packet of endpoint e says is true, and stays true on its way.
Truthful(e, p) ==
    /\ p.sequence >= -1
    /\ p.sequence # -1 => /\ WithinWindow(e, p.sequence)
                         /\ p.data = Stream[e][p.sequence + 1]
    /\ p.acknowledge <= rxSequence[e]
    /\ \A s \in p.selack : /\ p.acknowledge <= s
                           /\ s < p.acknowledge + RxWindow
                           /\ Held(e, s)

PacketsTruthful ==
    \A e \in Endpoint : \A p \in net[Peer(e)] : Truthful(e, p)

Inv ==
    /\ TypeOK
    /\ CountersOrdered
    /\ InOrderDelivery
    /\ AcknowledgedIsDelivered
    /\ SendBufferIntact
    /\ ReceiveBufferIntact
    /\ NothingAhead
    /\ SkipsOnlyHeld
    /\ PacketsTruthful

-----------------------------------------------------------------------------
(* What the transport promises: two first-in first-out channels. *)

Channel == INSTANCE ReliableChannel WITH
    queued <- txSequence,
    acknowledged <- txAcknowledge

\* Every step is a step of the two channels of ReliableChannel, or none.
ImplementsChannel == Channel!Spec

=============================================================================
