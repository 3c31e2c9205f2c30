------------------------------- MODULE Netchan -------------------------------
(***************************************************************************)
(* The unreliable channel that carries snapshots and server commands to a  *)
(* client: netchan.c with the callers that decide when it transmits        *)
(* (sv_net_chan.c, sv_snapshot.c, sv_client.c, sv_main.c).                 *)
(*                                                                         *)
(* A message that does not fit one packet is left in unsentBuffer and goes *)
(* out fragment by fragment under one sequence number, one fragment per    *)
(* snapshot time.  The receiver puts the fragments of one number together  *)
(* in order and never asks for one again.  Most callers wait until nothing *)
(* is unsent; some do not, and Netchan_Transmit itself does not look.      *)
(*                                                                         *)
(* Unit k of the i-th message transmitted is <<i, k>>.  A message is       *)
(* encoded with the number it is to go out under (sent[i].key), and only a *)
(* receiver that gets it under that number can decode it.                  *)
(*                                                                         *)
(* Left out: the rate that spaces transmissions, the sizes of buffers (no  *)
(* caller builds a message larger than unsentBuffer), and what a snapshot  *)
(* holds, client.frames included.                                          *)
(***************************************************************************)
EXTENDS Integers, Sequences, FiniteSets, SequencesExt

CONSTANTS
    FRAGMENT_SIZE, \* units of data in a packet, 1300 bytes in the code
    Lengths,       \* the lengths of messages
    MaxMessages,   \* bound: messages sent
    MaxFaults      \* bound: packets lost, duplicated or reordered

ASSUME SizeAssumption == FRAGMENT_SIZE \in Nat \ {0}

ASSUME BoundAssumption == MaxMessages \in Nat \ {0} /\ MaxFaults \in Nat

ASSUME LengthAssumption == Lengths \subseteq Nat \ {0} /\ IsFiniteSet(Lengths)

VARIABLES
    state,    \* the client's connection state at the server
    chan,     \* the server's end of the channel
    network,  \* the packets in flight, the oldest first
    peer,     \* the client's end of the channel
    sent,     \* the messages the server transmitted, in order
    handed,   \* what Netchan_Process handed out, in order
    abandoned, \* unsent fragments were given up or transmitted over
    faults    \* faults so far

vars == <<state, chan, network, peer, sent, handed, abandoned, faults>>

Data(i, n) == [k \in 1..n |-> <<i, k>>]

Init ==
    /\ state = "CS_CONNECTED"
    /\ chan = [outgoingSequence |-> 1, unsentFragments |-> FALSE,
               unsentFragmentStart |-> 0, unsentBuffer |-> << >>]
    /\ network = << >>
    /\ peer = [incomingSequence |-> 0, fragmentSequence |-> 0,
               fragmentBuffer |-> << >>]
    /\ sent = << >>
    /\ handed = << >>
    /\ abandoned = FALSE
    /\ faults = 0

-----------------------------------------------------------------------------
(* Transmitting.  A caller starts from Idle, the channel as it is with no  *)
(* packet of this step sent yet, and ends with Commit.                     *)

Idle == [chan |-> chan, packets |-> << >>, sent |-> sent]

Commit(t) ==
    /\ chan' = t.chan
    /\ network' = network \o t.packets
    /\ sent' = t.sent

\* Mutant of LastFragment: no empty fragment after a multiple of FRAGMENT_SIZE.
LastWhenReached(c) == c.unsentFragmentStart + FRAGMENT_SIZE >= Len(c.unsentBuffer)

\* A packet smaller than FRAGMENT_SIZE is what tells the receiver that the
\* message ends, so a message that is a multiple of it ends in an empty one.
LastFragment(c) == c.unsentFragmentStart + FRAGMENT_SIZE > Len(c.unsentBuffer)

Fragment(c) ==
    LET end == IF LastFragment(c) THEN Len(c.unsentBuffer)
                          ELSE c.unsentFragmentStart + FRAGMENT_SIZE
    IN [sequence |-> c.outgoingSequence, fragmented |-> TRUE,
        fragmentStart |-> c.unsentFragmentStart,
        data |-> SubSeq(c.unsentBuffer, c.unsentFragmentStart + 1, end)]

\* Mutant of Advanced: the last fragment counts as a full one.
AdvancedFully(c) ==
    [c EXCEPT !.unsentFragmentStart = @ + FRAGMENT_SIZE,
              !.unsentFragments = ~LastFragment(c),
              !.outgoingSequence = IF LastFragment(c) THEN @ + 1 ELSE @]

Advanced(c) ==
    LET next == [c EXCEPT !.unsentFragmentStart = @ + Len(Fragment(c).data)]
    IN IF LastFragment(c)
       THEN [next EXCEPT !.outgoingSequence = @ + 1, !.unsentFragments = FALSE]
       ELSE next

TransmitNextFragment(t) ==
    [t EXCEPT !.packets = Append(@, Fragment(t.chan)),
              !.chan = Advanced(t.chan)]

\* A message that fits one packet leaves unsentFragments and unsentBuffer as
\* they are, with the start of the fragments back at 0.
Transmit(t, n) ==
    LET data == Data(Len(t.sent) + 1, n)
        c == [t.chan EXCEPT !.unsentFragmentStart = 0]
        s == [t EXCEPT !.sent =
                Append(@, [length |-> n, key |-> t.chan.outgoingSequence])]
    IN IF n >= FRAGMENT_SIZE
       THEN TransmitNextFragment(
              [s EXCEPT !.chan = [c EXCEPT !.unsentFragments = TRUE,
                                           !.unsentBuffer = data]])
       ELSE [s EXCEPT !.chan = [c EXCEPT !.outgoingSequence = @ + 1],
                      !.packets = Append(@,
                         [sequence |-> c.outgoingSequence, fragmented |-> FALSE,
                          fragmentStart |-> 0, data |-> data])]

\* How many fragments of the message are left
Rounds(c) == (Len(c.unsentBuffer) - c.unsentFragmentStart) \div FRAGMENT_SIZE + 1

\* The channel before the i-th of them is transmitted
Before(c, i) ==
    [c EXCEPT !.unsentFragmentStart = @ + (i - 1) * FRAGMENT_SIZE]

\* The loop of SV_SendClientGameState, that transmits what is unsent
Flushed(t) ==
    LET c == t.chan
    IN  IF ~c.unsentFragments THEN t
        ELSE [t EXCEPT
                !.packets = @ \o [i \in 1..Rounds(c) |-> Fragment(Before(c, i))],
                !.chan = Advanced(Before(c, Rounds(c)))]

-----------------------------------------------------------------------------
(* The callers.                                                            *)

\* SV_SendClientMessages: what is unsent first, a new message otherwise
SendNextFragment ==
    /\ state # "CS_FREE"
    /\ chan.unsentFragments
    /\ Commit(TransmitNextFragment(Idle))
    /\ UNCHANGED <<state, peer, handed, abandoned, faults>>

\* Mutant of MayBuild: a message is built whatever is unsent.
BuildsAnyway == TRUE

MayBuild == ~chan.unsentFragments

SendClientMessage ==
    /\ state # "CS_FREE"
    /\ MayBuild
    /\ Len(sent) < MaxMessages
    /\ \E n \in Lengths : Commit(Transmit(Idle, n))
    /\ UNCHANGED <<state, peer, handed, abandoned, faults>>

\* The commands that go before a gamestate
SendClientGameState ==
    /\ state \in {"CS_CONNECTED", "CS_PRIMED", "CS_ACTIVE"}
    /\ Len(sent) < MaxMessages
    /\ \E n \in Lengths : Commit(Transmit(Flushed(Idle), n))
    /\ state' = "CS_PRIMED"
    /\ UNCHANGED <<peer, handed, abandoned, faults>>

EnterWorld ==
    /\ state = "CS_PRIMED"
    /\ state' = "CS_ACTIVE"
    /\ UNCHANGED <<chan, network, peer, sent, handed, abandoned, faults>>

\* A map change sends a snapshot at once, whatever is unsent.
SpawnServer ==
    /\ state \in {"CS_PRIMED", "CS_ACTIVE"}
    /\ Len(sent) < MaxMessages
    /\ \E n \in Lengths : Commit(Transmit(Idle, n))
    /\ state' = "CS_CONNECTED"
    /\ abandoned' = (abandoned \/ chan.unsentFragments)
    /\ UNCHANGED <<peer, handed, faults>>

\* So does the end of the server, twice; nothing is sent after that.
FinalMessage ==
    /\ state = "CS_ACTIVE"
    /\ Len(sent) + 2 <= MaxMessages
    /\ \E n, m \in Lengths :
          LET first == Transmit(Idle, n) IN
          /\ Commit(Transmit(first, m))
          /\ abandoned' = (\/ abandoned
                           \/ chan.unsentFragments
                           \/ first.chan.unsentFragments)
    /\ state' = "CS_FREE"
    /\ UNCHANGED <<peer, handed, faults>>

\* A dropped client gives up what is unsent, and the number it went under is
\* used again; one that is dropped silently does not.
DropClient(silent) ==
    /\ state \in {"CS_CONNECTED", "CS_PRIMED", "CS_ACTIVE"}
    /\ state' = "CS_ZOMBIE"
    /\ IF silent
       THEN UNCHANGED <<chan, abandoned>>
       ELSE /\ chan' = [chan EXCEPT !.unsentFragments = FALSE]
            /\ abandoned' = (abandoned \/ chan.unsentFragments)
    /\ UNCHANGED <<network, peer, sent, handed, faults>>

-----------------------------------------------------------------------------
(* Receiving: Netchan_Process, at the client's end.                        *)

\* Mutant of Fresh: the packet received last is received again.
FreshOrLast(p) == p.sequence >= peer.incomingSequence

Fresh(p) == p.sequence > peer.incomingSequence

\* Mutant of Buffered: the buffer is kept when the number changes.
BufferedAlways(p) == peer.fragmentBuffer

\* A fragment of another number than the last starts the buffer again.
Buffered(p) ==
    IF p.sequence # peer.fragmentSequence THEN << >> ELSE peer.fragmentBuffer

Ends(p) == Len(p.data) # FRAGMENT_SIZE

Give(p, data) == handed' = Append(handed, [sequence |-> p.sequence, data |-> data])

Fits(p) == p.fragmentStart = Len(Buffered(p))

Process(p) ==
    CASE ~Fresh(p) -> UNCHANGED <<peer, handed>>
      [] Fresh(p) /\ ~p.fragmented ->
            /\ peer' = [peer EXCEPT !.incomingSequence = p.sequence]
            /\ Give(p, p.data)
      [] Fresh(p) /\ p.fragmented /\ ~Fits(p) ->
            /\ peer' = [peer EXCEPT !.fragmentSequence = p.sequence,
                                    !.fragmentBuffer = Buffered(p)]
            /\ UNCHANGED handed
      [] Fresh(p) /\ p.fragmented /\ Fits(p) /\ ~Ends(p) ->
            /\ peer' = [peer EXCEPT !.fragmentSequence = p.sequence,
                                    !.fragmentBuffer = Buffered(p) \o p.data]
            /\ UNCHANGED handed
      [] Fresh(p) /\ p.fragmented /\ Fits(p) /\ Ends(p) ->
            /\ peer' = [incomingSequence |-> p.sequence,
                        fragmentSequence |-> p.sequence,
                        fragmentBuffer |-> << >>]
            /\ Give(p, Buffered(p) \o p.data)

Receive ==
    /\ network # << >>
    /\ Process(Head(network))
    /\ network' = Tail(network)
    /\ UNCHANGED <<state, chan, sent, abandoned, faults>>

-----------------------------------------------------------------------------
(* The network.                                                            *)

Faulty(packets) ==
    /\ faults < MaxFaults
    /\ faults' = faults + 1
    /\ network' = packets
    /\ UNCHANGED <<state, chan, peer, sent, handed, abandoned>>

Lose == \E i \in DOMAIN network : Faulty(RemoveAt(network, i))

Duplicate == \E i \in DOMAIN network : Faulty(Append(network, network[i]))

Delay == \E i \in 1..(Len(network) - 1) :
            Faulty(Append(RemoveAt(network, i), network[i]))

Next ==
    \/ SendNextFragment
    \/ SendClientMessage
    \/ SendClientGameState
    \/ EnterWorld
    \/ SpawnServer
    \/ FinalMessage
    \/ \E silent \in BOOLEAN : DropClient(silent)
    \/ Receive
    \/ Lose
    \/ Duplicate
    \/ Delay

Spec == Init /\ [][Next]_vars

-----------------------------------------------------------------------------
(* Properties.                                                             *)

Units == UNION {{<<i, k>> : k \in 1..n} : i \in 1..MaxMessages, n \in Lengths}

Packet(p) ==
    /\ p.sequence \in 1..(2 * MaxMessages)
    /\ p.fragmented \in BOOLEAN
    /\ p.data \in Seq(Units) /\ Len(p.data) <= FRAGMENT_SIZE
    /\ p.fragmentStart \in Nat

\* Every variable has its type; the part of unsentBuffer that was sent is
\* never beyond its end, and a packet holds no more than FRAGMENT_SIZE.
TypeOK ==
    /\ state \in {"CS_FREE", "CS_ZOMBIE", "CS_CONNECTED", "CS_PRIMED",
                  "CS_ACTIVE"}
    /\ chan \in [outgoingSequence : 1..(2 * MaxMessages + 1),
                unsentFragments : BOOLEAN, unsentFragmentStart : Nat,
                unsentBuffer : Seq(Units)]
    /\ chan.unsentFragmentStart <= Len(chan.unsentBuffer)
    /\ \A i \in DOMAIN network : Packet(network[i])
    /\ peer \in [incomingSequence : 0..(2 * MaxMessages),
                 fragmentSequence : 0..(2 * MaxMessages),
                 fragmentBuffer : Seq(Units)]
    /\ sent \in Seq([length : Lengths, key : 1..(2 * MaxMessages)])
    /\ handed \in Seq([sequence : 1..(2 * MaxMessages), data : Seq(Units)])
    /\ abandoned \in BOOLEAN
    /\ faults \in 0..MaxFaults

\* What was handed out is the i-th message, whole, under the number it was
\* encoded with.
IsMessage(h, i) == h.data = Data(i, sent[i].length) /\ h.sequence = sent[i].key

InSendingOrder ==
    /\ \A j \in DOMAIN handed : \E i \in DOMAIN sent : IsMessage(handed[j], i)
    /\ \A j, k \in DOMAIN handed : \A i, l \in DOMAIN sent :
          j < k /\ IsMessage(handed[j], i) /\ IsMessage(handed[k], l) => i < l

\* Whatever the network loses, duplicates or reorders, a client is given
\* whole messages, each in a form it can decode and in the order they were
\* sent, as long as no caller has transmitted over unsent fragments: waiting
\* (sv_snapshot.c:1125) and flushing (sv_client.c:1678) are enough, and the
\* fragments of two messages are never put together (netchan.c:216).
WholeUnlessAbandoned == ~abandoned => InSendingOrder

\* Even when fragments were abandoned and numbers used again, no number and
\* no message is given to the client twice (netchan.c:181).
NothingTwice ==
    \A j, k \in DOMAIN handed : j < k =>
        /\ handed[j].sequence < handed[k].sequence
        /\ handed[j].data # handed[k].data

\* On a network that loses nothing every message arrives, whatever its
\* length: when all is sent and received, what was handed out is what was
\* transmitted.  The receiver does not miss the end of a message that is a
\* multiple of FRAGMENT_SIZE long (netchan.c:333).
ArrivesWithoutFaults ==
    (network = << >> /\ faults = 0 /\ ~chan.unsentFragments /\ ~abandoned) =>
        /\ Len(handed) = Len(sent)
        /\ InSendingOrder

\* What sv_net_chan.c:107 says of a message transmitted while fragments are
\* unsent: they are buffered and sent in correct order.  It does not hold: the
\* map change (sv_main.c:4828) transmits over them.
SentInCorrectOrder == InSendingOrder

-----------------------------------------------------------------------------
(* What the netchan promises: a channel that loses messages, no more, until *)
(* a caller abandons fragments.                                            *)

Lossy == INSTANCE LossyChannel WITH
    sent <- [i \in DOMAIN sent |->
                [sequence |-> sent[i].key, data |-> Data(i, sent[i].length)]],
    given <- handed,
    broken <- abandoned

\* Every step is a step of LossyChannel, or none: what was handed out is never
\* taken back, and a message transmitted keeps its number.
ImplementsLossyChannel == Lossy!Spec

==============================================================================
