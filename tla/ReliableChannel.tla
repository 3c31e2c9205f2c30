--------------------------- MODULE ReliableChannel ---------------------------
(***************************************************************************)
(* What the reliable transport promises the applications at its two ends: *)
(* in each direction a first-in first-out channel.  An application queues  *)
(* fragments of its Stream, the other one is handed a prefix of what was   *)
(* queued, and the sender learns, later, how much of it was handed out.    *)
(***************************************************************************)
EXTENDS Integers, Sequences

CONSTANTS Server, Client, Stream

Endpoint == {Server, Client}

Peer(e) == IF e = Server THEN Client ELSE Server

VARIABLES
    queued,        \* [Endpoint -> Nat] how much of Stream[e] was queued
    acknowledged,  \* [Endpoint -> Nat] how much of it e knows was handed out
    delivered      \* [Endpoint -> Seq] what the application at e was handed

vars == <<queued, acknowledged, delivered>>

Init ==
    /\ queued = [e \in Endpoint |-> 0]
    /\ acknowledged = [e \in Endpoint |-> 0]
    /\ delivered = [e \in Endpoint |-> <<>>]

Queue(e) ==
    /\ \E n \in (queued[e] + 1)..Len(Stream[e]) :
          queued' = [queued EXCEPT ![e] = n]
    /\ UNCHANGED <<acknowledged, delivered>>

Deliver(e) ==
    /\ \E n \in (Len(delivered[e]) + 1)..queued[Peer(e)] :
          delivered' = [delivered EXCEPT ![e] = SubSeq(Stream[Peer(e)], 1, n)]
    /\ UNCHANGED <<queued, acknowledged>>

Acknowledge(e) ==
    /\ \E n \in (acknowledged[e] + 1)..Len(delivered[Peer(e)]) :
          acknowledged' = [acknowledged EXCEPT ![e] = n]
    /\ UNCHANGED <<queued, delivered>>

Next == \E e \in Endpoint : Queue(e) \/ Deliver(e) \/ Acknowledge(e)

Spec == Init /\ [][Next]_vars

=============================================================================
