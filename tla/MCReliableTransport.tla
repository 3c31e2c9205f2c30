------------------------- MODULE MCReliableTransport -------------------------
(***************************************************************************)
(* Small instances of ReliableTransport.  Payloads are the positions in    *)
(* the stream: the protocol never looks at them, so that distinct ones are *)
(* the hardest case.                                                       *)
(***************************************************************************)
EXTENDS ReliableTransport, TLC

\* The server queues ServerLen fragments and the client ClientLen.
CONSTANTS ServerLen, ClientLen

MCData == 1..6

MCStream ==
    Server :> [i \in 1..ServerLen |-> i] @@ Client :> [i \in 1..ClientLen |-> i]

Both == Endpoint
ServerOnly == {Server}

=============================================================================
