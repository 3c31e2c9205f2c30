---------------------------- MODULE LossyChannel ----------------------------
(***************************************************************************)
(* What the netchan promises those who send through it: a channel that may *)
(* lose messages and nothing else.  Each message given is one that was     *)
(* sent, as it was sent, and was sent after all those given before it.     *)
(*                                                                         *)
(* A sender can break the channel.  What is given then need not be what    *)
(* was sent, but has a number higher than before and is never the same     *)
(* twice.                                                                  *)
(***************************************************************************)
EXTENDS Integers, Sequences, SequencesExt

VARIABLES
    sent,   \* the messages sent, each a number and what it holds
    given,  \* the messages given to the receiver
    broken  \* the sender broke the channel

vars == <<sent, given, broken>>

Init ==
    /\ sent = << >>
    /\ given = << >>
    /\ broken = FALSE

Send ==
    /\ IsPrefix(sent, sent')
    /\ broken => broken'
    /\ UNCHANGED given

Give ==
    /\ ~broken
    /\ \E i \in DOMAIN sent :
          /\ \A j \in DOMAIN given : \E k \in 1..(i - 1) : given[j] = sent[k]
          /\ given' = Append(given, sent[i])
    /\ UNCHANGED <<sent, broken>>

GiveMixed ==
    /\ broken
    /\ Len(given') = Len(given) + 1
    /\ IsPrefix(given, given')
    /\ \A j \in DOMAIN given :
          /\ given[j].sequence < given'[Len(given')].sequence
          /\ given[j].data # given'[Len(given')].data
    /\ UNCHANGED <<sent, broken>>

Next == Send \/ Give \/ GiveMixed

Spec == Init /\ [][Next]_vars

=============================================================================
