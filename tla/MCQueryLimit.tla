---------------------------- MODULE MCQueryLimit ----------------------------
(***************************************************************************)
(* A small instance of QueryLimit: three addresses, two of one hash, share *)
(* two buckets.                                                            *)
(***************************************************************************)
EXTENDS QueryLimit

MCHashFor == [a \in Address |-> IF a = "c" THEN 1 ELSE 0]

MCBurstOf == [k \in Query |-> IF k = "status" THEN 2 ELSE 3]

=============================================================================
