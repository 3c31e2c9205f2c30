----------------------------- MODULE MCClientSlots -----------------------------
(***************************************************************************)
(* Small instances of ClientSlots.  "a" and "b" are at the same IP.        *)
(***************************************************************************)
EXTENDS ClientSlots

MCIpOf(p) == IF p \in {"a", "b"} THEN 1 ELSE 2

=============================================================================
