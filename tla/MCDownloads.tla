----------------------------- MODULE MCDownloads -----------------------------
(***************************************************************************)
(* A small instance of Downloads: "a" is a block and a half; "b" is one    *)
(* block, and may not be read or only half of it; "x" is not one of the    *)
(* paks.  The client asks for all of "a", for more than a file has, and    *)
(* for nothing.                                                            *)
(***************************************************************************)
EXTENDS Downloads

MCSizeOf == [f \in File |-> IF f = "a" THEN 3 ELSE 2]

MCRequest == {[at |-> 0, num |-> 3], [at |-> 2, num |-> 2], [at |-> 4, num |-> 0]}

=============================================================================
