----------------------------- MODULE MCSnapshots -----------------------------
(***************************************************************************)
(* Small instances of Snapshots.                                           *)
(***************************************************************************)
EXTENDS Snapshots

Each(entities, clients) ==
    [k \in Kind |-> IF k = "entities" THEN entities ELSE clients]

MCSize == Each(6, 2)

MCSeen == {Each(1, 1)}

MCOthers == {Each(1, 0)}

=============================================================================
