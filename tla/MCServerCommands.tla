--------------------------- MODULE MCServerCommands ---------------------------
(***************************************************************************)
(* Small instances of ServerCommands.  A command is a pair: its kind and   *)
(* its text.  Kind "d" stands for the characters for which the newest      *)
(* command about the same thing is enough, "e" for those that only repeat  *)
(* an identical one, "x" for those that never replace anything.            *)
(***************************************************************************)
EXTENDS ServerCommands

MCDisconnect == <<"w", 1>>
MCNewMap == <<"l", 1>>

MCCommand == ({"d", "e", "x"} \X {1, 2}) \cup {MCDisconnect, MCNewMap}

Lossless == {[command |-> <<"x", 1>>, type |-> 1]}
Mixed == {[command |-> <<"d", 1>>, type |-> 1],
          [command |-> <<"d", 2>>, type |-> 0]}

MCSupersedes(c, d) ==
    /\ c[1] = d[1] /\ c[1] # "x"
    /\ c[2] = d[2] \/ c[1] = "d"

=============================================================================
