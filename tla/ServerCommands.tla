--------------------------- MODULE ServerCommands ---------------------------
(***************************************************************************)
(* The reliable server commands of one client: the ring of                 *)
(* MAX_RELIABLE_COMMANDS commands that SV_AddServerCommand fills, that     *)
(* every message to the client repeats from the last acknowledged one on,  *)
(* and that SV_PacketEvent frees.                                          *)
(*                                                                         *)
(* A command added is named by its position in the history client.added;   *)
(* the ring holds such names.  Messages go through the netchan, which may  *)
(* lose them and discards those that arrive late, so that it is a first-in *)
(* first-out channel with losses.  A gamestate goes through the reliable   *)
(* transport instead, whose promise ReliableChannel states: it may be late *)
(* but is neither lost nor reordered.                                      *)
(*                                                                         *)
(* The client's side is not in the repository.  It is modelled from what   *)
(* the server relies on: a command whose number was executed already is    *)
(* ignored (the server repeats them), the number of the last one executed  *)
(* is what it acknowledges, and a gamestate sets that number               *)
(* (sv_client.c:1745).                                                     *)
(***************************************************************************)
EXTENDS Integers, Sequences, FiniteSets, FiniteSetsExt

CONSTANTS
    Capacity,     \* MAX_RELIABLE_COMMANDS, 128 in the code
    Command,      \* the commands: the first character, what it is about, ...
    Disconnect,   \* the command 'w' that tells the client it was dropped
    NewMap,       \* the command 'l' that announces a map change
    Supersedes(_, _), \* whether sub_530FC0 finds the second alike the first
    Given,        \* what the game gives: records of a command and its type
    MaxAdded,     \* bound: commands added
    MaxInFlight,  \* bound: messages on their way in one direction
    MaxLost,      \* bound: messages lost
    MaxLevels,    \* bound: maps loaded
    MaxGamestates \* bound: gamestates sent

ASSUME CapacityAssumption == Capacity \in Nat \ {0}

ASSUME CommandAssumption ==
    /\ {Disconnect, NewMap} \subseteq Command
    /\ Given \subseteq [command : Command, type : {0, 1}]
    /\ \A c, d \in Command : Supersedes(c, d) \in BOOLEAN

VARIABLES
    client,       \* the server's client_t
    toClient,     \* the netchan messages on their way to the client
    gamestates,   \* the gamestates on their way, through the transport
    toServer,     \* the client's messages on their way to the server
    remote,       \* the client: what it has executed
    lost          \* messages lost so far

netVars == <<toClient, gamestates, toServer, lost>>
vars == <<client, remote, netVars>>

State == {"CS_ZOMBIE", "CS_CONNECTED", "CS_PRIMED", "CS_ACTIVE"}

Connected(cl) == cl.state # "CS_ZOMBIE"
InGame(cl) == cl.state \in {"CS_PRIMED", "CS_ACTIVE"}

Slot(i) == i % Capacity

\* The command with number i, by its position in added.
At(cl, i) == cl.reliableCommands[Slot(i)]

Type(cl, id) == IF id = 0 THEN 0 ELSE cl.added[id].type

Pending(cl) == cl.reliableSequence - cl.reliableAcknowledge

Unsent(cl) == (cl.reliableSent + 1)..cl.reliableSequence

-----------------------------------------------------------------------------
(* SV_AddServerCommand and its helpers, as functions of the client_t. *)

\* Mutant of Compacted: commands of every type are removed.
CompactedAll(cl) == [cl EXCEPT !.reliableSequence = cl.reliableSent]

\* sub_5310E0: the commands of type 0 that were not sent yet are removed and
\* the others move up.  (Exact while no more than a ring is unsent; beyond,
\* the client is being dropped.)
Compacted(cl) ==
    LET kept == {i \in Unsent(cl) : Type(cl, At(cl, i)) # 0}
        to(i) == cl.reliableSent + Cardinality({j \in kept : j <= i})
    IN  [cl EXCEPT
           !.reliableCommands =
              [s \in 0..(Capacity - 1) |->
                  IF \E i \in kept : Slot(to(i)) = s
                  THEN At(cl, Max({i \in kept : Slot(to(i)) = s}))
                  ELSE @[s]],
           !.reliableSequence = cl.reliableSent + Cardinality(kept)]

\* Mutant of Obsolete: a command that was sent is replaced too.
ObsoletePending(cl, c) ==
    {i \in (cl.reliableAcknowledge + 1)..cl.reliableSequence :
        /\ Type(cl, At(cl, i)) # 0
        /\ Supersedes(c, cl.added[At(cl, i)].command)}

\* sub_530FC0: the unsent commands that c makes obsolete.
Obsolete(cl, c) ==
    {i \in Unsent(cl) :
        /\ Type(cl, At(cl, i)) # 0
        /\ Supersedes(c, cl.added[At(cl, i)].command)}

\* The first obsolete command leaves the ring, or a new number is taken.
MadeRoom(cl, c) ==
    IF Obsolete(cl, c) = {}
    THEN [cl EXCEPT !.reliableSequence = @ + 1]
    ELSE LET v4 == Min(Obsolete(cl, c))
         IN  [cl EXCEPT !.reliableCommands =
                [s \in 0..(Capacity - 1) |->
                    IF \E i \in v4..(cl.reliableSequence - 1) : Slot(i) = s
                    THEN @[Slot(s + 1)]
                    ELSE @[s]]]

\* Mutant of Stored: the number is not masked.
StoredUnmasked(cl, c, type) ==
    [cl EXCEPT !.added = Append(@, [command |-> c, type |-> type]),
               !.reliableCommands =
                  [s \in DOMAIN @ \cup {cl.reliableSequence} |->
                      IF s = cl.reliableSequence THEN Len(cl.added) + 1 ELSE @[s]]]

\* The command in the slot of the last number.
Stored(cl, c, type) ==
    [cl EXCEPT !.added = Append(@, [command |-> c, type |-> type]),
               !.reliableCommands[Slot(cl.reliableSequence)] = Len(cl.added) + 1]

Crowded(cl) == Pending(cl) >= Capacity \div 2 \/ cl.state # "CS_ACTIVE"

\* Mutant of Added: a command that is not taken uses a number.
AddedGap(cl, c, type) ==
    LET compact == IF Crowded(cl) THEN Compacted(cl) ELSE cl
        room == MadeRoom(compact, c)
    IN  IF Crowded(cl) /\ type = 0
        THEN room
        ELSE IF Pending(room) = Capacity + 1
        THEN Stored([room EXCEPT !.delayDropMsg = TRUE], Disconnect, 1)
        ELSE Stored(room, c, type)

Added(cl, c, type) ==
    LET compact == IF Crowded(cl) THEN Compacted(cl) ELSE cl
        room == MadeRoom(compact, c)
    IN  IF Crowded(cl) /\ type = 0
        THEN compact
        ELSE IF Pending(room) = Capacity + 1
        THEN Stored([room EXCEPT !.delayDropMsg = TRUE], Disconnect, 1)
        ELSE Stored(room, c, type)

\* SV_DropClientInternal: the outstanding commands are given up and the
\* disconnect command takes the number after the last acknowledged one.
Dropped(cl) ==
    IF ~Connected(cl)
    THEN cl
    ELSE [Added([cl EXCEPT !.reliableSequence = cl.reliableAcknowledge,
                           !.reliableSent = cl.reliableAcknowledge],
                Disconnect, 1)
             EXCEPT !.state = "CS_ZOMBIE"]

-----------------------------------------------------------------------------
(* The messages *)

\* The commands not acknowledged, up to number last, and behind them a
\* snapshot of the game after given commands (0 stands for no snapshot).
Packet(cl, last, given) ==
    [first |-> cl.reliableAcknowledge + 1,
     ids   |-> [k \in 1..(last - cl.reliableAcknowledge) |->
                   At(cl, cl.reliableAcknowledge + k)],
     given |-> given]

\* Mutant of Message: what was sent once is not repeated.
MessageOnce(cl) ==
    [first |-> cl.reliableSent + 1,
     ids   |-> [k \in 1..(cl.reliableSequence - cl.reliableSent) |->
                   At(cl, cl.reliableSent + k)],
     given |-> IF cl.state \in {"CS_ACTIVE", "CS_ZOMBIE"} THEN Len(cl.added) ELSE 0]

\* SV_UpdateServerCommandsToClient: every command not acknowledged; a client
\* that is not in the game yet gets no snapshot behind them.
Message(cl) ==
    Packet(cl, cl.reliableSequence,
           IF cl.state \in {"CS_ACTIVE", "CS_ZOMBIE"} THEN Len(cl.added) ELSE 0)

AllSent(cl) == [cl EXCEPT !.reliableSent = cl.reliableSequence]

\* Mutant of Transmitted: the delayed drop is forgotten.
TransmittedOnly(cl) == AllSent(cl)

\* SV_SendMessageToClient: a client with a delayed drop is dropped before
\* the message that was written for it goes out.
Transmitted(cl) == IF cl.delayDropMsg THEN Dropped(AllSent(cl)) ELSE AllSent(cl)

Init ==
    /\ client = [reliableSequence |-> 0, reliableAcknowledge |-> 0,
                 reliableSent |-> 0,
                 reliableCommands |-> [s \in 0..(Capacity - 1) |-> 0],
                 added |-> <<>>, state |-> "CS_CONNECTED",
                 gamestateSent |-> FALSE, delayDropMsg |-> FALSE,
                 level |-> 1, gamestates |-> 0, discarded |-> FALSE]
    /\ toClient = <<>>
    /\ gamestates = <<>>
    /\ toServer = <<>>
    /\ remote = [serverCommandSequence |-> 0, executed |-> <<>>,
                 level |-> 0, seen |-> 0, raced |-> FALSE]
    /\ lost = 0

\* A command for this client alone, or for all of them
\* (SV_SendServerCommandString): those reach only clients that are primed.
AddServerCommand(c, type) ==
    /\ Len(client.added) < MaxAdded
    /\ Connected(client)
    /\ client' = Added(client, c, type)
    /\ UNCHANGED <<remote, netVars>>

\* SV_DropClient, for any of its reasons.
DropClient ==
    /\ Connected(client)
    /\ client' = Dropped(client)
    /\ UNCHANGED <<remote, netVars>>

\* A drop with the reason "silent" sends nothing.
DropSilently ==
    /\ Connected(client)
    /\ client' = [client EXCEPT !.state = "CS_ZOMBIE"]
    /\ UNCHANGED <<remote, netVars>>

\* SV_SendClientSnapshot.
SendSnapshot ==
    /\ Len(toClient) < MaxInFlight
    /\ toClient' = Append(toClient, Message(client))
    /\ client' = Transmitted(client)
    /\ UNCHANGED <<gamestates, toServer, lost, remote>>

\* SV_EndClientSnapshot when the message overflows: in the game the commands
\* that fit go out alone (SV_UpdateServerCommandsToClientRecover); the
\* buffer has room for most of a full ring, hence for the first command.
SendRecovered ==
    /\ Len(toClient) < MaxInFlight
    /\ client.state \in {"CS_ACTIVE", "CS_ZOMBIE"}
    /\ \E last \in client.reliableAcknowledge..client.reliableSequence :
          /\ Pending(client) > 0 => last > client.reliableAcknowledge
          /\ toClient' = Append(toClient, Packet(client, last, 0))
    /\ client' = Transmitted(client)
    /\ UNCHANGED <<gamestates, toServer, lost, remote>>

\* Before the client is in the game it is dropped instead; the message that
\* goes out all the same is cut off, and nothing is expected of it.
SendOverflowed ==
    /\ client.state \in {"CS_CONNECTED", "CS_PRIMED"}
    /\ Pending(client) > 0
    /\ client' = Dropped(AllSent(client))
    /\ UNCHANGED <<remote, netVars>>

\* SV_SpawnServer: the map change is announced in a snapshot to a client in
\* the game, and every client waits for a new gamestate.
SpawnServer ==
    LET announced == Added(client, NewMap, 1)
        sent == IF InGame(client) THEN Transmitted(announced) ELSE client
    IN  /\ client.level < MaxLevels
        /\ Connected(client)
        /\ InGame(client) => /\ Len(client.added) < MaxAdded
                             /\ Len(toClient) < MaxInFlight
        /\ client' = IF Connected(sent)
                     THEN [sent EXCEPT !.state = "CS_CONNECTED",
                                       !.gamestateSent = FALSE,
                                       !.level = @ + 1]
                     ELSE sent
        /\ toClient' =
              IF InGame(client)
              THEN Append(toClient, Message(announced))
              ELSE toClient
        /\ UNCHANGED <<gamestates, toServer, lost, remote>>

\* SV_SendClientGameState: the pending commands go out in a message of the
\* netchan, the gamestate with the number of the last one through the
\* transport, which is closed when the message dropped the client.
SendGamestate(cl) ==
    LET primed == [cl EXCEPT !.state = "CS_PRIMED"]
        sent == Transmitted(primed)
    IN  /\ cl.gamestates < MaxGamestates
        /\ Len(toClient) < MaxInFlight
        /\ toClient' = Append(toClient, Message(primed))
        /\ gamestates' = IF Connected(sent)
                         THEN Append(gamestates,
                                     [sequence |-> sent.reliableSequence,
                                      level |-> sent.level])
                         ELSE gamestates
        /\ client' = [sent EXCEPT !.gamestateSent = TRUE, !.gamestates = @ + 1]

-----------------------------------------------------------------------------
(* SV_PacketEvent: a message of the client arrives.  Its acknowledge is     *)
(* taken as it is; when that leaves as much pending as the ring holds, all  *)
(* of it counts as acknowledged and the rest of the message, whose key      *)
(* would be in a slot used again, is not read.                              *)

\* Mutant of OutOfRange: a full ring is in range.
OutOfRangeLate(cl) == Pending(cl) > Capacity

OutOfRange(cl) == Pending(cl) > Capacity - 1

\* SV_Netchan_Decode: the key to the rest of the message is the command with
\* the number acknowledged.
DecodeKey(cl, p) == At(cl, p.acknowledge)

\* SV_ExecuteClientMessage for a client that plays an earlier map.
ExecuteStale(cl) ==
    \/ client' = cl /\ UNCHANGED <<toClient, gamestates>>
    \/ ~cl.gamestateSent /\ SendGamestate(cl)

\* SV_UserMove: the first usercmd of a client whose files were verified puts
\* it into the world; one in the world that has to be verified again gets the
\* gamestate again.
ExecuteMove(cl) ==
    \/ client' = cl /\ UNCHANGED <<toClient, gamestates>>
    \/ /\ cl.state = "CS_PRIMED"
       /\ client' = [cl EXCEPT !.state = "CS_ACTIVE"]
       /\ UNCHANGED <<toClient, gamestates>>
    \/ cl.state = "CS_ACTIVE" /\ SendGamestate(cl)

PacketEvent ==
    LET p  == Head(toServer)
        cl == [client EXCEPT !.reliableAcknowledge = p.acknowledge]
    IN  /\ toServer # <<>>
        /\ toServer' = Tail(toServer)
        /\ UNCHANGED <<lost, remote>>
        /\ \/ /\ OutOfRange(cl)
              /\ client' = [client EXCEPT
                    !.reliableAcknowledge = client.reliableSequence,
                    !.discarded = TRUE]
              /\ UNCHANGED <<toClient, gamestates>>
           \/ /\ ~OutOfRange(cl)
              /\ ~Connected(cl)
              /\ client' = cl
              /\ UNCHANGED <<toClient, gamestates>>
           \/ /\ ~OutOfRange(cl)
              /\ Connected(cl)
              /\ IF p.level = cl.level THEN ExecuteMove(cl) ELSE ExecuteStale(cl)

-----------------------------------------------------------------------------
(* The client, and the network *)

\* A message arrives: the commands not executed yet are executed, then the
\* snapshot that follows them.
RemoteMessage ==
    LET m == Head(toClient)
        next == remote.serverCommandSequence + 1
        last == m.first + Len(m.ids) - 1
        old == IF m.first >= next THEN 0 ELSE next - m.first
    IN  /\ toClient # <<>>
        /\ toClient' = Tail(toClient)
        /\ remote' =
              [remote EXCEPT
                 !.executed = @ \o SubSeq(m.ids, old + 1, Len(m.ids)),
                 !.serverCommandSequence =
                    IF m.ids # <<>> /\ last > @ THEN last ELSE @,
                 !.seen = IF m.given > @ THEN m.given ELSE @]
        /\ UNCHANGED <<gamestates, toServer, lost, client>>

\* A gamestate arrives.
RemoteGamestate ==
    LET g == Head(gamestates)
    IN  /\ gamestates # <<>>
        /\ gamestates' = Tail(gamestates)
        /\ remote' =
              [remote EXCEPT
                 !.serverCommandSequence = g.sequence,
                 !.level = g.level,
                 !.raced = @ \/ g.sequence # remote.serverCommandSequence]
        /\ UNCHANGED <<toClient, toServer, lost, client>>

\* The client sends usercmds, with the last command executed as their key.
RemoteSend ==
    /\ Len(toServer) < MaxInFlight
    /\ toServer' = Append(toServer,
          [acknowledge |-> remote.serverCommandSequence,
           key |-> IF remote.executed = <<>> THEN 0
                   ELSE remote.executed[Len(remote.executed)],
           level |-> remote.level])
    /\ UNCHANGED <<toClient, gamestates, lost, remote, client>>

LoseToClient ==
    /\ toClient # <<>> /\ lost < MaxLost
    /\ toClient' = Tail(toClient)
    /\ lost' = lost + 1
    /\ UNCHANGED <<gamestates, toServer, remote, client>>

LoseToServer ==
    /\ toServer # <<>> /\ lost < MaxLost
    /\ toServer' = Tail(toServer)
    /\ lost' = lost + 1
    /\ UNCHANGED <<toClient, gamestates, remote, client>>

-----------------------------------------------------------------------------
Next ==
    \/ \E g \in Given : AddServerCommand(g.command, g.type)
    \/ DropClient \/ DropSilently
    \/ SendSnapshot \/ SendRecovered \/ SendOverflowed
    \/ SpawnServer
    \/ PacketEvent
    \/ RemoteMessage \/ RemoteGamestate \/ RemoteSend
    \/ LoseToClient \/ LoseToServer

Spec == Init /\ [][Next]_vars

\* The server sends a snapshot in every few frames and reads the network in
\* each, the client sends usercmds all the time, and what is not lost
\* arrives.
Fairness ==
    /\ WF_vars(SendSnapshot) /\ WF_vars(PacketEvent)
    /\ WF_vars(RemoteMessage) /\ WF_vars(RemoteGamestate) /\ WF_vars(RemoteSend)

FairSpec == Spec /\ Fairness

-----------------------------------------------------------------------------
(* Properties *)

\* The state has the shape of client_t.
TypeOK ==
    /\ client.reliableSequence \in Nat
    /\ client.reliableAcknowledge \in Nat
    /\ client.reliableSent \in Nat
    /\ client.reliableCommands \in [0..(Capacity - 1) -> 0..Len(client.added)]
    /\ client.added \in Seq([command : Command, type : {0, 1}])
    /\ client.state \in State
    /\ client.gamestateSent \in BOOLEAN
    /\ client.delayDropMsg \in BOOLEAN
    /\ remote.serverCommandSequence \in Nat

\* The client is neither dropped nor about to be.
Staying == Connected(client) /\ ~client.delayDropMsg

\* A later command took the place of this one.
Superseded(id) ==
    \E later \in (id + 1)..Len(client.added) :
        Supersedes(client.added[later].command, client.added[id].command)

Executed(id) == \E k \in 1..Len(remote.executed) : remote.executed[k] = id

\* Every command that may not be lost and that was given before a snapshot
\* that the client has, was executed.
Guaranteed ==
    \A id \in 1..remote.seen :
        Type(client, id) # 0 /\ ~Superseded(id) => Executed(id)

\* sv_main.c:226, "guaranteed to not have future snapshot_t executed before
\* it is executed", for a client that stays, for which nothing was discarded
\* as out of range and for which no gamestate overtook commands.
ExecutedBeforeSnapshot ==
    Staying /\ ~client.discarded /\ ~remote.raced => Guaranteed

\* The same without the exception for a discarded acknowledge.
GuaranteeNothingDiscarded == Staying /\ ~remote.raced => Guaranteed

\* The same without the exception for a gamestate that arrives before, or
\* after, other commands than it was sent with.
GuaranteeThroughGamestate == Staying /\ ~client.discarded => Guaranteed

\* The client executes commands in the order they were given, each once.
ExecutedInOrder ==
    Staying /\ ~client.discarded /\ ~remote.raced =>
        \A k \in 1..(Len(remote.executed) - 1) :
            remote.executed[k] < remote.executed[k + 1]

\* A message that SV_PacketEvent goes on to read is decoded with the command
\* it was encoded with: the slot of the number acknowledged still keeps the
\* command that the client executed under that number.
DecodedWithItsKey ==
    Staying /\ ~client.discarded /\ ~remote.raced =>
        \A k \in 1..Len(toServer) :
            LET cl == [client EXCEPT
                          !.reliableAcknowledge = toServer[k].acknowledge]
            IN  ~OutOfRange(cl) => DecodeKey(cl, toServer[k]) = toServer[k].key

\* A number, once sent, keeps its command for as long as it may be repeated:
\* neither compacting nor replacing touches what was sent.
SentIsStable ==
    [][Staying' =>
          \A i \in (client'.reliableAcknowledge + 1)..client.reliableSent :
              At(client', i) = At(client, i)]_vars

\* Every command that may not be lost is eventually executed, superseded or
\* given up with the client.
EventuallyExecuted ==
    \A id \in 1..MaxAdded :
        id <= Len(client.added) /\ Type(client, id) # 0
        ~> \/ Executed(id) \/ Superseded(id)
           \/ ~Staying \/ client.discarded \/ remote.raced

\* A client whose ring overflowed is eventually dropped.
OverflowDrops == client.delayDropMsg ~> client.state = "CS_ZOMBIE"

=============================================================================
