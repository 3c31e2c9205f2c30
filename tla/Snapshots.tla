------------------------------ MODULE Snapshots ------------------------------
(***************************************************************************)
(* Snapshots and their delta compression (sv_snapshot.c).  Each message to *)
(* a client in the game holds a snapshot: the entities and the client      *)
(* states it sees.  The server keeps them for all clients in two rings and *)
(* remembers per message where they begin and how many there are; it sends *)
(* a snapshot as the difference to one that the client says it has, its    *)
(* base, when the base is recent enough and its part of the rings has not  *)
(* been written over.                                                      *)
(*                                                                         *)
(* The module follows one client.  The others enter with the room that     *)
(* their snapshots take in the rings, before and after this client's.  An  *)
(* entry of a ring is the number of the message it was written for, 0 for  *)
(* another client's.  A fragmented message (module Netchan) counts as one  *)
(* that stays longer on its way.                                           *)
(*                                                                         *)
(* The client's side is not in the repository.  It keeps its last          *)
(* PACKET_BACKUP snapshots, forgets them when a gamestate begins a map, or *)
(* the same map again, and asks for a delta (clc_move) only if the last    *)
(* message it received was a snapshot that it could decode.                *)
(*                                                                         *)
(* Left out: flags that an aborted redirect leaves set (Downloads), with   *)
(* which moves of another map are heeded (sv_client.c:1845).               *)
(***************************************************************************)
EXTENDS Integers, Sequences, FiniteSets

CONSTANTS
    Kind,          \* the rings: of entities and of client states
    Size,          \* numSnapshotEntities and numSnapshotClients
    PACKET_BACKUP, \* messages whose snapshots are remembered, 32 in the code
    Margin,        \* a base is not used if its slot is that near to reuse, 3
    Seen,          \* bound: what a snapshot may hold of each kind
    Others,        \* bound: what other clients' snapshots take in a frame
    MaxMessage,    \* bound: messages to the client
    MaxNext,       \* bound: entries written on a map
    MaxInFlight,   \* bound: messages, and gamestates, on their way
    MaxLevel       \* bound: maps played

\* Rings and numbers of messages
ASSUME SizeAssumption ==
    /\ Size \in [Kind -> Nat \ {0}]
    /\ PACKET_BACKUP \in Nat \ {0} /\ Margin \in 0..(PACKET_BACKUP - 1)
    /\ {MaxMessage, MaxNext, MaxInFlight} \subseteq Nat /\ MaxLevel \in Nat \ {0}

\* What all clients see in one frame fits in the rings: MAX_SNAPSHOT_ENTITIES
\* for each of MAX_CLIENTS is 65536 of 0x2A000, the client states of all
\* clients for each are sv_maxclients^2 of 32 times that.
ASSUME FrameFits ==
    /\ Seen \subseteq [Kind -> Nat] /\ Others \subseteq [Kind -> Nat]
    /\ \A own \in Seen, before, after \in Others, k \in Kind :
           before[k] + own[k] + after[k] <= Size[k]

VARIABLES
    next,       \* svs.nextSnapshotEntities, svs.nextSnapshotClients
    ring,       \* svs.snapshotEntities, svs.snapshotClients
    client,     \* svs.clients[i]
    level,      \* the server's id, sv.start_frameTime: which map is played
    toClient,   \* messages on their way: in order, some may be lost
    gamestates, \* gamestates on their way on the reliable transport
    toServer,   \* the client's latest packet, or none
    remote      \* the client's side

server == <<next, ring, client, level>>
vars == <<server, toClient, gamestates, toServer, remote>>

Slot == 0..(PACKET_BACKUP - 1)

Number == 0..MaxMessage

\* Which entries a snapshot holds, of each kind.  A wrong decoding is -1.
Content == [Kind -> SUBSET (-1..MaxMessage)]

Nothing == [k \in Kind |-> {}]

State == {"CS_ZOMBIE", "CS_CONNECTED", "CS_PRIMED", "CS_ACTIVE"}

\* clientSnapshot_t: first_entity and num_entities, first_client and num_clients
Frame == [first : [Kind -> Nat], num : [Kind -> Nat]]

\* A message: without a snapshot, or with one that is written relative to
\* the content old of the snapshot of message base (0: complete)
Message == [seq : Number, level : 0..MaxLevel, snap : BOOLEAN, base : Number,
            old : Content, new : Content]

Packet == [ack : Number, level : 0..MaxLevel, move : {"delta", "nodelta", "none"}]

TypeOK ==
    /\ next \in [Kind -> Nat]
    /\ \A k \in Kind : ring[k] \in [0..(Size[k] - 1) -> Number]
    /\ client \in [state : State, deltaMessage : -1..MaxMessage,
                   outgoingSequence : 1..(MaxMessage + 1), frames : [Slot -> Frame],
                   gamestateSent : BOOLEAN, gamestateMessageNum : -1..MaxMessage]
    /\ client.deltaMessage < client.outgoingSequence
    /\ client.gamestateMessageNum < client.outgoingSequence
    /\ level \in 1..MaxLevel
    /\ toClient \in Seq(Message)
    /\ gamestates \in Seq([level : 1..MaxLevel])
    /\ toServer \in SUBSET Packet /\ Cardinality(toServer) <= 1
    /\ remote.last \in Number /\ remote.level \in 0..MaxLevel
    /\ {remote.valid, remote.raced} \subseteq BOOLEAN
    /\ remote.forgot \in Number
    /\ \A n \in DOMAIN remote.snaps :
           n \in Number /\ remote.snaps[n] \in Content

-----------------------------------------------------------------------------
\* The rings and the frames

FrameOf(cl, n) == cl.frames[n % PACKET_BACKUP]

\* The rings with num entries of each kind written from position at
Put(rings, at, num, entry) ==
    [k \in Kind |-> [s \in 0..(Size[k] - 1) |->
        IF \E i \in at[k]..(at[k] + num[k] - 1) : i % Size[k] = s
        THEN entry ELSE rings[k][s]]]

Sum(f, g) == [k \in Kind |-> f[k] + g[k]]

NoEntries == [k \in Kind |-> 0]

\* What is in the rings where a frame has its entries
Entries(rings, frame) ==
    [k \in Kind |-> {rings[k][i % Size[k]] :
                        i \in frame.first[k]..(frame.first[k] + frame.num[k] - 1)}]

\* Mutant of Usable: a frame passes whose first entry has just been written over
UsableOnceMore(cl, nx) ==
    /\ cl.deltaMessage > 0 /\ cl.state = "CS_ACTIVE"
    /\ cl.outgoingSequence - cl.deltaMessage < PACKET_BACKUP - Margin
    /\ \A k \in Kind : FrameOf(cl, cl.deltaMessage).first[k] >= nx[k] - Size[k] - 1

\* Whether a snapshot may be written relative to the one the client has:
\* the choice of oldframe in SV_WriteSnapshotToClient
Usable(cl, nx) ==
    /\ cl.deltaMessage > 0 /\ cl.state = "CS_ACTIVE"
    /\ cl.outgoingSequence - cl.deltaMessage < PACKET_BACKUP - Margin
    /\ \A k \in Kind : FrameOf(cl, cl.deltaMessage).first[k] >= nx[k] - Size[k]

\* A message without a snapshot
Plain(cl) ==
    [seq |-> cl.outgoingSequence, level |-> level, snap |-> FALSE, base |-> 0,
     old |-> Nothing, new |-> Nothing]

\* A message with the snapshot of the current frame.  A demo recording asks
\* for a complete one now and then.
Snapshot(cl, rings, nx, forDemo) ==
    LET base == IF Usable(cl, nx) /\ ~forDemo THEN cl.deltaMessage ELSE 0
    IN  [Plain(cl) EXCEPT
            !.snap = TRUE, !.base = base,
            !.old = IF base = 0 THEN Nothing ELSE Entries(rings, FrameOf(cl, base)),
            !.new = Entries(rings, FrameOf(cl, cl.outgoingSequence))]

\* The messages SV_SendClientSnapshot may write: a snapshot only for a client
\* in the game or a zombie, and none if it overflowed the message, which is
\* then cleared and written again with the pending commands alone
Written(cl, rings, nx) ==
    {Plain(cl)} \cup
    (IF cl.state \in {"CS_ACTIVE", "CS_ZOMBIE"}
     THEN {Snapshot(cl, rings, nx, forDemo) : forDemo \in BOOLEAN} ELSE {})

\* Mutant of Transmitted: the number of the message is used again
TransmittedAgain(cl, nx) ==
    [cl EXCEPT !.frames[cl.outgoingSequence % PACKET_BACKUP] =
                   [first |-> nx, num |-> NoEntries]]

\* SV_Netchan_Transmit: the next message begins with an empty frame
Transmitted(cl, nx) ==
    LET out == cl.outgoingSequence + 1
    IN  [cl EXCEPT !.outgoingSequence = out,
            !.frames[out % PACKET_BACKUP] = [first |-> nx, num |-> NoEntries]]

CanSend(cl) ==
    cl.outgoingSequence <= MaxMessage /\ Len(toClient) < MaxInFlight

-----------------------------------------------------------------------------
\* The server

\* SV_BuildClientSnapshot: the frame of the message to be sent, with entries
\* from position at.  A zombie's is emptied where it is.
Built(cl, at, own) ==
    LET slot == cl.outgoingSequence % PACKET_BACKUP
    IN  CASE cl.state = "CS_ACTIVE" ->
               [cl EXCEPT !.frames[slot] = [first |-> at, num |-> own]]
          [] cl.state = "CS_ZOMBIE" -> [cl EXCEPT !.frames[slot].num = NoEntries]
          [] OTHER -> cl

\* SV_SendClientMessages: all snapshots of the frame are built, in the order
\* of the slots, before the first is written.  due: it is time for a message
\* to this client, and no fragments of the last are unsent.
SendClientMessages(due) ==
    /\ due => CanSend(client)
    /\ \A k \in Kind : next[k] < MaxNext
    /\ \E before, after \in Others, own \in Seen \cup {NoEntries} :
        LET at == Sum(next, before)
            cl == Built(client, at, own)
        IN  /\ own = NoEntries <=> ~(due /\ client.state = "CS_ACTIVE")
            /\ next' = Sum(Sum(at, own), after)
            /\ ring' = Put(Put(Put(ring, next, before, 0),
                               at, own, client.outgoingSequence),
                           Sum(at, own), after, 0)
            /\ IF due
               THEN /\ \E m \in Written(cl, ring', next') : toClient' = Append(toClient, m)
                    /\ client' = Transmitted(cl, next')
               ELSE UNCHANGED <<client, toClient>>
    /\ UNCHANGED <<level, gamestates, toServer, remote>>

\* Mutant of Reconnected: those in the game stay in it
ReconnectedActive(cl) == [cl EXCEPT !.gamestateSent = FALSE]

\* What a new map makes of a client
Reconnected(cl) ==
    IF cl.state = "CS_ZOMBIE" THEN cl
    ELSE [cl EXCEPT !.state = "CS_CONNECTED", !.gamestateSent = FALSE]

\* SV_SpawnServer: a last snapshot to those in the game; then the rings begin
\* anew, and all who stay have to be given the new gamestate
SpawnServer ==
    /\ level < MaxLevel
    /\ IF client.state \in {"CS_PRIMED", "CS_ACTIVE"}
       THEN /\ CanSend(client)
            /\ \E m \in Written(client, ring, next) : toClient' = Append(toClient, m)
            /\ client' = Reconnected(Transmitted(client, next))
       ELSE client' = Reconnected(client) /\ UNCHANGED toClient
    /\ next' = NoEntries
    /\ level' = level + 1
    /\ UNCHANGED <<ring, gamestates, toServer, remote>>

\* SV_MapRestart with the level kept (a fast restart)
MapRestart ==
    /\ client.state = "CS_ACTIVE" /\ client.deltaMessage # -1
    /\ client' = [client EXCEPT !.deltaMessage = -1]
    /\ UNCHANGED <<next, ring, level, toClient, gamestates, toServer, remote>>

\* SV_DropClientInternal, for any reason
DropClient ==
    /\ client.state # "CS_ZOMBIE"
    /\ client' = [client EXCEPT !.state = "CS_ZOMBIE"]
    /\ UNCHANGED <<next, ring, level, toClient, gamestates, toServer, remote>>

\* SV_SendClientGameState: a message with the pending commands, then the
\* gamestate on the reliable transport.  A client may be given the gamestate
\* of its map again.
SendClientGameState(cl) ==
    /\ CanSend(cl) /\ Len(gamestates) < MaxInFlight
    /\ toClient' = Append(toClient, Plain(cl))
    /\ gamestates' = Append(gamestates, [level |-> level])
    /\ client' = Transmitted([cl EXCEPT !.state = "CS_PRIMED", !.gamestateSent = TRUE,
                                        !.gamestateMessageNum = cl.outgoingSequence], next)

\* Mutant of Acknowledged: every message is taken for a snapshot
AcknowledgedAny(p) == p.ack

\* The snapshot that a move says the client has
Acknowledged(p) == IF p.move = "delta" THEN p.ack ELSE -1

\* SV_UserMove, with SV_ClientEnterWorld for the first move on a map.  Some
\* moves are not heeded: a wrong number of them, too many commands not yet
\* acknowledged, or no pure checksums so far.  (MoveUnauthenticated is what
\* the last does to a client in the game.)
UserMove(cl, p, heeded) ==
    LET entered == heeded /\ cl.state = "CS_PRIMED"
        early == heeded /\ cl.state = "CS_CONNECTED"
    IN  [cl EXCEPT !.state = IF entered THEN "CS_ACTIVE" ELSE @,
                   !.deltaMessage = IF entered \/ early THEN -1 ELSE Acknowledged(p)]

\* SV_UserMove for a client in the game whose pure checksums are not known,
\* or not any more: it is given the gamestate of the same map again
MoveUnauthenticated(cl, p) ==
    /\ cl.state = "CS_ACTIVE"
    /\ SendClientGameState([cl EXCEPT !.deltaMessage = Acknowledged(p)])

\* SV_PacketEvent and SV_ExecuteClientMessage: packets of another map only
\* ask for the gamestate, once.  It may be put off: while the client is not
\* authenticated, or for a plugin.
PacketEvent ==
    \E p \in toServer, heeded \in BOOLEAN :
        /\ toServer' = {}
        /\ \/ /\ client.state # "CS_ZOMBIE" /\ p.level # level
              /\ ~client.gamestateSent /\ p.ack > client.gamestateMessageNum
              /\ SendClientGameState(client)
           \/ /\ client.state # "CS_ZOMBIE" /\ p.level = level /\ p.move # "none"
              /\ client' = UserMove(client, p, heeded)
              /\ UNCHANGED <<toClient, gamestates>>
           \/ /\ p.level = level /\ p.move # "none"
              /\ MoveUnauthenticated(client, p)
           \/ /\ client.state = "CS_ZOMBIE" \/ p.level # level \/ p.move = "none"
              /\ UNCHANGED <<client, toClient, gamestates>>
        /\ UNCHANGED <<next, ring, level, remote>>

\* SV_DoneDownload_f, SV_WWWDownload_Fail_f or SV_WWWDownload_ChkFail_f: the
\* end of a download brings the gamestate, whatever the client has
DownloadOver ==
    /\ client.state # "CS_ZOMBIE"
    /\ SendClientGameState(client)
    /\ UNCHANGED <<next, ring, level, toServer, remote>>

-----------------------------------------------------------------------------
\* The client and the network

\* The client's packet.  It takes the place of one not yet handled, which is
\* late or lost.  There are no moves before the first gamestate.
SendPacket ==
    /\ toServer' = {[ack |-> remote.last, level |-> remote.level,
                     move |-> CASE remote.level = 0 -> "none"
                                [] remote.level # 0 /\ remote.valid -> "delta"
                                [] OTHER -> "nodelta"]}
    /\ toServer' # toServer
    /\ UNCHANGED <<server, toClient, gamestates, remote>>

\* What the client makes of a snapshot: right only if the base it has is the
\* one the server took the difference to
Decoded(m) ==
    IF m.base # 0 /\ remote.snaps[m.base] # m.old THEN [k \in Kind |-> {-1}] ELSE m.new

\* A message arrives.  A snapshot relative to one the client does not have
\* is of no use to it.
ReceiveMessage ==
    /\ toClient # <<>>
    /\ LET m == Head(toClient)
           kept == {n \in DOMAIN remote.snaps : n > m.seq - PACKET_BACKUP}
           valid == m.snap /\ (m.base = 0 \/ m.base \in kept)
       IN  remote' = [remote EXCEPT
               !.last = m.seq, !.valid = valid,
               !.snaps = [n \in kept \cup (IF valid THEN {m.seq} ELSE {}) |->
                             IF n = m.seq THEN Decoded(m) ELSE remote.snaps[n]]]
    /\ toClient' = Tail(toClient)
    /\ UNCHANGED <<server, gamestates, toServer>>

LoseMessage ==
    /\ toClient # <<>>
    /\ toClient' = Tail(toClient)
    /\ UNCHANGED <<server, gamestates, toServer, remote>>

\* A gamestate arrives, and may overtake messages of the map before (raced),
\* or of its own map if that has begun already.  Of its map, no snapshot up
\* to message forgot is left to the client.
ReceiveGamestate ==
    /\ gamestates # <<>>
    /\ LET g == Head(gamestates)
       IN  remote' = [remote EXCEPT
               !.level = g.level, !.valid = FALSE, !.snaps = << >>,
               !.forgot = IF g.level = remote.level THEN remote.last ELSE 0,
               !.raced = \E i \in DOMAIN toClient :
                            toClient[i].snap /\ toClient[i].level < g.level]
    /\ gamestates' = Tail(gamestates)
    /\ UNCHANGED <<server, toClient, toServer>>

-----------------------------------------------------------------------------

Init ==
    /\ next = NoEntries
    /\ ring = [k \in Kind |-> [s \in 0..(Size[k] - 1) |-> 0]]
    /\ client = [state |-> "CS_CONNECTED", deltaMessage |-> 0, outgoingSequence |-> 1,
                 frames |-> [s \in Slot |-> [first |-> NoEntries, num |-> NoEntries]],
                 gamestateSent |-> FALSE, gamestateMessageNum |-> -1]
    /\ level = 1
    /\ toClient = <<>> /\ gamestates = <<>> /\ toServer = {}
    /\ remote = [last |-> 0, level |-> 0, valid |-> FALSE, raced |-> FALSE,
                 forgot |-> 0, snaps |-> << >>]

Next ==
    \/ \E due \in BOOLEAN : SendClientMessages(due)
    \/ SpawnServer \/ MapRestart \/ DropClient
    \/ PacketEvent \/ DownloadOver
    \/ SendPacket
    \/ ReceiveMessage \/ LoseMessage \/ ReceiveGamestate

Spec == Init /\ [][Next]_vars

-----------------------------------------------------------------------------
\* Properties

\* A client sees what the server saw: each snapshot it decodes holds the
\* entries that were built for that message, although it was sent as the
\* difference to an older one whose entries all clients' snapshots write
\* over in the meantime.  Not claimed when a gamestate overtook messages of
\* the map before: numbers in the rings begin anew with each map, so a frame
\* of the map before passes for a recent one.
SeesTheGame ==
    ~remote.raced =>
        \A n \in DOMAIN remote.snaps, k \in Kind : remote.snaps[n][k] \subseteq {n}

\* A snapshot that arrives can be decoded: the client still has the base of
\* every difference sent to it on its map, whatever was lost, refused or
\* overflowed before.  Two exceptions: a gamestate that overtook messages of
\* the map before; and one of the map the client was on already, which made
\* it forget snapshots that it had acknowledged.  Differences to those are
\* of no use to it, and come until it acknowledges a later one.
HasBase ==
    ~remote.raced =>
        \A i \in DOMAIN toClient :
            /\ toClient[i].base > remote.forgot /\ toClient[i].level = remote.level
            => toClient[i].base \in DOMAIN remote.snaps

\* No snapshot of a map is on its way to a client that has not begun it: a
\* client in the game when the map changes is out of it until the moves it
\* sends are those of the new map.  A dropped client, which has left, is sent
\* (empty) snapshots whatever it knows.
OwnMap ==
    client.state # "CS_ZOMBIE" =>
    \A i \in DOMAIN toClient :
        toClient[i].snap => toClient[i].level <= remote.level

=============================================================================
