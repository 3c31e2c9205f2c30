----------------------------- MODULE ClientSlots -----------------------------
(***************************************************************************)
(* The table of clients: SV_DirectConnect finds a slot for a player or     *)
(* lets it wait in a queue, SV_DropClientInternal turns a client into a    *)
(* zombie, and SV_CheckTimeouts, once per frame, drops the silent ones and *)
(* frees the slots of zombies.                                             *)
(*                                                                         *)
(* A player stands for an address: an IP, that several may have, with the  *)
(* port and the qport, that no two share.  Its challenge is a hash of      *)
(* that.  Times are kept as ages: how long a client has been silent        *)
(* (svs.time - lastPacketTime), how long ago a player in the queue asked.  *)
(* A player with an older version (protocol below 7) is put in a slot as   *)
(* a zombie that is served by the update proxy.                            *)
(***************************************************************************)
EXTENDS Integers, FiniteSets, FiniteSetsExt

CONSTANTS
    Player,         \* the addresses that connect
    NoPlayer,       \* the address of a slot never used, or wiped
    IpOf(_),        \* the IP of a player
    Outdated,       \* the players with an older version
    Trusted,        \* the players that give sv_privatePassword
    MaxClients,     \* sv_maxclients
    PrivateClients, \* sv_privateClients: the first slots are for the trusted
    QueueLength,    \* players that can wait, 10 in the code
    Timeout,        \* sv_timeout
    ConnectTimeout, \* sv_connectTimeout
    ConnectedTime,  \* SV_MAXCS_CONNECTEDTIME
    ZombieTime,     \* sv_zombieTime
    UpdateTimeout,  \* MAX_UPDATETIMEOUT
    QueueTimeout,   \* seconds without asking after which a place is lost
    Patience,       \* frames a client may be overdue, 5 in the code
    MaxUpdates      \* bound: connections of outdated players

ASSUME SlotsAssumption ==
    /\ MaxClients \in Nat \ {0} /\ PrivateClients \in 0..MaxClients
    /\ QueueLength \in Nat \ {0}

ASSUME PlayerAssumption ==
    /\ NoPlayer \notin Player
    /\ Outdated \subseteq Player /\ Trusted \subseteq Player

ASSUME TimeAssumption ==
    {Timeout, ConnectTimeout, ConnectedTime, ZombieTime, UpdateTimeout,
     QueueTimeout, Patience} \subseteq Nat

VARIABLES
    clients,      \* svs.clients
    connectqueue, \* svse.connectqueue
    netstates,    \* reliable transports allocated and not freed
    gone,         \* the players that have vanished: they send nothing more
    updates       \* connections of outdated players so far

vars == <<clients, connectqueue, netstates, gone, updates>>

Index == 0..(MaxClients - 1)

State == {"CS_FREE", "CS_ZOMBIE", "CS_CONNECTED", "CS_PRIMED", "CS_ACTIVE"}

Connected(cl) == cl.state \in {"CS_CONNECTED", "CS_PRIMED", "CS_ACTIVE"}

\* Ages beyond every limit are alike.
Old == Max({Timeout, ConnectTimeout, ConnectedTime, UpdateTimeout}) + Patience
Aged(age, limit) == IF age > limit THEN age ELSE age + 1

\* A client_t wiped by Com_Memset.
Wiped == [state |-> "CS_FREE", player |-> NoPlayer, needupdate |-> FALSE,
          updateconnOK |-> FALSE, silent |-> 0, timeoutCount |-> 0,
          netstate |-> FALSE]

\* The queue has one entry more than players can wait.
Vacant == [player |-> NoPlayer, asked |-> 0]

Init ==
    /\ clients = [s \in Index |-> Wiped]
    /\ connectqueue = [i \in 0..QueueLength |-> Vacant]
    /\ netstates = 0
    /\ gone = {}
    /\ updates = 0

-----------------------------------------------------------------------------
(* The queue *)

\* Players that have not asked for a while lose their place.
Purged(q) ==
    [i \in 0..QueueLength |->
        IF i < QueueLength /\ q[i].asked > QueueTimeout THEN Vacant ELSE q[i]]

\* A waiting player's copy behind it, left at the end by a move, is dropped;
\* a vacant place is filled by moving those behind it up by one.
Visited(q, i) ==
    IF q[i] # Vacant
    THEN IF q[i + 1].player = q[i].player THEN [q EXCEPT ![i + 1] = Vacant] ELSE q
    ELSE [k \in 0..QueueLength |->
             IF k \in i..(QueueLength - 2) THEN q[k + 1] ELSE q[k]]

\* One pass over the queue.
MovedUp(q) ==
    LET pass[i \in 0..QueueLength] ==
            IF i = 0 THEN q ELSE Visited(pass[i - 1], i - 1)
    IN  pass[QueueLength]

\* The first vacant place or the player's own; QueueLength when there is none.
Place(q, p) ==
    Min({i \in 0..(QueueLength - 1) : q[i] = Vacant \/ q[i].player = p}
        \cup {QueueLength})

-----------------------------------------------------------------------------
(* SV_DropClientInternal: a client of the server becomes a zombie without   *)
(* its transport; one that is outdated is a zombie already.                 *)

Dropped(cl) ==
    IF Connected(cl)
    THEN [cl EXCEPT !.state = "CS_ZOMBIE", !.netstate = FALSE]
    ELSE cl

Held(table) == {s \in Index : table[s].netstate}

\* What the step from clients to table frees.
Freed(table) == Cardinality(Held(clients) \ Held(table))

DropClient(s) ==
    /\ Connected(clients[s])
    /\ clients' = [clients EXCEPT ![s] = Dropped(@)]
    /\ netstates' = netstates - 1
    /\ UNCHANGED <<connectqueue, gone, updates>>

-----------------------------------------------------------------------------
(* SV_DirectConnect *)

\* Mutant of Met: a zombie of the player is passed over.
MetConnected(p) ==
    {s \in Index :
        \/ clients[s].player = p /\ Connected(clients[s])
        \/ /\ clients[s].player \notin {NoPlayer, p}
           /\ IpOf(clients[s].player) = IpOf(p)
           /\ clients[s].state \in {"CS_CONNECTED", "CS_ZOMBIE"}}

\* The quick reject stops at the first slot with the address of the player,
\* or with its IP and a connection not completed.
Met(p) ==
    {s \in Index :
        \/ clients[s].player = p
        \/ /\ clients[s].player # NoPlayer /\ IpOf(clients[s].player) = IpOf(p)
           /\ clients[s].state \in {"CS_CONNECTED", "CS_ZOMBIE"}}

Returns(p) == Met(p) # {} /\ clients[Min(Met(p))].player = p

\* Mutant of AfterDrop: the slot is taken over as it is.
AfterNothing(p) == clients

\* A player whose address is in a slot already is dropped from it.
AfterDrop(p) ==
    IF Returns(p) THEN [clients EXCEPT ![Min(Met(p))] = Dropped(@)] ELSE clients

FreeSlots(from, to) == {s \in from..to : clients[s].state = "CS_FREE"}

PrivateSlots(p) == IF p \in Trusted THEN FreeSlots(0, PrivateClients - 1) ELSE {}

\* A public slot, when nobody waits before the player at place i.
PublicSlots(i) ==
    IF i = 0 THEN FreeSlots(PrivateClients, MaxClients - 1) ELSE {}

\* The slots to choose the first of: its own, a private or a public one.
SlotsFor(p, i) ==
    IF Returns(p) THEN {Min(Met(p))}
    ELSE IF PrivateSlots(p) # {} THEN PrivateSlots(p) ELSE PublicSlots(i)

Asks(p) ==
    /\ p \notin gone
    /\ Met(p) = {} \/ Returns(p)
    /\ p \in Outdated => updates < MaxUpdates
    /\ updates' = IF p \in Outdated THEN updates + 1 ELSE updates
    /\ UNCHANGED gone

\* An address that is banned, a password that is wrong, ...: the queue is
\* not looked at, the old client of the player is dropped all the same.
RejectConnect(p) ==
    /\ Asks(p)
    /\ clients' = AfterDrop(p)
    /\ netstates' = netstates - Freed(clients')
    /\ UNCHANGED connectqueue

\* No slot: the player waits in its place, if there is one.
Enqueue(p) ==
    LET q == MovedUp(Purged(connectqueue))
        i == Place(q, p)
    IN  /\ Asks(p)
        /\ SlotsFor(p, i) = {}
        /\ connectqueue' = IF i = QueueLength THEN q
                           ELSE [q EXCEPT ![i] = [player |-> p, asked |-> 0]]
        /\ UNCHANGED <<clients, netstates>>

\* A client that was a zombie served by the proxy keeps that when it comes
\* back outdated still.
Accepted(p, s) ==
    [Wiped EXCEPT !.player = p,
                  !.state = IF p \in Outdated THEN "CS_ZOMBIE" ELSE "CS_CONNECTED",
                  !.needupdate = p \in Outdated,
                  !.updateconnOK = /\ p \in Outdated /\ clients[s].player = p
                                   /\ clients[s].state # "CS_FREE"
                                   /\ clients[s].updateconnOK,
                  !.netstate = p \notin Outdated]

\* A slot: the client is accepted, or the slot is wiped again because a
\* plugin, the game or the missing update server refuse the player, or there
\* is no memory for the transport, which leaves the address in the slot.
Connect(p) ==
    LET q == MovedUp(Purged(connectqueue))
        i == Place(q, p)
        s == Min(SlotsFor(p, i))
        left == IF Returns(p) \/ PrivateSlots(p) # {} THEN q
                ELSE [q EXCEPT ![0] = Vacant]
        Becomes(cl) ==
            /\ clients' = [AfterDrop(p) EXCEPT ![s] = cl]
            /\ netstates' = netstates - Freed(AfterDrop(p))
                             + (IF cl.netstate THEN 1 ELSE 0)
    IN  /\ Asks(p)
        /\ SlotsFor(p, i) # {}
        /\ \/ Becomes(Accepted(p, s)) /\ connectqueue' = left
           \/ Becomes(Wiped) /\ connectqueue' = [left EXCEPT ![i] = Vacant]
           \/ Becomes(Wiped) /\ connectqueue' = left
           \/ /\ p \notin Outdated
              /\ Becomes([Wiped EXCEPT !.player = p])
              /\ connectqueue' = left

-----------------------------------------------------------------------------
(* Packets, the map and the clock *)

\* A gamestate primes a client, in the game too, and a usercmd of a primed
\* one puts it into the game.
Advance == {<<"CS_CONNECTED", "CS_PRIMED">>, <<"CS_PRIMED", "CS_ACTIVE">>,
            <<"CS_ACTIVE", "CS_PRIMED">>}
           \cup {<<state, state>> : state \in State}

\* SV_PacketEvent for a connected client: it is heard, and may get further.
PacketEvent(s) ==
    /\ Connected(clients[s]) /\ clients[s].player \notin gone
    /\ \E state \in {"CS_CONNECTED", "CS_PRIMED", "CS_ACTIVE"} :
          /\ <<clients[s].state, state>> \in Advance
          /\ clients' = [clients EXCEPT ![s].silent = 0, ![s].state = state]
    /\ UNCHANGED <<connectqueue, netstates, gone, updates>>

\* SV_PacketEvent for an outdated client: passed on to the update proxy.
PassToUpdateProxy(s) ==
    /\ clients[s].state # "CS_FREE" /\ clients[s].player \notin gone
    /\ clients[s].needupdate /\ clients[s].updateconnOK
    /\ clients' = [clients EXCEPT ![s].silent = 0]
    /\ UNCHANGED <<connectqueue, netstates, gone, updates>>

\* The update server answers.
UpdateProxyConnectResponse(s) ==
    /\ clients[s].state = "CS_ZOMBIE" /\ clients[s].needupdate
    /\ clients' = [clients EXCEPT ![s].updateconnOK = TRUE]
    /\ UNCHANGED <<connectqueue, netstates, gone, updates>>

\* SV_SpawnServer: every client enters the new map, or the game drops it.
SpawnServer ==
    /\ \E denied \in SUBSET Index :
          clients' = [s \in Index |->
                        IF ~Connected(clients[s]) THEN clients[s]
                        ELSE IF s \in denied THEN Dropped(clients[s])
                        ELSE [clients[s] EXCEPT !.state = "CS_CONNECTED"]]
    /\ netstates' = netstates - Freed(clients')
    /\ UNCHANGED <<connectqueue, gone, updates>>

Overdue(cl) ==
    \/ cl.state = "CS_ACTIVE" /\ cl.silent > Timeout
    \/ cl.state = "CS_CONNECTED" /\ cl.silent > ConnectedTime
    \/ cl.state = "CS_PRIMED" /\ cl.silent > ConnectTimeout

Expired(cl) == cl.state = "CS_ZOMBIE" /\ cl.silent > ZombieTime

\* Mutant of Updating: without the time limit.
UpdatingForEver(cl) == Expired(cl) /\ cl.needupdate

Updating(cl) == Expired(cl) /\ cl.needupdate /\ cl.silent < UpdateTimeout

\* Mutant of Checked: one frame more of patience.
CheckedLate(cl) ==
    IF Expired(cl) THEN [cl EXCEPT !.state = "CS_FREE"]
    ELSE IF ~Overdue(cl) THEN [cl EXCEPT !.timeoutCount = 0]
    ELSE IF cl.timeoutCount <= Patience THEN [cl EXCEPT !.timeoutCount = @ + 1]
    ELSE [Dropped(cl) EXCEPT !.state = "CS_FREE", !.timeoutCount = @ + 1]

\* What the loop of SV_CheckTimeouts does with one client.
Checked(cl) ==
    IF Expired(cl) THEN [cl EXCEPT !.state = "CS_FREE"]
    ELSE IF ~Overdue(cl) THEN [cl EXCEPT !.timeoutCount = 0]
    ELSE IF cl.timeoutCount < Patience THEN [cl EXCEPT !.timeoutCount = @ + 1]
    ELSE [Dropped(cl) EXCEPT !.state = "CS_FREE", !.timeoutCount = @ + 1]

\* The loop returns at the first zombie that is updating.
Reached(table, s) == \A r \in 0..s : ~Updating(table[r])

\* A frame: time passes, and SV_CheckTimeouts looks at the clients.
Frame ==
    LET later == [s \in Index |-> [clients[s] EXCEPT !.silent = Aged(@, Old)]]
    IN  /\ clients' = [s \in Index |->
                         IF Reached(later, s) THEN Checked(later[s]) ELSE later[s]]
        /\ connectqueue' =
              [i \in 0..QueueLength |->
                  IF connectqueue[i] = Vacant THEN Vacant
                  ELSE [connectqueue[i] EXCEPT !.asked = Aged(@, QueueTimeout)]]
        /\ netstates' = netstates - Freed(clients')
        /\ UNCHANGED <<gone, updates>>

\* A player vanishes.
Vanish(p) ==
    /\ p \notin gone
    /\ gone' = gone \cup {p}
    /\ UNCHANGED <<clients, connectqueue, netstates, updates>>

-----------------------------------------------------------------------------
Next ==
    \/ \E p \in Player :
          RejectConnect(p) \/ Enqueue(p) \/ Connect(p) \/ Vanish(p)
    \/ \E s \in Index :
          \/ DropClient(s) \/ PacketEvent(s)
          \/ PassToUpdateProxy(s) \/ UpdateProxyConnectResponse(s)
    \/ SpawnServer
    \/ Frame

Spec == Init /\ [][Next]_vars

\* The server runs frames for ever.
FairSpec == Spec /\ WF_vars(Frame)

-----------------------------------------------------------------------------
(* Properties *)

\* The state has the shape of client_t and connectqueue_t.
TypeOK ==
    /\ clients \in [Index -> [state : State, player : Player \cup {NoPlayer},
                              needupdate : BOOLEAN, updateconnOK : BOOLEAN,
                              silent : 0..(Old + 1),
                              timeoutCount : 0..(Patience + 1),
                              netstate : BOOLEAN]]
    /\ connectqueue \in [0..QueueLength -> [player : Player \cup {NoPlayer},
                                            asked : 0..(QueueTimeout + 1)]]
    /\ netstates \in Nat
    /\ gone \subseteq Player

\* An address has at most one slot in use, so that SV_ReadPackets gives a
\* packet to the client that sent it.
OneSlotPerAddress ==
    \A r, s \in Index :
        /\ clients[r].state # "CS_FREE" /\ clients[s].state # "CS_FREE"
        /\ clients[r].player = clients[s].player
        => r = s

\* The connected clients are those with a transport, and none is lost when a
\* slot is wiped, freed or given to another client.
TransportsKept ==
    /\ \A s \in Index : clients[s].netstate <=> Connected(clients[s])
    /\ netstates = Cardinality(Held(clients))

\* The slot of a vanished player becomes free for others.
GoneIsFreed ==
    \A s \in Index : \A p \in Player :
        (p \in gone /\ clients[s].player = p) ~> clients[s].state = "CS_FREE"

\* sv_main.c:3741, "If a packet has not been received from a client for
\* timeout->integer seconds, drop the conneciton", with the frames it waits.
SilentIsDropped ==
    \A s \in Index :
        clients[s].state = "CS_ACTIVE" => clients[s].silent <= Timeout + Patience

=============================================================================
