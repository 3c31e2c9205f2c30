--------------------------- MODULE ClientSlotsProofs ---------------------------
(***************************************************************************)
(* That an address has one slot, that no transport is leaked or lost and   *)
(* that the table and the queue keep their types, for any number of slots, *)
(* private slots and players, any IPs and any time limits.                 *)
(*                                                                         *)
(* OneSlotPerAddress is not inductive: the quick reject of                 *)
(* SV_DirectConnect stops at the first slot with the player's address,     *)
(* also when that is free, and a slot in use after it would be missed.     *)
(* The inductive invariant is that an address is in one slot at most, free *)
(* or not (OneSlotAtAll).                                                  *)
(*                                                                         *)
(* For the types, TypeInv adds that a client overdue for longer than       *)
(* allowed is in a free slot, and that the queue keeps its shape.  One     *)
(* pass over the queue (MovedUp) is a function defined by recursion: that  *)
(* there is such a function, and that the pass keeps what each visit       *)
(* keeps, is shown by the least place for which it would not be so.        *)
(***************************************************************************)
EXTENDS ClientSlots, FiniteSetTheorems, WellFoundedInduction, TLAPS

\* client_t, with ages and counts of any size
Shape == [state : State, player : Player \cup {NoPlayer}, needupdate : BOOLEAN,
          updateconnOK : BOOLEAN, silent : Int, timeoutCount : Int,
          netstate : BOOLEAN]

\* No address is in two slots, free ones included
OneSlotAtAll(table) ==
    \A r, s \in Index :
        table[r].player # NoPlayer /\ table[r].player = table[s].player => r = s

\* A slot in use has an address
UsedByPlayer(cl) == cl.state # "CS_FREE" => cl.player # NoPlayer

\* A connected client, and no other, has a transport
TransportIfConnected(cl) == cl.netstate <=> Connected(cl)

Proper(cl) == cl \in Shape /\ UsedByPlayer(cl) /\ TransportIfConnected(cl)

ProperTable(table) ==
    /\ DOMAIN table = Index /\ table = [s \in Index |-> table[s]]
    /\ \A s \in Index : Proper(table[s])

SlotsInv ==
    /\ ProperTable(clients)
    /\ OneSlotAtAll(clients)
    /\ netstates = Cardinality(Held(clients))

-----------------------------------------------------------------------------
\* Sets of slots

\* A set of naturals has a least element, and Min is that
LEMMA MinIsLeast ==
    ASSUME NEW S \in SUBSET Nat, S # {}
    PROVE  Min(S) \in S /\ \A y \in S : Min(S) <= y
<1> DEFINE R == {ss \in Nat \X Nat : ss[1] < ss[2]}
<1>1. IsWellFoundedOn(R, Nat)
  BY NatLessThanWellFounded DEF OpToRel
<1>2. PICK x \in S : \A y \in S : ~(<<y, x>> \in R)
  <2> HIDE DEF R
  <2> QED
    BY <1>1, WFMin
<1>3. \A y \in S : x <= y
  <2> TAKE y \in S
  <2>1. x \in Nat /\ y \in Nat /\ <<y, x>> \in Nat \X Nat
    OBVIOUS
  <2>2. <<y, x>> \notin R => ~(y < x)
    BY <2>1
  <2> QED
    BY <1>2, <2>1, <2>2
<1> QED
  BY <1>3 DEF Min

LEMMA IndexInNat == Index \subseteq Nat
BY SlotsAssumption DEF Index

LEMMA HeldFinite ==
    ASSUME NEW table
    PROVE  IsFiniteSet(Held(table))
<1>1. MaxClients - 1 \in Int
  BY SlotsAssumption
<1>2. IsFiniteSet(Index)
  BY <1>1, FS_Interval DEF Index
<1> QED
  BY <1>2, FS_Subset DEF Held

\* Where a step only takes transports away, Freed says how many
LEMMA FreedAll ==
    ASSUME NEW table, Held(table) \subseteq Held(clients),
           netstates = Cardinality(Held(clients))
    PROVE  netstates - Freed(table) = Cardinality(Held(table))
<1> DEFINE H == Held(clients)
           T == Held(table)
<1>1. IsFiniteSet(H) /\ IsFiniteSet(T)
  BY HeldFinite
<1>2. Cardinality(H \ T) = Cardinality(H) - Cardinality(H \cap T)
  BY <1>1, FS_Difference
<1>3. H \cap T = T
  OBVIOUS
<1>4. Cardinality(H) \in Nat /\ Cardinality(T) \in Nat
  BY <1>1, FS_CardinalityType
<1>5. Cardinality(H \cap T) = Cardinality(T)
  BY <1>3
<1> HIDE DEF H, T
<1>6. Cardinality(H) - Cardinality(H \ T) = Cardinality(T)
  BY <1>2, <1>4, <1>5
<1> QED
  BY <1>6 DEF Freed, H, T

-----------------------------------------------------------------------------
\* What is done with one client

LEMMA WipedProper == Proper(Wiped)
BY DEF Wiped, Proper, Shape, State, UsedByPlayer, TransportIfConnected, Connected

\* Dropping keeps the address, and leaves no transport
LEMMA DroppedProper ==
    ASSUME NEW cl, Proper(cl)
    PROVE  /\ Proper(Dropped(cl))
           /\ Dropped(cl).player = cl.player
           /\ ~Dropped(cl).netstate
BY DEF Dropped, Proper, Shape, State, UsedByPlayer, TransportIfConnected, Connected

LEMMA CheckedProper ==
    ASSUME NEW cl, Proper(cl)
    PROVE  /\ Proper(Checked(cl))
           /\ Checked(cl).player = cl.player
           /\ Checked(cl).netstate => cl.netstate
<1>1. CASE Expired(cl)
  <2>1. Checked(cl) = [cl EXCEPT !.state = "CS_FREE"]
    BY <1>1 DEF Checked
  <2> QED
    BY <1>1, <2>1 DEF Expired, Proper, Shape, State, UsedByPlayer, TransportIfConnected, Connected
<1>2. CASE ~Expired(cl) /\ ~Overdue(cl)
  <2>1. Checked(cl) = [cl EXCEPT !.timeoutCount = 0]
    BY <1>2 DEF Checked
  <2> QED
    BY <2>1 DEF Proper, Shape, State, UsedByPlayer, TransportIfConnected, Connected
<1>3. CASE ~Expired(cl) /\ Overdue(cl) /\ cl.timeoutCount < Patience
  <2>1. Checked(cl) = [cl EXCEPT !.timeoutCount = @ + 1]
    BY <1>3 DEF Checked
  <2> QED
    BY <2>1 DEF Proper, Shape, State, UsedByPlayer, TransportIfConnected, Connected
<1>4. CASE ~Expired(cl) /\ Overdue(cl) /\ ~(cl.timeoutCount < Patience)
  <2> DEFINE d == Dropped(cl)
  <2>1. Checked(cl) = [d EXCEPT !.state = "CS_FREE", !.timeoutCount = @ + 1]
    BY <1>4 DEF Checked
  <2>2. Proper(d) /\ d.player = cl.player /\ ~d.netstate
    BY DroppedProper
  <2> HIDE DEF d
  <2> DEFINE free == [d EXCEPT !.state = "CS_FREE"]
  <2>3. Proper(free) /\ free.player = d.player /\ ~free.netstate
    BY <2>2 DEF Proper, Shape, State, UsedByPlayer, TransportIfConnected, Connected
  <2>4. Checked(cl) = [free EXCEPT !.timeoutCount = @ + 1]
    BY <2>1
  <2> HIDE DEF free
  <2> QED
    BY <2>2, <2>3, <2>4 DEF Proper, Shape, State, UsedByPlayer, TransportIfConnected,
       Connected
<1> QED
  BY <1>1, <1>2, <1>3, <1>4

\* A slot wiped, but for an address
LEMMA RefusedProper ==
    ASSUME NEW p \in Player
    PROVE  /\ Proper([Wiped EXCEPT !.player = p])
           /\ [Wiped EXCEPT !.player = p].player = p
<1>1. Wiped \in Shape /\ Wiped.state = "CS_FREE" /\ ~Wiped.netstate
  BY DEF Wiped, Shape, State
<1> DEFINE cl == [Wiped EXCEPT !.player = p]
<1>2. /\ cl \in Shape /\ cl.player = p
      /\ cl.state = "CS_FREE" /\ ~cl.netstate
  BY <1>1 DEF Shape
<1> HIDE DEF cl
<1> QED
  BY <1>2 DEF cl, Proper, UsedByPlayer, TransportIfConnected, Connected

LEMMA AcceptedProper ==
    ASSUME NEW p \in Player, NEW s
    PROVE  Proper(Accepted(p, s)) /\ Accepted(p, s).player = p
<1> DEFINE ok == /\ p \in Outdated /\ clients[s].player = p
                 /\ clients[s].state # "CS_FREE" /\ clients[s].updateconnOK
           state == IF p \in Outdated THEN "CS_ZOMBIE" ELSE "CS_CONNECTED"
           old == p \in Outdated
           held == p \notin Outdated
           a == [Wiped EXCEPT !.player = p]
           b == [a EXCEPT !.state = state]
           c == [b EXCEPT !.needupdate = old]
           d == [c EXCEPT !.updateconnOK = ok]
           e == [d EXCEPT !.netstate = held]
<1>1. Accepted(p, s) = e
  BY DEF Accepted
<1>2. /\ state \in {"CS_ZOMBIE", "CS_CONNECTED"}
      /\ held <=> state = "CS_CONNECTED"
      /\ ok \in BOOLEAN /\ old \in BOOLEAN /\ held \in BOOLEAN
      /\ p # NoPlayer
  BY PlayerAssumption
<1> HIDE DEF ok, state, old, held
<1>3. a \in Shape /\ a.player = p
  BY RefusedProper DEF Proper
<1> HIDE DEF a
<1>4. b \in Shape /\ b.player = p /\ b.state = state
  BY <1>2, <1>3 DEF Shape, State
<1> HIDE DEF b
<1>5. c \in Shape /\ c.player = p /\ c.state = state
  BY <1>2, <1>4 DEF Shape
<1> HIDE DEF c
<1>6. d \in Shape /\ d.player = p /\ d.state = state
  BY <1>2, <1>5 DEF Shape
<1> HIDE DEF d
<1>7. e \in Shape /\ e.player = p /\ e.state = state /\ e.netstate = held
  BY <1>2, <1>6 DEF Shape
<1> HIDE DEF e
<1> QED
  BY <1>1, <1>2, <1>7 DEF Proper, UsedByPlayer, TransportIfConnected, Connected

\* Time and what a client sends change neither its address nor its transport
LEMMA SilentProper ==
    ASSUME NEW cl, Proper(cl), NEW n \in Int
    PROVE  /\ Proper([cl EXCEPT !.silent = n])
           /\ [cl EXCEPT !.silent = n].player = cl.player
           /\ [cl EXCEPT !.silent = n].netstate = cl.netstate
BY DEF Proper, Shape, State, UsedByPlayer, TransportIfConnected, Connected

-----------------------------------------------------------------------------
\* Steps that change clients where they are

\* A step after which each slot has the address it had, and a transport only
\* if it had one
LEMMA InPlace ==
    ASSUME SlotsInv, NEW table, ProperTable(table),
           \A s \in Index : /\ table[s].player = clients[s].player
                            /\ table[s].netstate => clients[s].netstate,
           clients' = table, netstates' = netstates - Freed(table)
    PROVE  SlotsInv'
<1>1. Held(table) \subseteq Held(clients)
  BY DEF Held
<1>2. netstates' = Cardinality(Held(table))
  BY <1>1, FreedAll DEF SlotsInv
<1>3. OneSlotAtAll(table)
  BY DEF OneSlotAtAll, SlotsInv
<1> QED
  BY <1>2, <1>3 DEF SlotsInv, Held

\* ... and no transport is taken away
LEMMA InPlaceSame ==
    ASSUME SlotsInv, NEW table, ProperTable(table),
           \A s \in Index : /\ table[s].player = clients[s].player
                            /\ table[s].netstate = clients[s].netstate,
           clients' = table, netstates' = netstates
    PROVE  SlotsInv'
<1>1. Held(table) = Held(clients)
  BY DEF Held
<1>2. OneSlotAtAll(table)
  BY DEF OneSlotAtAll, SlotsInv
<1> QED
  BY <1>1, <1>2 DEF SlotsInv, Held

LEMMA InitSlots == Init => SlotsInv
<1> SUFFICES ASSUME Init PROVE SlotsInv
  OBVIOUS
<1>1. \A s \in Index : clients[s] = Wiped
  BY DEF Init
<1>2. ProperTable(clients)
  BY <1>1, WipedProper DEF Init, ProperTable
<1>3. OneSlotAtAll(clients)
  BY <1>1 DEF OneSlotAtAll, Wiped
<1>4. Held(clients) = {}
  BY <1>1 DEF Held, Wiped
<1> QED
  BY <1>2, <1>3, <1>4, FS_EmptySet DEF SlotsInv, Init

LEMMA DropSlots ==
    ASSUME SlotsInv, NEW s \in Index, DropClient(s)
    PROVE  SlotsInv'
<1> DEFINE table == [clients EXCEPT ![s] = Dropped(@)]
<1>1. \A r \in Index : table[r] = IF r = s THEN Dropped(clients[s]) ELSE clients[r]
  BY DEF SlotsInv, ProperTable
<1>2. ProperTable(table)
  BY <1>1, DroppedProper DEF SlotsInv, ProperTable
<1>3. s \in Held(clients) /\ Held(table) = Held(clients) \ {s}
  BY <1>1, DroppedProper DEF SlotsInv, ProperTable, Proper, TransportIfConnected, DropClient,
     Held
<1>4. Freed(table) = 1
  <2>1. Held(clients) \ Held(table) = {s}
    BY <1>3
  <2>2. Cardinality({s}) = 1
    BY FS_Singleton
  <2> QED
    BY <2>1, <2>2 DEF Freed
<1>5. \A r \in Index : /\ table[r].player = clients[r].player
                       /\ table[r].netstate => clients[r].netstate
  BY <1>1, DroppedProper DEF SlotsInv, ProperTable
<1>6. clients' = table /\ netstates' = netstates - 1
  BY DEF DropClient
<1> HIDE DEF table
<1> QED
  BY <1>2, <1>4, <1>5, <1>6, InPlace

LEMMA PacketSlots ==
    ASSUME SlotsInv, NEW s \in Index, PacketEvent(s)
    PROVE  SlotsInv'
<1>1. PICK state \in {"CS_CONNECTED", "CS_PRIMED", "CS_ACTIVE"} :
          clients' = [clients EXCEPT ![s].silent = 0, ![s].state = state]
  BY DEF PacketEvent
<1> DEFINE cl == [clients[s] EXCEPT !.silent = 0, !.state = state]
           table == [clients EXCEPT ![s] = cl]
<1>2. Proper(clients[s]) /\ Connected(clients[s])
  BY DEF SlotsInv, ProperTable, PacketEvent
<1>3. /\ Proper(cl) /\ cl.player = clients[s].player
      /\ cl.netstate = clients[s].netstate
  <2> DEFINE heard == [clients[s] EXCEPT !.silent = 0]
  <2>1. /\ Proper(heard) /\ heard.player = clients[s].player
        /\ heard.netstate = clients[s].netstate /\ Connected(heard)
    BY <1>2, SilentProper DEF Connected, Proper, Shape
  <2>2. cl = [heard EXCEPT !.state = state]
    OBVIOUS
  <2> HIDE DEF heard, cl
  <2> QED
    BY <2>1, <2>2 DEF Proper, Shape, State, UsedByPlayer, TransportIfConnected, Connected
<1>4. clients' = table
  BY <1>1 DEF SlotsInv, ProperTable
<1> HIDE DEF cl
<1>5. \A r \in Index : table[r] = IF r = s THEN cl ELSE clients[r]
  BY DEF SlotsInv, ProperTable
<1>6. ProperTable(table)
  BY <1>3, <1>5 DEF SlotsInv, ProperTable
<1>7. \A r \in Index : /\ table[r].player = clients[r].player
                       /\ table[r].netstate = clients[r].netstate
  BY <1>3, <1>5
<1>8. netstates' = netstates
  BY DEF PacketEvent
<1> HIDE DEF table
<1> QED
  BY <1>4, <1>6, <1>7, <1>8, InPlaceSame

LEMMA ProxySlots ==
    ASSUME SlotsInv, NEW s \in Index,
           PassToUpdateProxy(s) \/ UpdateProxyConnectResponse(s)
    PROVE  SlotsInv'
<1> DEFINE heard == [clients[s] EXCEPT !.silent = 0]
           served == [clients[s] EXCEPT !.updateconnOK = TRUE]
<1>1. PICK cl \in {heard, served} : clients' = [clients EXCEPT ![s] = cl]
  BY DEF PassToUpdateProxy, UpdateProxyConnectResponse, SlotsInv, ProperTable
<1>2. Proper(clients[s])
  BY DEF SlotsInv, ProperTable
<1>3. /\ Proper(cl) /\ cl.player = clients[s].player
      /\ cl.netstate = clients[s].netstate
  <2>1. /\ Proper(heard) /\ heard.player = clients[s].player
        /\ heard.netstate = clients[s].netstate
    BY <1>2, SilentProper
  <2>2. /\ Proper(served) /\ served.player = clients[s].player
        /\ served.netstate = clients[s].netstate
    BY <1>2 DEF Proper, Shape, State, UsedByPlayer, TransportIfConnected, Connected
  <2> HIDE DEF heard, served
  <2> QED
    BY <2>1, <2>2
<1> DEFINE table == [clients EXCEPT ![s] = cl]
<1>5. \A r \in Index : table[r] = IF r = s THEN cl ELSE clients[r]
  BY DEF SlotsInv, ProperTable
<1>6. ProperTable(table)
  BY <1>3, <1>5 DEF SlotsInv, ProperTable
<1>7. \A r \in Index : /\ table[r].player = clients[r].player
                       /\ table[r].netstate = clients[r].netstate
  BY <1>3, <1>5
<1>8. netstates' = netstates /\ clients' = table
  BY <1>1 DEF PassToUpdateProxy, UpdateProxyConnectResponse
<1> HIDE DEF table
<1> QED
  BY <1>6, <1>7, <1>8, InPlaceSame

LEMMA SpawnSlots ==
    ASSUME SlotsInv, SpawnServer
    PROVE  SlotsInv'
<1>1. PICK denied \in SUBSET Index :
          clients' = [s \in Index |->
                        IF ~Connected(clients[s]) THEN clients[s]
                        ELSE IF s \in denied THEN Dropped(clients[s])
                        ELSE [clients[s] EXCEPT !.state = "CS_CONNECTED"]]
  BY DEF SpawnServer
<1>2. ASSUME NEW s \in Index
      PROVE  /\ Proper(clients'[s])
             /\ clients'[s].player = clients[s].player
             /\ clients'[s].netstate => clients[s].netstate
  <2>1. Proper(clients[s])
    BY DEF SlotsInv, ProperTable
  <2>2. CASE ~Connected(clients[s])
    BY <1>1, <2>1, <2>2
  <2>3. CASE Connected(clients[s]) /\ s \in denied
    BY <1>1, <2>1, <2>3, DroppedProper
  <2>4. CASE Connected(clients[s]) /\ s \notin denied
    <3>1. clients'[s] = [clients[s] EXCEPT !.state = "CS_CONNECTED"]
      BY <1>1, <2>4
    <3> QED
      BY <2>1, <2>4, <3>1 DEF Proper, Shape, State, UsedByPlayer, TransportIfConnected,
         Connected
  <2> QED
    BY <2>2, <2>3, <2>4
<1>3. ProperTable(clients')
  BY <1>1, <1>2 DEF ProperTable
<1>4. netstates' = netstates - Freed(clients')
  BY DEF SpawnServer
<1> QED
  BY <1>2, <1>3, <1>4, InPlace

LEMMA FrameSlots ==
    ASSUME SlotsInv, Frame
    PROVE  SlotsInv'
<1> DEFINE later == [s \in Index |-> [clients[s] EXCEPT !.silent = Aged(@, Old)]]
<1>1. clients' = [s \in Index |->
                    IF Reached(later, s) THEN Checked(later[s]) ELSE later[s]]
      /\ netstates' = netstates - Freed(clients')
  BY DEF Frame
<1>2. ASSUME NEW s \in Index
      PROVE  /\ Proper(later[s])
             /\ later[s].player = clients[s].player
             /\ later[s].netstate = clients[s].netstate
  <2>1. Proper(clients[s])
    BY DEF SlotsInv, ProperTable
  <2>2. Aged(clients[s].silent, Old) \in Int
    BY <2>1 DEF Aged, Proper, Shape
  <2>3. later[s] = [clients[s] EXCEPT !.silent = Aged(clients[s].silent, Old)]
    OBVIOUS
  <2> HIDE DEF later
  <2> QED
    BY <2>1, <2>2, <2>3, SilentProper
<1> HIDE DEF later
<1>3. ASSUME NEW s \in Index
      PROVE  /\ Proper(clients'[s])
             /\ clients'[s].player = clients[s].player
             /\ clients'[s].netstate => clients[s].netstate
  BY <1>1, <1>2, CheckedProper
<1>4. ProperTable(clients')
  BY <1>1, <1>3 DEF ProperTable
<1> QED
  BY <1>1, <1>3, <1>4, InPlace

-----------------------------------------------------------------------------
\* SV_DirectConnect

\* The slot found by the quick reject is one of the player's
LEMMA ReturnsSlot ==
    ASSUME NEW p \in Player, Returns(p)
    PROVE  Min(Met(p)) \in Index /\ clients[Min(Met(p))].player = p
<1>1. Met(p) \in SUBSET Nat /\ Met(p) # {} /\ Met(p) \subseteq Index
  BY IndexInNat DEF Met, Returns
<1>2. Min(Met(p)) \in Met(p)
  BY <1>1, MinIsLeast
<1> QED
  BY <1>1, <1>2 DEF Returns

\* The player's old client is dropped where it is
LEMMA AfterDropShape ==
    ASSUME SlotsInv, NEW p \in Player
    PROVE  /\ ProperTable(AfterDrop(p))
           /\ \A s \in Index : /\ AfterDrop(p)[s].player = clients[s].player
                               /\ AfterDrop(p)[s].netstate => clients[s].netstate
           /\ Returns(p) => ~AfterDrop(p)[Min(Met(p))].netstate
<1>1. CASE ~Returns(p)
  BY <1>1 DEF AfterDrop, SlotsInv
<1>2. CASE Returns(p)
  <2> DEFINE m == Min(Met(p))
             table == [clients EXCEPT ![m] = Dropped(@)]
  <2>1. m \in Index
    BY <1>2, ReturnsSlot
  <2>2. AfterDrop(p) = table
    BY <1>2 DEF AfterDrop
  <2> HIDE DEF m
  <2>3. \A r \in Index : table[r] = IF r = m THEN Dropped(clients[m]) ELSE clients[r]
    BY <2>1 DEF SlotsInv, ProperTable
  <2>4. /\ Proper(Dropped(clients[m])) /\ Dropped(clients[m]).player = clients[m].player
        /\ ~Dropped(clients[m]).netstate
    BY <2>1, DroppedProper DEF SlotsInv, ProperTable
  <2>5. ProperTable(table)
    BY <2>3, <2>4 DEF SlotsInv, ProperTable
  <2>6. /\ \A s \in Index : /\ table[s].player = clients[s].player
                            /\ table[s].netstate => clients[s].netstate
        /\ ~table[m].netstate
    BY <2>1, <2>3, <2>4
  <2> HIDE DEF table
  <2> QED
    BY <2>2, <2>5, <2>6 DEF m
<1> QED
  BY <1>1, <1>2

LEMMA RejectSlots ==
    ASSUME SlotsInv, NEW p \in Player, RejectConnect(p)
    PROVE  SlotsInv'
<1> DEFINE table == AfterDrop(p)
<1>1. clients' = table /\ netstates' = netstates - Freed(table)
  BY DEF RejectConnect
<1>2. /\ ProperTable(table)
      /\ \A s \in Index : /\ table[s].player = clients[s].player
                          /\ table[s].netstate => clients[s].netstate
  BY AfterDropShape
<1> HIDE DEF table
<1> QED
  BY <1>1, <1>2, InPlace

\* The slot chosen has no transport, and no other slot has the address
LEMMA ChosenSlot ==
    ASSUME SlotsInv, NEW p \in Player, Asks(p), NEW i, SlotsFor(p, i) # {}
    PROVE  /\ Min(SlotsFor(p, i)) \in Index
           /\ ~AfterDrop(p)[Min(SlotsFor(p, i))].netstate
           /\ \A r \in Index : clients[r].player = p => r = Min(SlotsFor(p, i))
<1>1. CASE Returns(p)
  <2> DEFINE m == Min(Met(p))
  <2>1. m \in Index /\ clients[m].player = p
    BY <1>1, ReturnsSlot
  <2>2. SlotsFor(p, i) = {m}
    BY <1>1 DEF SlotsFor
  <2>3. ~AfterDrop(p)[m].netstate
    BY <1>1, AfterDropShape
  <2> HIDE DEF m
  <2>4. {m} \in SUBSET Nat /\ {m} # {}
    BY <2>1, IndexInNat
  <2>5. Min({m}) = m
    BY <2>4, MinIsLeast
  <2>6. \A r \in Index : clients[r].player = p => r = m
    BY <2>1, PlayerAssumption DEF SlotsInv, OneSlotAtAll
  <2> QED
    BY <2>1, <2>2, <2>3, <2>5, <2>6
<1>2. CASE ~Returns(p)
  <2> DEFINE s == Min(SlotsFor(p, i))
  <2>1. SlotsFor(p, i) \subseteq {r \in Index : clients[r].state = "CS_FREE"}
    BY <1>2, SlotsAssumption DEF SlotsFor, PrivateSlots, PublicSlots, FreeSlots, Index
  <2>2. SlotsFor(p, i) \in SUBSET Nat
    BY <2>1, IndexInNat
  <2>3. s \in Index /\ clients[s].state = "CS_FREE"
    BY <2>1, <2>2, MinIsLeast
  <2> HIDE DEF s
  <2>4. ~clients[s].netstate
    BY <2>3 DEF SlotsInv, ProperTable, Proper, TransportIfConnected, Connected
  <2>5. AfterDrop(p) = clients
    BY <1>2 DEF AfterDrop
  <2>6. \A r \in Index : clients[r].player # p
    BY <1>2 DEF Asks, Met
  <2> QED
    BY <2>3, <2>4, <2>5, <2>6 DEF s
<1> QED
  BY <1>1, <1>2

\* A client put into the chosen slot: the player's, or none
LEMMA BecomesSlots ==
    ASSUME SlotsInv, NEW p \in Player, Asks(p), NEW i, SlotsFor(p, i) # {},
           NEW cl, Proper(cl), cl.player \in {p, NoPlayer},
           clients' = [AfterDrop(p) EXCEPT ![Min(SlotsFor(p, i))] = cl],
           netstates' = netstates - Freed(AfterDrop(p)) + (IF cl.netstate THEN 1 ELSE 0)
    PROVE  SlotsInv'
<1> DEFINE s == Min(SlotsFor(p, i))
           old == AfterDrop(p)
           new == [old EXCEPT ![s] = cl]
<1>1. /\ s \in Index /\ ~old[s].netstate
      /\ \A r \in Index : clients[r].player = p => r = s
  BY ChosenSlot
<1>2. /\ ProperTable(old)
      /\ \A r \in Index : /\ old[r].player = clients[r].player
                          /\ old[r].netstate => clients[r].netstate
  BY AfterDropShape
<1>3. /\ clients' = new
      /\ netstates' = netstates - Freed(old) + (IF cl.netstate THEN 1 ELSE 0)
  OBVIOUS
<1>4. Held(old) \subseteq Held(clients)
  BY <1>2 DEF Held
<1>5. netstates - Freed(old) = Cardinality(Held(old))
  BY <1>4, FreedAll DEF SlotsInv
<1> HIDE DEF s, old
<1>6. \A r \in Index : new[r] = IF r = s THEN cl ELSE old[r]
  BY <1>2 DEF ProperTable
<1>7. ProperTable(new)
  BY <1>2, <1>6 DEF ProperTable
<1> HIDE DEF new
<1>8. OneSlotAtAll(new)
  BY <1>1, <1>2, <1>6 DEF SlotsInv, OneSlotAtAll
<1>9. netstates' = Cardinality(Held(new))
  <2>1. IsFiniteSet(Held(old)) /\ Cardinality(Held(old)) \in Nat
    BY HeldFinite, FS_CardinalityType
  <2>2. s \notin Held(old)
    BY <1>1 DEF Held
  <2>3. CASE cl.netstate
    <3>1. Held(new) = Held(old) \cup {s}
      BY <1>1, <1>6, <2>3 DEF Held
    <3>2. Cardinality(Held(new)) = Cardinality(Held(old)) + 1
      BY <2>1, <2>2, <3>1, FS_AddElement
    <3> QED
      BY <1>3, <1>5, <2>3, <3>2
  <2>4. CASE ~cl.netstate
    <3>1. Held(new) = Held(old)
      BY <1>1, <1>6, <2>4 DEF Held
    <3> QED
      BY <1>3, <1>5, <2>1, <2>4, <3>1
  <2> QED
    BY <2>3, <2>4
<1> QED
  BY <1>3, <1>7, <1>8, <1>9 DEF SlotsInv, Held

LEMMA ConnectSlots ==
    ASSUME SlotsInv, NEW p \in Player, Connect(p)
    PROVE  SlotsInv'
<1> DEFINE i == Place(MovedUp(Purged(connectqueue)), p)
           s == Min(SlotsFor(p, i))
           refused == [Wiped EXCEPT !.player = p]
<1>1. Proper(Accepted(p, s)) /\ Accepted(p, s).player = p
  BY AcceptedProper
<1>2. Proper(Wiped) /\ Wiped.player = NoPlayer
  BY WipedProper DEF Wiped
<1>3. Proper(refused) /\ refused.player = p
  BY RefusedProper
<1>4. Asks(p) /\ SlotsFor(p, i) # {}
  BY DEF Connect
<1>5. PICK cl \in {Accepted(p, s), Wiped, refused} :
          /\ clients' = [AfterDrop(p) EXCEPT ![s] = cl]
          /\ netstates' = netstates - Freed(AfterDrop(p)) + (IF cl.netstate THEN 1 ELSE 0)
  BY DEF Connect
<1> HIDE DEF refused, i
<1>6. Proper(cl) /\ cl.player \in {p, NoPlayer}
  BY <1>1, <1>2, <1>3
<1> QED
  BY <1>4, <1>5, <1>6, BecomesSlots

-----------------------------------------------------------------------------

LEMMA NextSlots == SlotsInv /\ [Next]_vars => SlotsInv'
<1> SUFFICES ASSUME SlotsInv, [Next]_vars
             PROVE  SlotsInv'
  OBVIOUS
<1>1. CASE UNCHANGED <<clients, netstates>>
  BY <1>1 DEF SlotsInv, Held
<1>2. ASSUME NEW p \in Player, Enqueue(p) \/ Vanish(p)
      PROVE  SlotsInv'
  BY <1>1, <1>2 DEF Enqueue, Vanish
<1>3. CASE UNCHANGED vars
  BY <1>1, <1>3 DEF vars
<1> QED
  BY <1>2, <1>3, RejectSlots, ConnectSlots, DropSlots, PacketSlots, ProxySlots,
     SpawnSlots, FrameSlots DEF Next

\* An address has at most one slot in use, whatever players return, are
\* refused, wait, time out or are updated (SV_DirectConnect)
THEOREM AddressHasOneSlot == Spec => []OneSlotPerAddress
<1>1. SlotsInv => OneSlotPerAddress
  BY DEF SlotsInv, OneSlotPerAddress, OneSlotAtAll, ProperTable, Proper, UsedByPlayer
<1> QED
  BY <1>1, InitSlots, NextSlots, PTL DEF Spec

\* The connected clients are those with a transport, and none is leaked or
\* lost (SV_DropClientInternal, SV_DirectConnect)
THEOREM TransportsAreKept == Spec => []TransportsKept
<1>1. SlotsInv => TransportsKept
  BY DEF SlotsInv, TransportsKept, ProperTable, Proper, TransportIfConnected
<1> QED
  BY <1>1, InitSlots, NextSlots, PTL DEF Spec

-----------------------------------------------------------------------------
\* The queue

\* What a pass over the first n places leaves, place by place
Pass(f, q, n) ==
    f = [i \in 0..n |-> IF i = 0 THEN q ELSE Visited(f[i - 1], i - 1)]

\* There is such a pass: the least number of places that has none would follow
\* one that has
LEMMA PassExists ==
    ASSUME NEW q, NEW m \in Nat
    PROVE  \E f : Pass(f, q, m)
<1> DEFINE S == {n \in Nat : ~ \E f : Pass(f, q, n)}
<1> SUFFICES ASSUME S # {} PROVE FALSE
  OBVIOUS
<1>1. S \in SUBSET Nat
  OBVIOUS
<1> DEFINE n == Min(S)
<1>2. n \in S /\ \A y \in S : n <= y
  BY <1>1, MinIsLeast
<1> HIDE DEF n
<1>3. n \in Nat /\ ~ \E f : Pass(f, q, n)
  BY <1>2
<1>4. CASE n = 0
  <2> DEFINE f == [i \in 0..0 |-> q]
  <2>1. f = [i \in 0..0 |-> IF i = 0 THEN q ELSE Visited(f[i - 1], i - 1)]
    OBVIOUS
  <2>2. Pass(f, q, 0)
    BY <2>1 DEF Pass
  <2> QED
    BY <1>3, <1>4, <2>2
<1>5. CASE n # 0
  <2>1. n - 1 \in Nat /\ n - 1 \notin S
    BY <1>2, <1>3, <1>5
  <2>2. PICK f : Pass(f, q, n - 1)
    BY <2>1
  <2> DEFINE g == [i \in 0..n |-> IF i < n THEN f[i] ELSE Visited(f[n - 1], n - 1)]
  <2>3. ASSUME NEW i \in 0..n
        PROVE  g[i] = IF i = 0 THEN q ELSE Visited(g[i - 1], i - 1)
    <3>1. CASE i < n
      <4>1. g[i] = f[i] /\ (i # 0 => g[i - 1] = f[i - 1])
        BY <1>3, <3>1
      <4>2. f[i] = IF i = 0 THEN q ELSE Visited(f[i - 1], i - 1)
        <5>1. i \in 0..(n - 1)
          BY <1>3, <3>1
        <5> QED
          BY <2>2, <5>1 DEF Pass
      <4> HIDE DEF g
      <4> QED
        BY <4>1, <4>2
    <3>2. CASE i = n
      <4>1. g[n] = Visited(f[n - 1], n - 1) /\ g[n - 1] = f[n - 1]
        BY <1>3, <1>5
      <4> HIDE DEF g
      <4> QED
        BY <1>5, <3>2, <4>1
    <3> QED
      BY <1>3, <3>1, <3>2
  <2>4. g = [i \in 0..n |-> g[i]]
    OBVIOUS
  <2> HIDE DEF g
  <2>5. g = [i \in 0..n |-> IF i = 0 THEN q ELSE Visited(g[i - 1], i - 1)]
    BY <2>3, <2>4
  <2> QED
    BY <1>3, <2>5 DEF Pass
<1> QED
  BY <1>4, <1>5

LEMMA MovedUpPass ==
    ASSUME NEW q
    PROVE  \E f : Pass(f, q, QueueLength) /\ MovedUp(q) = f[QueueLength]
<1> DEFINE pass == CHOOSE f : f = [i \in 0..QueueLength |->
                       IF i = 0 THEN q ELSE Visited(f[i - 1], i - 1)]
<1>1. MovedUp(q) = pass[QueueLength]
  BY DEF MovedUp
<1>2. \E f : f = [i \in 0..QueueLength |->
                       IF i = 0 THEN q ELSE Visited(f[i - 1], i - 1)]
  <2>1. QueueLength \in Nat
    BY SlotsAssumption
  <2>2. \E f : Pass(f, q, QueueLength)
    BY <2>1, PassExists
  <2> QED
    BY <2>2 DEF Pass
<1>3. pass = [i \in 0..QueueLength |->
                       IF i = 0 THEN q ELSE Visited(pass[i - 1], i - 1)]
  BY <1>2
<1> HIDE DEF pass
<1> QED
  BY <1>1, <1>3 DEF Pass

\* What each visit keeps, the pass keeps
LEMMA MovedUpKeeps ==
    ASSUME NEW T, NEW q \in T,
           \A r \in T, i \in 0..(QueueLength - 1) : Visited(r, i) \in T
    PROVE  MovedUp(q) \in T
<1>1. PICK f : Pass(f, q, QueueLength) /\ MovedUp(q) = f[QueueLength]
  BY MovedUpPass
<1>2. QueueLength \in Nat
  BY SlotsAssumption
<1>3. \A i \in 0..QueueLength : f[i] = IF i = 0 THEN q ELSE Visited(f[i - 1], i - 1)
  BY <1>1 DEF Pass
<1> DEFINE S == {i \in 0..QueueLength : f[i] \notin T}
<1>4. S = {}
  <2> SUFFICES ASSUME S # {} PROVE FALSE
    OBVIOUS
  <2>1. S \in SUBSET Nat
    BY <1>2
  <2> DEFINE n == Min(S)
  <2>2. n \in S /\ \A y \in S : n <= y
    BY <2>1, MinIsLeast
  <2> HIDE DEF n
  <2>3. n \in 0..QueueLength /\ f[n] \notin T
    BY <2>2
  <2>4. n # 0
    BY <1>3, <2>3
  <2>5. n - 1 \in 0..QueueLength /\ n - 1 \in 0..(QueueLength - 1) /\ ~(n <= n - 1)
    BY <1>2, <2>3, <2>4
  <2>6. f[n - 1] \in T
    BY <2>2, <2>5
  <2>7. Visited(f[n - 1], n - 1) \in T
    BY <2>5, <2>6
  <2> QED
    BY <1>3, <2>3, <2>4, <2>7
<1>5. QueueLength \in 0..QueueLength
  BY <1>2
<1> QED
  BY <1>1, <1>4, <1>5

\* Where players wait, and since when, up to the time that ends their place
Queues == [0..QueueLength -> [player : Player \cup {NoPlayer}, asked : 0..(QueueTimeout + 1)]]

\* Ages and counts are limited; only a client that was just timed out, whose
\* slot is free, was overdue for longer than allowed
TimesOK(cl) ==
    /\ cl.silent \in 0..(Old + 1)
    /\ cl.timeoutCount \in 0..(Patience + 1)
    /\ cl.timeoutCount > Patience => cl.state = "CS_FREE"

TypeInv ==
    /\ SlotsInv
    /\ \A s \in Index : TimesOK(clients[s])
    /\ connectqueue \in Queues
    /\ gone \subseteq Player

LEMMA Limits ==
    /\ Old \in Nat /\ Patience \in Nat /\ QueueTimeout \in Nat
    /\ QueueLength \in Nat /\ QueueLength > 0
<1> DEFINE S == {Timeout, ConnectTimeout, ConnectedTime, UpdateTimeout}
<1>1. /\ Timeout \in Nat /\ ConnectTimeout \in Nat /\ ConnectedTime \in Nat
      /\ UpdateTimeout \in Nat /\ Patience \in Nat /\ QueueTimeout \in Nat
  BY TimeAssumption
<1>2. \E x \in S : \A y \in S : x >= y
  BY <1>1
<1>3. Max(S) \in S
  <2> HIDE DEF S
  <2> QED
    BY <1>2 DEF Max
<1>4. Max(S) \in Nat
  BY <1>1, <1>3
<1>5. Old = Max(S) + Patience
  BY DEF Old
<1> HIDE DEF S
<1> QED
  BY <1>1, <1>4, <1>5, SlotsAssumption

LEMMA VacantFits == Vacant \in [player : Player \cup {NoPlayer}, asked : 0..(QueueTimeout + 1)]
BY Limits DEF Vacant

LEMMA AgedFits ==
    ASSUME NEW limit \in Nat, NEW age \in 0..(limit + 1)
    PROVE  Aged(age, limit) \in 0..(limit + 1)
BY DEF Aged

\* The queue keeps its shape when it is purged and moved up
LEMMA QueueMoved ==
    ASSUME NEW q \in Queues
    PROVE  MovedUp(Purged(q)) \in Queues
<1>1. Purged(q) \in Queues
  BY VacantFits, Limits DEF Purged, Queues
<1>2. ASSUME NEW r \in Queues, NEW i \in 0..(QueueLength - 1)
      PROVE  Visited(r, i) \in Queues
  <2>1. CASE r[i] # Vacant
    BY <2>1, VacantFits, Limits DEF Visited, Queues
  <2>2. CASE r[i] = Vacant
    <3>1. Visited(r, i) = [k \in 0..QueueLength |->
                              IF k \in i..(QueueLength - 2) THEN r[k + 1] ELSE r[k]]
      BY <2>2 DEF Visited
    <3>2. ASSUME NEW k \in 0..QueueLength
          PROVE  /\ k \in i..(QueueLength - 2) => k + 1 \in 0..QueueLength
      BY Limits
    <3> QED
      BY <3>1, <3>2 DEF Queues
  <2> QED
    BY <2>1, <2>2
<1> QED
  BY <1>1, <1>2, MovedUpKeeps

LEMMA PlaceFits ==
    ASSUME NEW q, NEW p
    PROVE  Place(q, p) \in 0..QueueLength
<1> DEFINE S == {i \in 0..(QueueLength - 1) : q[i] = Vacant \/ q[i].player = p}
                   \cup {QueueLength}
<1>1. S \in SUBSET Nat /\ S # {} /\ \A i \in S : i <= QueueLength
  BY Limits
<1>2. Min(S) \in S
  BY <1>1, MinIsLeast
<1>3. Place(q, p) = Min(S)
  BY DEF Place
<1> HIDE DEF S
<1>4. Min(S) \in Nat /\ Min(S) <= QueueLength
  BY <1>1, <1>2
<1> QED
  BY <1>3, <1>4, Limits

LEMMA QueueStep ==
    ASSUME TypeInv, [Next]_vars
    PROVE  connectqueue' \in Queues
<1> DEFINE q == MovedUp(Purged(connectqueue))
<1>1. q \in Queues /\ connectqueue \in Queues
  BY QueueMoved DEF TypeInv
<1> HIDE DEF q
<1>2. \A i \in 0..QueueLength : [q EXCEPT ![i] = Vacant] \in Queues
  BY <1>1, VacantFits DEF Queues
<1>3. CASE UNCHANGED connectqueue
  BY <1>1, <1>3
<1>4. ASSUME NEW p \in Player, Enqueue(p)
      PROVE  connectqueue' \in Queues
  <2> DEFINE i == Place(q, p)
             e == [player |-> p, asked |-> 0]
  <2>1. i \in 0..QueueLength
    BY PlaceFits
  <2>2. e \in [player : Player \cup {NoPlayer}, asked : 0..(QueueTimeout + 1)]
    BY Limits
  <2>3. connectqueue' = IF i = QueueLength THEN q ELSE [q EXCEPT ![i] = e]
    BY <1>4 DEF Enqueue, q
  <2> HIDE DEF i, e
  <2> QED
    BY <1>1, <2>1, <2>2, <2>3 DEF Queues
<1>5. ASSUME NEW p \in Player, Connect(p)
      PROVE  connectqueue' \in Queues
  <2> DEFINE i == Place(q, p)
             left == IF Returns(p) \/ PrivateSlots(p) # {} THEN q ELSE [q EXCEPT ![0] = Vacant]
  <2>1. i \in 0..QueueLength /\ 0 \in 0..QueueLength
    BY PlaceFits, Limits
  <2>2. connectqueue' = left \/ connectqueue' = [left EXCEPT ![i] = Vacant]
    BY <1>5 DEF Connect, q
  <2>3. left \in Queues
    BY <1>1, <1>2, <2>1
  <2> HIDE DEF i, left
  <2> QED
    BY <2>1, <2>2, <2>3, VacantFits DEF Queues
<1>6. CASE Frame
  <2>1. connectqueue' = [i \in 0..QueueLength |->
            IF connectqueue[i] = Vacant THEN Vacant
            ELSE [connectqueue[i] EXCEPT !.asked = Aged(@, QueueTimeout)]]
    BY <1>6 DEF Frame
  <2>2. ASSUME NEW i \in 0..QueueLength
        PROVE  connectqueue'[i] \in [player : Player \cup {NoPlayer}, asked : 0..(QueueTimeout + 1)]
    <3> DEFINE x == connectqueue[i]
    <3>1. x \in [player : Player \cup {NoPlayer}, asked : 0..(QueueTimeout + 1)]
      BY <1>1 DEF Queues
    <3>2. Aged(x.asked, QueueTimeout) \in 0..(QueueTimeout + 1)
      BY <3>1, AgedFits, Limits
    <3>3. connectqueue'[i] = IF x = Vacant THEN Vacant
                             ELSE [x EXCEPT !.asked = Aged(x.asked, QueueTimeout)]
      BY <2>1
    <3> HIDE DEF x
    <3> QED
      BY <3>1, <3>2, <3>3, VacantFits
  <2> QED
    BY <2>1, <2>2 DEF Queues
<1> QED
  BY <1>3, <1>4, <1>5, <1>6 DEF Next, vars, RejectConnect, Vanish, DropClient, PacketEvent,
     PassToUpdateProxy, UpdateProxyConnectResponse, SpawnServer

\* What is done with a client keeps its times within their limits
LEMMA ChangedTimes ==
    ASSUME NEW cl, Proper(cl), TimesOK(cl)
    PROVE  /\ TimesOK(Dropped(cl))
           /\ TimesOK([cl EXCEPT !.silent = 0])
           /\ TimesOK([cl EXCEPT !.silent = Aged(cl.silent, Old)])
           /\ TimesOK([cl EXCEPT !.updateconnOK = TRUE])
           /\ \A state \in State :
                Connected(cl) => TimesOK([cl EXCEPT !.state = state])
           /\ TimesOK(Checked(cl))
<1>1. /\ cl \in Shape /\ cl.silent \in 0..(Old + 1) /\ cl.timeoutCount \in 0..(Patience + 1)
      /\ cl.timeoutCount > Patience => cl.state = "CS_FREE"
  BY DEF Proper, TimesOK
<1>2. Old \in Nat /\ Patience \in Nat
  BY Limits
<1>3. TimesOK(Dropped(cl))
  BY <1>1, <1>2 DEF Dropped, Connected, Shape, TimesOK
<1>4. TimesOK([cl EXCEPT !.silent = 0])
  BY <1>1, <1>2 DEF Shape, TimesOK
<1>5. TimesOK([cl EXCEPT !.silent = Aged(cl.silent, Old)])
  <2>1. Aged(cl.silent, Old) \in 0..(Old + 1)
    BY <1>1, <1>2, AgedFits
  <2> QED
    BY <1>1, <2>1 DEF Shape, TimesOK
<1>6. TimesOK([cl EXCEPT !.updateconnOK = TRUE])
  BY <1>1 DEF Shape, TimesOK
<1>7. ASSUME NEW state \in State, Connected(cl)
      PROVE  TimesOK([cl EXCEPT !.state = state])
  BY <1>1, <1>2, <1>7 DEF Shape, TimesOK, Connected
<1>8. TimesOK(Checked(cl))
  <2>1. CASE Expired(cl)
    <3>1. Checked(cl) = [cl EXCEPT !.state = "CS_FREE"]
      BY <2>1 DEF Checked
    <3> QED
      BY <1>1, <3>1 DEF Shape, TimesOK
  <2>2. CASE ~Expired(cl) /\ ~Overdue(cl)
    <3>1. Checked(cl) = [cl EXCEPT !.timeoutCount = 0]
      BY <2>2 DEF Checked
    <3> QED
      BY <1>1, <1>2, <3>1 DEF Shape, TimesOK
  <2>3. CASE ~Expired(cl) /\ Overdue(cl)
    <3>1. cl.timeoutCount <= Patience
      BY <1>1, <1>2, <2>3 DEF Overdue
    <3>2. CASE cl.timeoutCount < Patience
      <4>1. Checked(cl) = [cl EXCEPT !.timeoutCount = cl.timeoutCount + 1]
        BY <2>3, <3>2 DEF Checked
      <4> QED
        BY <1>1, <1>2, <3>2, <4>1 DEF Shape, TimesOK
    <3>3. CASE ~(cl.timeoutCount < Patience)
      <4> DEFINE d == Dropped(cl)
      <4>1. Checked(cl) = [d EXCEPT !.state = "CS_FREE", !.timeoutCount = d.timeoutCount + 1]
        BY <2>3, <3>3 DEF Checked
      <4>2. d \in Shape /\ d.silent = cl.silent /\ d.timeoutCount = cl.timeoutCount
        BY <1>1, DroppedProper DEF Dropped, Shape, Proper
      <4> HIDE DEF d
      <4>3. /\ Checked(cl).silent = cl.silent /\ Checked(cl).state = "CS_FREE"
            /\ Checked(cl).timeoutCount = cl.timeoutCount + 1
        BY <4>1, <4>2 DEF Shape
      <4> QED
        BY <1>1, <1>2, <3>1, <4>3 DEF TimesOK
    <3> QED
      BY <3>2, <3>3
  <2> QED
    BY <2>1, <2>2, <2>3
<1> QED
  BY <1>3, <1>4, <1>5, <1>6, <1>7, <1>8

\* The slot of a new client begins anew
LEMMA NewTimes ==
    ASSUME NEW p, NEW s
    PROVE  TimesOK(Wiped) /\ TimesOK([Wiped EXCEPT !.player = p]) /\ TimesOK(Accepted(p, s))
BY Limits DEF TimesOK, Wiped, Accepted

\* A client changed in its slot
LEMMA OneSlotTimes ==
    ASSUME NEW table, ProperTable(table), \A r \in Index : TimesOK(table[r]),
           NEW s, NEW cl, TimesOK(cl)
    PROVE  \A r \in Index : TimesOK([table EXCEPT ![s] = cl][r])
<1>1. \A r \in Index : [table EXCEPT ![s] = cl][r] = IF r = s THEN cl ELSE table[r]
  BY DEF ProperTable
<1> QED
  BY <1>1

LEMMA AfterDropTimes ==
    ASSUME TypeInv, NEW p \in Player
    PROVE  ProperTable(AfterDrop(p)) /\ \A r \in Index : TimesOK(AfterDrop(p)[r])
<1>1. ProperTable(AfterDrop(p))
  BY AfterDropShape DEF TypeInv
<1>2. CASE ~Returns(p)
  BY <1>1, <1>2 DEF AfterDrop, TypeInv
<1>3. CASE Returns(p)
  <2> DEFINE m == Min(Met(p))
  <2>1. m \in Index
    BY <1>3, ReturnsSlot
  <2>2. AfterDrop(p) = [clients EXCEPT ![m] = Dropped(clients[m])]
    BY <1>3 DEF AfterDrop
  <2> HIDE DEF m
  <2>3. TimesOK(Dropped(clients[m]))
    BY <2>1, ChangedTimes DEF TypeInv, SlotsInv, ProperTable
  <2>4. ProperTable(clients) /\ \A r \in Index : TimesOK(clients[r])
    BY DEF TypeInv, SlotsInv
  <2>5. \A r \in Index : TimesOK([clients EXCEPT ![m] = Dropped(clients[m])][r])
    BY <2>3, <2>4, OneSlotTimes
  <2> QED
    BY <1>1, <2>2, <2>5
<1> QED
  BY <1>2, <1>3

LEMMA TimesStep ==
    ASSUME TypeInv, [Next]_vars
    PROVE  \A s \in Index : TimesOK(clients'[s])
<1> DEFINE G == \A s \in Index : TimesOK(clients'[s])
<1>1. /\ ProperTable(clients) /\ \A s \in Index : TimesOK(clients[s])
      /\ \A s \in Index : Proper(clients[s])
  BY DEF TypeInv, SlotsInv, ProperTable
<1>2. CASE UNCHANGED clients
  BY <1>1, <1>2
<1>3. ASSUME NEW p \in Player, RejectConnect(p)
      PROVE  G
  BY <1>3, AfterDropTimes DEF RejectConnect
<1>4. ASSUME NEW p \in Player, Connect(p)
      PROVE  G
  <2> DEFINE s == Min(SlotsFor(p, Place(MovedUp(Purged(connectqueue)), p)))
             refused == [Wiped EXCEPT !.player = p]
  <2>1. PICK cl \in {Accepted(p, s), Wiped, refused} : clients' = [AfterDrop(p) EXCEPT ![s] = cl]
    BY <1>4 DEF Connect
  <2>2. TimesOK(Accepted(p, s)) /\ TimesOK(Wiped) /\ TimesOK(refused)
    BY NewTimes
  <2> HIDE DEF s, refused
  <2>3. TimesOK(cl)
    BY <2>2
  <2>4. \A r \in Index : TimesOK([AfterDrop(p) EXCEPT ![s] = cl][r])
    BY <2>3, AfterDropTimes, OneSlotTimes
  <2> QED
    BY <2>1, <2>4
<1>5. ASSUME NEW s \in Index, NEW cl, TimesOK(cl), clients' = [clients EXCEPT ![s] = cl]
      PROVE  G
  <2>1. \A r \in Index : TimesOK([clients EXCEPT ![s] = cl][r])
    BY <1>1, <1>5, OneSlotTimes
  <2> QED
    BY <1>5, <2>1
<1>6. ASSUME NEW s \in Index, DropClient(s)
      PROVE  G
  <2>1. TimesOK(Dropped(clients[s]))
    BY <1>1, ChangedTimes
  <2>2. clients' = [clients EXCEPT ![s] = Dropped(clients[s])]
    BY <1>6 DEF DropClient
  <2> QED
    BY <1>5, <2>1, <2>2
<1>7. ASSUME NEW s \in Index, PacketEvent(s)
      PROVE  G
  <2> DEFINE heard == [clients[s] EXCEPT !.silent = 0]
  <2>1. PICK state \in {"CS_CONNECTED", "CS_PRIMED", "CS_ACTIVE"} :
            clients' = [clients EXCEPT ![s].silent = 0, ![s].state = state]
    BY <1>7 DEF PacketEvent
  <2>2. clients' = [clients EXCEPT ![s] = [heard EXCEPT !.state = state]]
    BY <1>1, <2>1 DEF ProperTable
  <2>3. Proper(heard) /\ TimesOK(heard)
    <3>1. Proper(clients[s]) /\ TimesOK(clients[s]) /\ 0 \in Int
      BY <1>1
    <3>2. Proper(heard)
      BY ONLY <3>1, SilentProper
    <3>3. TimesOK(heard)
      BY ONLY <3>1, ChangedTimes
    <3> QED
      BY <3>2, <3>3
  <2>4. Connected(heard)
    BY <1>1, <1>7 DEF PacketEvent, Proper, Shape, Connected
  <2>5. state \in State
    BY DEF State
  <2> HIDE DEF heard
  <2>6. TimesOK([heard EXCEPT !.state = state])
    BY <2>3, <2>4, <2>5, ChangedTimes
  <2> QED
    BY <1>5, <2>2, <2>6
<1>8. ASSUME NEW s \in Index, PassToUpdateProxy(s) \/ UpdateProxyConnectResponse(s)
      PROVE  G
  <2> DEFINE heard == [clients[s] EXCEPT !.silent = 0]
             served == [clients[s] EXCEPT !.updateconnOK = TRUE]
  <2>1. PICK cl \in {heard, served} : clients' = [clients EXCEPT ![s] = cl]
    BY <1>1, <1>8 DEF PassToUpdateProxy, UpdateProxyConnectResponse, ProperTable
  <2>2. TimesOK(heard) /\ TimesOK(served)
    BY <1>1, ChangedTimes
  <2> HIDE DEF heard, served
  <2> QED
    BY <1>5, <2>1, <2>2
<1>9. CASE SpawnServer
  <2>1. PICK denied \in SUBSET Index :
            clients' = [s \in Index |->
                          IF ~Connected(clients[s]) THEN clients[s]
                          ELSE IF s \in denied THEN Dropped(clients[s])
                          ELSE [clients[s] EXCEPT !.state = "CS_CONNECTED"]]
    BY <1>9 DEF SpawnServer
  <2>2. "CS_CONNECTED" \in State
    BY DEF State
  <2>3. ASSUME NEW s \in Index
        PROVE  TimesOK(clients'[s])
    <3>1. /\ TimesOK(Dropped(clients[s]))
          /\ Connected(clients[s]) => TimesOK([clients[s] EXCEPT !.state = "CS_CONNECTED"])
      BY <1>1, <2>2, ChangedTimes
    <3>2. clients'[s] = IF ~Connected(clients[s]) THEN clients[s]
                        ELSE IF s \in denied THEN Dropped(clients[s])
                        ELSE [clients[s] EXCEPT !.state = "CS_CONNECTED"]
      BY <2>1
    <3> QED
      BY <1>1, <3>1, <3>2
  <2> QED
    BY <2>3
<1>10. CASE Frame
  <2> DEFINE later == [s \in Index |-> [clients[s] EXCEPT !.silent = Aged(@, Old)]]
  <2>1. clients' = [s \in Index |->
                      IF Reached(later, s) THEN Checked(later[s]) ELSE later[s]]
    BY <1>10 DEF Frame
  <2>2. ASSUME NEW s \in Index
        PROVE  Proper(later[s]) /\ TimesOK(later[s])
    <3>1. later[s] = [clients[s] EXCEPT !.silent = Aged(clients[s].silent, Old)]
      OBVIOUS
    <3>2. Aged(clients[s].silent, Old) \in Int
      BY <1>1, Limits DEF Aged, Proper, Shape
    <3> HIDE DEF later
    <3> QED
      BY <1>1, <3>1, <3>2, SilentProper, ChangedTimes
  <2> HIDE DEF later
  <2>3. \A s \in Index : TimesOK(Checked(later[s]))
    BY <2>2, ChangedTimes
  <2> QED
    BY <2>1, <2>2, <2>3
<1> QED
  BY <1>2, <1>3, <1>4, <1>6, <1>7, <1>8, <1>9, <1>10 DEF Next, vars, Enqueue, Vanish

\* The table of clients, the queue and the count of transports keep their
\* types, and no client is overdue for longer than SV_CheckTimeouts allows
THEOREM TypeCorrect == Spec => []TypeOK
<1>1. Init => TypeInv
  <2> SUFFICES ASSUME Init PROVE TypeInv
    OBVIOUS
  <2>1. \A s \in Index : TimesOK(clients[s])
    BY NewTimes DEF Init
  <2>2. connectqueue \in Queues
    BY VacantFits DEF Init, Queues
  <2> QED
    BY <2>1, <2>2, InitSlots DEF TypeInv, Init
<1>2. TypeInv /\ [Next]_vars => TypeInv'
  <2> SUFFICES ASSUME TypeInv, [Next]_vars
               PROVE  TypeInv'
    OBVIOUS
  <2>1. SlotsInv'
    BY NextSlots DEF TypeInv
  <2>2. gone' \subseteq Player
    BY DEF TypeInv, Next, vars, Enqueue, Vanish, RejectConnect, Connect, Asks, DropClient,
       PacketEvent, PassToUpdateProxy, UpdateProxyConnectResponse, SpawnServer, Frame
  <2> QED
    BY <2>1, <2>2, QueueStep, TimesStep DEF TypeInv
<1>3. TypeInv => TypeOK
  <2> SUFFICES ASSUME TypeInv PROVE TypeOK
    OBVIOUS
  <2>1. ASSUME NEW s \in Index
        PROVE  clients[s] \in [state : State, player : Player \cup {NoPlayer},
                               needupdate : BOOLEAN, updateconnOK : BOOLEAN,
                               silent : 0..(Old + 1), timeoutCount : 0..(Patience + 1),
                               netstate : BOOLEAN]
    BY DEF TypeInv, SlotsInv, ProperTable, Proper, Shape, TimesOK
  <2>2. clients = [s \in Index |-> clients[s]]
    BY DEF TypeInv, SlotsInv, ProperTable
  <2>3. netstates \in Nat
    BY HeldFinite, FS_CardinalityType DEF TypeInv, SlotsInv
  <2> QED
    BY <2>1, <2>2, <2>3 DEF TypeInv, Queues, TypeOK
<1> QED
  BY <1>1, <1>2, <1>3, PTL DEF Spec

=============================================================================
