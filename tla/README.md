# A verification model of the CoD4x 1.8 server

This directory holds TLA+ models of the parts of the server in `src/` whose
correctness depends on order: on what the network does to packets, on what
threads do between two reads, on what a client does between two messages. Each
module is written from the C code; `PROJECT.json` names, for every definition,
the lines it stands for. TLC checks small instances of every module, and TLAPS
proves for all instances every safety property that the runs check, and that
the reliable transport and the netchan implement the channels they promise. What
must happen in the end is left to TLC.

Paths below are relative to `src/src/`.

## The system

The server is one process. Its main thread runs frames (`Com_Frame`,
common.c): it reads the network (`SV_PacketEvent`), runs the game, sends
messages (`SV_SendClientMessages`), checks timeouts and runs the callbacks of
threads that have ended. A few other threads download maps, send heartbeats or
belong to plugins. The state of a client is a `client_t` in `svs.clients`.

| Component | State | Operations | Hard because | Correct when |
|---|---|---|---|---|
| Reliable transport (net_reliabletransport.c) | send ring, receive ring, window counters | send, transmit, receive a packet, hand out | loss, duplication, reordering, a ring that changes its length | a stream arrives complete, in order and once; nothing needed is overwritten |
| Netchan (netchan.c, sv_net_chan.c) | sequence numbers, unsent and received fragments | transmit, transmit the next fragment, process | fragments of several messages share one buffer and sometimes one number | a message is handed out whole, in order, decodable, or not at all |
| Server commands (sv_main.c, sv_snapshot.c) | ring of 128 commands, three counters | add, compact, supersede, repeat, acknowledge | lossy repetition, a ring that is full, a second channel | commands are executed in order and before later snapshots |
| Thread callbacks (sys_thread.c, plugin_exports.c) | table of slots with flags | create, run, mark, call back, clear | no locks | a callback runs once, for its own thread |
| Client slots (sv_client.c, sv_main.c) | `svs.clients`, the waiting queue, transports | connect, drop, time out, pass to the update proxy | early exits, players that return, zombies | one address has one slot, slots become free, nothing leaks |
| Snapshots (sv_snapshot.c, sv_client.c) | rings of entities and client states shared by all clients, 32 frames per client, the message the client acknowledged | build, choose a base, write a difference, acknowledge, begin anew with a map | the base may be old, written over, lost, or of another map | what a client decodes is what was built for it; the base is there |
| Downloads (sv_client.c) | open file, block counters, redirect flags | begin, select blocks, write, stop, redirect | flags left over by aborted downloads, maps that change meanwhile | every requested byte is sent and no other, handles are closed, everyone is answered |
| Query limiter (sv_main.c) | buckets in hash chains | find, reclaim, count | linked lists in a table that is full, arithmetic cut down to an int and a char | bounded answers per address, chains intact |
| Frame, heartbeat (sv_main.c) | residual time, option slots of threads | run, restart before a counter wraps, send | 32-bit limits, slots shared with threads | time does not wrap, slots come back |

How they interact: gamestates, downloads and statistics go through the
reliable transport (`SV_SendReliableServerCommand`); snapshots and server
commands go through the netchan (`SV_SendMessageToClient`). Dropping a client
resets the command ring, the netchan's unsent fragments and the transport
(`SV_DropClientInternal`); a map change sends a command and a snapshot to all
(`SV_SpawnServer`). Plugins and the game decide who may connect.

The rest (file system, sockets, memory, console, cvars, script glue, plugin
loader, HTTP, authentication lists, web administration) is listed in
`PROJECT.json` with the reason it is not modelled: sequential data handling,
I/O, or calls into the original game binary, which is not in the repository.

## The modules

**ReliableTransport** models the transport with one `netreliablemsg_t` at each
end: every variable is a function of the endpoint. `Send`, `SendGrow` and
`SendTruncated` are the outcomes of `ReliableMessageSend`;
`TransmitAck`, `TransmitFragment` and `SkipFragment` those of
`ReliableMessagesTransmitNextFragment`; `Arrive` (and its duplicate) is
`ReliableMessagesReceiveNextFragment`; `Receive` is `ReliableMessageReceive`.
The rings are modelled as rings, indexed modulo a length that grows and
shrinks, because that is where errors would be. Payloads are opaque.

**ReliableChannel** is what the transport promises: for each direction a
stream of which a prefix is queued, a prefix of that delivered, and a prefix
of that known to be delivered. `ImplementsChannel` states that
ReliableTransport implements it; the mapping takes the channel's `queued` to
`txSequence` and `acknowledged` to `txAcknowledge`.

**Netchan** models the way from the server to one client: fragmenting and
reassembling (netchan.c), and every caller that transmits, with its guard or
without one. A unit of data is named by its message and position, so that a
mixture of two messages is visible. Three callers abandon what is unsent:
`SpawnServer`, `FinalMessage`, and a `DropClient` that is not silent.

**LossyChannel** is what the netchan promises those who transmit: each message
given is one that was sent, as it was sent, after all those given before it.
`ImplementsLossyChannel` states that Netchan implements it; the mapping takes a
message of the channel to its units and the number it was encoded with, and
`broken` to `abandoned`. A broken channel promises less: numbers that grow, and
nothing twice.

**ServerCommands** models the ring of one client with compacting
(`sub_5310E0`), superseding (`sub_530FC0`), the repetition in every message,
the range check and the decode key in `SV_PacketEvent`, gamestates, map
changes and drops. It uses the two channels at the level of their promises:
the netchan as a first-in first-out channel with losses (what LossyChannel
states until it is broken) and the transport as a first-in first-out
channel without (what ReliableChannel states).

**ThreadCallbacks** models the table of callbacks in both copies the code has,
chosen in `Init`. The main loop is split into the reads and writes between
which threads run. Threads run the server's map download job.

**ClientSlots** models `SV_DirectConnect` with its queue,
`SV_DropClientInternal`, `SV_CheckTimeouts`, the update proxy for outdated
clients and the map change. Times are ages, cut off above every limit.

**Snapshots** follows one client through `SV_BuildClientSnapshot`,
`SV_WriteSnapshotToClient` and `SV_SendClientMessages`: the rings are rings,
into which the other clients' snapshots are written before and after its own,
and an entry is the number of the message it was written for, so that one
that was written over is visible. The client's packets acknowledge messages
and say whether it asks for a difference (`SV_UserMove`); map changes, map
restarts and demo recordings make the server send complete ones. A gamestate
comes with a new map; or again on the same map, to a client in the game that
moves without valid pure checksums (`MoveUnauthenticated`, sv_client.c:1074) and
at the end of a download (`DownloadOver`). The client's side keeps its last
`PACKET_BACKUP` snapshots, and forgets them with each gamestate.

**Downloads** models what the server keeps of a client's download in
`client_t`, with `SV_BeginDownload_f` and the other commands, and
`SV_WriteDownloadToClient` with its outcomes: refused, redirected, opened, one
block, the end, or a read that fails or gets less than it should (`Read`, for
the files in `Unreadable`), after which the part ends with the same empty block
(sv_client.c:1586). Commands and blocks go over the promise of ReliableChannel:
queues in order and complete. A file is its size and a block its bytes'
positions, so that a gap and a mixture are visible. The map may change and the
client may break off, be done or be dropped at any time.

**QueryLimit** models `SVC_RateLimitAddress` with the array of buckets, the
doubly linked chains with their heads, reclaiming expired buckets in a full
table, and the arithmetic of `SVC_RateLimit` in the widths of the code, which
are constants (`IntRange`, `CharRange`).

The client program and the network are not in the repository. They are
modelled from what the server relies on and marked external in the map.

## The runs

| Run | Distinct states | Question |
|---|---|---|
| ReliableTransport | 198,415 | safety and refinement under faults |
| ReliableTransportLive | 29,644 | delivery and acknowledgement in the end |
| ServerCommands | 5,560,000 | order, snapshots, keys, stability of sent numbers |
| ServerCommandsLive | 211,048 | overflow and eventual execution |
| ThreadCallbacks | 372,464 | slots and callbacks, both copies |
| ClientSlots | 54,208 | one slot per address, no leak, slots become free |
| Netchan | 719,812 | whole messages in order, none twice, none missing; refinement |
| Snapshots | 5,686,004 | what is decoded, bases, snapshots of another map |
| Downloads | 187,911 | handles, whole parts, answers in the end |
| QueryLimit | 1,331,684 | chains, bounds on answers, silence is answered |
| ThreadCallbacksReceived | violation | callbacks of slots other than the first never run |
| NetchanOrder | violation | a map change mixes the fragments of two messages |

The two violations are places where the code does not do what a comment in it
says; `PROJECT.json` quotes the comments.

### Where the code departs from its comments

Each departure is named where a passing property excepts it. Besides the two
runs above there are four, which are defined next to their counterparts and
are checked by no run. To see the counterexample, put the definition under
INVARIANTS in the `.cfg` named here, in place of the properties.

| Definition | Comment | What happens | What holds instead |
|---|---|---|---|
| `GuaranteeNothingDiscarded` (ServerCommands.cfg) | sv_main.c:227, a command is "guaranteed" to be executed before future snapshots | a client exactly a ring behind has its acknowledge rejected and all its commands discarded (sv_main.c:1990) | `ExecutedBeforeSnapshot`, except for a client with `discarded` |
| `GuaranteeThroughGamestate` (ServerCommands.cfg) | the same, and sv_client.c:1745, "send any server commands waiting to be sent first" | the pending commands go out first, but once, in a message that may be lost or late (sv_client.c:1745-1752); the gamestate takes the reliable transport, may overtake that message, and counts the commands as acknowledged (sv_client.c:1772) | `ExecutedBeforeSnapshot`, except when it `raced` |
| `SilentIsDropped` (ClientSlots.cfg with `PrivateClients = 0`, `UpdateTimeout = 6`) | sv_main.c:3741, a client not heard of for `timeout` seconds is dropped | a zombie that is updating ends the loop over all clients (sv_main.c:3777) | `GoneIsFreed`: in the end |
| `ClosedIsCleared` (Downloads.cfg) | sv_client.c:1790, "clear/free any download vars" | `wwwDlAck` and `wwwDownloadStarted` stay set (sv_client.c:1794) | `BegunIsAnswered` and `GivenGamestate`, except when `Abandoned` |

One more is plain to read and not modelled: the reply to a wrong remote console
password is to be given only once "in 100 ms" (sv_main.c:1472), but the
limiter's period is in microseconds.

The exceptions in the passing properties are these. `raced`: the client was
given a gamestate while messages of the map before were on their way; the
gamestate takes another channel, and after a map change positions in the rings
begin at 0, so a frame of the old map passes the check for being too old.
`forgot` (in `HasBase`): the client was given the gamestate of the map it is on
again, and forgot all snapshots up to that moment. Its acknowledges of them are
still under way, or are what the server has already taken for its choice, so
differences to them still come; it cannot decode those, and sees nothing wrong
(`SeesTheGame` has no such exception). `Unreadable` (in `PartIsWhole`): a read
of the file failed, so that the part ends early; the position in the empty
block says where.
`discarded`: above. `abandoned`: a caller transmitted over unsent fragments
(NetchanOrder). `Abandoned`: a client broke a redirected download off, after
which nobody reports its end. `wrapped`: an address was silent for more than 2^31
microseconds (36 minutes) and kept its bucket; the interval is then negative
and what is left of the burst is any value of a char.

### Bounds

- *Transport.* Windows and ring of two (20, 4 and 32 in the code) with a stream
  of three: every slot is used again, the ring grows and shrinks with
  fragments in it, and windows are full. Two packets in flight and one fault
  are enough to reorder, lose or duplicate; the proof removes all bounds.
- *Netchan.* Packets of two units; messages of one (not fragmented), two (an
  exact multiple, so an empty last fragment) and three. Three messages: one
  abandoned, one transmitted over it, one after that. Two faults: a lost
  fragment together with a late duplicate.
- *Server commands.* A ring of two to four in place of 128: compacting starts at
  half a ring and discarding and overflow one command apart at its end, both
  of which then happen within four commands. Kinds of commands are reduced to
  how `sub_530FC0` compares them. Two maps and one gamestate.
- *Threads.* Three slots, two threads at a time and four jobs, so that a slot
  is used by several jobs, an identifier by several threads, and the table can
  get full.
- *Slots.* Two slots of which one is private, three players of which two share
  an IP, one is outdated and one trusted; time limits of one or two frames.
  Longer limits add waiting and no new order of events. ClientSlots and
  QueryLimit are also checked for deadlock. The other models may stop when
  their bounds are used up.
- *Snapshots.* Four frames with a margin of one in place of 32 and 3, so that
  five messages use a frame again; a ring of six for entities, of which a frame
  of the server uses three, with new frames begun below six on each map, and
  one of two for client states, which is written over every second message:
  bases are too old, written over in part, and just intact. One message on its
  way: a later one can be sent while the acknowledge of an earlier is still
  under way. Two maps, and one gamestate on its way, which can be one of a map
  that has begun: five messages are enough for a gamestate, a snapshot, the
  gamestate again, and differences to that snapshot before and after it
  arrives.
- *Downloads.* A file of a block and a half, one of one block that may be read
  in part or not at all, and one that is no pak; requests for all of it, for more than a file has and for nothing.
  Two downloads over two maps, so that each can meet
  the remains of another; three have been checked too (1.2 million states).
- *Query limiter.* Three addresses of which two share a hash, on two buckets:
  the search finds, takes free ones, takes expired ones from another chain, and
  fails. Limits of two and three answers (two and four in the code), a period
  of two ticks. An int of 4 bits and a char of 3 make every overflow happen
  within a few ticks.

Names starting with `Max` are bounds of the model, except `MAX_CALLBACKS`,
which the code has, and `MaxClients` (`sv_maxclients`).

### Fairness

- *Transport*: the main loop transmits and then reads in every frame; a packet
  with a given fragment that is sent again and again and not lost for ever
  arrives. The applications read all they can (`Greedy`), as
  `SV_ReceiveReliableMessages` does in its loop. Without that
  `EventuallyAcknowledged` fails: two ends that both have unacknowledged
  fragments and leave some unread can each drop the other's acknowledges with
  fragments out of their windows.
- *Server commands*: snapshots are sent every few frames, packets are read in
  every frame, the client sends commands all the time.
- *Threads*: the main loop runs and the system schedules every thread;
  downloads end.
- *Slots*: only that frames go on. Nothing is assumed of players.
- *Downloads*: in every frame the server executes what has arrived
  (`ExecuteDownloadCmd`, `PacketEvent`) and writes to the clients
  (`WriteDownload`). The client reads, reports the end of a redirect, and says
  so when it wants no more; it does not ask for parts of one file for ever
  (`ClientHasFile`, strong because asking again disables it). It need not
  begin, break off or be dropped.

## What is proved

Proofs need no bound: a theorem holds for every value of the constants that
the ASSUMEs of its module allow.

### The reliable transport

`ReliableTransportProofs` proves, for every window, ring length, stream and
number of packets and faults allowed by the assumptions of ReliableTransport:

- `Invariance`: `Spec => []Inv`, and from it `TypeCorrect`,
  `DeliveredInOrder`, `AcknowledgedWasDelivered`, `SendBufferStaysIntact`,
  `SkippedIsHeld` and `NoErrorExit`;
- `HeldStaysHeld`: what was acknowledged selectively is never lost again;
- `Refinement`: `Spec` implements `ReliableChannel`.

The assumptions are that the two endpoints differ, payloads are not the empty
mark, and `RxWindow <= 4`, `RxWindow <= TxWindow <= BufferSize`. The code has
4, 20 and 32; above 4 the loop that writes selective acknowledges could stop
early, which the model leaves out.

The properties are not inductive by themselves. `Inv` adds what they rest on:
the counters are ordered and the ring at least of its default length
(`CountersOrdered`), what has arrived in the receive window is what was queued
there (`ReceiveBufferIntact`), no slot holds a fragment from beyond the window
(`NothingAhead`), and packets stay true however long they are on their way
(`PacketsTruthful`): the fragment they carry is the one with that number, and
what they acknowledge is held. The last is what makes duplicates and old
packets harmless, since the counters they speak of only grow. The proof has
one lemma per action; `IndexUnique` and `ModInjective` say that two fragments
less than a ring apart have different slots, which is used wherever a slot is
written.

Refinement needs two facts beyond `Inv`: handing out n fragments is n
deliveries in one step of the channel, and an acknowledge in a packet never
exceeds what was delivered.

### The netchan

`NetchanProofs` proves `Whole`, `Once`, `Arrives`, `TypeCorrect` and
`Refinement`, that `Spec` implements `LossyChannel`, for
messages of any lengths, any size of a packet and any number of messages and
faults. The invariant, `Good`, says which part of which message each packet
carries (`Carries`), that the peer's buffer is the beginning of a message or,
where a caller transmitted over unsent fragments, a mixture of several
(`Received`), and of each number under which a large message has ended that
what travels under it or a lower one belongs to messages sent before those that
travel under higher ones (`Closed`, `Split`). The last is needed because a
message that was cut off and one transmitted over it go out under one number, so
that the number alone does not say which message a fragment is from. For
`ArrivesWithoutFaults` the packets in flight continue each other, from what the
peer waits for to what the sender has left (`Linked`). The loop of
`SV_SendClientGameState`, which sends all unsent fragments at once, is a
function of its rounds; what it leaves is proved by taking the first round for
which it would not be so. `Refinement` adds that no step but receiving touches
what was handed out, that transmitting only adds messages (`Extended`), and
that the message handed out last has the highest number, hence, while nothing
is abandoned, the latest place among those sent.

### Server commands

`ServerCommandsProofs` proves `Guarantee`, `Ordered`, `Keys`, `Stable` and
`TypeCorrect`, for a ring of any length, any commands and any relation of
superseding. The properties except clients that are dropped, that had an
acknowledge discarded, or for which a gamestate overtook commands. None of
these is undone, so the invariant speaks of the other clients alone: the types
and the order of the counters always hold, and of an `Undisturbed` client that
it is `Orderly`:

- the ring holds what is not acknowledged, in the order it was given (`RingOK`);
- what may not be lost was executed or is in the ring still (`Complete`);
- a message on its way repeats all that is not acknowledged, up to the last
  command when it was written (`MessageOK`), and the client has executed what
  its acknowledge says (`AckOK`, `RemoteOK`).

The hard step is adding a command. What was sent keeps its slot, what was not
keeps its order, and only what may be lost or was made obsolete leaves the ring
(`Grown`). A full ring holds nothing unsent that may be lost: otherwise
compacting would lower the last number, and a slot that had been written over
would count again as that of an acknowledged command, from which keys are
taken. `Stable` is shown for each action in turn.

### The snapshots

`SnapshotsProofs` proves `WhatWasSeen`, `BaseIsThere`, `MapsInOrder` and
`TypeCorrect`, for rings of any sizes, any frames and margins, any snapshots
and any that other clients write in between. `Held` says that the entries of a
frame which are still in a ring were written for that frame's message. A write
at the end of a ring takes the positions that leave it, so `Held` is kept
(`PutKeeps`), and a base that passes the server's checks is read as it was
written (`EntriesHeld`). On the other side the client has every snapshot that
it acknowledged and that the server might still take for a base, unless a
gamestate sent again made it forget that (`Known`). A snapshot on its way that
was taken to a base the client has not forgotten can be decoded (`MessageOK`),
and the client keeps none that is older than what it was made to forget
(`SnapsOK`). This holds as long as no gamestate `raced`. `LevelsOK` says which
maps the gamestates on their way belong to: any number for each map, in the
order of the maps, and the first of a map before the client is in the game on
it. The assumption `FrameFits` is
that one frame's snapshots of all clients fit in the rings; the sizes in the
code (sv_main.c, server.h) are such.

### The downloads

`DownloadsProofs` proves `HandleIsClosed`, `PartComplete` and `TypeCorrect`,
for any finite number of files of any sizes, and any requests, downloads and
maps. `HandleIsClosed` needs no more than the shape of `client_t`. For
`PartIsWhole` the invariant, `Inv`, says of everything on its way what it may
still do: a redirect is with one side only, and its end is reported once
(`RedirectOK`); a request to begin and the answer to it are the last that
matter on their way (`BegunOK`); a file nobody waits for has no answer on its
way and gets none (`Quiet`, `Void`), and no block comes before a part is asked
for (`Calm`); and once it is (`AskedOK`), the blocks on their way and what the client has are the part
up to `downloadCount`, in order, with an empty block behind them when the part is
sent or a read failed (`Sending`). `TypeCorrect` says that what was
asked for and not sent yet lies within the open file: no block runs over its
end.

### The query limiter

`QueryLimitProofs` proves `ChainsStayIntact`, `Bounded`, `Answered` and
`TypeCorrect`, for any addresses, buckets, hashes and widths, and any limits of
two and more.

*Chains.* `ChainsIntact` speaks of buckets in use; the inductive invariant
`Chained` adds that free buckets are blank, that the head of a chain is in use,
has the chain's hash and nothing before it, and that a link leads to a bucket of
the same hash. That a bucket can be reached from the head is stated without
recursion, by all sets that hold the head and are closed under `next`
(`OnChain`); to show that it still can after a step, any set closed after the
step is turned into one closed before. The lemmas `UnlinkedChained` and
`LinkedChained` do that for taking a bucket out and putting it at a head,
`Neighbours` says that no two buckets share one.

*Bounds.* `AnswersBounded` counts answers from any one of them on, until a
period is over. The invariant relates that count to the bucket (`Fits`): the
bucket's `burst` is at least the count while the interval since its `lastTime`
is less than a period longer than the window, and at least the count less one
once a period was forgiven, after which the interval is shorter than the window,
so that nothing more is forgiven before the window ends. The bucket must be the
same all the time (`WindowOK`): it is given to another address only when its
interval is longer than the limit of the query times the period, and within a
window the interval stays below two periods. So every limit has to be two or
more, as they are (sv_main.c:735, 811); `LimitAssumption` says so. With a limit
of one and a period of three ticks TLC finds an address whose bucket is taken within the period and that is
answered once more than allowed. `SilentIsAnswered` follows from the interval
of the bucket being at least the time of silence (`MineOK`).

### The client slots

`ClientSlotsProofs` proves `AddressHasOneSlot`, `TransportsAreKept` and
`TypeCorrect` for any slots, players, queues and time limits.
`OneSlotPerAddress` is not inductive: the search of `SV_DirectConnect` for a
returning player ends at the first slot with its address, also if that is free,
and one in use behind it would be missed. The invariant `SlotsInv` says that an
address is in one slot at most, free ones included (`OneSlotAtAll`), that each
slot has a transport exactly when it is connected, and that as many exist as
slots hold one. For the types, `TypeInv` adds that only a free slot has a client
that was overdue for longer than allowed. One pass over the queue is a function
defined by recursion (`MovedUp`); that there is one, and that it keeps what
each visit keeps (`MovedUpKeeps`), is proved by the least place for which it
would not.

### The thread callbacks

`ThreadCallbacksProofs` proves `TypeCorrect`, `FirstSlotStaysKept`,
`RunAtMostOnce` and `OneDownloads` from one invariant, `TableInv`, for any
number of slots, identifiers and jobs and both copies of the code.
`FirstSlotIsKept` rests on jobs having numbers that are not used again
(`JobsInv`) and on the main loop clearing the first slot only after it saw it
marked, which it stays until then (`ClearsMarked`). `CalledBackOnce` rests on
where a job is while its callback has not run: with its thread, or in the first
slot (`OnceInv`). The last is true of the plugins' copy only, as is the
property.

### What is only model-checked

Liveness, since the prover has no rules for fairness: `EventuallyDelivered` and
`EventuallyAcknowledged` of the transport, `EventuallyExecuted` and
`OverflowDrops` of the server commands, `FirstSlotCompletes` of the thread
callbacks, `GoneIsFreed` of the slots, `BegunIsAnswered` and `GivenGamestate` of
the downloads. That the assumptions of a module can be met, and that its
actions can happen, is shown by the runs.

## What is not modelled

- Sizes in bytes and rates; the content of gamestates, commands and files, and
  what a snapshot holds beyond the number of its entries (visibility, areas and
  the difference of two entities are data, most of it in the original game
  binary).
- Wrap-around of 32-bit counters: the server restarts itself before `svs.time`
  wraps (sv_main.c:4264); sequence numbers of fragments and messages would take
  years.
- In the transport: that a truncated message (`SendTruncated`) breaks the
  framing above it (sv_client.c:2779).
- In the netchan: the direction from the client, `client.frames`, out-of-band
  packets.
- In the snapshots: archived snapshots for the kill camera, and the packing of
  bits (huffman.c). A client with the flags of an aborted redirect set
  (`Abandoned`), whose moves of another map are heeded (sv_client.c:1845).
- In the downloads: what puts a gamestate off (sv_client.c:1674-1711: an update,
  a missing authentication, a plugin); the client's packets and commands ask
  for it again, and `GivenGamestate` holds if it is not put off for ever.
  Requests for parts that begin below 0 or whose end is past the range of an
  int, which pass the checks at sv_client.c:2234 and 2239.
- In the limiter: the limits for all addresses together, addresses of the local
  network, which are exempt, and a limiter that is switched off.
- In the slots: addresses as IP, port and qport, which a router can remap
  (sv_client.c:2590); that waiting players are overtaken through a hole that
  purging leaves (sv_client.c:321) is in the model but not stated as a property.
- Memory: what a callback's argument points to (sv_cmds.c:2186), the script
  array of an outdated client (sv_client.c:436), the receive buffer allocated
  for a zombie (sv_client.c:2662).
- All components marked `not_modelled` in `PROJECT.json`.

## The plan

Every component whose correctness depends on order has its module, except one,
and every safety property of the modules is proved. What is left, in this order:

1. *Composition*: ServerCommands and Snapshots hold their messages in queues
   with losses where the code uses the netchan. Show that these queues are
   LossyChannel with what is received in between left out.
2. *The waiting queue*: which order of players survives a purge
   (sv_client.c:321), by the lemma on `MovedUp` that the type invariant uses.
3. *Server*: frames, restarts before counters wrap, heartbeat slots shared with
   threads.

## Running

    tlc -config ReliableTransport.cfg MCReliableTransport
    tlc -config Downloads.cfg MCDownloads
    tlapm ReliableTransportProofs.tla

and likewise for the other runs, and for `NetchanProofs`,
`ServerCommandsProofs`, `SnapshotsProofs`, `DownloadsProofs`,
`QueryLimitProofs`, `ClientSlotsProofs` and `ThreadCallbacksProofs`. The runs
take from seconds to two minutes, the proofs up to a few minutes.

Each `.cfg` belongs to the module `PROJECT.json` names for the run, and its
first line says what is special about the instance. An operator introduced by a
comment "Mutant of X" is a plausible mistake in X; `PROJECT.json` lists the
property that finds it.
