------------------------------ MODULE Downloads ------------------------------
(***************************************************************************)
(* Files for a client (sv_client.c): the client begins a download and then *)
(* asks for parts of the file, that the server sends block by block, one   *)
(* with each message (SV_WriteDownloadToClient); or the server redirects   *)
(* it to an HTTP server and waits for what becomes of that.  Commands and  *)
(* blocks go over the reliable transport (module ReliableTransport), as    *)
(* the gamestate does: in order and complete.                              *)
(*                                                                         *)
(* A client that downloads is on no map.  It is spared the check that its  *)
(* packets are of the current map (SV_ExecuteClientMessage), by which all  *)
(* others are sent the gamestate of a new one.                             *)
(*                                                                         *)
(* The client's side is not in the repository: a client has one download   *)
(* at a time, asks for another part when it has the one before, and is     *)
(* done when it wants no more.                                             *)
(*                                                                         *)
(* Left out: what puts a gamestate off (sv_client.c:1674-1711), until the  *)
(* client asks again; and requests from below 0 or past the range of an    *)
(* int (2233-2242).                                                        *)
(***************************************************************************)
EXTENDS Integers, Sequences, FiniteSets, FiniteSetsExt

CONSTANTS
    File,        \* the files clients ask for
    NoFile,      \* an empty downloadName; a handle that is not open
    Paks,        \* the files FS_VerifyPak allows
    SizeOf,      \* their sizes
    Unreadable,  \* the files of which a read may fail, or get less: the disk
                 \* fails, or a file is cut short while it is open
    BlockSize,   \* 900 in the code
    Request,     \* the parts that the client may ask for
    MaxDownloads,\* bound: downloads the client begins
    MaxLevel     \* bound: maps played

ASSUME FileAssumption ==
    /\ NoFile \notin File /\ Paks \subseteq File /\ IsFiniteSet(File)
    /\ Unreadable \subseteq File
    /\ SizeOf \in [File -> Nat \ {0}]
    /\ Request \subseteq [at : Nat, num : Nat] /\ Request # {}
    /\ {BlockSize, MaxLevel} \subseteq Nat \ {0} /\ MaxDownloads \in Nat

VARIABLES
    cl,       \* svs.clients[i]
    handles,  \* how many handles are open for the client in the file system
    level,    \* the server's id: which map is played
    toClient, \* the reliable transport to the client
    toServer, \* and back
    remote    \* the client's side

vars == <<cl, handles, level, toClient, toServer, remote>>

Largest == Max({0} \cup {SizeOf[f] : f \in File})

State == {"CS_ZOMBIE", "CS_CONNECTED", "CS_PRIMED", "CS_ACTIVE"}

\* client_t: its download.  downloadSize is SizeOf[download]
Client == [state : State, gamestateSent : BOOLEAN,
           downloadName : File \cup {NoFile}, download : File \cup {NoFile},
           downloadBeginOffset : 0..Largest, downloadNumBytes : 0..Largest,
           downloadCount : 0..Largest, downloadEOF : BOOLEAN,
           wwwDownloadStarted : BOOLEAN, wwwDlAck : BOOLEAN,
           wwwDl_failed : BOOLEAN, wwwDl_var01 : BOOLEAN]

\* What the server sends: "FILEINIT", "FAIL" and "WWWRD" about a file, a
\* block ("SERVERDL": filepos, and which bytes), a gamestate
ToClient == [cmd : {"FILEINIT", "FAIL", "WWWRD"}, file : File]
    \cup [cmd : {"SERVERDL"}, file : File, at : 0..Largest,
          bytes : SUBSET (0..(Largest - 1))]
    \cup [cmd : {"gamestate"}, level : 1..MaxLevel]

ToServer == [cmd : {"BEGINDOWNLOAD"}, file : File]
    \cup [cmd : {"REQUESTDLBLOCKS"}, part : Request]
    \cup [cmd : {"DONEDOWNLOAD", "STOPDOWNLOAD", "WWWDLDONE", "WWWDLFAIL",
                 "WWWDLCHKFAIL", "WWWDLBBL8R"}]

\* The client: it wants nothing ("idle"), has begun a download, may ask for a
\* part ("init"), has asked, or was redirected
Phase == {"idle", "begun", "init", "asked", "redirected"}

TypeOK ==
    /\ cl \in Client
    /\ handles \in Nat /\ level \in 1..MaxLevel
    /\ toClient \in Seq(ToClient) /\ toServer \in Seq(ToServer)
    /\ remote \in [phase : Phase, file : File \cup {NoFile}, level : 0..MaxLevel,
                   part : Request, got : SUBSET (File \X (0..(Largest - 1))),
                   busy : BOOLEAN, begun : 0..MaxDownloads,
                   stopped : SUBSET File]
    \* what was asked for and is not sent yet is within the file
    /\ cl.download # NoFile /\ ~cl.downloadEOF =>
           /\ cl.downloadBeginOffset <= cl.downloadCount
           /\ cl.downloadCount <= cl.downloadBeginOffset + cl.downloadNumBytes
           /\ cl.downloadBeginOffset + cl.downloadNumBytes <= SizeOf[cl.download]

-----------------------------------------------------------------------------
\* The server

\* FS_FCloseFile, where the handle is open
Closed(c) == handles - (IF c.download = NoFile THEN 0 ELSE 1)

\* Mutant of CloseDownload: the handle is kept
CloseDownloadName(c) == [c EXCEPT !.downloadName = NoFile]

\* SV_CloseDownload
CloseDownload(c) == [c EXCEPT !.download = NoFile, !.downloadName = NoFile]

\* SV_DropClientInternal: the reliable transport goes with the client
Drop ==
    /\ cl' = [CloseDownload(cl) EXCEPT !.state = "CS_ZOMBIE"]
    /\ handles' = Closed(cl)
    /\ toClient' = <<>> /\ toServer' = <<>>

DropClient ==
    /\ cl.state # "CS_ZOMBIE"
    /\ Drop
    /\ UNCHANGED <<level, remote>>

\* SV_SendClientGameState
WithGamestate(c) == [c EXCEPT !.state = "CS_PRIMED", !.gamestateSent = TRUE]

Gamestate == [cmd |-> "gamestate", level |-> level]

\* SV_SpawnServer.  A download goes on; its handle is not one of those that
\* FS_Shutdown closes.
SpawnServer ==
    /\ level < MaxLevel
    /\ level' = level + 1
    /\ cl' = IF cl.state = "CS_ZOMBIE" THEN cl
             ELSE [cl EXCEPT !.state = "CS_CONNECTED", !.gamestateSent = FALSE]
    /\ UNCHANGED <<handles, toClient, toServer, remote>>

\* SV_WriteDownloadToClient, where it opens the file: not one of the paks,
\* and the client is dropped; not allowed or not found; redirected; or opened
OpenDownload ==
    LET f == cl.downloadName
        init == [cmd |-> "FILEINIT", file |-> f]
    IN  \/ f \notin Paks /\ Drop
        \/ /\ f \in Paks
           /\ cl' = CloseDownload([cl EXCEPT !.wwwDl_var01 = FALSE])
           /\ toClient' = Append(toClient, [cmd |-> "FAIL", file |-> f])
           /\ UNCHANGED <<handles, toServer>>
        \/ /\ f \in Paks /\ ~cl.wwwDl_failed
           /\ cl' = [cl EXCEPT !.wwwDownloadStarted = TRUE, !.wwwDl_var01 = FALSE,
                               !.wwwDlAck = TRUE]
           /\ toClient' = toClient \o <<init, [cmd |-> "WWWRD", file |-> f]>>
           /\ UNCHANGED <<handles, toServer>>
        \/ /\ f \in Paks
           /\ cl' = [cl EXCEPT !.download = f, !.downloadCount = 0, !.downloadEOF = TRUE,
                               !.downloadNumBytes = 0, !.downloadBeginOffset = 0,
                               !.wwwDownloadStarted = FALSE, !.wwwDl_failed = FALSE]
           /\ handles' = handles + 1
           /\ toClient' = Append(toClient, init)
           /\ UNCHANGED toServer

\* Mutant of NextBlock: where the part begins is forgotten
NextBlockFromStart ==
    LET remaining == cl.downloadNumBytes - cl.downloadCount
    IN  Min({BlockSize, Max({remaining, 0}), SizeOf[cl.download] - cl.downloadCount})

\* How many bytes the next block is to have: none when the part asked for is
\* sent
NextBlock ==
    LET remaining == cl.downloadBeginOffset + cl.downloadNumBytes - cl.downloadCount
    IN  Min({BlockSize, Max({remaining, 0}), SizeOf[cl.download] - cl.downloadCount})

\* FS_Read: how many of them it gets
Read == IF cl.download \in Unreadable THEN 0..NextBlock ELSE {NextBlock}

\* SV_WriteDownloadToClient, with a message to a client that is no zombie:
\* nothing without a name or after a redirect; else the file is opened, or the
\* next block of what was asked for is sent, an empty one after the last or
\* when nothing could be read
WriteDownload ==
    /\ cl.state # "CS_ZOMBIE"
    /\ cl.downloadName # NoFile /\ ~cl.wwwDlAck
    /\ \/ cl.download = NoFile /\ OpenDownload
       \/ /\ cl.download # NoFile /\ ~cl.downloadEOF
          /\ \E n \in Read :
              /\ cl' = [cl EXCEPT !.downloadCount = @ + n, !.downloadEOF = n = 0]
              /\ toClient' = Append(toClient,
                     [cmd |-> "SERVERDL", file |-> cl.download, at |-> cl.downloadCount,
                      bytes |-> cl.downloadCount..(cl.downloadCount + n - 1)])
          /\ UNCHANGED <<handles, toServer>>
    /\ UNCHANGED <<level, remote>>

\* Mutant of BeginDownload: a download in progress is not closed
BeginDownloadOver(m) ==
    /\ cl' = [cl EXCEPT !.downloadName = m.file, !.download = NoFile, !.wwwDl_var01 = TRUE]
    /\ UNCHANGED <<handles, toClient>>

\* SV_BeginDownloadX_f
BeginDownload(m) ==
    /\ cl' = [CloseDownload(cl) EXCEPT !.downloadName = m.file, !.wwwDl_var01 = TRUE]
    /\ handles' = Closed(cl)
    /\ UNCHANGED toClient

\* The part of a file that a request stands for: no more than the file has
Begins(f, part) == Min({part.at, SizeOf[f]})

\* Mutant of Length: the end of the file is not minded
LengthAsked(f, part) == part.num

Length(f, part) ==
    IF Begins(f, part) + part.num > SizeOf[f] THEN SizeOf[f] - Begins(f, part) ELSE part.num

\* SV_SelectDownloadBlocksX_f
SelectDownloadBlocks(m) ==
    /\ cl' = IF cl.download = NoFile THEN cl
             ELSE [cl EXCEPT !.downloadBeginOffset = Begins(cl.download, m.part),
                             !.downloadNumBytes = Length(cl.download, m.part),
                             !.downloadCount = Begins(cl.download, m.part),
                             !.downloadEOF = FALSE]
    /\ UNCHANGED <<handles, toClient>>

\* Mutant of StopDownload: the client still counts as downloading
StopDownloadSpared ==
    /\ cl' = CloseDownload(cl)
    /\ handles' = Closed(cl)
    /\ UNCHANGED toClient

\* SV_StopDownload_f
StopDownload ==
    /\ cl' = [CloseDownload(cl) EXCEPT !.wwwDl_var01 = FALSE]
    /\ handles' = Closed(cl)
    /\ UNCHANGED toClient

\* SV_DoneDownload_f
DoneDownload ==
    /\ cl' = WithGamestate([CloseDownload(cl) EXCEPT !.wwwDl_var01 = FALSE])
    /\ handles' = Closed(cl)
    /\ toClient' = Append(toClient, Gamestate)

\* What SV_WWWDownload_Done_f, _Fail_f and _ChkFail_f have in common
RedirectOver(c) ==
    [CloseDownload(c) EXCEPT !.wwwDl_var01 = FALSE, !.wwwDownloadStarted = FALSE,
                             !.wwwDlAck = FALSE]

Redirected(c) == c.wwwDownloadStarted /\ c.wwwDlAck

WWWDownloadDone ==
    /\ Redirected(cl)
    /\ cl' = RedirectOver(cl)
    /\ handles' = Closed(cl)
    /\ UNCHANGED toClient

WWWDownloadFail ==
    /\ Redirected(cl)
    /\ cl' = WithGamestate([RedirectOver(cl) EXCEPT !.wwwDl_failed = TRUE])
    /\ handles' = Closed(cl)
    /\ toClient' = Append(toClient, Gamestate)

\* SV_ExecuteDownloadCmd.  A client that leaves to download elsewhere
\* (WWWDLBBL8R) is dropped, as one is that reports of no redirect.
ExecuteDownloadCmd ==
    /\ toServer # <<>>
    /\ LET m == Head(toServer)
           handled == toServer' = Tail(toServer)
       IN  \/ m.cmd = "BEGINDOWNLOAD" /\ BeginDownload(m) /\ handled
           \/ m.cmd = "REQUESTDLBLOCKS" /\ SelectDownloadBlocks(m) /\ handled
           \/ m.cmd = "STOPDOWNLOAD" /\ StopDownload /\ handled
           \/ m.cmd = "DONEDOWNLOAD" /\ DoneDownload /\ handled
           \/ m.cmd = "WWWDLDONE" /\ WWWDownloadDone /\ handled
           \/ m.cmd \in {"WWWDLFAIL", "WWWDLCHKFAIL"} /\ WWWDownloadFail /\ handled
           \/ /\ \/ m.cmd = "WWWDLBBL8R"
                 \/ m.cmd \in {"WWWDLDONE", "WWWDLFAIL", "WWWDLCHKFAIL"} /\ ~Redirected(cl)
              /\ Drop
    /\ UNCHANGED <<level, remote>>

\* SV_ExecuteClientMessage, for a packet of the client: one of another map
\* asks for the gamestate, unless the client downloads; else its moves count
PacketEvent ==
    /\ cl.state # "CS_ZOMBIE"
    /\ LET spared == cl.wwwDl_var01 \/ cl.wwwDownloadStarted \/ cl.wwwDlAck
       IN  \/ /\ remote.level # level /\ ~spared /\ ~cl.gamestateSent
              /\ cl' = WithGamestate(cl)
              /\ toClient' = Append(toClient, Gamestate)
           \/ /\ remote.level = level \/ spared
              /\ remote.level # 0 /\ ~remote.busy
              /\ cl.state = "CS_PRIMED"
              /\ cl' = [cl EXCEPT !.state = "CS_ACTIVE"]
              /\ UNCHANGED toClient
    /\ UNCHANGED <<handles, level, toServer, remote>>

-----------------------------------------------------------------------------
\* The client

Send(m) == toServer' = Append(toServer, m)

ClientBegin(f) ==
    /\ remote.phase = "idle" /\ remote.level # 0 /\ remote.begun < MaxDownloads
    /\ f \notin remote.stopped
    /\ remote' = [remote EXCEPT !.phase = "begun", !.file = f, !.busy = TRUE,
                                !.begun = @ + 1, !.got = {}]
    /\ Send([cmd |-> "BEGINDOWNLOAD", file |-> f])
    /\ UNCHANGED <<cl, handles, level, toClient>>

ClientAsk(part) ==
    /\ remote.phase = "init"
    /\ remote' = [remote EXCEPT !.phase = "asked", !.part = part, !.got = {}]
    /\ Send([cmd |-> "REQUESTDLBLOCKS", part |-> part])
    /\ UNCHANGED <<cl, handles, level, toClient>>

\* It has the file
ClientHasFile ==
    /\ remote.phase = "init"
    /\ remote' = [remote EXCEPT !.phase = "idle", !.got = {}]
    /\ UNCHANGED <<cl, handles, level, toClient, toServer>>

\* What came of a redirect
ClientRedirectOver ==
    /\ remote.phase = "redirected"
    /\ remote' = [remote EXCEPT !.phase = "idle"]
    /\ \E c \in {"WWWDLDONE", "WWWDLFAIL", "WWWDLCHKFAIL", "WWWDLBBL8R"} : Send([cmd |-> c])
    /\ UNCHANGED <<cl, handles, level, toClient>>

\* The player breaks a download off, for good, and may play without the file
ClientStop ==
    /\ remote.phase # "idle"
    /\ \E busy \in BOOLEAN :
        remote' = [remote EXCEPT !.phase = "idle", !.busy = busy, !.got = {},
                                 !.stopped = @ \cup {remote.file}]
    /\ Send([cmd |-> "STOPDOWNLOAD"])
    /\ UNCHANGED <<cl, handles, level, toClient>>

\* It wants no more files
ClientDone ==
    /\ remote.phase = "idle" /\ remote.busy
    /\ remote' = [remote EXCEPT !.busy = FALSE]
    /\ Send([cmd |-> "DONEDOWNLOAD"])
    /\ UNCHANGED <<cl, handles, level, toClient>>

\* Blocks do not say of which file they are: bytes are noted with their file
\* in got.  FILEINIT begins the file anew.
ClientReceive ==
    /\ toClient # <<>>
    /\ LET m == Head(toClient)
           mine == m.cmd \in {"FILEINIT", "FAIL", "WWWRD"} /\ m.file = remote.file
       IN  remote' =
           CASE m.cmd = "gamestate" -> [remote EXCEPT !.level = m.level]
             [] m.cmd = "FILEINIT" /\ mine /\ remote.phase \in {"begun", "init", "asked"} ->
                    [remote EXCEPT !.phase = "init", !.got = {}]
             [] m.cmd = "FAIL" /\ mine /\ remote.phase = "begun" ->
                    [remote EXCEPT !.phase = "idle"]
             [] m.cmd = "WWWRD" /\ mine /\ remote.phase \in {"begun", "init", "asked"} ->
                    [remote EXCEPT !.phase = "redirected", !.got = {}]
             [] m.cmd = "SERVERDL" /\ remote.phase = "asked" /\ m.bytes # {} ->
                    [remote EXCEPT !.got = @ \cup ({m.file} \X m.bytes)]
             [] m.cmd = "SERVERDL" /\ remote.phase = "asked" /\ m.bytes = {} ->
                    [remote EXCEPT !.phase = "init"]
             [] OTHER -> remote
    /\ toClient' = Tail(toClient)
    /\ UNCHANGED <<cl, handles, level, toServer>>

-----------------------------------------------------------------------------

Init ==
    /\ cl = [state |-> "CS_CONNECTED", gamestateSent |-> FALSE,
             downloadName |-> NoFile, download |-> NoFile,
             downloadBeginOffset |-> 0, downloadNumBytes |-> 0, downloadCount |-> 0,
             downloadEOF |-> FALSE, wwwDownloadStarted |-> FALSE, wwwDlAck |-> FALSE,
             wwwDl_failed |-> FALSE, wwwDl_var01 |-> FALSE]
    /\ handles = 0 /\ level = 1
    /\ toClient = <<>> /\ toServer = <<>>
    /\ remote = [phase |-> "idle", file |-> NoFile, level |-> 0,
                 part |-> CHOOSE part \in Request : TRUE,
                 got |-> {}, busy |-> FALSE, begun |-> 0, stopped |-> {}]

Next ==
    \/ WriteDownload \/ ExecuteDownloadCmd \/ PacketEvent
    \/ DropClient \/ SpawnServer
    \/ \E f \in File : ClientBegin(f)
    \/ \E part \in Request : ClientAsk(part)
    \/ ClientHasFile \/ ClientRedirectOver \/ ClientStop \/ ClientDone \/ ClientReceive

Spec == Init /\ [][Next]_vars

\* The server has a frame again and again, in which it executes what has
\* arrived and writes messages (SV_SendClientMessages); a client sends packets
\* for as long as it is connected and gets on with its downloads: it does not
\* ask for parts for ever.
Fairness ==
    /\ WF_vars(WriteDownload) /\ WF_vars(ExecuteDownloadCmd) /\ WF_vars(PacketEvent)
    /\ WF_vars(ClientReceive) /\ SF_vars(ClientHasFile)
    /\ WF_vars(ClientRedirectOver) /\ WF_vars(ClientDone)

FairSpec == Spec /\ Fairness

-----------------------------------------------------------------------------
\* Properties

\* The one handle of a client's download is closed before another is opened
\* and when the client is dropped, in whatever order it begins, stops and
\* ends downloads and the server fails, redirects or opens them
OneHandle == handles = IF cl.download = NoFile THEN 0 ELSE 1

\* When the empty block comes, the client has all the bytes of its file from
\* the begin of its part to filepos of that block, and no others: none of a
\* download broken off before, or of an earlier request.  Unless a read of the
\* file failed, which ends the part with the same empty block, that is the
\* whole part; after a failed read filepos tells the client what it misses.
PartIsWhole ==
    [][toClient # <<>> /\ Head(toClient).cmd = "SERVERDL"
       /\ remote.phase = "asked" /\ remote'.phase = "init" =>
        LET f == remote.file
            end == Begins(f, remote.part) + Length(f, remote.part)
            filepos == Head(toClient).at
        IN  /\ remote.got = {f} \X (Begins(f, remote.part)..(filepos - 1))
            /\ IF f \in Unreadable THEN filepos <= end ELSE filepos = end]_vars

\* A redirect whose end nobody will report: the client broke it off, but
\* SV_CloseDownload leaves wwwDlAck set
Abandoned ==
    /\ cl.wwwDlAck /\ remote.phase # "redirected"
    /\ \A i \in DOMAIN toClient : toClient[i].cmd # "WWWRD"
    /\ \A i \in DOMAIN toServer :
           toServer[i].cmd \notin {"WWWDLDONE", "WWWDLFAIL", "WWWDLCHKFAIL", "WWWDLBBL8R"}

\* A download begun is answered: opened, redirected or refused; or the client
\* breaks it off or is dropped.  Not after a redirect was broken off.
BegunIsAnswered ==
    remote.phase = "begun" ~>
        remote.phase # "begun" \/ cl.state = "CS_ZOMBIE" \/ Abandoned

\* After a change of the map every client that stays is given the gamestate
\* in the end, also one that is downloading, whose packets do not ask for it.
\* Not after a redirect was broken off; and nothing puts it off for ever.
GivenGamestate ==
    ~cl.gamestateSent ~> cl.gamestateSent \/ cl.state = "CS_ZOMBIE" \/ Abandoned

\* SV_CloseDownload (sv_client.c:1790): "clear/free any download vars"
ClosedIsCleared ==
    cl.downloadName = NoFile => ~cl.wwwDlAck /\ ~cl.wwwDownloadStarted

=============================================================================
