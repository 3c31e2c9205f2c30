---------------------------- MODULE DownloadsProofs ----------------------------
(***************************************************************************)
(* Of downloads, for any files, sizes, requests and numbers of downloads   *)
(* and maps: that the handle of a client's download is closed exactly      *)
(* once, type correctness, and that the client has its part of the file    *)
(* when the empty block says so: all of it, unless a read failed.          *)
(*                                                                         *)
(* OneHandle is inductive but for the shape of client_t: that every step   *)
(* leaves the client its field download, whatever else it writes.          *)
(*                                                                         *)
(* For the rest the invariant says of every message on its way what it may *)
(* still do: a redirect is with one side only, an answer comes once and to *)
(* the download that was begun last, and the blocks on their way to a      *)
(* client that asked for a part are what it has not got of it.             *)
(***************************************************************************)
EXTENDS Downloads, SequenceTheorems, FiniteSetTheorems, WellFoundedInduction, TLAPS

-----------------------------------------------------------------------------
(* The handle.                                                             *)

HasDownload == "download" \in DOMAIN cl

HandleInv == HasDownload /\ OneHandle

\* The steps that close the download leave no handle open
LEMMA ClosedNone ==
    ASSUME HandleInv
    PROVE  Closed(cl) = 0
BY DEF HandleInv, OneHandle, Closed

\* SV_CloseDownload leaves a client without a download
LEMMA CloseShape ==
    ASSUME NEW c, "download" \in DOMAIN c
    PROVE  /\ CloseDownload(c).download = NoFile
           /\ DOMAIN CloseDownload(c) = DOMAIN c
BY DEF CloseDownload

\* Sending the gamestate leaves the download alone
LEMMA GamestateShape ==
    ASSUME NEW c, "download" \in DOMAIN c
    PROVE  /\ WithGamestate(c).download = c.download
           /\ DOMAIN WithGamestate(c) = DOMAIN c
BY DEF WithGamestate

\* The end of a redirect closes the download
LEMMA RedirectShape ==
    ASSUME NEW c, "download" \in DOMAIN c
    PROVE  /\ RedirectOver(c).download = NoFile
           /\ DOMAIN RedirectOver(c) = DOMAIN c
BY CloseShape DEF RedirectOver

LEMMA InitHandle == Init => HandleInv
BY DEF Init, HandleInv, HasDownload, OneHandle

LEMMA DropHandle ==
    ASSUME HandleInv, Drop
    PROVE  HandleInv'
BY ClosedNone, CloseShape DEF Drop, HandleInv, HasDownload, OneHandle

\* A file is opened where there is none
LEMMA OpenHandle ==
    ASSUME HandleInv, OpenDownload, cl.download = NoFile, cl.downloadName # NoFile
    PROVE  HandleInv'
<1> USE DEF HandleInv, HasDownload
<1>1. CASE Drop
  BY <1>1, DropHandle
<1>2. CASE /\ cl' = CloseDownload([cl EXCEPT !.wwwDl_var01 = FALSE])
           /\ UNCHANGED handles
  BY <1>2, CloseShape DEF OneHandle
<1>3. CASE /\ cl' = [cl EXCEPT !.wwwDownloadStarted = TRUE, !.wwwDl_var01 = FALSE,
                               !.wwwDlAck = TRUE]
           /\ UNCHANGED handles
  BY <1>3 DEF OneHandle
<1>4. CASE /\ cl' = [cl EXCEPT !.download = cl.downloadName, !.downloadCount = 0,
                               !.downloadEOF = TRUE, !.downloadNumBytes = 0,
                               !.downloadBeginOffset = 0,
                               !.wwwDownloadStarted = FALSE, !.wwwDl_failed = FALSE]
           /\ handles' = handles + 1
  <2>1. cl'.download = cl.downloadName /\ DOMAIN cl' = DOMAIN cl
    BY <1>4
  <2> QED
    BY <1>4, <2>1 DEF OneHandle
<1> QED
  BY <1>1, <1>2, <1>3, <1>4 DEF OpenDownload

LEMMA WriteHandle ==
    ASSUME HandleInv, WriteDownload
    PROVE  HandleInv'
<1>1. CASE cl.download = NoFile
  BY <1>1, OpenHandle DEF WriteDownload
<1>2. CASE cl.download # NoFile
  <2>1. PICK n \in Read :
            /\ cl' = [cl EXCEPT !.downloadCount = @ + n, !.downloadEOF = n = 0]
            /\ UNCHANGED handles
    BY <1>2 DEF WriteDownload
  <2> QED
    BY <2>1 DEF HandleInv, HasDownload, OneHandle
<1> QED
  BY <1>1, <1>2

\* A command of the client
LEMMA CommandHandle ==
    ASSUME HandleInv, ExecuteDownloadCmd
    PROVE  HandleInv'
<1> DEFINE m == Head(toServer)
<1> USE DEF HandleInv, HasDownload
<1>1. CASE BeginDownload(m)
  <2>1. CloseDownload(cl).download = NoFile /\ DOMAIN CloseDownload(cl) = DOMAIN cl
    BY CloseShape
  <2> HIDE DEF m
  <2> QED
    BY <1>1, <2>1, ClosedNone DEF BeginDownload, OneHandle
<1>2. CASE SelectDownloadBlocks(m)
  BY <1>2 DEF SelectDownloadBlocks, OneHandle
<1>3. CASE StopDownload
  BY <1>3, ClosedNone, CloseShape DEF StopDownload, OneHandle
<1>4. CASE DoneDownload
  <2> DEFINE c == [CloseDownload(cl) EXCEPT !.wwwDl_var01 = FALSE]
  <2>1. c.download = NoFile /\ DOMAIN c = DOMAIN cl
    BY CloseShape
  <2>2. cl' = WithGamestate(c) /\ handles' = 0
    BY <1>4, ClosedNone DEF DoneDownload
  <2> HIDE DEF c
  <2> QED
    BY <2>1, <2>2, GamestateShape DEF OneHandle
<1>5. CASE WWWDownloadDone
  BY <1>5, ClosedNone, RedirectShape DEF WWWDownloadDone, OneHandle
<1>6. CASE WWWDownloadFail
  <2> DEFINE c == [RedirectOver(cl) EXCEPT !.wwwDl_failed = TRUE]
  <2>1. c.download = NoFile /\ DOMAIN c = DOMAIN cl
    BY RedirectShape
  <2>2. cl' = WithGamestate(c) /\ handles' = 0
    BY <1>6, ClosedNone DEF WWWDownloadFail
  <2> HIDE DEF c
  <2> QED
    BY <2>1, <2>2, GamestateShape DEF OneHandle
<1>7. CASE Drop
  BY <1>7, DropHandle
<1> HIDE DEF m
<1> QED
  BY <1>1, <1>2, <1>3, <1>4, <1>5, <1>6, <1>7 DEF ExecuteDownloadCmd, m

LEMMA NextHandle == HandleInv /\ [Next]_vars => HandleInv'
<1> SUFFICES ASSUME HandleInv, [Next]_vars
             PROVE  HandleInv'
  OBVIOUS
<1> USE DEF HandleInv, HasDownload
<1>1. CASE WriteDownload
  BY <1>1, WriteHandle
<1>2. CASE ExecuteDownloadCmd
  BY <1>2, CommandHandle
<1>3. CASE PacketEvent
  <2>1. CASE cl' = WithGamestate(cl)
    BY <1>3, <2>1, GamestateShape DEF PacketEvent, OneHandle
  <2>2. CASE cl' = [cl EXCEPT !.state = "CS_ACTIVE"]
    BY <1>3, <2>2 DEF PacketEvent, OneHandle
  <2> QED
    BY <1>3, <2>1, <2>2 DEF PacketEvent
<1>4. CASE DropClient
  BY <1>4, DropHandle DEF DropClient
<1>5. CASE SpawnServer
  BY <1>5 DEF SpawnServer, OneHandle
<1>6. CASE UNCHANGED <<cl, handles>>
  BY <1>6 DEF OneHandle
<1>7. CASE \/ \E f \in File : ClientBegin(f)
           \/ \E part \in Request : ClientAsk(part)
           \/ ClientHasFile \/ ClientRedirectOver \/ ClientStop \/ ClientDone
           \/ ClientReceive
  BY <1>6, <1>7 DEF ClientBegin, ClientAsk, ClientHasFile, ClientRedirectOver,
     ClientStop, ClientDone, ClientReceive
<1>8. CASE UNCHANGED vars
  BY <1>6, <1>8 DEF vars
<1> QED
  BY <1>1, <1>2, <1>3, <1>4, <1>5, <1>7, <1>8 DEF Next

\* The one handle of a client's download is closed before another is opened
\* and when the client is dropped, in whatever order downloads are begun,
\* stopped, redirected, failed and ended (SV_CloseDownload)
THEOREM HandleIsClosed == Spec => []OneHandle
<1>1. HandleInv => OneHandle
  BY DEF HandleInv
<1> QED
  BY <1>1, InitHandle, NextHandle, PTL DEF Spec

-----------------------------------------------------------------------------
(* The inductive invariant.  Its parts speak of the client's record at the *)
(* server (c), the messages in both directions (tc and ts) and the         *)
(* client's side (r).                                                      *)

RemoteSet == [phase : Phase, file : File \cup {NoFile}, level : 0..MaxLevel,
              part : Request, got : SUBSET (File \X (0..(Largest - 1))),
              busy : BOOLEAN, begun : 0..MaxDownloads, stopped : SUBSET File]

\* What was asked for and is not sent yet is within the file
Within(c) ==
    c.download # NoFile /\ ~c.downloadEOF =>
        /\ c.downloadBeginOffset <= c.downloadCount
        /\ c.downloadCount <= c.downloadBeginOffset + c.downloadNumBytes
        /\ c.downloadBeginOffset + c.downloadNumBytes <= SizeOf[c.download]

Typed ==
    /\ cl \in Client /\ Within(cl) /\ level \in 1..MaxLevel
    /\ toClient \in Seq(ToClient) /\ toServer \in Seq(ToServer)
    /\ remote \in RemoteSet
    /\ remote.phase # "idle" => remote.file # NoFile

\* The ends of a redirect that a client reports
Reports == {"WWWDLDONE", "WWWDLFAIL", "WWWDLCHKFAIL", "WWWDLBBL8R"}

\* A redirect is with the client, on its way to it, or its end is on the way
\* back, and only one is.  As long as it is, the server opens no file; those it
\* opened before were so before it.
RedirectOK(c, tc, ts, r) ==
    /\ \A k \in 1..Len(tc) : tc[k].cmd = "WWWRD" =>
          /\ Redirected(c) /\ r.phase # "redirected"
          /\ \A i \in 1..Len(ts) : ts[i].cmd \notin Reports
          /\ \A i \in (k + 1)..Len(tc) : tc[i].cmd \notin {"FILEINIT", "FAIL", "WWWRD"}
    /\ r.phase = "redirected" =>
          /\ Redirected(c)
          /\ \A i \in 1..Len(ts) : ts[i].cmd \notin Reports
    /\ \A i \in 1..Len(ts) : ts[i].cmd \in Reports =>
          /\ Redirected(c)
          /\ \A j \in 1..Len(ts) : ts[j].cmd \in Reports => j = i

\* The next message to the client opens the file or refuses it
Opening(c) == c.downloadName # NoFile /\ c.download = NoFile /\ ~c.wwwDlAck

\* The answer to a BEGINDOWNLOAD of a file
Answers(m, f) == m.cmd \in {"FILEINIT", "FAIL"} /\ m.file = f

Asks(m, f) == m.cmd = "BEGINDOWNLOAD" /\ m.file = f

NoAnswer(f, tc) == \A k \in 1..Len(tc) : ~Answers(tc[k], f)

\* Where the end of a redirect follows, nothing becomes of a BEGINDOWNLOAD
Void(f, ts, n) ==
    \A i \in 1..n : Asks(ts[i], f) =>
        \E j \in (i + 1)..n : ts[j].cmd \in Reports

\* The server has answered, or will not, whatever was asked about a file
Quiet(f, c, tc, ts) ==
    /\ NoAnswer(f, tc)
    /\ ~(Opening(c) /\ c.downloadName = f)
    /\ Void(f, ts, Len(ts))

\* No block comes after the first n messages, nor will before another request
Calm(f, c, tc, n) ==
    /\ \A i \in (n + 1)..Len(tc) : tc[i].cmd # "SERVERDL"
    /\ c.download \in {NoFile, f} /\ (c.download = NoFile \/ c.downloadEOF)
    /\ ~Opening(c)

\* The one answer that comes
Answer(f, cmd, tc, k) ==
    /\ tc[k].cmd = cmd /\ tc[k].file = f
    /\ \A i \in 1..Len(tc) : i # k => ~Answers(tc[i], f)

\* The client has begun a download: its command is the last on its way, or was
\* executed and not answered, or opened, or refused
BegunOK(c, tc, ts, r) ==
    \/ /\ ts # << >> /\ Asks(ts[Len(ts)], r.file)
       /\ Void(r.file, ts, Len(ts) - 1)
       /\ NoAnswer(r.file, tc) /\ ~(Opening(c) /\ c.downloadName = r.file)
    \/ ts = << >> /\ NoAnswer(r.file, tc)
    \/ ts = << >> /\ \E k \in 1..Len(tc) :
          Answer(r.file, "FILEINIT", tc, k) /\ Calm(r.file, c, tc, k)
    \/ ts = << >> /\ ~Opening(c) /\ \E k \in 1..Len(tc) : Answer(r.file, "FAIL", tc, k)

\* The bytes of blocks on their way
Coming(tc) == {x \in File \X (0..(Largest - 1)) :
    \E i \in 1..Len(tc) : tc[i].cmd = "SERVERDL" /\ x \in {tc[i].file} \X tc[i].bytes}

\* The server sends what the client asked for: what the client has and what
\* comes is the part up to downloadCount, and an empty block is the last: at
\* the end of the part, or where a read failed
Sending(c, tc, r) ==
    /\ c.download = r.file
    /\ c.downloadBeginOffset = Begins(r.file, r.part)
    /\ c.downloadNumBytes = Length(r.file, r.part)
    /\ c.downloadCount <= c.downloadBeginOffset + c.downloadNumBytes
    /\ c.downloadEOF => r.file \in Unreadable
          \/ c.downloadCount = c.downloadBeginOffset + c.downloadNumBytes
    /\ \A i \in 1..Len(tc) : tc[i].cmd = "SERVERDL" =>
          /\ tc[i].file = r.file
          /\ tc[i].bytes = {} =>
                /\ c.downloadEOF /\ tc[i].at = c.downloadCount
                /\ \A j \in (i + 1)..Len(tc) : tc[j].cmd # "SERVERDL"
    /\ r.got \cup Coming(tc) =
          {r.file} \X (c.downloadBeginOffset..(c.downloadCount - 1))

\* The client has asked for a part, of which the server does not know yet, to
\* which it will not answer, or that it sends
AskedOK(c, tc, ts, r) ==
    \/ /\ ts = <<[cmd |-> "REQUESTDLBLOCKS", part |-> r.part]>>
       /\ Calm(r.file, c, tc, 0) /\ r.got = {}
    \/ ts = << >> /\ Calm(r.file, c, tc, 0) /\ c.download = NoFile
    \/ ts = << >> /\ Sending(c, tc, r)

PhaseOK(c, tc, ts, r) ==
    /\ \A f \in File \ r.stopped :
          f # r.file \/ r.phase \in {"idle", "init", "asked"} => Quiet(f, c, tc, ts)
    /\ r.phase = "begun" => BegunOK(c, tc, ts, r)
    /\ r.phase = "init" => ts = << >> /\ Calm(r.file, c, tc, 0)
    /\ r.phase = "asked" => AskedOK(c, tc, ts, r)
    /\ r.phase = "redirected" => NoAnswer(r.file, tc)
    /\ r.phase # "idle" => r.file \notin r.stopped

Inv ==
    /\ Typed
    /\ RedirectOK(cl, toClient, toServer, remote)
    /\ PhaseOK(cl, toClient, toServer, remote)

-----------------------------------------------------------------------------
(* Numbers.                                                                *)

\* A finite set of naturals has a bound
LEMMA FiniteBound ==
    ASSUME NEW S \in SUBSET Nat, IsFiniteSet(S)
    PROVE  \E n \in Nat : \A x \in S : x <= n
<1> DEFINE Bounded(T) == \E n \in Nat : \A x \in T : x <= n
           Wild == {T \in SUBSET S : ~Bounded(T)}
           R == StrictSubsetOrdering(S)
<1>1. FiniteSubsetsOf(S) = SUBSET S
  BY FS_FiniteSubsetsOfFinite
<1>2. IsWellFoundedOn(R, SUBSET S)
  BY <1>1, FS_StrictSubsetOrderingWellFounded
<1>3. CASE Wild = {}
  <2>1. S \notin Wild
    BY <1>3
  <2> QED
    BY <2>1
<1>4. CASE Wild # {}
  <2>1. PICK T \in Wild : \A U \in Wild : ~(<<U, T>> \in R)
    <3>1. Wild \subseteq SUBSET S
      OBVIOUS
    <3> HIDE DEF Wild, R
    <3> QED
      BY <1>2, <1>4, <3>1, WFMin
  <2>2. T \in SUBSET S /\ ~Bounded(T)
    BY <2>1
  <2>3. PICK x \in T : TRUE
    <3>1. CASE T = {}
      <4>1. Bounded({})
        OBVIOUS
      <4> QED
        BY <2>2, <3>1, <4>1
    <3> QED
      BY <3>1
  <2> DEFINE U == T \ {x}
  <2>4. U \in SUBSET S /\ U \subseteq T /\ U # T
    BY <2>2, <2>3
  <2>5. <<U, T>> \in R
    BY <2>2, <2>4 DEF StrictSubsetOrdering
  <2>6. Bounded(U)
    BY <2>1, <2>4, <2>5
  <2>7. PICK n \in Nat : \A y \in U : y <= n
    BY <2>6
  <2>8. x \in Nat /\ T \subseteq Nat
    BY <2>2, <2>3
  <2> DEFINE b == IF x <= n THEN n ELSE x
  <2>9. b \in Nat /\ \A y \in T : y <= b
    BY <2>7, <2>8
  <2> QED
    BY <2>2, <2>9
<1> QED
  BY <1>3, <1>4

LEMMA LeastElement ==
    ASSUME NEW S \in SUBSET Nat, S # {}
    PROVE  \E x \in S : \A y \in S : x <= y
<1> DEFINE R == {ss \in Nat \X Nat : ss[1] < ss[2]}
<1>1. IsWellFoundedOn(R, Nat)
  BY NatLessThanWellFounded DEF OpToRel
<1>2. PICK x \in S : \A y \in S : ~(<<y, x>> \in R)
  <2> HIDE DEF R
  <2> QED
    BY <1>1, WFMin
<1>3. ASSUME NEW y \in S
      PROVE  x <= y
  <2>1. x \in Nat /\ y \in Nat /\ <<y, x>> \in Nat \X Nat
    OBVIOUS
  <2>2. <<y, x>> \notin R => ~(y < x)
    BY <2>1
  <2> QED
    BY <1>2, <2>1, <2>2
<1> QED
  BY <1>3

\* The bounds of the files' sizes
LEMMA LargestFacts ==
    /\ Largest \in Nat
    /\ \A f \in File : SizeOf[f] \in Nat /\ SizeOf[f] > 0 /\ SizeOf[f] <= Largest
<1> DEFINE T == {SizeOf[f] : f \in File}
           S == {0} \cup T
           B == {n \in Nat : \A x \in S : x <= n}
<1>1. /\ SizeOf \in [File -> Nat \ {0}] /\ IsFiniteSet(File)
  BY FileAssumption
<1>2. SizeOf \in Surjection(File, T)
  BY <1>1 DEF Surjection
<1>3. IsFiniteSet(T)
  <2> HIDE DEF T
  <2> QED
    BY <1>1, <1>2, FS_Surjection
<1>4. S \in SUBSET Nat /\ IsFiniteSet(S)
  <2>1. T \in SUBSET Nat
    BY <1>1
  <2>2. S = T \cup {0}
    OBVIOUS
  <2> HIDE DEF T, S
  <2>3. IsFiniteSet(T \cup {0})
    BY <1>3, FS_AddElement
  <2> QED
    BY <2>1, <2>2, <2>3
<1>5. B \in SUBSET Nat /\ B # {}
  <2> HIDE DEF S
  <2>1. PICK n \in Nat : \A x \in S : x <= n
    BY <1>4, FiniteBound
  <2> QED
    BY <2>1
<1>6. PICK b \in B : \A y \in B : b <= y
  <2> HIDE DEF B
  <2> QED
    BY <1>5, LeastElement
<1>7. b \in Nat /\ \A x \in S : x \in Nat /\ b >= x
  <2>1. \A x \in S : x <= b
    BY <1>6
  <2> HIDE DEF S
  <2>2. b \in Nat
    BY <1>6
  <2> QED
    BY <1>4, <2>1, <2>2
<1>8. b \in S
  <2> SUFFICES ASSUME b \notin S
               PROVE  FALSE
    OBVIOUS
  <2>1. 0 \in S
    OBVIOUS
  <2> HIDE DEF S
  <2>2. b # 0 /\ b - 1 \in Nat
    BY <1>7, <2>1
  <2>3. \A x \in S : x <= b - 1
    BY <1>7, <2>2
  <2>4. b - 1 \in B
    BY <2>2, <2>3
  <2> QED
    BY <1>6, <1>7, <2>4
<1>9. Largest \in S /\ \A x \in S : Largest >= x
  <2>1. Largest = Max(S)
    BY DEF Largest
  <2> HIDE DEF S
  <2> QED
    BY <1>7, <1>8, <2>1 DEF Max
<1>10. ASSUME NEW f \in File
       PROVE  SizeOf[f] \in S
  OBVIOUS
<1> HIDE DEF S
<1> QED
  BY <1>1, <1>4, <1>9, <1>10

LEMMA SmallMinMax ==
    ASSUME NEW a \in Int, NEW b \in Int
    PROVE  /\ Min({a, b}) = IF a <= b THEN a ELSE b
           /\ Max({a, b}) = IF a <= b THEN b ELSE a
<1>1. \E x \in {a, b} : \A y \in {a, b} : x <= y
  OBVIOUS
<1>2. \E x \in {a, b} : \A y \in {a, b} : x >= y
  OBVIOUS
<1> QED
  BY <1>1, <1>2 DEF Min, Max

LEMMA MinOfThree ==
    ASSUME NEW a \in Int, NEW b \in Int, NEW c \in Int
    PROVE  /\ Min({a, b, c}) \in {a, b, c}
           /\ Min({a, b, c}) <= a /\ Min({a, b, c}) <= b /\ Min({a, b, c}) <= c
<1>1. \E x \in {a, b, c} : \A y \in {a, b, c} : x <= y
  OBVIOUS
<1>2. /\ Min({a, b, c}) \in {a, b, c}
      /\ \A y \in {a, b, c} : Min({a, b, c}) <= y
  BY <1>1 DEF Min
<1> QED
  BY <1>2

\* The part that a request stands for is within the file
LEMMA PartFacts ==
    ASSUME NEW f \in File, NEW part \in Request
    PROVE  /\ Begins(f, part) \in Nat /\ Length(f, part) \in Nat
           /\ Begins(f, part) + Length(f, part) <= SizeOf[f]
<1> DEFINE s == SizeOf[f]
<1>1. s \in Nat /\ part.at \in Nat /\ part.num \in Nat
  BY LargestFacts, FileAssumption
<1>2. Begins(f, part) = IF part.at <= s THEN part.at ELSE s
  BY <1>1, SmallMinMax DEF Begins
<1> HIDE DEF s
<1>3. Begins(f, part) \in Nat /\ Begins(f, part) <= s
  BY <1>1, <1>2
<1> QED
  BY <1>1, <1>3 DEF Length, s

\* The next block ends within the part, and is empty only behind it or when
\* nothing could be read
LEMMA ReadFacts ==
    ASSUME cl \in Client, Within(cl), cl.download # NoFile, ~cl.downloadEOF,
           NEW read \in Read
    PROVE  LET end == cl.downloadBeginOffset + cl.downloadNumBytes
           IN  /\ read \in Nat /\ cl.downloadCount + read <= end
               /\ read = 0 => cl.download \in Unreadable \/ cl.downloadCount = end
               /\ cl.downloadBeginOffset \in Nat /\ cl.downloadNumBytes \in Nat
               /\ cl.downloadCount \in Nat /\ cl.downloadBeginOffset <= cl.downloadCount
               /\ cl.download \in File /\ end <= SizeOf[cl.download]
<1> DEFINE a == cl.downloadBeginOffset
           n == cl.downloadNumBytes
           k == cl.downloadCount
           s == SizeOf[cl.download]
<1>1. /\ a \in Nat /\ n \in Nat /\ k \in Nat /\ cl.download \in File
  <2>1. Largest \in Nat
    BY LargestFacts
  <2> QED
    BY <2>1 DEF Client
<1>2. s \in Nat /\ BlockSize \in Nat /\ BlockSize > 0
  BY <1>1, LargestFacts, FileAssumption
<1>3. a <= k /\ k <= a + n /\ a + n <= s
  BY DEF Within
<1> DEFINE left == a + n - k
<1>4. NextBlock = Min({BlockSize, Max({left, 0}), s - k})
  BY DEF NextBlock
<1> HIDE DEF s, a, n, k
<1>5. left \in Nat /\ s - k \in Nat /\ left <= s - k
  BY <1>1, <1>2, <1>3
<1>6. Max({left, 0}) = left
  <2> HIDE DEF left
  <2>1. left \in Int /\ 0 \in Int
    BY <1>5
  <2>2. Max({left, 0}) = IF left <= 0 THEN 0 ELSE left
    BY <2>1, SmallMinMax
  <2> QED
    BY <1>5, <2>2
<1>7. /\ NextBlock \in {BlockSize, left, s - k} /\ NextBlock <= left
  <2> HIDE DEF left
  <2>1. s - k \in Int /\ left \in Int /\ BlockSize \in Int
    BY <1>2, <1>5
  <2> QED
    BY <1>4, <1>6, <2>1, MinOfThree
<1>8. NextBlock \in Nat /\ (NextBlock = 0 => left = 0)
  <2> HIDE DEF left
  <2> QED
    BY <1>2, <1>5, <1>7
<1>9. k + NextBlock <= a + n /\ (NextBlock = 0 => k = a + n)
  BY <1>1, <1>7, <1>8
<1>10. read \in 0..NextBlock /\ (cl.download \notin Unreadable => read = NextBlock)
  BY <1>8 DEF Read
<1>11. read \in Nat /\ k + read <= a + n
  BY <1>1, <1>8, <1>9, <1>10
<1> QED
  BY <1>1, <1>2, <1>3, <1>9, <1>10, <1>11 DEF a, n, k, s

-----------------------------------------------------------------------------
(* Messages and sequences.                                                 *)

LEMMA ToClientFacts ==
    ASSUME NEW m \in ToClient
    PROVE  /\ m.cmd \in {"FILEINIT", "FAIL", "WWWRD", "SERVERDL", "gamestate"}
           /\ m.cmd \in {"FILEINIT", "FAIL", "WWWRD", "SERVERDL"} => m.file \in File
           /\ m.cmd = "SERVERDL" => m.at \in 0..Largest /\ m.bytes \in SUBSET (0..(Largest - 1))
           /\ m.cmd = "gamestate" => m.level \in 1..MaxLevel
BY DEF ToClient

LEMMA ToServerFacts ==
    ASSUME NEW m \in ToServer
    PROVE  /\ m.cmd \in {"BEGINDOWNLOAD", "REQUESTDLBLOCKS", "DONEDOWNLOAD", "STOPDOWNLOAD"}
                        \cup Reports
           /\ m.cmd = "BEGINDOWNLOAD" => m.file \in File
           /\ m.cmd = "REQUESTDLBLOCKS" => m.part \in Request
BY DEF ToServer, Reports

LEMMA FileMessage ==
    ASSUME NEW f \in File, NEW c \in {"FILEINIT", "FAIL", "WWWRD"}
    PROVE  [cmd |-> c, file |-> f] \in ToClient
BY DEF ToClient

LEMMA BlockMessage ==
    ASSUME NEW f \in File, NEW k \in 0..Largest, NEW b \in SUBSET (0..(Largest - 1))
    PROVE  [cmd |-> "SERVERDL", file |-> f, at |-> k, bytes |-> b] \in ToClient
BY DEF ToClient

LEMMA GamestateMessage ==
    ASSUME level \in 1..MaxLevel
    PROVE  Gamestate \in ToClient /\ Gamestate.cmd = "gamestate"
BY DEF ToClient, Gamestate

LEMMA Appended ==
    ASSUME NEW S, NEW s \in Seq(S), NEW m \in S
    PROVE  /\ Append(s, m) \in Seq(S) /\ Append(s, m) # << >>
           /\ Len(s) \in Nat /\ Len(Append(s, m)) = Len(s) + 1
           /\ Append(s, m)[Len(s) + 1] = m
           /\ \A i \in 1..Len(s) : Append(s, m)[i] = s[i] /\ i \in 1..Len(Append(s, m))
           /\ \A i \in 1..Len(Append(s, m)) :
                 \/ i \in 1..Len(s) /\ Append(s, m)[i] = s[i]
                 \/ i = Len(s) + 1 /\ Append(s, m)[i] = m
BY AppendProperties, LenProperties

LEMMA TailTyped ==
    ASSUME NEW S, NEW t \in Seq(S), t # << >>
    PROVE  /\ Tail(t) \in Seq(S) /\ 1 \in 1..Len(t) /\ Head(t) = t[1] /\ t[1] \in S
           /\ Len(t) \in Nat /\ Len(t) > 0 /\ Len(Tail(t)) = Len(t) - 1
           /\ \A k \in 1..Len(Tail(t)) :
                 k \in Nat /\ k + 1 \in 2..Len(t) /\ Tail(t)[k] = t[k + 1]
           /\ \A k \in 2..Len(t) :
                 k - 1 \in 1..Len(Tail(t)) /\ k \in 1..Len(t) /\ Tail(t)[k - 1] = t[k]
<1>1. /\ Tail(t) \in Seq(S) /\ Len(Tail(t)) = Len(t) - 1 /\ Head(t) \in S
      /\ \A k \in 1..Len(Tail(t)) : Tail(t)[k] = t[k + 1]
  BY HeadTailProperties
<1>2. Len(t) \in Nat /\ Len(t) # 0 /\ Head(t) = t[1]
  BY LenProperties, EmptySeq
<1>3. ASSUME NEW k \in 2..Len(t)
      PROVE  k - 1 \in 1..Len(Tail(t)) /\ k \in 1..Len(t) /\ Tail(t)[k - 1] = t[k]
  <2>1. k - 1 \in 1..Len(Tail(t)) /\ k - 1 + 1 = k
    BY <1>1, <1>2
  <2> QED
    BY <1>1, <1>2, <2>1
<1> QED
  BY <1>1, <1>2, <1>3

-----------------------------------------------------------------------------
(* The client's record.                                                    *)

\* The download is the same
Same(c, d) ==
    /\ d.downloadName = c.downloadName /\ d.download = c.download
    /\ d.downloadBeginOffset = c.downloadBeginOffset
    /\ d.downloadNumBytes = c.downloadNumBytes /\ d.downloadCount = c.downloadCount
    /\ d.downloadEOF = c.downloadEOF
    /\ d.wwwDownloadStarted = c.wwwDownloadStarted /\ d.wwwDlAck = c.wwwDlAck

\* There is none.  Whether it was redirected is kept.
Ended(c, d) ==
    /\ d.downloadName = NoFile /\ d.download = NoFile
    /\ d.wwwDownloadStarted = c.wwwDownloadStarted /\ d.wwwDlAck = c.wwwDlAck

LEMMA CloseFacts ==
    ASSUME NEW c \in Client
    PROVE  CloseDownload(c) \in Client /\ Ended(c, CloseDownload(c))
BY DEF CloseDownload, Client, Ended

LEMMA GamestateFacts ==
    ASSUME NEW c \in Client
    PROVE  WithGamestate(c) \in Client /\ Same(c, WithGamestate(c))
BY DEF WithGamestate, Client, Same, State

LEMMA StateFacts ==
    ASSUME NEW c \in Client, NEW s \in State
    PROVE  [c EXCEPT !.state = s] \in Client /\ Same(c, [c EXCEPT !.state = s])
BY DEF Client, Same

LEMMA FlagFacts ==
    ASSUME NEW c \in Client, NEW b \in BOOLEAN
    PROVE  /\ [c EXCEPT !.gamestateSent = b] \in Client
           /\ Same(c, [c EXCEPT !.gamestateSent = b])
           /\ [c EXCEPT !.wwwDl_var01 = b] \in Client
           /\ Same(c, [c EXCEPT !.wwwDl_var01 = b])
           /\ [c EXCEPT !.wwwDl_failed = b] \in Client
           /\ Same(c, [c EXCEPT !.wwwDl_failed = b])
BY DEF Client, Same

LEMMA NameFacts ==
    ASSUME NEW c \in Client, NEW f \in File
    PROVE  LET d == [c EXCEPT !.downloadName = f]
           IN  /\ d \in Client /\ d.downloadName = f /\ d.download = c.download
               /\ d.wwwDownloadStarted = c.wwwDownloadStarted /\ d.wwwDlAck = c.wwwDlAck
BY DEF Client

LEMMA RedirectOverFacts ==
    ASSUME NEW c \in Client
    PROVE  LET d == RedirectOver(c)
           IN  d \in Client /\ d.downloadName = NoFile /\ d.download = NoFile
<1> DEFINE a == CloseDownload(c)
<1>1. a \in Client /\ a.downloadName = NoFile /\ a.download = NoFile
  BY CloseFacts DEF Ended
<1> HIDE DEF a
<1>2. RedirectOver(c) = [a EXCEPT !.wwwDl_var01 = FALSE, !.wwwDownloadStarted = FALSE,
                                  !.wwwDlAck = FALSE]
  BY DEF RedirectOver, a
<1> QED
  BY <1>1, <1>2 DEF Client

LEMMA SameTrans ==
    ASSUME NEW c, NEW d, NEW e, Same(c, d), Same(d, e)
    PROVE  Same(c, e)
BY DEF Same

LEMMA SameWithin ==
    ASSUME NEW c, NEW d, Same(c, d), Within(c)
    PROVE  Within(d)
BY DEF Same, Within

LEMMA EndedWithin ==
    ASSUME NEW d, d.download = NoFile
    PROVE  Within(d)
BY DEF Within

-----------------------------------------------------------------------------
(* How steps leave the invariant alone.  First steps that do not concern    *)
(* the download.                                                            *)

LEMMA SameKeeps ==
    ASSUME NEW c, NEW d, NEW tc, NEW ts, NEW r, Same(c, d)
    PROVE  /\ RedirectOK(c, tc, ts, r) => RedirectOK(d, tc, ts, r)
           /\ PhaseOK(c, tc, ts, r) => PhaseOK(d, tc, ts, r)
<1>1. Redirected(d) = Redirected(c) /\ Opening(d) = Opening(c)
      /\ d.downloadName = c.downloadName /\ d.download = c.download
  BY DEF Same, Redirected, Opening
<1>2. \A f : Quiet(f, c, tc, ts) => Quiet(f, d, tc, ts)
  BY <1>1 DEF Quiet
<1>3. \A f, n : Calm(f, c, tc, n) => Calm(f, d, tc, n)
  BY <1>1 DEF Calm, Same
<1>4. BegunOK(c, tc, ts, r) => BegunOK(d, tc, ts, r)
  BY <1>1, <1>3 DEF BegunOK
<1>5. AskedOK(c, tc, ts, r) => AskedOK(d, tc, ts, r)
  <2>1. Sending(c, tc, r) => Sending(d, tc, r)
    BY DEF Sending, Same
  <2> QED
    BY <1>1, <1>3, <2>1 DEF AskedOK
<1>6. RedirectOK(c, tc, ts, r) => RedirectOK(d, tc, ts, r)
  BY <1>1 DEF RedirectOK
<1> QED
  BY <1>2, <1>3, <1>4, <1>5, <1>6 DEF PhaseOK

\* A message to the client that is about no file
LEMMA ComingAppended ==
    ASSUME NEW tc \in Seq(ToClient), NEW m \in ToClient
    PROVE  /\ m.cmd # "SERVERDL" => Coming(Append(tc, m)) = Coming(tc)
           /\ m.cmd = "SERVERDL" =>
                 Coming(Append(tc, m)) = Coming(tc) \cup ({m.file} \X m.bytes)
<1> DEFINE t == Append(tc, m)
           n == Len(tc)
<1>1. /\ n \in Nat /\ Len(t) = n + 1 /\ t[n + 1] = m
      /\ \A i \in 1..n : t[i] = tc[i] /\ i \in 1..Len(t)
      /\ \A i \in 1..Len(t) : (i \in 1..n /\ t[i] = tc[i]) \/ (i = n + 1 /\ t[i] = m)
  BY Appended
<1>2. n + 1 \in 1..Len(t)
  BY <1>1
<1> HIDE DEF t, n
<1>3. ASSUME NEW x
      PROVE  x \in Coming(t) <=>
                \/ x \in Coming(tc)
                \/ m.cmd = "SERVERDL" /\ x \in {m.file} \X m.bytes
  <2>1. m.cmd = "SERVERDL" => {m.file} \X m.bytes \subseteq File \X (0..(Largest - 1))
    BY ToClientFacts
  <2>2. x \in Coming(tc) => x \in Coming(t)
    BY <1>1 DEF Coming, n
  <2>3. m.cmd = "SERVERDL" /\ x \in {m.file} \X m.bytes => x \in Coming(t)
    BY <1>1, <1>2, <2>1 DEF Coming
  <2>4. x \in Coming(t) =>
            \/ x \in Coming(tc)
            \/ m.cmd = "SERVERDL" /\ x \in {m.file} \X m.bytes
    BY <1>1 DEF Coming, n
  <2> QED
    BY <2>2, <2>3, <2>4
<1> QED
  BY <1>3 DEF t

LEMMA CalmAppended ==
    ASSUME NEW tc \in Seq(ToClient), NEW m \in ToClient, m.cmd # "SERVERDL",
           NEW f, NEW c, NEW n \in Nat, Calm(f, c, tc, n)
    PROVE  Calm(f, c, Append(tc, m), n)
<1> DEFINE t == Append(tc, m)
<1>1. ASSUME NEW i \in (n + 1)..Len(t)
      PROVE  t[i].cmd # "SERVERDL"
  <2>1. i \in 1..Len(t)
    BY Appended
  <2>2. CASE i \in 1..Len(tc) /\ t[i] = tc[i]
    <3>1. i \in (n + 1)..Len(tc)
      BY <2>2
    <3> QED
      BY <2>2, <3>1 DEF Calm
  <2>3. CASE t[i] = m
    BY <2>3
  <2> QED
    BY <2>1, <2>2, <2>3, Appended
<1> QED
  BY <1>1 DEF Calm

LEMMA NoAnswerAppended ==
    ASSUME NEW tc \in Seq(ToClient), NEW m \in ToClient, NEW f, NoAnswer(f, tc),
           ~Answers(m, f)
    PROVE  NoAnswer(f, Append(tc, m))
BY Appended DEF NoAnswer

LEMMA AnswerAppended ==
    ASSUME NEW tc \in Seq(ToClient), NEW m \in ToClient, NEW f, ~Answers(m, f),
           NEW cmd, NEW k \in 1..Len(tc), Answer(f, cmd, tc, k)
    PROVE  k \in 1..Len(Append(tc, m)) /\ Answer(f, cmd, Append(tc, m), k)
BY Appended DEF Answer

LEMMA SendingAppended ==
    ASSUME NEW tc \in Seq(ToClient), NEW m \in ToClient, m.cmd # "SERVERDL",
           NEW c, NEW r, Sending(c, tc, r)
    PROVE  Sending(c, Append(tc, m), r)
<1> DEFINE t == Append(tc, m)
<1>1. Coming(t) = Coming(tc)
  BY ComingAppended
<1>2. ASSUME NEW i \in 1..Len(t), t[i].cmd = "SERVERDL"
      PROVE  /\ t[i].file = r.file
             /\ t[i].bytes = {} =>
                   /\ c.downloadEOF /\ t[i].at = c.downloadCount
                   /\ \A j \in (i + 1)..Len(t) : t[j].cmd # "SERVERDL"
  <2>1. i \in 1..Len(tc) /\ t[i] = tc[i]
    BY <1>2, Appended
  <2>2. ASSUME NEW j \in (i + 1)..Len(t), t[j].cmd = "SERVERDL"
        PROVE  j \in (i + 1)..Len(tc) /\ tc[j].cmd = "SERVERDL"
    <3>1. j \in 1..Len(t)
      BY <2>1, Appended
    <3>2. j \in 1..Len(tc) /\ t[j] = tc[j]
      BY <2>2, <3>1, Appended
    <3> QED
      BY <2>2, <3>2
  <2> QED
    BY <1>2, <2>1, <2>2 DEF Sending
<1> HIDE DEF t
<1> QED
  BY <1>1, <1>2 DEF Sending, t

\* A message that is neither an answer nor a redirect
LEMMA PlainKeeps ==
    ASSUME NEW tc \in Seq(ToClient), NEW m \in ToClient,
           m.cmd \notin {"FILEINIT", "FAIL", "WWWRD"}, NEW c, NEW d, NEW ts, NEW r,
           RedirectOK(c, tc, ts, r), Redirected(d) = Redirected(c)
    PROVE  RedirectOK(d, Append(tc, m), ts, r)
<1> DEFINE t == Append(tc, m)
<1>1. ASSUME NEW k \in 1..Len(t), t[k].cmd = "WWWRD"
      PROVE  /\ Redirected(d) /\ r.phase # "redirected"
             /\ \A i \in 1..Len(ts) : ts[i].cmd \notin Reports
             /\ \A i \in (k + 1)..Len(t) : t[i].cmd \notin {"FILEINIT", "FAIL", "WWWRD"}
  <2>1. k \in 1..Len(tc) /\ tc[k].cmd = "WWWRD"
    BY <1>1, Appended
  <2>2. ASSUME NEW i \in (k + 1)..Len(t)
        PROVE  t[i].cmd \notin {"FILEINIT", "FAIL", "WWWRD"}
    <3>1. i \in 1..Len(t)
      BY <2>1, Appended
    <3>2. CASE i \in 1..Len(tc) /\ t[i] = tc[i]
      <4>1. i \in (k + 1)..Len(tc)
        BY <3>2
      <4> QED
        BY <2>1, <3>2, <4>1 DEF RedirectOK
    <3> QED
      BY <3>1, <3>2, Appended
  <2> QED
    BY <2>1, <2>2 DEF RedirectOK
<1> HIDE DEF t
<1> QED
  BY <1>1 DEF RedirectOK, t

\* A message that is about no file is not minded
LEMMA GamestateKeeps ==
    ASSUME NEW tc \in Seq(ToClient), NEW m \in ToClient, m.cmd = "gamestate",
           NEW c, NEW ts, NEW r
    PROVE  /\ RedirectOK(c, tc, ts, r) => RedirectOK(c, Append(tc, m), ts, r)
           /\ PhaseOK(c, tc, ts, r) => PhaseOK(c, Append(tc, m), ts, r)
<1> DEFINE t == Append(tc, m)
<1>1. \A f : ~Answers(m, f)
  BY DEF Answers
<1>2. \A f : Quiet(f, c, tc, ts) => Quiet(f, c, t, ts)
  BY <1>1, NoAnswerAppended DEF Quiet
<1>3. \A f : \A n \in Nat : Calm(f, c, tc, n) => Calm(f, c, t, n)
  BY CalmAppended
<1>4. BegunOK(c, tc, ts, r) => BegunOK(c, t, ts, r)
  <2>1. NoAnswer(r.file, tc) => NoAnswer(r.file, t)
    BY <1>1, NoAnswerAppended
  <2>2. \A cmd : \A k \in 1..Len(tc) : Answer(r.file, cmd, tc, k) =>
            k \in Nat /\ k \in 1..Len(t) /\ Answer(r.file, cmd, t, k)
    BY <1>1, AnswerAppended
  <2> HIDE DEF t
  <2> QED
    BY <1>3, <2>1, <2>2 DEF BegunOK
<1>5. AskedOK(c, tc, ts, r) => AskedOK(c, t, ts, r)
  <2>1. Sending(c, tc, r) => Sending(c, t, r)
    BY SendingAppended
  <2> HIDE DEF t
  <2> QED
    BY <1>3, <2>1 DEF AskedOK
<1>6. RedirectOK(c, tc, ts, r) => RedirectOK(c, t, ts, r)
  BY PlainKeeps
<1>7. NoAnswer(r.file, tc) => NoAnswer(r.file, t)
  BY <1>1, NoAnswerAppended
<1> HIDE DEF t
<1> QED
  BY <1>2, <1>3, <1>4, <1>5, <1>6, <1>7 DEF PhaseOK, t

\* Without messages on their way and without a download there is nothing
\* that a client could mistake
LEMMA DropKeeps ==
    ASSUME NEW c, NEW d, NEW tc, NEW ts, NEW r, Ended(c, d),
           RedirectOK(c, tc, ts, r), PhaseOK(c, tc, ts, r)
    PROVE  RedirectOK(d, << >>, << >>, r) /\ PhaseOK(d, << >>, << >>, r)
<1>1. Len(<< >>) = 0
  OBVIOUS
<1>2. Redirected(d) = Redirected(c) /\ ~Opening(d)
  BY DEF Ended, Redirected, Opening
<1>3. RedirectOK(d, << >>, << >>, r)
  BY <1>1, <1>2 DEF RedirectOK
<1>4. \A f : Quiet(f, d, << >>, << >>) /\ NoAnswer(f, << >>)
  BY <1>1, <1>2 DEF Quiet, NoAnswer, Void
<1>5. \A f : Calm(f, d, << >>, 0)
  BY <1>1, <1>2 DEF Calm, Ended
<1>6. BegunOK(d, << >>, << >>, r)
  BY <1>4 DEF BegunOK
<1>7. AskedOK(d, << >>, << >>, r)
  BY <1>5 DEF AskedOK, Ended
<1> QED
  BY <1>3, <1>4, <1>5, <1>6, <1>7 DEF PhaseOK

-----------------------------------------------------------------------------
(* The server opens, refuses or redirects.                                 *)

\* No redirect is under way
Unredirected(tc, ts, r) ==
    /\ \A k \in 1..Len(tc) : tc[k].cmd # "WWWRD"
    /\ \A i \in 1..Len(ts) : ts[i].cmd \notin Reports
    /\ r.phase # "redirected"

LEMMA NoRedirect ==
    ASSUME NEW c, NEW tc, NEW ts, NEW r, RedirectOK(c, tc, ts, r), ~c.wwwDlAck
    PROVE  Unredirected(tc, ts, r)
BY DEF RedirectOK, Redirected, Unredirected

LEMMA UnredirectedOK ==
    ASSUME NEW c, NEW tc, NEW ts, NEW r, Unredirected(tc, ts, r)
    PROVE  RedirectOK(c, tc, ts, r)
BY DEF RedirectOK, Unredirected

LEMMA UnredirectedAppended ==
    ASSUME NEW tc \in Seq(ToClient), NEW m \in ToClient, m.cmd # "WWWRD",
           NEW ts, NEW r, Unredirected(tc, ts, r)
    PROVE  Unredirected(Append(tc, m), ts, r)
BY Appended DEF Unredirected

\* Where the server opens a file, the client is in no phase in which it would
\* have to be quiet
LEMMA OpeningPhase ==
    ASSUME NEW c, NEW tc, NEW ts, NEW r, Opening(c), PhaseOK(c, tc, ts, r),
           RedirectOK(c, tc, ts, r), r.phase \in Phase,
           r.phase # "idle" => r.file # NoFile
    PROVE  /\ r.phase \in {"idle", "begun"}
           /\ r.phase = "begun" =>
                 /\ NoAnswer(r.file, tc)
                 /\ \/ /\ ts # << >> /\ Asks(ts[Len(ts)], r.file)
                       /\ Void(r.file, ts, Len(ts) - 1)
                       /\ c.downloadName # r.file
                    \/ ts = << >>
<1>1. ~c.wwwDlAck /\ c.download = NoFile
  BY DEF Opening
<1>2. r.phase # "redirected"
  BY <1>1, NoRedirect DEF Unredirected
<1>3. \A f, n : ~Calm(f, c, tc, n)
  BY DEF Calm
<1>4. r.phase # "init"
  BY <1>3 DEF PhaseOK
<1>5. r.phase # "asked"
  <2> SUFFICES ASSUME r.phase = "asked"
               PROVE  FALSE
    OBVIOUS
  <2>1. Sending(c, tc, r)
    BY <1>3 DEF PhaseOK, AskedOK
  <2> QED
    BY <1>1, <2>1 DEF Sending
<1>6. r.phase = "begun" => BegunOK(c, tc, ts, r)
  BY DEF PhaseOK
<1> QED
  BY <1>2, <1>3, <1>4, <1>5, <1>6 DEF BegunOK, Phase

\* What no file's opening concerns: the files other than the one that is opened
LEMMA OthersQuiet ==
    ASSUME NEW c, NEW d, NEW tc \in Seq(ToClient), NEW m \in ToClient, NEW ts, NEW f,
           Quiet(f, c, tc, ts), ~Opening(d), ~Answers(m, f)
    PROVE  Quiet(f, d, Append(tc, m), ts)
BY NoAnswerAppended DEF Quiet

\* The answer of the server to the file that it opens: FAIL, or FILEINIT
LEMMA AnswerKeeps ==
    ASSUME NEW c \in Client, NEW d, NEW tc \in Seq(ToClient), NEW ts, NEW r, Opening(c),
           PhaseOK(c, tc, ts, r), RedirectOK(c, tc, ts, r), r.phase \in Phase,
           r.phase # "idle" => r.file # NoFile, r.stopped \subseteq File,
           NEW cmd \in {"FILEINIT", "FAIL"}, ~Opening(d),
           d.download \in {NoFile, c.downloadName}, d.download = NoFile \/ d.downloadEOF
    PROVE  PhaseOK(d, Append(tc, [cmd |-> cmd, file |-> c.downloadName]), ts, r)
<1> DEFINE f == c.downloadName
           m == [cmd |-> cmd, file |-> f]
           t == Append(tc, m)
           k == Len(tc) + 1
<1>1. m \in ToClient /\ \A g : Answers(m, g) <=> g = f
  <2>1. f \in File
    BY DEF Opening, Client
  <2>2. m \in ToClient
    BY <2>1, FileMessage
  <2> QED
    BY <2>2 DEF Answers
<1>2. /\ r.phase \in {"idle", "begun"}
      /\ r.phase = "begun" =>
            /\ NoAnswer(r.file, tc)
            /\ \/ /\ ts # << >> /\ Asks(ts[Len(ts)], r.file)
                  /\ Void(r.file, ts, Len(ts) - 1)
                  /\ f # r.file
               \/ ts = << >>
  BY OpeningPhase
<1>3. /\ Len(tc) \in Nat /\ Len(t) = k /\ t[k] = m
      /\ \A i \in 1..Len(t) : (i \in 1..Len(tc) /\ t[i] = tc[i]) \/ (i = k /\ t[i] = m)
  BY <1>1, Appended
<1>4. ASSUME NEW g, Quiet(g, c, tc, ts)
      PROVE  Quiet(g, d, t, ts)
  <2>1. g # f
    BY <1>4 DEF Quiet
  <2> HIDE DEF m
  <2> QED
    BY <1>1, <1>4, <2>1, OthersQuiet
<1>5. ASSUME r.phase = "begun"
      PROVE  BegunOK(d, t, ts, r)
  <2>1. CASE f # r.file
    <3>1. NoAnswer(r.file, t)
      <4> HIDE DEF m
      <4> QED
        BY <1>1, <1>2, <1>5, <2>1, NoAnswerAppended
    <3> HIDE DEF t
    <3> QED
      BY <1>2, <1>5, <3>1 DEF BegunOK
  <2>2. CASE f = r.file
    <3>1. ts = << >> /\ NoAnswer(f, tc)
      BY <1>2, <1>5, <2>2
    <3>2. k \in 1..Len(t)
      BY <1>3
    <3>3. Answer(f, cmd, t, k)
      BY <1>3, <3>1 DEF Answer, NoAnswer
    <3>4. Calm(f, d, t, k)
      BY <1>3 DEF Calm
    <3> HIDE DEF t, k, f
    <3>5. \/ cmd = "FILEINIT" /\ Answer(r.file, "FILEINIT", t, k)
          \/ cmd = "FAIL" /\ Answer(r.file, "FAIL", t, k)
      BY <2>2, <3>3
    <3> QED
      BY <2>2, <3>1, <3>2, <3>4, <3>5 DEF BegunOK
  <2> QED
    BY <2>1, <2>2
<1> HIDE DEF t
<1> QED
  BY <1>2, <1>4, <1>5 DEF PhaseOK, t

\* WWWRD after FILEINIT: the redirect is under way, and no other was
LEMMA RedirectKeeps ==
    ASSUME NEW d, NEW tc \in Seq(ToClient), NEW f \in File, NEW ts, NEW r,
           Unredirected(tc, ts, r), Redirected(d)
    PROVE  RedirectOK(d, Append(tc, [cmd |-> "WWWRD", file |-> f]), ts, r)
<1> DEFINE m == [cmd |-> "WWWRD", file |-> f]
           t == Append(tc, m)
<1>1. /\ Len(tc) \in Nat /\ Len(t) = Len(tc) + 1
      /\ \A i \in 1..Len(t) : (i \in 1..Len(tc) /\ t[i] = tc[i])
                               \/ (i = Len(tc) + 1 /\ t[i] = m)
  BY FileMessage, Appended
<1>2. ASSUME NEW k \in 1..Len(t), t[k].cmd = "WWWRD"
      PROVE  k = Len(t)
  BY <1>1, <1>2 DEF Unredirected
<1>3. \A i \in (Len(t) + 1)..Len(t) : FALSE
  BY <1>1
<1> HIDE DEF t, m
<1> QED
  BY <1>2, <1>3 DEF RedirectOK, Unredirected, t, m

\* A redirect is not an answer
LEMMA RedirectMessageKeeps ==
    ASSUME NEW tc \in Seq(ToClient), NEW f \in File, NEW c, NEW ts, NEW r,
           PhaseOK(c, tc, ts, r), r.phase \in {"idle", "begun"}
    PROVE  PhaseOK(c, Append(tc, [cmd |-> "WWWRD", file |-> f]), ts, r)
<1> DEFINE m == [cmd |-> "WWWRD", file |-> f]
           t == Append(tc, m)
<1>1. m \in ToClient /\ m.cmd # "SERVERDL" /\ \A g : ~Answers(m, g)
  BY FileMessage DEF Answers
<1> HIDE DEF m
<1>2. \A g : Quiet(g, c, tc, ts) => Quiet(g, c, t, ts)
  BY <1>1, NoAnswerAppended DEF Quiet
<1>3. BegunOK(c, tc, ts, r) => BegunOK(c, t, ts, r)
  <2>1. NoAnswer(r.file, tc) => NoAnswer(r.file, t)
    BY <1>1, NoAnswerAppended
  <2>2. \A cmd : \A k \in 1..Len(tc) : Answer(r.file, cmd, tc, k) =>
            k \in Nat /\ k \in 1..Len(t) /\ Answer(r.file, cmd, t, k)
    BY <1>1, AnswerAppended
  <2>3. \A k \in Nat : Calm(r.file, c, tc, k) => Calm(r.file, c, t, k)
    BY <1>1, CalmAppended
  <2> HIDE DEF t
  <2> QED
    BY <2>1, <2>2, <2>3 DEF BegunOK
<1> HIDE DEF t
<1> QED
  BY <1>2, <1>3 DEF PhaseOK, t, m

\* Two messages at once
LEMMA TwoAppended ==
    ASSUME NEW tc \in Seq(ToClient), NEW a \in ToClient, NEW b \in ToClient
    PROVE  tc \o <<a, b>> = Append(Append(tc, a), b)
<1>1. <<a>> \in Seq(ToClient) /\ <<b>> \in Seq(ToClient) /\ <<a, b>> = <<a>> \o <<b>>
  <2>1. <<a>> \in Seq(ToClient) /\ <<b>> \in Seq(ToClient)
    OBVIOUS
  <2>2. <<a, b>> = Append(<<a>>, b)
    OBVIOUS
  <2> QED
    BY <2>1, <2>2, AppendIsConcat
<1>2. Append(tc, a) = tc \o <<a>> /\ Append(tc, a) \in Seq(ToClient)
  BY AppendIsConcat, AppendProperties
<1>3. Append(Append(tc, a), b) = Append(tc, a) \o <<b>>
  BY <1>2, AppendIsConcat
<1> QED
  BY <1>1, <1>2, <1>3, ConcatAssociative

LEMMA InvFacts ==
    ASSUME Inv
    PROVE  /\ cl \in Client /\ Within(cl) /\ level \in 1..MaxLevel
           /\ toClient \in Seq(ToClient) /\ toServer \in Seq(ToServer)
           /\ remote \in RemoteSet /\ remote.phase \in Phase
           /\ remote.phase # "idle" => remote.file # NoFile
           /\ remote.stopped \subseteq File /\ remote.file \in File \cup {NoFile}
           /\ remote.part \in Request
           /\ RedirectOK(cl, toClient, toServer, remote)
           /\ PhaseOK(cl, toClient, toServer, remote)
BY DEF Inv, Typed, RemoteSet

\* A step that leaves the client's side as it is keeps the types when it keeps
\* those of the client's record and the messages
LEMMA TypedKept ==
    ASSUME Inv, cl' \in Client, Within(cl'), toClient' \in Seq(ToClient),
           toServer' \in Seq(ToServer), UNCHANGED <<level, remote>>
    PROVE  Typed'
BY DEF Inv, Typed

LEMMA DropInv ==
    ASSUME Inv, Drop, UNCHANGED <<level, remote>>
    PROVE  Inv'
<1> DEFINE d == CloseDownload(cl)
<1>1. d \in Client /\ Ended(cl, d)
  BY InvFacts, CloseFacts
<1>2. cl' = [d EXCEPT !.state = "CS_ZOMBIE"] /\ toClient' = << >> /\ toServer' = << >>
  BY DEF Drop
<1> HIDE DEF d
<1>3. cl' \in Client /\ Same(d, cl')
  BY <1>1, <1>2, StateFacts DEF State
<1>4. Ended(cl, cl')
  BY <1>1, <1>3 DEF Same, Ended
<1>5. RedirectOK(cl', << >>, << >>, remote) /\ PhaseOK(cl', << >>, << >>, remote)
  BY <1>4, InvFacts, DropKeeps
<1>6. Typed'
  <2>1. << >> \in Seq(ToClient) /\ << >> \in Seq(ToServer) /\ Within(cl')
    BY <1>4, EndedWithin DEF Ended
  <2> QED
    BY <1>2, <1>3, <2>1, TypedKept
<1> QED
  BY <1>2, <1>5, <1>6 DEF Inv

LEMMA RefuseInv ==
    ASSUME Inv, Opening(cl), cl' = CloseDownload([cl EXCEPT !.wwwDl_var01 = FALSE]),
           toClient' = Append(toClient, [cmd |-> "FAIL", file |-> cl.downloadName]),
           UNCHANGED <<toServer, level, remote>>
    PROVE  Inv'
<1> DEFINE m == [cmd |-> "FAIL", file |-> cl.downloadName]
           d == [cl EXCEPT !.wwwDl_var01 = FALSE]
<1>1. d \in Client /\ Same(cl, d)
  BY InvFacts, FlagFacts
<1>2. cl' = CloseDownload(d)
  OBVIOUS
<1> HIDE DEF d
<1>3. cl' \in Client /\ Ended(d, cl')
  BY <1>1, <1>2, CloseFacts
<1>4. ~Opening(cl') /\ cl'.download = NoFile
  BY <1>3 DEF Ended, Opening
<1>5. m \in ToClient /\ m.cmd # "WWWRD"
  <2>1. cl.downloadName \in File
    BY InvFacts DEF Opening, Client
  <2> QED
    BY <2>1, FileMessage
<1>6. PhaseOK(cl', toClient', toServer', remote')
  <2>1. PhaseOK(cl', Append(toClient, m), toServer, remote)
    BY <1>4, InvFacts, AnswerKeeps
  <2> QED
    BY <2>1
<1> HIDE DEF m
<1>7. RedirectOK(cl', toClient', toServer', remote')
  <2>1. Unredirected(toClient, toServer, remote)
    BY InvFacts, NoRedirect DEF Opening
  <2>2. Unredirected(Append(toClient, m), toServer, remote)
    BY <1>5, <2>1, InvFacts, UnredirectedAppended
  <2> QED
    BY <2>2, UnredirectedOK DEF m
<1>8. Typed'
  <2>1. toClient' \in Seq(ToClient)
    BY <1>5, InvFacts, Appended DEF m
  <2>2. Within(cl')
    BY <1>4, EndedWithin
  <2> QED
    BY <1>3, <2>1, <2>2, InvFacts, TypedKept
<1> QED
  BY <1>6, <1>7, <1>8 DEF Inv

LEMMA RedirectFacts ==
    ASSUME NEW c \in Client
    PROVE  LET d == [c EXCEPT !.wwwDownloadStarted = TRUE, !.wwwDl_var01 = FALSE,
                              !.wwwDlAck = TRUE]
           IN  d \in Client /\ d.wwwDlAck /\ Redirected(d) /\ d.download = c.download
BY DEF Client, Redirected

LEMMA RedirectInv ==
    ASSUME Inv, Opening(cl),
           cl' = [cl EXCEPT !.wwwDownloadStarted = TRUE, !.wwwDl_var01 = FALSE,
                            !.wwwDlAck = TRUE],
           toClient' = toClient \o <<[cmd |-> "FILEINIT", file |-> cl.downloadName],
                                     [cmd |-> "WWWRD", file |-> cl.downloadName]>>,
           UNCHANGED <<toServer, level, remote>>
    PROVE  Inv'
<1> DEFINE f == cl.downloadName
           m == [cmd |-> "FILEINIT", file |-> f]
           n == [cmd |-> "WWWRD", file |-> f]
           t == Append(toClient, m)
<1>1. cl' \in Client /\ cl'.wwwDlAck /\ Redirected(cl') /\ cl'.download = NoFile
  BY InvFacts, RedirectFacts DEF Opening
<1>2. ~Opening(cl')
  BY <1>1 DEF Opening
<1>3. f \in File
  BY InvFacts DEF Opening, Client
<1>4. m \in ToClient /\ n \in ToClient /\ m.cmd # "WWWRD"
  BY <1>3, FileMessage
<1>5. t \in Seq(ToClient) /\ toClient' = Append(t, n)
  <2>1. t \in Seq(ToClient)
    BY <1>4, InvFacts, Appended
  <2>2. toClient' = Append(Append(toClient, m), n)
    BY <1>4, InvFacts, TwoAppended
  <2> QED
    BY <2>1, <2>2
<1>6. Unredirected(t, toServer, remote)
  <2>1. Unredirected(toClient, toServer, remote)
    BY InvFacts, NoRedirect DEF Opening
  <2> HIDE DEF m
  <2> QED
    BY <1>4, <2>1, InvFacts, UnredirectedAppended
<1>7. PhaseOK(cl', t, toServer, remote)
  BY <1>1, <1>2, InvFacts, AnswerKeeps
<1>8. remote.phase \in {"idle", "begun"}
  BY InvFacts, OpeningPhase
<1> HIDE DEF t, m, f
<1>9. PhaseOK(cl', toClient', toServer', remote')
  <2>1. PhaseOK(cl', Append(t, [cmd |-> "WWWRD", file |-> f]), toServer, remote)
    BY <1>3, <1>5, <1>7, <1>8, RedirectMessageKeeps
  <2> QED
    BY <1>5, <2>1
<1>10. RedirectOK(cl', toClient', toServer', remote')
  <2>1. RedirectOK(cl', Append(t, [cmd |-> "WWWRD", file |-> f]), toServer, remote)
    BY <1>1, <1>3, <1>5, <1>6, RedirectKeeps
  <2> QED
    BY <1>5, <2>1
<1>11. Typed'
  <2>1. toClient' \in Seq(ToClient)
    <3> HIDE DEF n
    <3>1. n \in ToClient /\ t \in Seq(ToClient)
      BY <1>4, <1>5
    <3>2. Append(t, n) \in Seq(ToClient)
      BY <3>1, Appended
    <3> QED
      BY <1>5, <3>2
  <2>2. Within(cl')
    BY <1>1, EndedWithin
  <2> QED
    BY <1>1, <2>1, <2>2, InvFacts, TypedKept
<1> QED
  BY <1>9, <1>10, <1>11 DEF Inv

LEMMA OpenFacts ==
    ASSUME NEW c \in Client, NEW f \in File
    PROVE  LET d == [c EXCEPT !.download = f, !.downloadCount = 0, !.downloadEOF = TRUE,
                              !.downloadNumBytes = 0, !.downloadBeginOffset = 0,
                              !.wwwDownloadStarted = FALSE, !.wwwDl_failed = FALSE]
           IN  d \in Client /\ d.download = f /\ d.downloadEOF
<1>1. 0 \in 0..Largest
  BY LargestFacts
<1> QED
  BY <1>1 DEF Client

LEMMA OpenedInv ==
    ASSUME Inv, Opening(cl),
           cl' = [cl EXCEPT !.download = cl.downloadName, !.downloadCount = 0,
                            !.downloadEOF = TRUE, !.downloadNumBytes = 0,
                            !.downloadBeginOffset = 0,
                            !.wwwDownloadStarted = FALSE, !.wwwDl_failed = FALSE],
           toClient' = Append(toClient, [cmd |-> "FILEINIT", file |-> cl.downloadName]),
           UNCHANGED <<toServer, level, remote>>
    PROVE  Inv'
<1> DEFINE f == cl.downloadName
           m == [cmd |-> "FILEINIT", file |-> f]
<1>1. f \in File
  BY InvFacts DEF Opening, Client
<1>2. cl' \in Client /\ cl'.download = f /\ cl'.downloadEOF
  BY <1>1, InvFacts, OpenFacts
<1>3. ~Opening(cl') /\ Within(cl')
  BY <1>1, <1>2, FileAssumption DEF Opening, Within
<1>4. m \in ToClient /\ m.cmd # "WWWRD"
  BY <1>1, FileMessage
<1>5. PhaseOK(cl', toClient', toServer', remote')
  <2>1. PhaseOK(cl', Append(toClient, m), toServer, remote)
    BY <1>2, <1>3, InvFacts, AnswerKeeps
  <2> QED
    BY <2>1
<1> HIDE DEF m
<1>6. RedirectOK(cl', toClient', toServer', remote')
  <2>1. Unredirected(toClient, toServer, remote)
    BY InvFacts, NoRedirect DEF Opening
  <2>2. Unredirected(Append(toClient, m), toServer, remote)
    BY <1>4, <2>1, InvFacts, UnredirectedAppended
  <2> QED
    BY <2>2, UnredirectedOK DEF m
<1>7. Typed'
  <2>1. toClient' \in Seq(ToClient)
    BY <1>4, InvFacts, Appended DEF m
  <2> QED
    BY <1>2, <1>3, <2>1, InvFacts, TypedKept
<1> QED
  BY <1>5, <1>6, <1>7 DEF Inv

\* The next block
Blocked(c, n, b) == [c EXCEPT !.downloadCount = n, !.downloadEOF = b]

LEMMA BlockFacts ==
    ASSUME NEW c \in Client, NEW n \in 0..Largest, NEW b \in BOOLEAN
    PROVE  LET d == Blocked(c, n, b)
           IN  /\ d \in Client /\ d.downloadCount = n /\ d.downloadEOF = b
               /\ d.downloadName = c.downloadName /\ d.download = c.download
               /\ d.downloadBeginOffset = c.downloadBeginOffset
               /\ d.downloadNumBytes = c.downloadNumBytes
               /\ d.wwwDownloadStarted = c.wwwDownloadStarted /\ d.wwwDlAck = c.wwwDlAck
BY DEF Client, Blocked

LEMMA SendingMore ==
    ASSUME NEW tc \in Seq(ToClient), NEW f \in File, NEW r, r.file = f,
           NEW b \in SUBSET (0..(Largest - 1)), NEW c, NEW d, NEW n \in Nat,
           Sending(c, tc, r), ~c.downloadEOF,
           c.downloadBeginOffset \in Nat, c.downloadCount \in 0..Largest,
           c.downloadCount \in Nat, c.downloadBeginOffset <= c.downloadCount,
           b = c.downloadCount..(c.downloadCount + n - 1),
           d.download = c.download, d.downloadBeginOffset = c.downloadBeginOffset,
           d.downloadNumBytes = c.downloadNumBytes, d.downloadCount = c.downloadCount + n,
           d.downloadEOF = (n = 0),
           c.downloadCount + n <= c.downloadBeginOffset + c.downloadNumBytes,
           n = 0 => f \in Unreadable
                    \/ c.downloadCount = c.downloadBeginOffset + c.downloadNumBytes
    PROVE  Sending(d, Append(tc, [cmd |-> "SERVERDL", file |-> f,
                                  at |-> c.downloadCount, bytes |-> b]), r)
<1> DEFINE m == [cmd |-> "SERVERDL", file |-> f, at |-> c.downloadCount, bytes |-> b]
           t == Append(tc, m)
           k == Len(tc) + 1
<1>1. /\ m \in ToClient /\ m.cmd = "SERVERDL" /\ m.file = f /\ m.bytes = b
      /\ m.at = c.downloadCount
  BY BlockMessage
<1> HIDE DEF m
<1>2. /\ Len(tc) \in Nat /\ Len(t) = k
      /\ \A i \in 1..Len(t) : (i \in 1..Len(tc) /\ t[i] = tc[i]) \/ (i = k /\ t[i] = m)
  BY <1>1, Appended
<1>3. n # 0 => c.downloadCount \in b
  BY DEF Sending
<1>4. ASSUME NEW i \in 1..Len(t), t[i].cmd = "SERVERDL"
      PROVE  /\ t[i].file = r.file
             /\ t[i].bytes = {} =>
                   /\ d.downloadEOF /\ t[i].at = d.downloadCount
                   /\ \A j \in (i + 1)..Len(t) : t[j].cmd # "SERVERDL"
  <2>1. CASE i \in 1..Len(tc) /\ t[i] = tc[i]
    BY <1>4, <2>1 DEF Sending
  <2>2. CASE i = k /\ t[i] = m
    <3>1. \A j \in (i + 1)..Len(t) : FALSE
      BY <1>2, <2>2
    <3>2. n = 0 => d.downloadCount = c.downloadCount
      OBVIOUS
    <3> HIDE DEF t, k
    <3> QED
      BY <1>1, <1>3, <2>2, <3>1, <3>2
  <2> QED
    BY <1>2, <2>1, <2>2
<1>5. r.got \cup Coming(t) = {r.file} \X (d.downloadBeginOffset..(d.downloadCount - 1))
  <2> DEFINE a == c.downloadBeginOffset
             e == c.downloadCount
  <2>1. Coming(t) = Coming(tc) \cup ({f} \X b)
    BY <1>1, ComingAppended
  <2>2. r.got \cup Coming(tc) = {f} \X (a..(e - 1))
    BY DEF Sending
  <2>3. a..(e + n - 1) = (a..(e - 1)) \cup b
    <3>1. a \in Nat /\ e \in Nat /\ a <= e /\ b = e..(e + n - 1)
      OBVIOUS
    <3> HIDE DEF a, e
    <3> QED
      BY <3>1
  <2>4. {f} \X (a..(e + n - 1)) = ({f} \X (a..(e - 1))) \cup ({f} \X b)
    <3> DEFINE A == a..(e - 1)
               B == a..(e + n - 1)
    <3>1. B = A \cup b
      BY <2>3
    <3> HIDE DEF A, B
    <3> QED
      BY <3>1
  <2> HIDE DEF t
  <2> QED
    BY <2>1, <2>2, <2>4
<1> HIDE DEF t
<1>6. /\ d.downloadCount <= d.downloadBeginOffset + d.downloadNumBytes
      /\ d.downloadEOF => r.file \in Unreadable
            \/ d.downloadCount = d.downloadBeginOffset + d.downloadNumBytes
  <2> DEFINE e == c.downloadCount
  <2>1. /\ e \in Nat /\ d.downloadCount = e + n
        /\ e + n <= d.downloadBeginOffset + d.downloadNumBytes
    OBVIOUS
  <2>2. d.downloadEOF => n = 0
            /\ (r.file \in Unreadable \/ e = d.downloadBeginOffset + d.downloadNumBytes)
    OBVIOUS
  <2> HIDE DEF e
  <2>3. n = 0 => e + n = e
    BY <2>1
  <2> QED
    BY <2>1, <2>2, <2>3
<1> QED
  BY <1>4, <1>5, <1>6 DEF Sending, t, m

LEMMA BlockPhase ==
    ASSUME NEW tc \in Seq(ToClient), NEW m \in ToClient, m.cmd = "SERVERDL",
           NEW c, NEW d, NEW ts, NEW r, PhaseOK(c, tc, ts, r),
           c.download # NoFile, ~c.downloadEOF, d.download = c.download,
           Sending(c, tc, r) /\ r.phase = "asked" => Sending(d, Append(tc, m), r)
    PROVE  PhaseOK(d, Append(tc, m), ts, r)
<1> DEFINE t == Append(tc, m)
<1>1. \A f : ~Answers(m, f)
  BY DEF Answers
<1>2. ~Opening(d) /\ ~Opening(c)
  BY DEF Opening
<1>3. \A f, n : ~Calm(f, c, tc, n)
  BY DEF Calm
<1>4. \A f : NoAnswer(f, tc) => NoAnswer(f, t)
  BY <1>1, NoAnswerAppended
<1>5. \A f : Quiet(f, c, tc, ts) => Quiet(f, d, t, ts)
  BY <1>2, <1>4 DEF Quiet
<1>6. \A f : \A k \in 1..Len(tc) : Answer(f, "FAIL", tc, k) =>
          k \in 1..Len(t) /\ Answer(f, "FAIL", t, k)
  BY <1>1, AnswerAppended
<1> HIDE DEF t
<1>7. BegunOK(c, tc, ts, r) => BegunOK(d, t, ts, r)
  BY <1>2, <1>3, <1>4, <1>6 DEF BegunOK
<1>8. r.phase = "asked" => (AskedOK(c, tc, ts, r) => AskedOK(d, t, ts, r))
  BY <1>3 DEF AskedOK, t
<1> QED
  BY <1>3, <1>4, <1>5, <1>7, <1>8 DEF PhaseOK, t

LEMMA BlockInv ==
    ASSUME Inv, cl.download # NoFile, ~cl.downloadEOF, NEW n \in Read,
           cl' = [cl EXCEPT !.downloadCount = @ + n, !.downloadEOF = n = 0],
           toClient' = Append(toClient,
                 [cmd |-> "SERVERDL", file |-> cl.download, at |-> cl.downloadCount,
                  bytes |-> cl.downloadCount..(cl.downloadCount + n - 1)]),
           UNCHANGED <<toServer, level, remote>>
    PROVE  Inv'
<1> DEFINE k == cl.downloadCount
           end == cl.downloadBeginOffset + cl.downloadNumBytes
           f == cl.download
           b == k..(k + n - 1)
           m == [cmd |-> "SERVERDL", file |-> f, at |-> k, bytes |-> b]
<1>1. /\ n \in Nat /\ k + n <= end /\ (n = 0 => f \in Unreadable \/ k = end)
      /\ cl.downloadBeginOffset \in Nat /\ cl.downloadNumBytes \in Nat /\ k \in Nat
      /\ cl.downloadBeginOffset <= k /\ f \in File /\ end <= SizeOf[f]
  BY InvFacts, ReadFacts
<1>2. SizeOf[f] \in Nat /\ SizeOf[f] <= Largest /\ Largest \in Nat
  BY <1>1, LargestFacts
<1>3. cl' = [cl EXCEPT !.downloadCount = k + n, !.downloadEOF = (n = 0)]
  OBVIOUS
<1>4. toClient' = Append(toClient, m)
  OBVIOUS
<1>5. end \in Nat
  BY <1>1
<1> HIDE DEF k, end, f
<1>6. k \in 0..Largest /\ k + n \in 0..Largest /\ b \in SUBSET (0..(Largest - 1))
  BY <1>1, <1>2, <1>5
<1>7. /\ cl' \in Client /\ cl'.downloadCount = k + n /\ cl'.downloadEOF = (n = 0)
      /\ cl'.downloadName = cl.downloadName /\ cl'.download = cl.download
      /\ cl'.downloadBeginOffset = cl.downloadBeginOffset
      /\ cl'.downloadNumBytes = cl.downloadNumBytes
      /\ cl'.wwwDownloadStarted = cl.wwwDownloadStarted /\ cl'.wwwDlAck = cl.wwwDlAck
  <2> DEFINE v == k + n
             e == (n = 0)
  <2>1. cl \in Client /\ v \in 0..Largest /\ e \in BOOLEAN
    BY <1>6, InvFacts
  <2>2. cl' = Blocked(cl, v, e)
    BY <1>3 DEF Blocked
  <2> HIDE DEF v, e
  <2>3. /\ cl' \in Client /\ cl'.downloadCount = v /\ cl'.downloadEOF = e
        /\ cl'.downloadName = cl.downloadName /\ cl'.download = cl.download
        /\ cl'.downloadBeginOffset = cl.downloadBeginOffset
        /\ cl'.downloadNumBytes = cl.downloadNumBytes
        /\ cl'.wwwDownloadStarted = cl.wwwDownloadStarted /\ cl'.wwwDlAck = cl.wwwDlAck
    BY ONLY <2>1, <2>2, BlockFacts
  <2> QED
    BY <2>3 DEF v, e
<1> HIDE DEF b
<1>8. m \in ToClient /\ m.cmd = "SERVERDL"
  BY <1>1, <1>6, BlockMessage
<1>9. toClient \in Seq(ToClient) /\ Append(toClient, m) \in Seq(ToClient)
  <2> HIDE DEF m
  <2> QED
    BY <1>8, InvFacts, Appended
<1>10. ASSUME Sending(cl, toClient, remote)
       PROVE  Sending(cl', Append(toClient, m), remote)
  <2>1. remote.file = f
    BY <1>10 DEF Sending, f
  <2>2. b = cl.downloadCount..(cl.downloadCount + n - 1)
    BY DEF b, k
  <2>3. /\ cl.downloadBeginOffset \in Nat /\ cl.downloadCount \in Nat
        /\ cl.downloadBeginOffset <= cl.downloadCount
        /\ cl'.downloadCount = cl.downloadCount + n
        /\ cl.downloadCount \in 0..Largest
        /\ cl.downloadCount + n <= cl.downloadBeginOffset + cl.downloadNumBytes
        /\ n = 0 => f \in Unreadable
                    \/ cl.downloadCount = cl.downloadBeginOffset + cl.downloadNumBytes
    BY <1>1, <1>6, <1>7 DEF k, end
  <2>4. /\ toClient \in Seq(ToClient) /\ f \in File /\ b \in SUBSET (0..(Largest - 1))
        /\ n \in Nat /\ Sending(cl, toClient, remote) /\ ~cl.downloadEOF
        /\ cl'.download = cl.download
        /\ cl'.downloadBeginOffset = cl.downloadBeginOffset
        /\ cl'.downloadNumBytes = cl.downloadNumBytes
        /\ cl'.downloadEOF = (n = 0)
    BY <1>1, <1>6, <1>7, <1>9, <1>10
  <2> QED
    BY ONLY <2>1, <2>2, <2>3, <2>4, SendingMore DEF m, k
<1> HIDE DEF m
<1>11. PhaseOK(cl', toClient', toServer', remote')
  <2>1. PhaseOK(cl, toClient, toServer, remote)
    BY InvFacts
  <2>2. PhaseOK(cl', Append(toClient, m), toServer, remote)
    BY <1>7, <1>8, <1>9, <1>10, <2>1, BlockPhase
  <2> QED
    BY <1>4, <2>2
<1>12. RedirectOK(cl', toClient', toServer', remote')
  <2>1. Redirected(cl') = Redirected(cl) /\ RedirectOK(cl, toClient, toServer, remote)
    BY <1>7, InvFacts DEF Redirected
  <2>2. RedirectOK(cl', Append(toClient, m), toServer, remote)
    BY <1>8, <1>9, <2>1, PlainKeeps
  <2> QED
    BY <1>4, <2>2
<1>13. Within(cl')
  <2>1. cl'.downloadCount <= end /\ cl.downloadBeginOffset <= cl'.downloadCount
    BY <1>1, <1>5, <1>7
  <2> QED
    BY <1>1, <1>7, <2>1 DEF Within, end, f
<1>14. Typed'
  BY <1>4, <1>7, <1>9, <1>13, InvFacts, TypedKept
<1> QED
  BY <1>11, <1>12, <1>14 DEF Inv

LEMMA WriteInv ==
    ASSUME Inv, WriteDownload
    PROVE  Inv'
<1>1. cl.downloadName # NoFile /\ ~cl.wwwDlAck /\ UNCHANGED <<level, remote>>
  BY DEF WriteDownload
<1>2. CASE cl.download = NoFile /\ OpenDownload
  <2>1. Opening(cl)
    BY <1>1, <1>2 DEF Opening
  <2>2. CASE Drop
    BY <1>1, <2>2, DropInv
  <2>3. CASE /\ cl' = CloseDownload([cl EXCEPT !.wwwDl_var01 = FALSE])
             /\ toClient' = Append(toClient, [cmd |-> "FAIL", file |-> cl.downloadName])
             /\ UNCHANGED toServer
    BY <1>1, <2>1, <2>3, RefuseInv
  <2>4. CASE /\ cl' = [cl EXCEPT !.wwwDownloadStarted = TRUE, !.wwwDl_var01 = FALSE,
                                 !.wwwDlAck = TRUE]
             /\ toClient' = toClient \o <<[cmd |-> "FILEINIT", file |-> cl.downloadName],
                                         [cmd |-> "WWWRD", file |-> cl.downloadName]>>
             /\ UNCHANGED toServer
    BY <1>1, <2>1, <2>4, RedirectInv
  <2>5. CASE /\ cl' = [cl EXCEPT !.download = cl.downloadName, !.downloadCount = 0,
                                 !.downloadEOF = TRUE, !.downloadNumBytes = 0,
                                 !.downloadBeginOffset = 0,
                                 !.wwwDownloadStarted = FALSE, !.wwwDl_failed = FALSE]
             /\ toClient' = Append(toClient, [cmd |-> "FILEINIT", file |-> cl.downloadName])
             /\ UNCHANGED toServer
    BY <1>1, <2>1, <2>5, OpenedInv
  <2> QED
    BY <1>2, <2>2, <2>3, <2>4, <2>5 DEF OpenDownload
<1>3. ASSUME cl.download # NoFile, ~cl.downloadEOF, NEW n \in Read,
             cl' = [cl EXCEPT !.downloadCount = @ + n, !.downloadEOF = n = 0],
             toClient' = Append(toClient,
                 [cmd |-> "SERVERDL", file |-> cl.download, at |-> cl.downloadCount,
                  bytes |-> cl.downloadCount..(cl.downloadCount + n - 1)]),
             UNCHANGED toServer
      PROVE  Inv'
  BY <1>1, <1>3, BlockInv
<1> QED
  BY <1>2, <1>3 DEF WriteDownload

-----------------------------------------------------------------------------
(* The server executes a command.                                          *)

LEMMA VoidTail ==
    ASSUME NEW ts \in Seq(ToServer), ts # << >>, NEW f, NEW n \in 1..Len(ts), Void(f, ts, n)
    PROVE  Void(f, Tail(ts), n - 1)
<1> DEFINE t == Tail(ts)
<1>1. /\ Len(ts) \in Nat /\ Len(t) = Len(ts) - 1
      /\ \A k \in 1..Len(t) : k \in Nat /\ k + 1 \in 2..Len(ts) /\ t[k] = ts[k + 1]
      /\ \A k \in 2..Len(ts) : k - 1 \in 1..Len(t) /\ t[k - 1] = ts[k]
  BY TailTyped
<1>2. ASSUME NEW i \in 1..(n - 1), Asks(t[i], f)
      PROVE  \E j \in (i + 1)..(n - 1) : t[j].cmd \in Reports
  <2>1. i \in 1..Len(t) /\ i + 1 \in 1..n /\ i \in Nat
    BY <1>1
  <2>2. Asks(ts[i + 1], f)
    BY <1>1, <1>2, <2>1
  <2>3. PICK j \in (i + 1 + 1)..n : ts[j].cmd \in Reports
    BY <2>1, <2>2 DEF Void
  <2>4. j \in 2..Len(ts) /\ j - 1 \in (i + 1)..(n - 1)
    BY <1>1, <2>1
  <2>5. t[j - 1] = ts[j]
    BY <1>1, <2>4
  <2> QED
    BY <2>3, <2>4, <2>5
<1> QED
  BY <1>2 DEF Void

\* Nothing is opened for a BEGINDOWNLOAD after which the end of a redirect
\* follows
LEMMA VoidHead ==
    ASSUME NEW c, NEW tc, NEW ts \in Seq(ToServer), NEW r, RedirectOK(c, tc, ts, r),
           NEW f, NEW n \in 1..Len(ts), Void(f, ts, n), Asks(ts[1], f)
    PROVE  c.wwwDlAck
<1>1. Len(ts) \in Nat /\ 1 \in 1..n
  BY LenProperties
<1>2. PICK j \in (1 + 1)..n : ts[j].cmd \in Reports
  BY <1>1 DEF Void
<1>3. j \in 1..Len(ts)
  BY <1>1
<1> QED
  BY <1>2, <1>3 DEF RedirectOK, Redirected

LEMMA RedirectTail ==
    ASSUME NEW c, NEW d, NEW tc, NEW ts \in Seq(ToServer), ts # << >>, NEW r,
           RedirectOK(c, tc, ts, r), Redirected(d) = Redirected(c)
    PROVE  RedirectOK(d, tc, Tail(ts), r)
<1> DEFINE t == Tail(ts)
<1>1. /\ Len(ts) \in Nat /\ Len(t) = Len(ts) - 1
      /\ \A k \in 1..Len(t) : k \in Nat /\ k + 1 \in 1..Len(ts) /\ t[k] = ts[k + 1]
  BY TailTyped
<1>2. (\A i \in 1..Len(ts) : ts[i].cmd \notin Reports)
          => \A i \in 1..Len(t) : t[i].cmd \notin Reports
  BY <1>1
<1>3. ASSUME NEW i \in 1..Len(t), t[i].cmd \in Reports
      PROVE  /\ Redirected(d)
             /\ \A j \in 1..Len(t) : t[j].cmd \in Reports => j = i
  <2>1. i + 1 \in 1..Len(ts) /\ ts[i + 1].cmd \in Reports
    BY <1>1, <1>3
  <2>2. Redirected(c) /\ \A j \in 1..Len(ts) : ts[j].cmd \in Reports => j = i + 1
    BY <2>1 DEF RedirectOK
  <2>3. ASSUME NEW j \in 1..Len(t), t[j].cmd \in Reports
        PROVE  j = i
    <3>1. j + 1 = i + 1
      BY <1>1, <2>2, <2>3
    <3> QED
      BY <3>1
  <2> QED
    BY <2>2, <2>3
<1> HIDE DEF t
<1> QED
  BY <1>2, <1>3 DEF RedirectOK, t

LEMMA ReportTail ==
    ASSUME NEW c, NEW tc, NEW ts \in Seq(ToServer), ts # << >>, NEW r,
           RedirectOK(c, tc, ts, r), ts[1].cmd \in Reports
    PROVE  Unredirected(tc, Tail(ts), r)
<1> DEFINE t == Tail(ts)
<1>1. /\ 1 \in 1..Len(ts)
      /\ \A k \in 1..Len(t) : k \in Nat /\ k > 0 /\ k + 1 \in 1..Len(ts) /\ t[k] = ts[k + 1]
  BY TailTyped
<1>2. ASSUME NEW k \in 1..Len(t), t[k].cmd \in Reports
      PROVE  FALSE
  <2>1. k + 1 = 1
    BY <1>1, <1>2 DEF RedirectOK
  <2> QED
    BY <1>1, <2>1
<1> HIDE DEF t
<1> QED
  BY <1>1, <1>2 DEF RedirectOK, Unredirected, t

LEMMA ExecutedPhase ==
    ASSUME NEW c, NEW d, NEW tc, NEW ts \in Seq(ToServer), ts # << >>, NEW r,
           RedirectOK(c, tc, ts, r), PhaseOK(c, tc, ts, r),
           Opening(d) =>
               \/ Asks(ts[1], d.downloadName) /\ ~c.wwwDlAck
               \/ Opening(c) /\ d.downloadName = c.downloadName,
           r.phase = "asked" => AskedOK(d, tc, Tail(ts), r)
    PROVE  PhaseOK(d, tc, Tail(ts), r)
<1> DEFINE t == Tail(ts)
           n == Len(ts)
<1>1. /\ n \in Nat /\ n > 0 /\ n \in 1..n /\ 1 \in 1..n /\ Len(t) = n - 1
      /\ \A k \in 1..Len(t) : t[k] = ts[k + 1]
  BY TailTyped
<1>2. ASSUME NEW f, NEW k \in 1..n, Void(f, ts, k), ~(Opening(c) /\ c.downloadName = f)
      PROVE  Void(f, t, k - 1) /\ ~(Opening(d) /\ d.downloadName = f)
  <2>1. Void(f, t, k - 1)
    BY <1>2, VoidTail
  <2>2. ASSUME Opening(d), d.downloadName = f
        PROVE  FALSE
    <3>1. Asks(ts[1], f) /\ ~c.wwwDlAck
      BY <1>2, <2>2
    <3> QED
      BY <1>2, <3>1, VoidHead
  <2> QED
    BY <2>1, <2>2
<1>3. ASSUME NEW f, Quiet(f, c, tc, ts)
      PROVE  Quiet(f, d, tc, t)
  <2>1. Void(f, ts, n) /\ ~(Opening(c) /\ c.downloadName = f) /\ NoAnswer(f, tc)
    BY <1>3 DEF Quiet
  <2>2. Void(f, t, n - 1) /\ ~(Opening(d) /\ d.downloadName = f)
    BY <1>1, <1>2, <2>1
  <2> HIDE DEF t, n
  <2> QED
    BY <1>1, <2>1, <2>2 DEF Quiet
<1>4. ASSUME r.phase = "begun"
      PROVE  BegunOK(d, tc, t, r)
  <2>1. /\ Asks(ts[n], r.file) /\ Void(r.file, ts, n - 1) /\ NoAnswer(r.file, tc)
        /\ ~(Opening(c) /\ c.downloadName = r.file)
    BY <1>4 DEF PhaseOK, BegunOK
  <2>2. CASE n = 1
    <3>1. t = << >>
      <4>1. t \in Seq(ToServer) /\ Len(t) = 0
        BY <1>1, <2>2, TailTyped
      <4> HIDE DEF t
      <4> QED
        BY <4>1, EmptySeq
    <3> QED
      BY <2>1, <3>1 DEF BegunOK
  <2>3. CASE n > 1
    <3>1. n - 1 \in 1..n /\ n - 1 \in 1..Len(t) /\ n - 1 + 1 = n
      BY <1>1, <2>3
    <3>2. /\ Void(r.file, t, n - 1 - 1)
          /\ ~(Opening(d) /\ d.downloadName = r.file)
      BY <1>2, <2>1, <3>1
    <3>3. t[Len(t)] = ts[n]
      BY <1>1, <3>1
    <3>4. t # << >>
      <4> HIDE DEF t
      <4> QED
        BY <3>1
    <3> HIDE DEF t, n
    <3> QED
      BY <1>1, <2>1, <3>2, <3>3, <3>4 DEF BegunOK
  <2> QED
    BY <1>1, <2>2, <2>3
<1> HIDE DEF t, n
<1> QED
  BY <1>3, <1>4 DEF PhaseOK, t

LEMMA ExecutedInv ==
    ASSUME Inv, toServer # << >>, toServer' = Tail(toServer), UNCHANGED <<level, remote>>,
           cl' \in Client, Within(cl'),
           toClient' = toClient \/ toClient' = Append(toClient, Gamestate),
           Redirected(cl') = Redirected(cl) \/ toServer[1].cmd \in Reports,
           Opening(cl') =>
               \/ Asks(toServer[1], cl'.downloadName) /\ ~cl.wwwDlAck
               \/ Opening(cl) /\ cl'.downloadName = cl.downloadName,
           remote.phase = "asked" => AskedOK(cl', toClient, Tail(toServer), remote)
    PROVE  Inv'
<1> DEFINE t == Tail(toServer)
<1>1. RedirectOK(cl', toClient, t, remote)
  <2>1. CASE toServer[1].cmd \in Reports
    <3>1. Unredirected(toClient, t, remote)
      BY <2>1, InvFacts, ReportTail
    <3> HIDE DEF t
    <3> QED
      BY <3>1, UnredirectedOK
  <2>2. CASE Redirected(cl') = Redirected(cl)
    BY <2>2, InvFacts, RedirectTail
  <2> QED
    BY <2>1, <2>2
<1>2. PhaseOK(cl', toClient, t, remote)
  BY InvFacts, ExecutedPhase
<1>3. Gamestate \in ToClient /\ Gamestate.cmd = "gamestate"
  BY InvFacts, GamestateMessage
<1>4. t \in Seq(ToServer)
  BY InvFacts, TailTyped
<1> HIDE DEF t
<1>5. toClient' \in Seq(ToClient)
  <2> DEFINE m == Gamestate
  <2>1. m \in ToClient /\ toClient \in Seq(ToClient)
    BY <1>3, InvFacts
  <2>2. toClient' = toClient \/ toClient' = Append(toClient, m)
    OBVIOUS
  <2> HIDE DEF m
  <2> QED
    BY ONLY <2>1, <2>2, AppendProperties
<1>6. RedirectOK(cl', toClient', t, remote) /\ PhaseOK(cl', toClient', t, remote)
  BY <1>1, <1>2, <1>3, InvFacts, GamestateKeeps
<1>7. Typed'
  BY <1>4, <1>5, TypedKept DEF t
<1> QED
  BY <1>6, <1>7 DEF Inv, t

\* While the client waits for a part, only its request is on its way
LEMMA AskedHead ==
    ASSUME Inv, toServer # << >>, remote.phase = "asked"
    PROVE  /\ toServer[1].cmd = "REQUESTDLBLOCKS" /\ toServer[1].part = remote.part
           /\ Tail(toServer) = << >> /\ Calm(remote.file, cl, toClient, 0)
           /\ remote.got = {}
<1>1. AskedOK(cl, toClient, toServer, remote)
  BY InvFacts DEF PhaseOK
<1>2. /\ toServer = <<[cmd |-> "REQUESTDLBLOCKS", part |-> remote.part]>>
      /\ Calm(remote.file, cl, toClient, 0) /\ remote.got = {}
  BY <1>1 DEF AskedOK
<1> QED
  BY <1>2

LEMMA BeginInv ==
    ASSUME Inv, toServer # << >>, toServer' = Tail(toServer), UNCHANGED <<level, remote>>,
           toServer[1].cmd = "BEGINDOWNLOAD", BeginDownload(toServer[1])
    PROVE  Inv'
<1> DEFINE f == toServer[1].file
           d == CloseDownload(cl)
           e == [d EXCEPT !.downloadName = f]
<1>1. f \in File
  BY InvFacts, TailTyped, ToServerFacts
<1>2. d \in Client /\ Ended(cl, d)
  BY InvFacts, CloseFacts
<1>3. cl' = [d EXCEPT !.downloadName = f, !.wwwDl_var01 = TRUE]
  BY DEF BeginDownload
<1> HIDE DEF d, f
<1>4. /\ e \in Client /\ e.downloadName = f /\ e.download = NoFile
      /\ e.wwwDownloadStarted = cl.wwwDownloadStarted /\ e.wwwDlAck = cl.wwwDlAck
  BY <1>1, <1>2, NameFacts DEF Ended
<1>5. cl' = [e EXCEPT !.wwwDl_var01 = TRUE]
  BY <1>3
<1> HIDE DEF e
<1>6. cl' \in Client /\ Same(e, cl')
  BY <1>4, <1>5, FlagFacts
<1>7. /\ cl'.downloadName = f /\ cl'.download = NoFile
      /\ cl'.wwwDownloadStarted = cl.wwwDownloadStarted /\ cl'.wwwDlAck = cl.wwwDlAck
  BY <1>4, <1>6 DEF Same
<1>8. Redirected(cl') = Redirected(cl) /\ Within(cl')
  BY <1>7, EndedWithin DEF Redirected
<1>9. Opening(cl') => Asks(toServer[1], cl'.downloadName) /\ ~cl.wwwDlAck
  BY <1>7 DEF Opening, Asks, f
<1>10. toClient' = toClient
  BY DEF BeginDownload
<1>11. remote.phase # "asked"
  BY AskedHead
<1> QED
  BY <1>6, <1>8, <1>9, <1>10, <1>11, ExecutedInv

\* A command that ends the download and that asks for no part of a file
LEMMA EndedInv ==
    ASSUME Inv, toServer # << >>, toServer' = Tail(toServer), UNCHANGED <<level, remote>>,
           toServer[1].cmd # "REQUESTDLBLOCKS",
           toClient' = toClient \/ toClient' = Append(toClient, Gamestate),
           cl' \in Client, cl'.downloadName = NoFile, cl'.download = NoFile,
           Redirected(cl') = Redirected(cl) \/ toServer[1].cmd \in Reports
    PROVE  Inv'
<1>1. ~Opening(cl') /\ Within(cl')
  BY EndedWithin DEF Opening
<1>2. remote.phase # "asked"
  BY AskedHead
<1> QED
  BY <1>1, <1>2, ExecutedInv

LEMMA StopInv ==
    ASSUME Inv, toServer # << >>, toServer' = Tail(toServer), UNCHANGED <<level, remote>>,
           toServer[1].cmd \in {"STOPDOWNLOAD", "DONEDOWNLOAD"},
           StopDownload \/ DoneDownload
    PROVE  Inv'
<1> DEFINE d == CloseDownload(cl)
           e == [d EXCEPT !.wwwDl_var01 = FALSE]
<1>1. d \in Client /\ Ended(cl, d)
  BY InvFacts, CloseFacts
<1>2. cl' = e \/ cl' = WithGamestate(e)
  BY DEF StopDownload, DoneDownload
<1>3. toClient' = toClient \/ toClient' = Append(toClient, Gamestate)
  BY DEF StopDownload, DoneDownload
<1> HIDE DEF d
<1>4. e \in Client /\ Same(d, e)
  BY <1>1, FlagFacts
<1> HIDE DEF e
<1>5. cl' \in Client /\ (cl' = e \/ Same(e, cl'))
  BY <1>2, <1>4, GamestateFacts
<1>6. Ended(cl, cl')
  BY <1>1, <1>4, <1>5 DEF Same, Ended
<1>7. /\ cl'.downloadName = NoFile /\ cl'.download = NoFile
      /\ Redirected(cl') = Redirected(cl)
  BY <1>6 DEF Ended, Redirected
<1> QED
  BY <1>3, <1>5, <1>7, EndedInv

LEMMA ReportInv ==
    ASSUME Inv, toServer # << >>, toServer' = Tail(toServer), UNCHANGED <<level, remote>>,
           toServer[1].cmd \in {"WWWDLDONE", "WWWDLFAIL", "WWWDLCHKFAIL"},
           WWWDownloadDone \/ WWWDownloadFail
    PROVE  Inv'
<1> DEFINE d == RedirectOver(cl)
           e == [d EXCEPT !.wwwDl_failed = TRUE]
<1>1. d \in Client /\ d.downloadName = NoFile /\ d.download = NoFile
  BY InvFacts, RedirectOverFacts
<1>2. cl' = d \/ cl' = WithGamestate(e)
  BY DEF WWWDownloadDone, WWWDownloadFail
<1>3. toClient' = toClient \/ toClient' = Append(toClient, Gamestate)
  BY DEF WWWDownloadDone, WWWDownloadFail
<1> HIDE DEF d
<1>4. e \in Client /\ Same(d, e)
  BY <1>1, FlagFacts
<1> HIDE DEF e
<1>5. cl' \in Client /\ (cl' = d \/ Same(e, cl'))
  BY <1>1, <1>2, <1>4, GamestateFacts
<1>6. cl'.downloadName = NoFile /\ cl'.download = NoFile
  BY <1>1, <1>4, <1>5 DEF Same
<1>7. toServer[1].cmd \in Reports /\ toServer[1].cmd # "REQUESTDLBLOCKS"
  BY DEF Reports
<1> QED
  BY <1>3, <1>5, <1>6, <1>7, EndedInv

Selected(c, a, n) ==
    [c EXCEPT !.downloadBeginOffset = a, !.downloadNumBytes = n,
              !.downloadCount = a, !.downloadEOF = FALSE]

LEMMA SelectFacts ==
    ASSUME NEW c \in Client, NEW a \in 0..Largest, NEW n \in 0..Largest
    PROVE  LET d == Selected(c, a, n)
           IN  /\ d \in Client /\ d.downloadBeginOffset = a /\ d.downloadNumBytes = n
               /\ d.downloadCount = a /\ ~d.downloadEOF
               /\ d.downloadName = c.downloadName /\ d.download = c.download
               /\ d.wwwDownloadStarted = c.wwwDownloadStarted /\ d.wwwDlAck = c.wwwDlAck
BY DEF Client, Selected

LEMMA SelectInv ==
    ASSUME Inv, toServer # << >>, toServer' = Tail(toServer), UNCHANGED <<level, remote>>,
           toServer[1].cmd = "REQUESTDLBLOCKS", SelectDownloadBlocks(toServer[1])
    PROVE  Inv'
<1> DEFINE part == toServer[1].part
           f == cl.download
           a == Begins(f, part)
           n == Length(f, part)
<1>1. part \in Request /\ toClient' = toClient
  BY InvFacts, TailTyped, ToServerFacts DEF SelectDownloadBlocks
<1>2. CASE f = NoFile
  <2>1. cl' = cl
    BY <1>2 DEF SelectDownloadBlocks
  <2>2. remote.phase = "asked" => AskedOK(cl', toClient, Tail(toServer), remote)
    BY <1>2, <2>1, AskedHead DEF AskedOK
  <2> QED
    BY <1>1, <2>1, <2>2, InvFacts, ExecutedInv
<1>3. CASE f # NoFile
  <2>1. f \in File
    BY <1>3, InvFacts DEF Client
  <2>2. a \in Nat /\ n \in Nat /\ a + n <= SizeOf[f]
    BY <1>1, <2>1, PartFacts
  <2>3. SizeOf[f] \in Nat /\ SizeOf[f] <= Largest /\ Largest \in Nat
    BY <2>1, LargestFacts
  <2>4. cl' = Selected(cl, a, n)
    BY <1>3 DEF SelectDownloadBlocks, Selected
  <2> HIDE DEF a, n, f
  <2>5. a \in 0..Largest /\ n \in 0..Largest
    BY <2>2, <2>3
  <2>6. /\ cl' \in Client /\ cl'.downloadBeginOffset = a /\ cl'.downloadNumBytes = n
        /\ cl'.downloadCount = a /\ ~cl'.downloadEOF
        /\ cl'.downloadName = cl.downloadName /\ cl'.download = cl.download
        /\ cl'.wwwDownloadStarted = cl.wwwDownloadStarted /\ cl'.wwwDlAck = cl.wwwDlAck
    BY <2>4, <2>5, InvFacts, SelectFacts
  <2>7. a <= a + n
    BY <2>2
  <2>8. Within(cl')
    BY <2>2, <2>6, <2>7 DEF Within, f
  <2>9. Redirected(cl') = Redirected(cl) /\ ~Opening(cl')
    BY <1>3, <2>6 DEF Redirected, Opening, f
  <2>10. ASSUME remote.phase = "asked"
         PROVE  AskedOK(cl', toClient, Tail(toServer), remote)
    <3>1. /\ part = remote.part /\ Tail(toServer) = << >> /\ remote.got = {}
          /\ Calm(remote.file, cl, toClient, 0)
      BY <2>10, AskedHead
    <3>2. f = remote.file
      BY <1>3, <3>1 DEF Calm, f
    <3>3. \A i \in 1..Len(toClient) : toClient[i].cmd # "SERVERDL"
      <4>1. 0 + 1 = 1
        OBVIOUS
      <4> QED
        BY <3>1, <4>1 DEF Calm
    <3>4. Coming(toClient) = {}
      BY <3>3 DEF Coming
    <3>5. {remote.file} \X (a..(a - 1)) = {}
      <4>1. a..(a - 1) = {}
        BY <2>2
      <4> QED
        BY <4>1
    <3>6. a = Begins(remote.file, remote.part) /\ n = Length(remote.file, remote.part)
      BY <3>1, <3>2 DEF a, n
    <3>7. Sending(cl', toClient, remote)
      BY <2>6, <2>7, <3>1, <3>2, <3>3, <3>4, <3>5, <3>6 DEF Sending, f
    <3> QED
      BY <3>1, <3>7 DEF AskedOK
  <2> QED
    BY <1>1, <2>6, <2>8, <2>9, <2>10, ExecutedInv
<1> QED
  BY <1>2, <1>3

LEMMA ExecuteInv ==
    ASSUME Inv, ExecuteDownloadCmd
    PROVE  Inv'
<1>1. /\ toServer # << >> /\ Head(toServer) = toServer[1] /\ UNCHANGED <<level, remote>>
  BY InvFacts, TailTyped DEF ExecuteDownloadCmd
<1> DEFINE m == toServer[1]
           handled == toServer' = Tail(toServer)
<1>2. \/ m.cmd = "BEGINDOWNLOAD" /\ BeginDownload(m) /\ handled
      \/ m.cmd = "REQUESTDLBLOCKS" /\ SelectDownloadBlocks(m) /\ handled
      \/ m.cmd = "STOPDOWNLOAD" /\ StopDownload /\ handled
      \/ m.cmd = "DONEDOWNLOAD" /\ DoneDownload /\ handled
      \/ m.cmd = "WWWDLDONE" /\ WWWDownloadDone /\ handled
      \/ m.cmd \in {"WWWDLFAIL", "WWWDLCHKFAIL"} /\ WWWDownloadFail /\ handled
      \/ Drop
  BY <1>1 DEF ExecuteDownloadCmd
<1> QED
  BY <1>1, <1>2, BeginInv, SelectInv, StopInv, ReportInv, DropInv

-----------------------------------------------------------------------------
(* The server's other steps.                                               *)

LEMMA SameInv ==
    ASSUME Inv, cl' \in Client, Same(cl, cl'), level' \in 1..MaxLevel,
           toClient' = toClient \/ toClient' = Append(toClient, Gamestate),
           UNCHANGED <<toServer, remote>>
    PROVE  Inv'
<1> DEFINE m == Gamestate
<1>1. m \in ToClient /\ m.cmd = "gamestate"
  BY InvFacts, GamestateMessage
<1>2. toClient' = toClient \/ toClient' = Append(toClient, m)
  OBVIOUS
<1>3. toClient \in Seq(ToClient)
  BY InvFacts
<1> HIDE DEF m
<1>4. toClient' \in Seq(ToClient)
  BY ONLY <1>1, <1>2, <1>3, AppendProperties
<1>5. /\ RedirectOK(cl', toClient, toServer, remote)
      /\ PhaseOK(cl', toClient, toServer, remote)
  BY InvFacts, SameKeeps
<1>6. /\ RedirectOK(cl', toClient', toServer, remote)
      /\ PhaseOK(cl', toClient', toServer, remote)
  BY <1>1, <1>2, <1>3, <1>5, GamestateKeeps
<1>7. Within(cl')
  BY InvFacts, SameWithin
<1> QED
  BY <1>4, <1>6, <1>7 DEF Inv, Typed

LEMMA PacketInv ==
    ASSUME Inv, PacketEvent
    PROVE  Inv'
<1>1. UNCHANGED <<level, toServer, remote>>
  BY DEF PacketEvent
<1>2. CASE cl' = WithGamestate(cl) /\ toClient' = Append(toClient, Gamestate)
  BY <1>1, <1>2, InvFacts, GamestateFacts, SameInv
<1>3. CASE cl' = [cl EXCEPT !.state = "CS_ACTIVE"] /\ toClient' = toClient
  <2>1. cl' \in Client /\ Same(cl, cl')
    BY <1>3, InvFacts, StateFacts DEF State
  <2> QED
    BY <1>1, <1>3, <2>1, InvFacts, SameInv
<1> QED
  BY <1>2, <1>3 DEF PacketEvent

LEMMA SpawnInv ==
    ASSUME Inv, SpawnServer
    PROVE  Inv'
<1>1. level' \in 1..MaxLevel
  <2>1. MaxLevel \in Nat /\ level \in 1..MaxLevel
    BY FileAssumption, InvFacts
  <2> QED
    BY <2>1 DEF SpawnServer
<1>2. cl' \in Client /\ Same(cl, cl')
  <2> DEFINE d == [cl EXCEPT !.state = "CS_CONNECTED"]
  <2>1. d \in Client /\ Same(cl, d)
    BY InvFacts, StateFacts DEF State
  <2>2. cl' = cl \/ cl' = [d EXCEPT !.gamestateSent = FALSE]
    BY DEF SpawnServer
  <2> HIDE DEF d
  <2>3. CASE cl' = cl
    BY <2>3, InvFacts DEF Same
  <2>4. CASE cl' = [d EXCEPT !.gamestateSent = FALSE]
    BY <2>1, <2>4, FlagFacts, SameTrans
  <2> QED
    BY <2>2, <2>3, <2>4
<1>3. UNCHANGED <<toClient, toServer, remote>>
  BY DEF SpawnServer
<1> QED
  BY <1>1, <1>2, <1>3, SameInv

-----------------------------------------------------------------------------
(* The client sends.                                                       *)

LEMMA TypedClient ==
    ASSUME Inv, UNCHANGED <<cl, level>>, toClient' \in Seq(ToClient),
           toServer' \in Seq(ToServer), remote' \in RemoteSet,
           remote'.phase # "idle" => remote'.file # NoFile
    PROVE  Typed'
BY DEF Inv, Typed, Within

LEMMA VoidAppended ==
    ASSUME NEW ts \in Seq(ToServer), NEW m \in ToServer, NEW f, Void(f, ts, Len(ts))
    PROVE  /\ Void(f, Append(ts, m), Len(Append(ts, m)) - 1)
           /\ ~Asks(m, f) => Void(f, Append(ts, m), Len(Append(ts, m)))
<1> DEFINE t == Append(ts, m)
           n == Len(ts)
<1>1. /\ n \in Nat /\ Len(t) = n + 1 /\ t[n + 1] = m
      /\ \A i \in 1..n : t[i] = ts[i]
  BY Appended
<1> HIDE DEF t, n
<1>2. ASSUME NEW i \in 1..n, Asks(t[i], f)
      PROVE  \E j \in (i + 1)..n : j \in (i + 1)..(n + 1) /\ t[j].cmd \in Reports
  <2>1. PICK j \in (i + 1)..n : ts[j].cmd \in Reports
    BY <1>1, <1>2 DEF Void, n
  <2>2. j \in 1..n /\ j \in (i + 1)..(n + 1)
    BY <1>1
  <2> QED
    BY <1>1, <2>1, <2>2
<1>3. n + 1 - 1 = n
  BY <1>1
<1>4. Void(f, t, Len(t) - 1)
  BY <1>1, <1>2, <1>3 DEF Void
<1>5. ASSUME ~Asks(m, f), NEW i \in 1..(n + 1), Asks(t[i], f)
      PROVE  \E j \in (i + 1)..(n + 1) : t[j].cmd \in Reports
  <2>1. i \in 1..n
    BY <1>1, <1>5
  <2> QED
    BY <1>2, <1>5, <2>1
<1>6. ~Asks(m, f) => Void(f, t, Len(t))
  BY <1>1, <1>5 DEF Void
<1> QED
  BY <1>4, <1>6 DEF t

LEMMA QuietSent ==
    ASSUME NEW ts \in Seq(ToServer), NEW m \in ToServer, NEW f, NEW c, NEW tc,
           Quiet(f, c, tc, ts), ~Asks(m, f)
    PROVE  Quiet(f, c, tc, Append(ts, m))
BY VoidAppended DEF Quiet

LEMMA RedirectSent ==
    ASSUME NEW ts \in Seq(ToServer), NEW m \in ToServer, m.cmd \notin Reports,
           NEW c, NEW tc, NEW r, NEW q, RedirectOK(c, tc, ts, r),
           q.phase = "redirected" => r.phase = "redirected"
    PROVE  RedirectOK(c, tc, Append(ts, m), q)
<1> DEFINE t == Append(ts, m)
<1>1. \A i \in 1..Len(t) : t[i].cmd \in Reports => i \in 1..Len(ts) /\ t[i] = ts[i]
  BY Appended
<1> HIDE DEF t
<1> QED
  BY <1>1 DEF RedirectOK, t

LEMMA CommandMessage ==
    ASSUME NEW c \in {"DONEDOWNLOAD", "STOPDOWNLOAD"} \cup Reports
    PROVE  [cmd |-> c] \in ToServer /\ \A f : ~Asks([cmd |-> c], f)
BY DEF ToServer, Reports, Asks

LEMMA BeginSent ==
    ASSUME Inv, NEW f \in File, ClientBegin(f)
    PROVE  Inv'
<1> DEFINE m == [cmd |-> "BEGINDOWNLOAD", file |-> f]
           t == Append(toServer, m)
           q == remote'
<1>1. /\ q \in RemoteSet /\ q.phase = "begun" /\ q.file = f
      /\ q.stopped = remote.stopped /\ f \notin q.stopped
  <2>1. remote \in RemoteSet /\ remote.begun < MaxDownloads /\ f \notin remote.stopped
    BY InvFacts DEF ClientBegin
  <2>2. remote.begun + 1 \in 0..MaxDownloads /\ {} \in SUBSET (File \X (0..(Largest - 1)))
    BY <2>1, FileAssumption DEF RemoteSet
  <2>3. q = [remote EXCEPT !.phase = "begun", !.file = f, !.busy = TRUE,
                           !.begun = remote.begun + 1, !.got = {}]
    BY DEF ClientBegin
  <2> HIDE DEF q
  <2> QED
    BY ONLY <2>1, <2>2, <2>3, f \in File DEF RemoteSet, Phase
<1>2. m \in ToServer /\ m.cmd \notin Reports /\ \A g : Asks(m, g) <=> g = f
  BY DEF ToServer, Reports, Asks
<1>3. toServer' = t /\ remote.phase = "idle" /\ UNCHANGED <<cl, level, toClient>>
  BY DEF ClientBegin, Send
<1> HIDE DEF m, q
<1>4. t \in Seq(ToServer) /\ t # << >> /\ t[Len(t)] = m
  BY <1>2, InvFacts, Appended
<1>5. \A g \in File \ remote.stopped : Quiet(g, cl, toClient, toServer)
  BY <1>3, InvFacts DEF PhaseOK
<1>6. Void(f, t, Len(t) - 1)
  <2>1. Void(f, toServer, Len(toServer))
    BY <1>1, <1>5 DEF Quiet
  <2> QED
    BY <1>2, <2>1, InvFacts, VoidAppended
<1>7. \A g \in File \ q.stopped : g # f => Quiet(g, cl, toClient, t)
  BY <1>1, <1>2, <1>5, InvFacts, QuietSent
<1>8. RedirectOK(cl, toClient, t, q)
  BY <1>1, <1>2, InvFacts, RedirectSent
<1> HIDE DEF t
<1>9. BegunOK(cl, toClient, t, q)
  BY <1>1, <1>2, <1>4, <1>5, <1>6 DEF BegunOK, Quiet
<1>10. PhaseOK(cl, toClient, t, q)
  BY <1>1, <1>7, <1>9 DEF PhaseOK
<1>11. f # NoFile
  BY FileAssumption
<1>12. Typed'
  BY <1>1, <1>3, <1>4, <1>11, InvFacts, TypedClient DEF q
<1> QED
  BY <1>3, <1>8, <1>10, <1>12 DEF Inv, q

\* A client that has no download, or breaks it off, sends a command
LEMMA IdleSent ==
    ASSUME Inv, NEW m \in ToServer, m.cmd \notin Reports, \A f : ~Asks(m, f),
           toServer' = Append(toServer, m), UNCHANGED <<cl, level, toClient>>,
           remote' \in RemoteSet, remote'.phase = "idle",
           \/ remote.phase = "idle" /\ remote'.stopped = remote.stopped
           \/ remote'.stopped = remote.stopped \cup {remote.file}
    PROVE  Inv'
<1> DEFINE t == Append(toServer, m)
<1>1. \A g \in File \ remote'.stopped : Quiet(g, cl, toClient, toServer)
  BY InvFacts DEF PhaseOK
<1>2. \A g \in File \ remote'.stopped : Quiet(g, cl, toClient, t)
  BY <1>1, InvFacts, QuietSent
<1>3. RedirectOK(cl, toClient, t, remote')
  BY InvFacts, RedirectSent
<1>4. t \in Seq(ToServer)
  BY InvFacts, Appended
<1> HIDE DEF t
<1>5. PhaseOK(cl, toClient, t, remote')
  BY <1>2 DEF PhaseOK
<1>6. Typed'
  BY <1>4, InvFacts, TypedClient DEF t
<1> QED
  BY <1>3, <1>5, <1>6 DEF Inv, t

LEMMA StopSent ==
    ASSUME Inv, ClientStop \/ ClientDone
    PROVE  Inv'
<1>1. PICK c \in {"DONEDOWNLOAD", "STOPDOWNLOAD"} : toServer' = Append(toServer, [cmd |-> c])
  BY DEF ClientStop, ClientDone, Send
<1> DEFINE m == [cmd |-> c]
<1>2. m \in ToServer /\ \A f : ~Asks(m, f)
  BY CommandMessage
<1>3. m.cmd \notin Reports
  BY DEF Reports
<1>4. remote' \in RemoteSet /\ remote'.phase = "idle"
  <2>1. remote \in RemoteSet
    BY InvFacts
  <2>2. CASE ClientDone
    BY <2>1, <2>2 DEF ClientDone, RemoteSet
  <2>3. CASE ClientStop
    <3> DEFINE S == remote.stopped \cup {remote.file}
    <3>1. S \in SUBSET File /\ {} \in SUBSET (File \X (0..(Largest - 1)))
      BY <2>3, InvFacts DEF ClientStop
    <3>2. PICK b \in BOOLEAN : remote' = [remote EXCEPT !.phase = "idle", !.busy = b,
                                                        !.got = {}, !.stopped = S]
      BY <2>3 DEF ClientStop
    <3> HIDE DEF S
    <3> QED
      BY ONLY <2>1, <3>1, <3>2, b \in BOOLEAN DEF RemoteSet, Phase
  <2> QED
    BY <2>2, <2>3
<1>5. \/ remote.phase = "idle" /\ remote'.stopped = remote.stopped
      \/ remote'.stopped = remote.stopped \cup {remote.file}
  <2>1. remote \in RemoteSet
    BY InvFacts
  <2> QED
    BY <2>1 DEF ClientStop, ClientDone, RemoteSet
<1>6. UNCHANGED <<cl, level, toClient>> /\ toServer' = Append(toServer, m)
  BY <1>1 DEF ClientStop, ClientDone
<1> HIDE DEF m
<1> QED
  BY <1>2, <1>3, <1>4, <1>5, <1>6, IdleSent

LEMMA AskSent ==
    ASSUME Inv, NEW part \in Request, ClientAsk(part)
    PROVE  Inv'
<1> DEFINE m == [cmd |-> "REQUESTDLBLOCKS", part |-> part]
           t == Append(toServer, m)
           q == remote'
<1>1. /\ q \in RemoteSet /\ q.phase = "asked" /\ q.file = remote.file /\ q.part = part
      /\ q.got = {} /\ q.stopped = remote.stopped
  BY InvFacts DEF ClientAsk, RemoteSet, Phase
<1>2. m \in ToServer /\ m.cmd \notin Reports /\ \A g : ~Asks(m, g)
  BY DEF ToServer, Reports, Asks
<1>3. toServer' = t /\ remote.phase = "init" /\ UNCHANGED <<cl, level, toClient>>
  BY DEF ClientAsk, Send
<1>4. /\ toServer = << >> /\ Calm(remote.file, cl, toClient, 0)
      /\ remote.file \notin remote.stopped
      /\ \A g \in File \ remote.stopped : Quiet(g, cl, toClient, toServer)
  BY <1>3, InvFacts DEF PhaseOK
<1>5. t = <<m>>
  BY <1>4
<1> HIDE DEF q
<1>6. AskedOK(cl, toClient, t, q)
  BY <1>1, <1>4, <1>5 DEF AskedOK
<1> HIDE DEF m
<1>7. \A g \in File \ q.stopped : Quiet(g, cl, toClient, t)
  BY <1>1, <1>2, <1>4, InvFacts, QuietSent
<1>8. RedirectOK(cl, toClient, t, q)
  BY <1>1, <1>2, InvFacts, RedirectSent
<1>9. t \in Seq(ToServer)
  BY <1>2, InvFacts, Appended
<1> HIDE DEF t
<1>10. PhaseOK(cl, toClient, t, q)
  BY <1>1, <1>4, <1>6, <1>7 DEF PhaseOK
<1>11. Typed'
  BY <1>1, <1>3, <1>9, InvFacts, TypedClient DEF q
<1> QED
  BY <1>3, <1>8, <1>10, <1>11 DEF Inv, q

LEMMA HasFileInv ==
    ASSUME Inv, ClientHasFile
    PROVE  Inv'
<1>1. /\ remote' \in RemoteSet /\ remote'.phase = "idle" /\ remote.phase = "init"
      /\ remote'.stopped = remote.stopped
  BY InvFacts DEF ClientHasFile, RemoteSet, Phase
<1>2. UNCHANGED <<cl, level, toClient, toServer>>
  BY DEF ClientHasFile
<1>3. RedirectOK(cl, toClient, toServer, remote')
  BY <1>1, InvFacts DEF RedirectOK
<1>4. PhaseOK(cl, toClient, toServer, remote')
  BY <1>1, InvFacts DEF PhaseOK
<1>5. Typed'
  BY <1>1, <1>2, InvFacts, TypedClient
<1> QED
  BY <1>2, <1>3, <1>4, <1>5 DEF Inv

\* The end of a redirect is reported once, and whatever was begun before it is
\* void
LEMMA ReportSent ==
    ASSUME Inv, ClientRedirectOver
    PROVE  Inv'
<1>1. PICK c \in Reports : toServer' = Append(toServer, [cmd |-> c])
  BY DEF ClientRedirectOver, Send, Reports
<1> DEFINE m == [cmd |-> c]
           t == Append(toServer, m)
           n == Len(toServer)
<1>2. m \in ToServer /\ m.cmd \in Reports /\ \A f : ~Asks(m, f)
  BY CommandMessage
<1>3. /\ remote' \in RemoteSet /\ remote'.phase = "idle" /\ remote.phase = "redirected"
      /\ remote'.stopped = remote.stopped
  BY InvFacts DEF ClientRedirectOver, RemoteSet, Phase
<1>4. UNCHANGED <<cl, level, toClient>> /\ toServer' = t
  BY <1>1 DEF ClientRedirectOver
<1> HIDE DEF m
<1>5. /\ n \in Nat /\ Len(t) = n + 1 /\ t[n + 1] = m /\ t \in Seq(ToServer)
      /\ \A i \in 1..Len(t) : (i \in 1..n /\ t[i] = toServer[i]) \/ (i = n + 1 /\ t[i] = m)
  BY <1>2, InvFacts, Appended
<1>6. /\ Redirected(cl) /\ \A i \in 1..n : toServer[i].cmd \notin Reports
      /\ \A k \in 1..Len(toClient) : toClient[k].cmd # "WWWRD"
  BY <1>3, InvFacts DEF RedirectOK
<1>7. ~Opening(cl)
  BY <1>6 DEF Redirected, Opening
<1> HIDE DEF t, n
<1>8. RedirectOK(cl, toClient, t, remote')
  <2>1. \A i \in 1..Len(t) : t[i].cmd \in Reports => i = n + 1
    BY <1>5, <1>6
  <2> QED
    BY <1>3, <1>6, <2>1 DEF RedirectOK
<1>9. \A f : Void(f, t, Len(t))
  <2> SUFFICES ASSUME NEW f, NEW i \in 1..(n + 1), Asks(t[i], f)
               PROVE  \E j \in (i + 1)..(n + 1) : t[j].cmd \in Reports
    BY <1>5 DEF Void
  <2>1. i \in 1..n
    BY <1>2, <1>5
  <2>2. n + 1 \in (i + 1)..(n + 1)
    BY <1>5, <2>1
  <2> QED
    BY <1>2, <1>5, <2>2
<1>10. ASSUME NEW f \in File \ remote.stopped
       PROVE  NoAnswer(f, toClient)
  <2>1. CASE f = remote.file
    BY <1>3, <2>1, InvFacts DEF PhaseOK
  <2>2. CASE f # remote.file
    BY <2>2, InvFacts DEF PhaseOK, Quiet
  <2> QED
    BY <2>1, <2>2
<1>11. \A f \in File \ remote.stopped : Quiet(f, cl, toClient, t)
  BY <1>7, <1>9, <1>10 DEF Quiet
<1>12. PhaseOK(cl, toClient, t, remote')
  BY <1>3, <1>11 DEF PhaseOK
<1>13. Typed'
  BY <1>3, <1>4, <1>5, InvFacts, TypedClient
<1> QED
  BY <1>4, <1>8, <1>12, <1>13 DEF Inv

-----------------------------------------------------------------------------
(* The client receives a message.                                          *)

LEMMA QuietTail ==
    ASSUME NEW tc \in Seq(ToClient), tc # << >>, NEW f
    PROVE  /\ NoAnswer(f, tc) => NoAnswer(f, Tail(tc))
           /\ \A c, ts : Quiet(f, c, tc, ts) => Quiet(f, c, Tail(tc), ts)
<1>1. NoAnswer(f, tc) => NoAnswer(f, Tail(tc))
  BY TailTyped DEF NoAnswer
<1> QED
  BY <1>1 DEF Quiet

LEMMA CalmTail ==
    ASSUME NEW tc \in Seq(ToClient), tc # << >>, NEW f, NEW c, NEW n \in Nat,
           Calm(f, c, tc, n)
    PROVE  /\ n > 0 => Calm(f, c, Tail(tc), n - 1)
           /\ n = 0 => Calm(f, c, Tail(tc), 0)
<1> DEFINE t == Tail(tc)
<1>1. ASSUME NEW i \in 1..Len(t), i + 1 > n
      PROVE  t[i].cmd # "SERVERDL"
  <2>1. i + 1 \in 1..Len(tc) /\ t[i] = tc[i + 1] /\ Len(tc) \in Nat
    BY TailTyped
  <2>2. i + 1 \in (n + 1)..Len(tc)
    BY <1>1, <2>1
  <2> QED
    BY <2>1, <2>2 DEF Calm
<1>2. Len(t) \in Nat
  BY TailTyped
<1> HIDE DEF t
<1>3. ASSUME n > 0, NEW i \in (n - 1 + 1)..Len(t)
      PROVE  t[i].cmd # "SERVERDL"
  <2>1. i \in 1..Len(t) /\ i + 1 > n
    BY <1>2, <1>3
  <2> QED
    BY <1>1, <2>1
<1>4. ASSUME n = 0, NEW i \in (0 + 1)..Len(t)
      PROVE  t[i].cmd # "SERVERDL"
  <2>1. i \in 1..Len(t) /\ i + 1 > n
    BY <1>2, <1>4
  <2> QED
    BY <1>1, <2>1
<1> QED
  BY <1>3, <1>4 DEF Calm, t

LEMMA AnswerTail ==
    ASSUME NEW tc \in Seq(ToClient), tc # << >>, NEW f, NEW cmd \in {"FILEINIT", "FAIL"},
           NEW k \in 1..Len(tc), Answer(f, cmd, tc, k)
    PROVE  /\ k = 1 => tc[1].cmd = cmd /\ NoAnswer(f, Tail(tc))
           /\ k # 1 => /\ ~Answers(tc[1], f) /\ k - 1 \in 1..Len(Tail(tc))
                       /\ Answer(f, cmd, Tail(tc), k - 1)
<1> DEFINE t == Tail(tc)
<1>1. /\ 1 \in 1..Len(tc)
      /\ \A i \in 1..Len(t) : i \in Nat /\ i > 0 /\ i + 1 \in 1..Len(tc) /\ t[i] = tc[i + 1]
      /\ \A i \in 2..Len(tc) : i - 1 \in 1..Len(t) /\ t[i - 1] = tc[i]
  BY TailTyped
<1> HIDE DEF t
<1>2. CASE k = 1
  <2>1. \A i \in 1..Len(t) : i + 1 # k
    BY <1>1, <1>2
  <2> QED
    BY <1>1, <1>2, <2>1 DEF Answer, NoAnswer, t
<1>3. CASE k # 1
  <2>1. k \in 2..Len(tc)
    BY <1>1, <1>3
  <2>2. \A i \in 1..Len(t) : i # k - 1 => i + 1 # k
    BY <1>1, <2>1
  <2> QED
    BY <1>1, <1>3, <2>1, <2>2 DEF Answer, t
<1> QED
  BY <1>2, <1>3

\* The bytes of the first message are no longer on their way
LEMMA ComingTail ==
    ASSUME NEW tc \in Seq(ToClient), tc # << >>
    PROVE  Coming(tc) = Coming(Tail(tc)) \cup
               IF tc[1].cmd = "SERVERDL" THEN {tc[1].file} \X tc[1].bytes ELSE {}
<1> DEFINE t == Tail(tc)
           m == tc[1]
<1>1. /\ m \in ToClient /\ 1 \in 1..Len(tc)
      /\ \A i \in 1..Len(t) : i + 1 \in 1..Len(tc) /\ t[i] = tc[i + 1]
      /\ \A i \in 2..Len(tc) : i - 1 \in 1..Len(t) /\ t[i - 1] = tc[i]
  BY TailTyped
<1>2. \A i \in 1..Len(tc) : i = 1 \/ i \in 2..Len(tc)
  BY <1>1
<1>3. m.cmd = "SERVERDL" => {m.file} \X m.bytes \subseteq File \X (0..(Largest - 1))
  BY <1>1, ToClientFacts
<1> HIDE DEF t
<1>4. ASSUME NEW x
      PROVE  x \in Coming(tc) <=>
                x \in Coming(t) \/ (m.cmd = "SERVERDL" /\ x \in {m.file} \X m.bytes)
  <2>1. x \in Coming(tc) => x \in Coming(t) \/ (m.cmd = "SERVERDL" /\ x \in {m.file} \X m.bytes)
    <3> SUFFICES ASSUME x \in Coming(tc)
                 PROVE  x \in Coming(t) \/ (m.cmd = "SERVERDL" /\ x \in {m.file} \X m.bytes)
      OBVIOUS
    <3>1. PICK i \in 1..Len(tc) : /\ tc[i].cmd = "SERVERDL"
                                  /\ x \in {tc[i].file} \X tc[i].bytes
      BY DEF Coming
    <3>2. CASE i = 1
      BY <3>1, <3>2
    <3>3. CASE i \in 2..Len(tc)
      <4>1. i - 1 \in 1..Len(t) /\ t[i - 1] = tc[i]
        BY <1>1, <3>3
      <4>2. x \in File \X (0..(Largest - 1))
        BY DEF Coming
      <4> QED
        BY <3>1, <4>1, <4>2 DEF Coming
    <3> QED
      BY <1>2, <3>2, <3>3
  <2>2. x \in Coming(t) => x \in Coming(tc)
    BY <1>1 DEF Coming
  <2>3. m.cmd = "SERVERDL" /\ x \in {m.file} \X m.bytes => x \in Coming(tc)
    BY <1>1, <1>3 DEF Coming
  <2> QED
    BY <2>1, <2>2, <2>3
<1> HIDE DEF m
<1> QED
  BY <1>4 DEF t, m

LEMMA SendingTail ==
    ASSUME NEW tc \in Seq(ToClient), tc # << >>, NEW c, NEW r, NEW q, Sending(c, tc, r),
           q.file = r.file, q.part = r.part,
           q.got = IF tc[1].cmd = "SERVERDL" THEN r.got \cup ({tc[1].file} \X tc[1].bytes)
                   ELSE r.got
    PROVE  Sending(c, Tail(tc), q)
<1> DEFINE t == Tail(tc)
<1>1. q.got \cup Coming(t) = r.got \cup Coming(tc)
  BY ComingTail
<1>2. ASSUME NEW i \in 1..Len(t), t[i].cmd = "SERVERDL"
      PROVE  /\ t[i].file = r.file
             /\ t[i].bytes = {} =>
                   /\ c.downloadEOF /\ t[i].at = c.downloadCount
                   /\ \A j \in (i + 1)..Len(t) : t[j].cmd # "SERVERDL"
  <2>1. i \in Nat /\ i + 1 \in 1..Len(tc) /\ t[i] = tc[i + 1]
    BY TailTyped
  <2>2. ASSUME NEW j \in (i + 1)..Len(t)
        PROVE  j + 1 \in (i + 1 + 1)..Len(tc) /\ t[j] = tc[j + 1]
    <3>1. j \in 1..Len(t)
      BY <2>1
    <3>2. j + 1 \in 2..Len(tc) /\ t[j] = tc[j + 1]
      BY <3>1, TailTyped
    <3> QED
      BY <2>1, <3>2
  <2> QED
    BY <1>2, <2>1, <2>2 DEF Sending
<1> HIDE DEF t
<1> QED
  BY <1>1, <1>2 DEF Sending, t

LEMMA RedirectReceived ==
    ASSUME NEW tc \in Seq(ToClient), tc # << >>, NEW c, NEW ts, NEW r, NEW q,
           RedirectOK(c, tc, ts, r),
           q.phase = "redirected" => r.phase = "redirected" \/ tc[1].cmd = "WWWRD"
    PROVE  RedirectOK(c, Tail(tc), ts, q)
<1> DEFINE t == Tail(tc)
<1>1. /\ 1 \in 1..Len(tc) /\ Len(tc) \in Nat
      /\ \A i \in 1..Len(t) : i \in Nat /\ i > 0 /\ i + 1 \in 2..Len(tc) /\ t[i] = tc[i + 1]
  BY TailTyped
<1> HIDE DEF t
<1>2. ASSUME NEW k \in 1..Len(t), t[k].cmd = "WWWRD"
      PROVE  /\ Redirected(c) /\ q.phase # "redirected"
             /\ \A i \in 1..Len(ts) : ts[i].cmd \notin Reports
             /\ \A i \in (k + 1)..Len(t) : t[i].cmd \notin {"FILEINIT", "FAIL", "WWWRD"}
  <2>1. k + 1 \in 1..Len(tc) /\ tc[k + 1].cmd = "WWWRD"
    BY <1>1, <1>2
  <2>2. tc[1].cmd # "WWWRD"
    <3>1. k + 1 \in (1 + 1)..Len(tc)
      BY <1>1
    <3> QED
      BY <1>1, <2>1, <3>1 DEF RedirectOK
  <2>3. ASSUME NEW i \in (k + 1)..Len(t)
        PROVE  i + 1 \in (k + 1 + 1)..Len(tc) /\ t[i] = tc[i + 1]
    <3>1. i \in 1..Len(t)
      BY <1>1
    <3> QED
      BY <1>1, <3>1
  <2> QED
    BY <2>1, <2>2, <2>3 DEF RedirectOK
<1>3. tc[1].cmd = "WWWRD" => Redirected(c) /\ \A i \in 1..Len(ts) : ts[i].cmd \notin Reports
  BY <1>1 DEF RedirectOK
<1> QED
  BY <1>2, <1>3 DEF RedirectOK, t

\* A message that answers nothing the client has begun
LEMMA OtherPhase ==
    ASSUME NEW tc \in Seq(ToClient), tc # << >>, NEW c, NEW ts, NEW r, NEW q,
           PhaseOK(c, tc, ts, r), q.phase = r.phase, q.file = r.file, q.part = r.part,
           q.stopped = r.stopped, r.phase = "begun" => ~Answers(tc[1], r.file),
           r.phase = "asked" =>
               q.got = IF tc[1].cmd = "SERVERDL" THEN r.got \cup ({tc[1].file} \X tc[1].bytes)
                       ELSE r.got
    PROVE  PhaseOK(c, Tail(tc), ts, q)
<1> DEFINE t == Tail(tc)
<1>1. \A f : (NoAnswer(f, tc) => NoAnswer(f, t)) /\ (Quiet(f, c, tc, ts) => Quiet(f, c, t, ts))
  BY QuietTail
<1>2. \A f : Calm(f, c, tc, 0) => Calm(f, c, t, 0)
  BY CalmTail
<1>3. ASSUME r.phase = "begun"
      PROVE  BegunOK(c, t, ts, q)
  <2>1. ASSUME NEW k \in 1..Len(tc), NEW cmd \in {"FILEINIT", "FAIL"},
               Answer(r.file, cmd, tc, k)
        PROVE  k # 1 /\ k - 1 \in 1..Len(t) /\ Answer(r.file, cmd, t, k - 1)
    <3>1. k # 1
      BY <1>3, <2>1 DEF Answer, Answers
    <3> QED
      BY <2>1, <3>1, AnswerTail
  <2>2. ASSUME NEW k \in 1..Len(tc), k # 1, Calm(r.file, c, tc, k)
        PROVE  Calm(r.file, c, t, k - 1)
    <3>1. k \in Nat /\ k > 0
      BY TailTyped
    <3> QED
      BY <2>2, <3>1, CalmTail
  <2>3. BegunOK(c, tc, ts, r)
    BY <1>3 DEF PhaseOK
  <2> HIDE DEF t
  <2>4. CASE ts # << >> /\ NoAnswer(r.file, tc)
    BY <1>1, <2>3, <2>4 DEF BegunOK
  <2>5. CASE ts = << >> /\ NoAnswer(r.file, tc)
    BY <1>1, <2>5 DEF BegunOK
  <2>6. CASE ts = << >> /\ \E k \in 1..Len(tc) :
                Answer(r.file, "FILEINIT", tc, k) /\ Calm(r.file, c, tc, k)
    BY <2>1, <2>2, <2>6 DEF BegunOK
  <2>7. CASE ts = << >> /\ ~Opening(c) /\ \E k \in 1..Len(tc) : Answer(r.file, "FAIL", tc, k)
    BY <2>1, <2>7 DEF BegunOK
  <2> QED
    BY <2>3, <2>4, <2>5, <2>6, <2>7 DEF BegunOK
<1>4. ASSUME r.phase = "asked"
      PROVE  AskedOK(c, t, ts, q)
  <2>1. AskedOK(c, tc, ts, r)
    BY <1>4 DEF PhaseOK
  <2>2. CASE Sending(c, tc, r)
    <3>1. Sending(c, t, q)
      BY <1>4, <2>2, SendingTail
    <3>2. CASE ts = << >>
      BY <3>1, <3>2 DEF AskedOK
    <3>3. CASE ts # << >>
      <4>1. Calm(r.file, c, tc, 0) /\ r.got = {}
            /\ ts = <<[cmd |-> "REQUESTDLBLOCKS", part |-> r.part]>>
        BY <2>1, <3>3 DEF AskedOK
      <4>2. tc[1].cmd # "SERVERDL"
        <5>1. 1 \in (0 + 1)..Len(tc)
          BY TailTyped
        <5> QED
          BY <4>1, <5>1 DEF Calm
      <4> HIDE DEF t
      <4> QED
        BY <1>2, <1>4, <4>1, <4>2 DEF AskedOK
    <3> QED
      BY <3>2, <3>3
  <2>3. CASE Calm(r.file, c, tc, 0)
    <3>1. tc[1].cmd # "SERVERDL"
      <4>1. 1 \in (0 + 1)..Len(tc)
        BY TailTyped
      <4> QED
        BY <2>3, <4>1 DEF Calm
    <3>2. Sending(c, tc, r) => Sending(c, t, q)
      BY <1>4, SendingTail
    <3>3. q.got = r.got
      BY <1>4, <3>1
    <3> HIDE DEF t
    <3> QED
      BY <1>2, <2>1, <2>3, <3>2, <3>3 DEF AskedOK
  <2> QED
    BY <2>1, <2>2, <2>3 DEF AskedOK
<1> HIDE DEF t
<1> QED
  BY <1>1, <1>2, <1>3, <1>4 DEF PhaseOK, t

\* While a download is open for the client or it has asked for a part, no
\* answer about its file comes
LEMMA Unanswered ==
    ASSUME Inv, toClient # << >>, remote.phase \in {"init", "asked"}
    PROVE  ~Answers(toClient[1], remote.file)
<1>1. remote.file \in File \ remote.stopped
  BY InvFacts DEF PhaseOK
<1>2. NoAnswer(remote.file, toClient)
  BY <1>1, InvFacts DEF PhaseOK, Quiet
<1> QED
  BY <1>2, InvFacts, TailTyped DEF NoAnswer

\* The answer to what the client has begun is the first message, and nothing
\* is left to say about the file
LEMMA Answered ==
    ASSUME Inv, toClient # << >>, remote.phase = "begun", Answers(toClient[1], remote.file)
    PROVE  /\ toServer = << >> /\ NoAnswer(remote.file, Tail(toClient)) /\ ~Opening(cl)
           /\ toClient[1].cmd = "FILEINIT" => Calm(remote.file, cl, Tail(toClient), 0)
<1> DEFINE f == remote.file
<1>1. toClient \in Seq(ToClient) /\ 1 \in 1..Len(toClient)
  BY InvFacts, TailTyped
<1>2. ~NoAnswer(f, toClient)
  BY <1>1 DEF NoAnswer
<1>3. BegunOK(cl, toClient, toServer, remote)
  BY InvFacts DEF PhaseOK
<1>4. CASE toServer = << >> /\ \E k \in 1..Len(toClient) :
              Answer(f, "FILEINIT", toClient, k) /\ Calm(f, cl, toClient, k)
  <2>1. PICK k \in 1..Len(toClient) :
              Answer(f, "FILEINIT", toClient, k) /\ Calm(f, cl, toClient, k)
    BY <1>4
  <2>2. k = 1
    BY <1>1, <2>1 DEF Answer
  <2>3. NoAnswer(f, Tail(toClient))
    BY <1>1, <2>1, <2>2, AnswerTail
  <2>4. Calm(f, cl, Tail(toClient), 1 - 1)
    BY <1>1, <2>1, <2>2, CalmTail
  <2>5. 1 - 1 = 0
    OBVIOUS
  <2>6. ~Opening(cl)
    BY <2>1 DEF Calm
  <2> QED
    BY <1>4, <2>3, <2>4, <2>5, <2>6
<1>5. CASE toServer = << >> /\ ~Opening(cl) /\ \E k \in 1..Len(toClient) :
              Answer(f, "FAIL", toClient, k)
  <2>1. PICK k \in 1..Len(toClient) : Answer(f, "FAIL", toClient, k)
    BY <1>5
  <2>2. k = 1
    BY <1>1, <2>1 DEF Answer
  <2>3. NoAnswer(f, Tail(toClient)) /\ toClient[1].cmd = "FAIL"
    BY <1>1, <2>1, <2>2, AnswerTail
  <2> QED
    BY <1>5, <2>3
<1> QED
  BY <1>2, <1>3, <1>4, <1>5 DEF BegunOK

\* What the client does with a message
LEMMA Received ==
    ASSUME Inv, ClientReceive
    PROVE  LET m == toClient[1]
               mine == m.cmd \in {"FILEINIT", "FAIL", "WWWRD"} /\ m.file = remote.file
               p == remote.phase
           IN  \/ m.cmd = "gamestate" /\ remote' = [remote EXCEPT !.level = m.level]
               \/ /\ m.cmd = "FILEINIT" /\ mine /\ p \in {"begun", "init", "asked"}
                  /\ remote' = [remote EXCEPT !.phase = "init", !.got = {}]
               \/ /\ m.cmd = "FAIL" /\ mine /\ p = "begun"
                  /\ remote' = [remote EXCEPT !.phase = "idle"]
               \/ /\ m.cmd = "WWWRD" /\ mine /\ p \in {"begun", "init", "asked"}
                  /\ remote' = [remote EXCEPT !.phase = "redirected", !.got = {}]
               \/ /\ m.cmd = "SERVERDL" /\ p = "asked" /\ m.bytes # {}
                  /\ remote' = [remote EXCEPT !.got = remote.got \cup ({m.file} \X m.bytes)]
               \/ /\ m.cmd = "SERVERDL" /\ p = "asked" /\ m.bytes = {}
                  /\ remote' = [remote EXCEPT !.phase = "init"]
               \/ /\ ~(m.cmd = "FILEINIT" /\ mine /\ p \in {"begun", "init", "asked"})
                  /\ ~(m.cmd = "FAIL" /\ mine /\ p = "begun")
                  /\ ~(m.cmd = "SERVERDL" /\ p = "asked")
                  /\ remote' = remote
<1>1. Head(toClient) = toClient[1]
  BY InvFacts, TailTyped DEF ClientReceive
<1> DEFINE m == toClient[1]
           mine == m.cmd \in {"FILEINIT", "FAIL", "WWWRD"} /\ m.file = remote.file
           p == remote.phase
<1>2. remote' =
           CASE m.cmd = "gamestate" -> [remote EXCEPT !.level = m.level]
             [] m.cmd = "FILEINIT" /\ mine /\ p \in {"begun", "init", "asked"} ->
                    [remote EXCEPT !.phase = "init", !.got = {}]
             [] m.cmd = "FAIL" /\ mine /\ p = "begun" ->
                    [remote EXCEPT !.phase = "idle"]
             [] m.cmd = "WWWRD" /\ mine /\ p \in {"begun", "init", "asked"} ->
                    [remote EXCEPT !.phase = "redirected", !.got = {}]
             [] m.cmd = "SERVERDL" /\ p = "asked" /\ m.bytes # {} ->
                    [remote EXCEPT !.got = @ \cup ({m.file} \X m.bytes)]
             [] m.cmd = "SERVERDL" /\ p = "asked" /\ m.bytes = {} ->
                    [remote EXCEPT !.phase = "init"]
             [] OTHER -> remote
  BY <1>1 DEF ClientReceive
<1> HIDE DEF m
<1> QED
  BY <1>2 DEF m

\* When the empty block comes, the server has sent the part up to its position
\* and nothing else, and nothing of it is on its way
LEMMA LastBlock ==
    ASSUME Inv, toClient # << >>, remote.phase = "asked",
           toClient[1].cmd = "SERVERDL", toClient[1].bytes = {}
    PROVE  /\ toServer = << >> /\ Sending(cl, toClient, remote)
           /\ LET f == remote.file
                  end == Begins(f, remote.part) + Length(f, remote.part)
                  filepos == toClient[1].at
              IN  /\ remote.got = {f} \X (Begins(f, remote.part)..(filepos - 1))
                  /\ IF f \in Unreadable THEN filepos <= end ELSE filepos = end
<1>1. toClient \in Seq(ToClient) /\ 1 \in 1..Len(toClient) /\ Len(toClient) \in Nat
  BY InvFacts, TailTyped
<1>2. ~Calm(remote.file, cl, toClient, 0)
  <2>1. 1 \in (0 + 1)..Len(toClient)
    BY <1>1
  <2> QED
    BY <2>1 DEF Calm
<1>3. toServer = << >> /\ Sending(cl, toClient, remote)
  <2>1. AskedOK(cl, toClient, toServer, remote)
    BY InvFacts DEF PhaseOK
  <2> QED
    BY <1>2, <2>1 DEF AskedOK
<1>4. /\ cl.downloadBeginOffset = Begins(remote.file, remote.part)
      /\ cl.downloadNumBytes = Length(remote.file, remote.part)
      /\ toClient[1].at = cl.downloadCount
      /\ cl.downloadCount <= cl.downloadBeginOffset + cl.downloadNumBytes
      /\ remote.file \in Unreadable
            \/ cl.downloadCount = cl.downloadBeginOffset + cl.downloadNumBytes
      /\ \A j \in (1 + 1)..Len(toClient) : toClient[j].cmd # "SERVERDL"
      /\ remote.got \cup Coming(toClient) =
            {remote.file} \X (cl.downloadBeginOffset..(cl.downloadCount - 1))
  BY <1>1, <1>3 DEF Sending
<1>5. Coming(toClient) = {}
  <2>1. \A i \in 1..Len(toClient) : i = 1 \/ i \in (1 + 1)..Len(toClient)
    BY <1>1
  <2>2. {toClient[1].file} \X toClient[1].bytes = {}
    OBVIOUS
  <2>3. \A i \in 1..Len(toClient) : toClient[i].cmd = "SERVERDL" =>
            {toClient[i].file} \X toClient[i].bytes = {}
    BY <1>4, <2>1, <2>2
  <2> QED
    BY <2>3 DEF Coming
<1>6. remote.got = {remote.file} \X (cl.downloadBeginOffset..(cl.downloadCount - 1))
  BY <1>4, <1>5
<1> QED
  BY <1>3, <1>4, <1>6

LEMMA ReceivedTyped ==
    ASSUME NEW r \in RemoteSet, NEW p \in Phase, NEW n \in 1..MaxLevel,
           NEW g \in SUBSET (File \X (0..(Largest - 1)))
    PROVE  /\ [r EXCEPT !.level = n] \in RemoteSet
           /\ [r EXCEPT !.phase = p] \in RemoteSet
           /\ [r EXCEPT !.phase = p, !.got = {}] \in RemoteSet
           /\ [r EXCEPT !.got = g] \in RemoteSet
<1>1. n \in 0..MaxLevel
  BY FileAssumption
<1> QED
  BY <1>1 DEF RemoteSet

LEMMA ReceiveInv ==
    ASSUME Inv, ClientReceive
    PROVE  Inv'
<1> DEFINE m == toClient[1]
           t == Tail(toClient)
           r == remote
           mine == m.cmd \in {"FILEINIT", "FAIL", "WWWRD"} /\ m.file = r.file
<1>1. /\ toClient # << >> /\ toClient' = t /\ UNCHANGED <<cl, level, toServer>>
  BY DEF ClientReceive
<1>2. /\ toClient \in Seq(ToClient) /\ t \in Seq(ToClient) /\ m \in ToClient
      /\ 1 \in 1..Len(toClient)
  BY <1>1, InvFacts, TailTyped
<1>3. r \in RemoteSet /\ (r.phase # "idle" => r.file \in File /\ r.file # NoFile)
  BY InvFacts, FileAssumption
<1>4. \A f : Quiet(f, cl, toClient, toServer) => Quiet(f, cl, t, toServer)
  BY <1>1, <1>2, QuietTail
\* What remains to be shown of each message
<1>5. ASSUME remote' \in RemoteSet, remote'.phase # "idle" => remote'.file # NoFile,
             remote'.phase = "redirected" => r.phase = "redirected" \/ m.cmd = "WWWRD",
             PhaseOK(cl, t, toServer, remote')
      PROVE  Inv'
  <2>1. RedirectOK(cl, t, toServer, remote')
    BY <1>1, <1>2, <1>5, InvFacts, RedirectReceived
  <2>2. Typed'
    BY <1>1, <1>2, <1>5, InvFacts, TypedClient
  <2> HIDE DEF t
  <2> QED
    BY <1>1, <1>5, <2>1, <2>2, InvFacts DEF Inv
<1>6. CASE m.cmd = "gamestate" /\ remote' = [r EXCEPT !.level = m.level]
  <2>1. m.level \in 1..MaxLevel /\ r.phase \in Phase /\ r.got \in SUBSET (File \X (0..(Largest - 1)))
    BY <1>2, <1>3, <1>6, ToClientFacts DEF RemoteSet
  <2>2. /\ remote' \in RemoteSet /\ remote'.phase = r.phase /\ remote'.file = r.file
        /\ remote'.part = r.part /\ remote'.stopped = r.stopped /\ remote'.got = r.got
    <3>1. remote' \in RemoteSet
      BY <1>3, <1>6, <2>1, ReceivedTyped
    <3> QED
      BY <1>3, <1>6, <3>1 DEF RemoteSet
  <2>3. ~Answers(m, r.file) /\ m.cmd # "SERVERDL"
    BY <1>6 DEF Answers
  <2>4. PhaseOK(cl, t, toServer, remote')
    BY <1>1, <1>2, <2>2, <2>3, InvFacts, OtherPhase
  <2> QED
    BY <1>3, <1>5, <2>2, <2>4
<1>7. CASE /\ m.cmd = "FILEINIT" /\ mine /\ r.phase \in {"begun", "init", "asked"}
           /\ remote' = [r EXCEPT !.phase = "init", !.got = {}]
  <2>1. Answers(m, r.file)
    BY <1>7 DEF Answers
  <2>2. r.phase = "begun"
    BY <1>1, <1>7, <2>1, Unanswered
  <2>3. /\ toServer = << >> /\ NoAnswer(r.file, t) /\ ~Opening(cl)
        /\ Calm(r.file, cl, t, 0)
    BY <1>1, <1>7, <2>1, <2>2, Answered
  <2>4. /\ remote' \in RemoteSet /\ remote'.phase = "init" /\ remote'.file = r.file
        /\ remote'.stopped = r.stopped
    BY <1>3, <1>7 DEF RemoteSet, Phase
  <2>5. Quiet(r.file, cl, t, toServer)
    BY <2>3 DEF Quiet, Void
  <2>6. \A f \in File \ r.stopped : f # r.file => Quiet(f, cl, t, toServer)
    BY <1>4, InvFacts DEF PhaseOK
  <2>7. r.file \notin r.stopped
    BY <2>2, InvFacts DEF PhaseOK
  <2> HIDE DEF t
  <2>8. PhaseOK(cl, t, toServer, remote')
    BY <2>3, <2>4, <2>5, <2>6, <2>7 DEF PhaseOK
  <2> QED
    BY <1>3, <1>5, <2>2, <2>4, <2>8
<1>8. CASE /\ m.cmd = "FAIL" /\ mine /\ r.phase = "begun"
           /\ remote' = [r EXCEPT !.phase = "idle"]
  <2>1. Answers(m, r.file)
    BY <1>8 DEF Answers
  <2>2. toServer = << >> /\ NoAnswer(r.file, t) /\ ~Opening(cl)
    BY <1>1, <1>8, <2>1, Answered
  <2>3. /\ remote' \in RemoteSet /\ remote'.phase = "idle" /\ remote'.stopped = r.stopped
    BY <1>3, <1>8 DEF RemoteSet, Phase
  <2>4. Quiet(r.file, cl, t, toServer)
    BY <2>2 DEF Quiet, Void
  <2>5. \A f \in File \ r.stopped : f # r.file => Quiet(f, cl, t, toServer)
    BY <1>4, InvFacts DEF PhaseOK
  <2> HIDE DEF t
  <2>6. PhaseOK(cl, t, toServer, remote')
    BY <2>3, <2>4, <2>5 DEF PhaseOK
  <2> QED
    BY <1>5, <2>3, <2>6
<1>9. CASE /\ m.cmd = "WWWRD" /\ mine /\ r.phase \in {"begun", "init", "asked"}
           /\ remote' = [r EXCEPT !.phase = "redirected", !.got = {}]
  <2>1. /\ remote' \in RemoteSet /\ remote'.phase = "redirected" /\ remote'.file = r.file
        /\ remote'.stopped = r.stopped
    BY <1>3, <1>9 DEF RemoteSet, Phase
  <2>2. \A i \in (1 + 1)..Len(toClient) : toClient[i].cmd \notin {"FILEINIT", "FAIL", "WWWRD"}
    BY <1>2, <1>9, InvFacts DEF RedirectOK
  <2>3. NoAnswer(r.file, t)
    <3>1. ASSUME NEW k \in 1..Len(t)
          PROVE  ~Answers(t[k], r.file)
      <4>1. k + 1 \in 2..Len(toClient) /\ t[k] = toClient[k + 1] /\ 1 + 1 = 2
        BY <1>1, <1>2, TailTyped
      <4>2. t[k].cmd \notin {"FILEINIT", "FAIL"}
        BY <2>2, <4>1
      <4> QED
        BY <4>2 DEF Answers
    <3> QED
      BY <3>1 DEF NoAnswer
  <2>4. \A f \in File \ r.stopped : f # r.file => Quiet(f, cl, t, toServer)
    BY <1>4, InvFacts DEF PhaseOK
  <2>5. r.file \notin r.stopped
    BY <1>9, InvFacts DEF PhaseOK
  <2> HIDE DEF t
  <2>6. PhaseOK(cl, t, toServer, remote')
    BY <2>1, <2>3, <2>4, <2>5 DEF PhaseOK
  <2> QED
    BY <1>3, <1>5, <1>9, <2>1, <2>6
<1>10. CASE /\ m.cmd = "SERVERDL" /\ r.phase = "asked" /\ m.bytes # {}
            /\ remote' = [r EXCEPT !.got = r.got \cup ({m.file} \X m.bytes)]
  <2> DEFINE g == r.got \cup ({m.file} \X m.bytes)
  <2>1. g \in SUBSET (File \X (0..(Largest - 1)))
    <3>1. m.file \in File /\ m.bytes \in SUBSET (0..(Largest - 1))
      BY <1>2, <1>10, ToClientFacts
    <3>2. r.got \in SUBSET (File \X (0..(Largest - 1)))
      BY <1>3 DEF RemoteSet
    <3> QED
      BY <3>1, <3>2
  <2>2. remote' = [r EXCEPT !.got = g]
    BY <1>10
  <2> HIDE DEF g
  <2>3. /\ remote' \in RemoteSet /\ remote'.phase = r.phase /\ remote'.file = r.file
        /\ remote'.part = r.part /\ remote'.stopped = r.stopped /\ remote'.got = g
    BY <1>3, <2>1, <2>2 DEF RemoteSet
  <2>4. PhaseOK(cl, t, toServer, remote')
    BY <1>1, <1>2, <1>10, <2>3, InvFacts, OtherPhase DEF g
  <2> QED
    BY <1>3, <1>5, <2>3, <2>4
<1>11. CASE /\ m.cmd = "SERVERDL" /\ r.phase = "asked" /\ m.bytes = {}
            /\ remote' = [r EXCEPT !.phase = "init"]
  <2>1. /\ remote' \in RemoteSet /\ remote'.phase = "init" /\ remote'.file = r.file
        /\ remote'.stopped = r.stopped
    BY <1>3, <1>11 DEF RemoteSet, Phase
  <2>2. toServer = << >> /\ Sending(cl, toClient, r)
    BY <1>1, <1>11, LastBlock
  <2>3. Calm(r.file, cl, t, 0)
    <3>1. /\ cl.download = r.file /\ cl.downloadEOF
          /\ \A j \in (1 + 1)..Len(toClient) : toClient[j].cmd # "SERVERDL"
      BY <1>2, <1>11, <2>2 DEF Sending
    <3>2. Calm(r.file, cl, toClient, 1)
      BY <1>3, <1>11, <3>1 DEF Calm, Opening
    <3>3. Calm(r.file, cl, t, 1 - 1)
      BY <1>1, <1>2, <3>2, CalmTail
    <3>4. 1 - 1 = 0
      OBVIOUS
    <3> QED
      BY <3>3, <3>4
  <2>4. \A f \in File \ r.stopped : Quiet(f, cl, t, toServer)
    BY <1>4, <1>11, InvFacts DEF PhaseOK
  <2>5. r.file \notin r.stopped
    BY <1>11, InvFacts DEF PhaseOK
  <2> HIDE DEF t
  <2>6. PhaseOK(cl, t, toServer, remote')
    BY <2>1, <2>2, <2>3, <2>4, <2>5 DEF PhaseOK
  <2> QED
    BY <1>3, <1>5, <1>11, <2>1, <2>6
<1>12. CASE /\ ~(m.cmd = "FILEINIT" /\ mine /\ r.phase \in {"begun", "init", "asked"})
            /\ ~(m.cmd = "FAIL" /\ mine /\ r.phase = "begun")
            /\ ~(m.cmd = "SERVERDL" /\ r.phase = "asked")
            /\ remote' = r
  <2>1. r.phase = "begun" => ~Answers(m, r.file)
    BY <1>12 DEF Answers
  <2>2. PhaseOK(cl, t, toServer, remote')
    BY <1>1, <1>2, <1>12, <2>1, InvFacts, OtherPhase
  <2> QED
    BY <1>3, <1>5, <1>12, <2>2
<1> HIDE DEF t
<1> QED
  BY <1>6, <1>7, <1>8, <1>9, <1>10, <1>11, <1>12, Received

-----------------------------------------------------------------------------
(* The invariant of the specification, and what follows from it.           *)

LEMMA InitInv == Init => Inv
<1> SUFFICES ASSUME Init PROVE Inv
  OBVIOUS
<1>1. Largest \in Nat /\ Request # {} /\ MaxLevel \in Nat \ {0} /\ MaxDownloads \in Nat
  BY LargestFacts, FileAssumption
<1>2. cl \in Client /\ cl.downloadName = NoFile /\ cl.download = NoFile
  BY <1>1 DEF Init, Client, State
<1>3. Within(cl) /\ ~Opening(cl)
  BY <1>2, EndedWithin DEF Opening
<1>4. toClient = << >> /\ toServer = << >> /\ level = 1 /\ Len(<< >>) = 0
  BY DEF Init
<1>5. remote.phase = "idle" /\ remote \in RemoteSet
  <2>1. (CHOOSE part \in Request : TRUE) \in Request
    BY <1>1
  <2> QED
    BY <1>1, <2>1 DEF Init, RemoteSet, Phase
<1>6. Typed
  <2>1. level \in 1..MaxLevel
    BY <1>1, <1>4
  <2> QED
    BY <1>2, <1>3, <1>4, <1>5, <2>1 DEF Typed
<1>7. RedirectOK(cl, toClient, toServer, remote)
  BY <1>4, <1>5 DEF RedirectOK
<1>8. \A f : Quiet(f, cl, toClient, toServer)
  BY <1>3, <1>4 DEF Quiet, NoAnswer, Void
<1>9. PhaseOK(cl, toClient, toServer, remote)
  BY <1>5, <1>8 DEF PhaseOK
<1> QED
  BY <1>6, <1>7, <1>9 DEF Inv

LEMMA NextInv == Inv /\ [Next]_vars => Inv'
<1> SUFFICES ASSUME Inv, [Next]_vars PROVE Inv'
  OBVIOUS
<1>1. CASE WriteDownload
  BY <1>1, WriteInv
<1>2. CASE ExecuteDownloadCmd
  BY <1>2, ExecuteInv
<1>3. CASE PacketEvent
  BY <1>3, PacketInv
<1>4. CASE DropClient
  BY <1>4, DropInv DEF DropClient
<1>5. CASE SpawnServer
  BY <1>5, SpawnInv
<1>6. CASE \E f \in File : ClientBegin(f)
  BY <1>6, BeginSent
<1>7. CASE \E part \in Request : ClientAsk(part)
  BY <1>7, AskSent
<1>8. CASE ClientHasFile
  BY <1>8, HasFileInv
<1>9. CASE ClientRedirectOver
  BY <1>9, ReportSent
<1>10. CASE ClientStop \/ ClientDone
  BY <1>10, StopSent
<1>11. CASE ClientReceive
  BY <1>11, ReceiveInv
<1>12. CASE UNCHANGED vars
  BY <1>12 DEF vars, Inv, Typed, Within
<1> QED
  BY <1>1, <1>2, <1>3, <1>4, <1>5, <1>6, <1>7, <1>8, <1>9, <1>10, <1>11, <1>12 DEF Next

\* The inductive invariant: at most one redirect is under way, the server
\* answers each BEGINDOWNLOAD once, and what is on its way to a client that
\* asked for a part is that part
THEOREM Invariant == Spec => []Inv
BY InitInv, NextInv, PTL DEF Spec

\* Type correctness: offsets stay within the file that is open, so that no
\* block runs over its end (SV_WriteDownloadToClient)
THEOREM TypeCorrect == Spec => []TypeOK
<1>1. Inv /\ OneHandle => TypeOK
  <2> SUFFICES ASSUME Inv, OneHandle PROVE TypeOK
    OBVIOUS
  <2>1. handles \in Nat
    BY DEF OneHandle
  <2> QED
    BY <2>1 DEF Inv, Typed, RemoteSet, Within, TypeOK
<1> QED
  BY <1>1, Invariant, HandleIsClosed, PTL

\* Whenever the empty block ends a part, the client has the bytes of the part
\* it asked for up to the block's filepos and no others, and that is the whole
\* part if the file could be read, however downloads were begun, broken off,
\* redirected and cut short by the map's change or by a drop
\* (SV_SelectDownloadBlocksX_f, SV_WriteDownloadToClient)
THEOREM PartComplete == Spec => PartIsWhole
<1> DEFINE Part ==
             LET f == remote.file
                 end == Begins(f, remote.part) + Length(f, remote.part)
                 filepos == Head(toClient).at
             IN  /\ remote.got = {f} \X (Begins(f, remote.part)..(filepos - 1))
                 /\ IF f \in Unreadable THEN filepos <= end ELSE filepos = end
           Step == toClient # << >> /\ Head(toClient).cmd = "SERVERDL"
                   /\ remote.phase = "asked" /\ remote'.phase = "init" => Part
<1>1. Inv /\ [Next]_vars => [Step]_vars
  <2> SUFFICES ASSUME Inv, [Next]_vars, toClient # << >>, Head(toClient).cmd = "SERVERDL",
                      remote.phase = "asked", remote'.phase = "init"
               PROVE  Part
    OBVIOUS
  <2>1. Head(toClient) = toClient[1] /\ remote \in RemoteSet
    BY InvFacts, TailTyped
  <2>2. ClientReceive
    <3>1. remote' # remote
      OBVIOUS
    <3>2. CASE WriteDownload \/ ExecuteDownloadCmd \/ PacketEvent \/ DropClient \/ SpawnServer
      BY <3>1, <3>2 DEF WriteDownload, ExecuteDownloadCmd, PacketEvent, DropClient, SpawnServer
    <3>3. CASE ClientRedirectOver \/ ClientStop
      BY <2>1, <3>3 DEF ClientRedirectOver, ClientStop, RemoteSet
    <3> QED
      BY <3>1, <3>2, <3>3
         DEF Next, vars, ClientBegin, ClientAsk, ClientHasFile, ClientDone
  <2>3. toClient[1].bytes = {}
    <3>1. CASE /\ toClient[1].bytes # {}
               /\ remote' = [remote EXCEPT !.got = remote.got \cup
                                ({toClient[1].file} \X toClient[1].bytes)]
      BY <2>1, <3>1 DEF RemoteSet
    <3> QED
      BY <2>1, <2>2, <3>1, Received
  <2> QED
    BY <2>1, <2>3, LastBlock
<1>2. PartIsWhole <=> [][Step]_vars
  BY DEF PartIsWhole
<1> HIDE DEF Step
<1> QED
  BY <1>1, <1>2, Invariant, PTL DEF Spec

=============================================================================
