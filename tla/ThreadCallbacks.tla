--------------------------- MODULE ThreadCallbacks ---------------------------
(***************************************************************************)
(* Threads with a callback: the main thread starts a thread in a free slot *)
(* of a table, the thread may leave a callback in its slot and marks the   *)
(* slot when it ends, and once per frame the main thread runs the          *)
(* callbacks of the marked slots and frees them.                           *)
(*                                                                         *)
(* The code has two copies of this, sys_thread.c for the server itself and *)
(* plugin_exports.c for plugins, whose loops differ in one place.  Init    *)
(* chooses the copy.  The job is the one the server has: downloadmap, that *)
(* downloads a map and has a program executed when it was received.        *)
(*                                                                         *)
(* Nothing but downloadActive is protected by a lock, so the main loop     *)
(* reads and writes the slots in steps between which threads run.  The     *)
(* operating system stores the thread's identifier before the thread runs  *)
(* and gives the identifier of an ended thread to a new one.               *)
(***************************************************************************)
EXTENDS Integers, Sequences, FiniteSets, FiniteSetsExt

CONSTANTS
    MAX_CALLBACKS, \* the slots, 20 (8 per plugin)
    Tid,           \* the identifiers of threads
    MaxJobs        \* bound: downloadmap commands given

ASSUME SizeAssumption == MAX_CALLBACKS \in Nat \ {0} /\ MaxJobs \in Nat

ASSUME TidAssumption == 0 \notin Tid

VARIABLES
    copy,             \* the copy of the code: "sys" or "plugin"
    thread_callbacks, \* the slots
    threads,          \* the threads, by their identifier
    main,             \* where the main thread is
    downloadActive,   \* SV_DownloadMapThread's flag
    jobs,             \* commands given so far
    received,         \* the jobs whose map was received
    executed          \* the maps the program was executed for, in order

vars == <<copy, thread_callbacks, threads, main, downloadActive, jobs,
          received, executed>>

Index == 0..(MAX_CALLBACKS - 1)

\* A job is named by its number; 0 is NULL.
Slot == [threadMain : 0..MaxJobs, isActive : BOOLEAN, lock : BOOLEAN,
         callbackMain : BOOLEAN, callback_args : 0..MaxJobs, tid : Tid \cup {0}]

Empty == [threadMain |-> 0, isActive |-> FALSE, lock |-> FALSE,
          callbackMain |-> FALSE, callback_args |-> 0, tid |-> 0]

\* A thread knows its slot; "none" is not running, "stub" has not read its
\* slot yet, "crashed" has called a slot that was cleared under it.
Thread == [state : {"none", "stub", "main", "downloading", "received",
                    "returned", "crashed"},
           slot : Index, job : 0..MaxJobs]

None == [state |-> "none", slot |-> 0, job |-> 0]

Crashed == \E t \in Tid : threads[t].state = "crashed"

\* A step of the main thread, or of a thread; a crash ends the program.
MainIs(at) == main.at = at /\ ~Crashed
ThreadIs(t, state) == threads[t].state = state /\ ~Crashed

Init ==
    /\ copy \in {"sys", "plugin"}
    /\ thread_callbacks = [s \in Index |-> Empty]
    /\ threads = [t \in Tid |-> None]
    /\ main = [at |-> "frame", i |-> 0]
    /\ downloadActive = FALSE
    /\ jobs = 0
    /\ received = {}
    /\ executed = <<>>

-----------------------------------------------------------------------------
(* The main thread *)

Free == {s \in Index : thread_callbacks[s].threadMain = 0}

\* Sys_CreateCallbackThread: the first free slot is taken and the thread is
\* created, or the system refuses it.
CreateCallbackThread ==
    LET tcb == Min(Free)
        set == [thread_callbacks[tcb] EXCEPT !.lock = TRUE, !.isActive = FALSE,
                   !.threadMain = jobs + 1, !.callbackMain = FALSE]
    IN  /\ MainIs("frame")
        /\ jobs < MaxJobs
        /\ Free # {}
        /\ jobs' = jobs + 1
        /\ \/ \E t \in Tid :
                 /\ threads[t] = None
                 /\ threads' = [threads EXCEPT
                       ![t] = [state |-> "stub", slot |-> tcb, job |-> jobs + 1]]
                 /\ thread_callbacks' = [thread_callbacks EXCEPT
                       ![tcb] = [set EXCEPT !.tid = t]]
           \/ /\ thread_callbacks' = [thread_callbacks EXCEPT
                    ![tcb] = [set EXCEPT !.isActive = TRUE]]
              /\ UNCHANGED threads
        /\ UNCHANGED <<copy, main, downloadActive, received, executed>>

\* "Couldn't create a callback-thread. Max handles exceeded"
RefuseCallbackThread ==
    /\ MainIs("frame")
    /\ jobs < MaxJobs
    /\ Free = {}
    /\ jobs' = jobs + 1
    /\ UNCHANGED <<copy, thread_callbacks, threads, main, downloadActive,
                   received, executed>>

\* Com_Frame gets to Sys_RunThreadCallbacks.
RunThreadCallbacks ==
    /\ MainIs("frame")
    /\ main' = [at |-> "check", i |-> 0]
    /\ UNCHANGED <<copy, thread_callbacks, threads, downloadActive, jobs,
                   received, executed>>

\* tcb stays at the first slot whatever i is; sys_thread.c uses the slot i
\* for the callback and for what is cleared.
Completed(i) == IF copy = "plugin" THEN 0 ELSE i

\* Mutant of Ready: the thread need not have ended.
ReadyLocked(tcb) == thread_callbacks[tcb].lock

Ready(tcb) == thread_callbacks[tcb].lock /\ thread_callbacks[tcb].isActive

NextSlot(i) ==
    IF i = MAX_CALLBACKS - 1 THEN [at |-> "frame", i |-> 0]
                             ELSE [at |-> "check", i |-> i + 1]

CheckSlot ==
    /\ MainIs("check")
    /\ ~Ready(0)
    /\ main' = NextSlot(main.i)
    /\ UNCHANGED <<copy, thread_callbacks, threads, downloadActive, jobs,
                   received, executed>>

CallBack ==
    /\ MainIs("check")
    /\ Ready(0)
    /\ main' = [main EXCEPT !.at = "clear"]
    /\ executed' = IF thread_callbacks[Completed(main.i)].callbackMain
                   THEN Append(executed, thread_callbacks[0].callback_args)
                   ELSE executed
    /\ UNCHANGED <<copy, thread_callbacks, threads, downloadActive, jobs, received>>

\* Mutant of ClearSlot: the slot keeps its callback.
ClearNothing ==
    /\ MainIs("clear")
    /\ main' = NextSlot(main.i)
    /\ UNCHANGED <<copy, thread_callbacks, threads, downloadActive, jobs,
                   received, executed>>

ClearSlot ==
    /\ MainIs("clear")
    /\ main' = NextSlot(main.i)
    /\ thread_callbacks' = [thread_callbacks EXCEPT ![Completed(main.i)] = Empty]
    /\ UNCHANGED <<copy, threads, downloadActive, jobs, received, executed>>

-----------------------------------------------------------------------------
(* A thread *)

Goes(t, state) == threads' = [threads EXCEPT ![t].state = state]

\* Sys_CbThreadStub calls the function in its slot.
EnterThread(t) ==
    /\ ThreadIs(t, "stub")
    /\ IF thread_callbacks[threads[t].slot].threadMain = 0
       THEN Goes(t, "crashed")
       ELSE Goes(t, "main")
    /\ UNCHANGED <<copy, thread_callbacks, main, downloadActive, jobs,
                   received, executed>>

\* Mutant of BeginDownload: the flag is set and not looked at.
BeginAnyDownload(t) ==
    /\ ThreadIs(t, "main")
    /\ downloadActive' = TRUE
    /\ Goes(t, "downloading")
    /\ UNCHANGED <<copy, thread_callbacks, main, jobs, received, executed>>

\* SV_DownloadMapThread, in the critical section: one download at a time.
BeginDownload(t) ==
    /\ ThreadIs(t, "main")
    /\ ~downloadActive
    /\ downloadActive' = TRUE
    /\ Goes(t, "downloading")
    /\ UNCHANGED <<copy, thread_callbacks, main, jobs, received, executed>>

RefuseDownload(t) ==
    /\ ThreadIs(t, "main")
    /\ downloadActive
    /\ Goes(t, "returned")
    /\ UNCHANGED <<copy, thread_callbacks, main, downloadActive, jobs,
                   received, executed>>

AbortDownload(t) ==
    /\ ThreadIs(t, "downloading")
    /\ downloadActive' = FALSE
    /\ Goes(t, "returned")
    /\ UNCHANGED <<copy, thread_callbacks, main, jobs, received, executed>>

ReceiveMap(t) ==
    /\ ThreadIs(t, "downloading")
    /\ downloadActive' = FALSE
    /\ received' = received \cup {threads[t].job}
    /\ Goes(t, "received")
    /\ UNCHANGED <<copy, thread_callbacks, main, jobs, executed>>

\* Mutant of SetupThreadCallback: a thread without a slot writes behind the
\* last one.
SetupBehindLast(t) ==
    LET found == {s \in Index : thread_callbacks[s].tid = t}
        tcb == IF found = {} THEN MAX_CALLBACKS ELSE Min(found)
    IN  /\ ThreadIs(t, "received")
        /\ Goes(t, "returned")
        /\ thread_callbacks' =
              [s \in Index \cup {tcb} |->
                  IF s = tcb
                  THEN [(IF s \in Index THEN thread_callbacks[s] ELSE Empty) EXCEPT
                           !.callbackMain = TRUE, !.callback_args = threads[t].job]
                  ELSE thread_callbacks[s]]
        /\ UNCHANGED <<copy, main, downloadActive, jobs, received, executed>>

\* Sys_SetupThreadCallback: the callback goes into the first slot that has
\* the identifier of this thread.
SetupThreadCallback(t) ==
    LET found == {s \in Index : thread_callbacks[s].tid = t}
    IN  /\ ThreadIs(t, "received")
        /\ Goes(t, "returned")
        /\ thread_callbacks' =
              IF found = {}
              THEN thread_callbacks
              ELSE [thread_callbacks EXCEPT
                      ![Min(found)].callbackMain = TRUE,
                      ![Min(found)].callback_args = threads[t].job]
        /\ UNCHANGED <<copy, main, downloadActive, jobs, received, executed>>

\* Mutant of LeaveThread: the slot is not marked.
LeaveUnmarked(t) ==
    /\ ThreadIs(t, "returned")
    /\ threads' = [threads EXCEPT ![t] = None]
    /\ UNCHANGED <<copy, thread_callbacks, main, downloadActive, jobs, received,
                   executed>>

\* The stub marks its slot, and the thread is gone.
LeaveThread(t) ==
    /\ ThreadIs(t, "returned")
    /\ threads' = [threads EXCEPT ![t] = None]
    /\ thread_callbacks' = [thread_callbacks EXCEPT
                              ![threads[t].slot].isActive = TRUE]
    /\ UNCHANGED <<copy, main, downloadActive, jobs, received, executed>>

-----------------------------------------------------------------------------
MainStep ==
    \/ CreateCallbackThread \/ RefuseCallbackThread \/ RunThreadCallbacks
    \/ CheckSlot \/ CallBack \/ ClearSlot

ThreadStep(t) ==
    \/ EnterThread(t)
    \/ BeginDownload(t) \/ RefuseDownload(t) \/ AbortDownload(t) \/ ReceiveMap(t)
    \/ SetupThreadCallback(t)
    \/ LeaveThread(t)

Next == MainStep \/ \E t \in Tid : ThreadStep(t)

Spec == Init /\ [][Next]_vars

\* The main loop runs frames for ever, and the system schedules every
\* thread; a download succeeds or fails in the end (it has a timeout).
Fairness ==
    /\ WF_vars(RunThreadCallbacks \/ CheckSlot \/ CallBack \/ ClearSlot)
    /\ \A t \in Tid : WF_vars(ThreadStep(t))

FairSpec == Spec /\ Fairness

-----------------------------------------------------------------------------
(* Properties *)

\* The state has the shape of thread_callback_t, of the threads and the loop.
TypeOK ==
    /\ thread_callbacks \in [Index -> Slot]
    /\ threads \in [Tid -> Thread]
    /\ main \in [at : {"frame", "check", "clear"}, i : Index]
    /\ downloadActive \in BOOLEAN
    /\ received \subseteq 1..jobs
    /\ \A k \in 1..Len(executed) : executed[k] \in 0..jobs

\* SV_DownloadMapThread's flag lets one thread download at a time, and it is
\* set for no longer than that.
OneDownload ==
    /\ Cardinality({t \in Tid : threads[t].state = "downloading"}) <= 1
    /\ downloadActive => \E t \in Tid : threads[t].state = "downloading"

\* The first slot belongs to its thread until that has ended: no other job
\* is put there and the main loop does not clear it.
FirstSlotIsKept ==
    \A t \in Tid :
        threads[t].state # "none" /\ threads[t].slot = 0 =>
            /\ thread_callbacks[0].threadMain = threads[t].job
            /\ thread_callbacks[0].tid = t
            /\ ~thread_callbacks[0].isActive

\* In the plugins' copy a callback is run at most once, and only for a job
\* that asked for it.  (It may run before its thread has ended: an ended
\* thread's slot that still waits may have the same identifier.)
CalledBackOnce ==
    copy = "plugin" =>
        \A k \in 1..Len(executed) :
            /\ executed[k] \in received
            /\ \A m \in 1..(k - 1) : executed[m] # executed[k]

Executed(j) == \E k \in 1..Len(executed) : executed[k] = j

\* Another thread has the identifier of the ended one the first slot waits
\* for, and is about to look for its slot.
Mistaken ==
    \E t \in Tid : /\ threads[t].state = "received" /\ threads[t].slot # 0
                  /\ thread_callbacks[0].tid = t

\* A map received by the thread of the first slot is executed, unless an
\* identifier used again made another thread take that slot for its own.
FirstSlotCompletes ==
    \A j \in 1..MaxJobs :
        (\E t \in Tid : /\ threads[t].state = "received" /\ threads[t].job = j
                       /\ threads[t].slot = 0)
            ~> (Executed(j) \/ Mistaken \/ Crashed)

\* sv_main.c:3056: the program "will be executed when a downloaded map was
\* received", whatever slot the thread had.
ReceivedMapIsExecuted ==
    \A j \in 1..MaxJobs : (j \in received) ~> (Executed(j) \/ Crashed)

=============================================================================
