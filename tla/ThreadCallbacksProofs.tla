------------------------- MODULE ThreadCallbacksProofs -------------------------
(***************************************************************************)
(* The safety of the callback table, for any number of slots, threads and  *)
(* jobs, in both copies of the code.                                       *)
(*                                                                         *)
(* FirstSlotIsKept rests on two facts of the code around it: a job has a   *)
(* number, so that the slot of a thread is not free, and the main loop     *)
(* clears the first slot only after it saw it marked, which stays so until *)
(* it is cleared (ClearsMarked).  CalledBackOnce rests on where a job is   *)
(* while its callback is not run: with its thread, or in the first slot    *)
(* and not yet run (OnceInv).                                              *)
(***************************************************************************)
EXTENDS ThreadCallbacks, FiniteSetTheorems, SequenceTheorems, WellFoundedInduction,
        TLAPS

Live(t) == threads[t].state # "none"

\* The thread has not left its callback yet
Before(t) == threads[t].state \in {"stub", "main", "downloading", "received"}

\* The state has its types
ShapeInv ==
    /\ thread_callbacks \in [Index -> Slot]
    /\ threads \in [Tid -> Thread]
    /\ main \in [at : {"frame", "check", "clear"}, i : Index]
    /\ downloadActive \in BOOLEAN
    /\ jobs \in 0..MaxJobs
    /\ received \subseteq 1..jobs
    /\ executed \in Seq(0..MaxJobs)

\* Numbers of jobs are those of commands given, and threads have different ones
JobsInv ==
    /\ \A t \in Tid : Live(t) => threads[t].job \in 1..jobs
    /\ \A t, u \in Tid : Live(t) /\ Live(u) /\ threads[t].job = threads[u].job => t = u
    /\ \A s \in Index : thread_callbacks[s].callback_args <= jobs
    /\ \A k \in 1..Len(executed) : executed[k] <= jobs

\* Callbacks are those of maps received
ReceivedInv ==
    /\ \A t \in Tid : threads[t].state = "received" => threads[t].job \in received
    /\ \A s \in Index : thread_callbacks[s].callbackMain =>
                            thread_callbacks[s].callback_args \in received

ClearsMarked == main.at = "clear" => thread_callbacks[0].isActive

DownloadInv ==
    /\ downloadActive <=> \E t \in Tid : threads[t].state = "downloading"
    /\ \A t, u \in Tid :
           threads[t].state = "downloading" /\ threads[u].state = "downloading" => t = u

OnceInv ==
    copy = "plugin" =>
        /\ CalledBackOnce
        /\ \A t \in Tid : Before(t) =>
               /\ ~Executed(threads[t].job)
               /\ thread_callbacks[0].callbackMain =>
                      thread_callbacks[0].callback_args # threads[t].job
        /\ main.at # "clear" /\ thread_callbacks[0].callbackMain =>
               ~Executed(thread_callbacks[0].callback_args)

TableInv ==
    /\ ShapeInv /\ JobsInv /\ ReceivedInv /\ ClearsMarked /\ DownloadInv
    /\ FirstSlotIsKept /\ OnceInv

-----------------------------------------------------------------------------
\* Sets of slots

\* A set of naturals has a least element, and Min is that
LEMMA MinIsLeast ==
    ASSUME NEW S \in SUBSET Nat, S # {}
    PROVE  Min(S) \in S
<1> DEFINE R == {ss \in Nat \X Nat : ss[1] < ss[2]}
<1>1. IsWellFoundedOn(R, Nat)
  BY NatLessThanWellFounded DEF OpToRel
<1>2. PICK x \in S : \A y \in S : ~(<<y, x>> \in R)
  <2> HIDE DEF R
  <2> QED
    BY <1>1, WFMin
<1>3. \A y \in S : x <= y
  <2> TAKE y \in S
  <2>1. x \in Nat /\ y \in Nat /\ <<y, x>> \in Nat \X Nat
    OBVIOUS
  <2>2. <<y, x>> \notin R => ~(y < x)
    BY <2>1
  <2> QED
    BY <1>2, <2>1, <2>2
<1> QED
  BY <1>3 DEF Min

LEMMA IndexInNat == Index \subseteq Nat /\ 0 \in Index
BY SizeAssumption DEF Index

LEMMA EmptySlot ==
    /\ Empty \in Slot /\ ~Empty.isActive /\ ~Empty.callbackMain
    /\ Empty.callback_args = 0 /\ Empty.threadMain = 0
BY SizeAssumption DEF Empty, Slot

LEMMA NoThread == None \in Thread /\ None.state = "none"
BY SizeAssumption, IndexInNat DEF None, Thread

LEMMA NextSlotShape ==
    ASSUME NEW i \in Index
    PROVE  /\ NextSlot(i) \in [at : {"frame", "check", "clear"}, i : Index]
           /\ NextSlot(i).at # "clear"
BY SizeAssumption, IndexInNat DEF NextSlot, Index

LEMMA CompletedShape == ASSUME NEW i \in Index PROVE Completed(i) \in Index
BY IndexInNat DEF Completed

-----------------------------------------------------------------------------

LEMMA InitTable == Init => TableInv
<1> SUFFICES ASSUME Init PROVE TableInv
  OBVIOUS
<1>1. \A s \in Index : thread_callbacks[s] = Empty
  BY DEF Init
<1>2. \A t \in Tid : threads[t] = None
  BY DEF Init
<1>3. Len(executed) = 0
  BY DEF Init
<1>4. ShapeInv
  <2>1. thread_callbacks \in [Index -> Slot] /\ threads \in [Tid -> Thread]
    BY EmptySlot, NoThread DEF Init
  <2>2. main \in [at : {"frame", "check", "clear"}, i : Index]
    BY IndexInNat DEF Init
  <2>3. /\ downloadActive \in BOOLEAN /\ jobs \in 0..MaxJobs
        /\ received \subseteq 1..jobs
    <3>1. downloadActive = FALSE /\ jobs = 0 /\ received = {}
      BY DEF Init
    <3>2. 0 \in 0..MaxJobs
      BY SizeAssumption
    <3> QED
      BY <3>1, <3>2
  <2>4. executed \in Seq(0..MaxJobs)
    BY EmptySeq DEF Init
  <2> QED
    BY <2>1, <2>2, <2>3, <2>4 DEF ShapeInv
<1>5. JobsInv
  BY <1>1, <1>2, <1>3, EmptySlot, NoThread DEF Init, JobsInv, Live
<1>6. ReceivedInv /\ ClearsMarked /\ DownloadInv /\ FirstSlotIsKept
  BY <1>1, <1>2, EmptySlot, NoThread, IndexInNat
     DEF Init, ReceivedInv, ClearsMarked, DownloadInv, FirstSlotIsKept
<1>7. OnceInv
  BY <1>1, <1>2, <1>3, EmptySlot, NoThread, IndexInNat
     DEF OnceInv, CalledBackOnce, Before, Executed
<1> QED
  BY <1>4, <1>5, <1>6, <1>7 DEF TableInv

-----------------------------------------------------------------------------
\* The main thread

\* A job is given the first free slot; its number is new
LEMMA CreateTable ==
    ASSUME TableInv, CreateCallbackThread
    PROVE  TableInv'
<1> DEFINE tcb == Min(Free)
           set == [thread_callbacks[tcb] EXCEPT !.lock = TRUE, !.isActive = FALSE,
                      !.threadMain = jobs + 1, !.callbackMain = FALSE]
<1>1. tcb \in Index /\ thread_callbacks[tcb].threadMain = 0
  <2>1. Free \in SUBSET Nat /\ Free # {}
    BY IndexInNat DEF Free, CreateCallbackThread
  <2>2. tcb \in Free
    BY <2>1, MinIsLeast
  <2> QED
    BY <2>2 DEF Free
<1>2. /\ MainIs("frame") /\ jobs' = jobs + 1 /\ jobs + 1 \in 1..MaxJobs
      /\ jobs \in Nat
      /\ UNCHANGED <<copy, main, downloadActive, received, executed>>
  <2>1. /\ MainIs("frame") /\ jobs' = jobs + 1 /\ jobs < MaxJobs
        /\ UNCHANGED <<copy, main, downloadActive, received, executed>>
    BY DEF CreateCallbackThread
  <2>2. jobs \in 0..MaxJobs /\ MaxJobs \in Nat
    BY SizeAssumption DEF TableInv, ShapeInv
  <2> QED
    BY <2>1, <2>2
\* Jobs given so far stay so
<1>20. /\ \A s \in Index : /\ thread_callbacks[s].callback_args \in Int
                          /\ thread_callbacks[s].callback_args <= jobs + 1
       /\ \A k \in 1..Len(executed) : executed[k] <= jobs + 1
       /\ \A t \in Tid : Live(t) => /\ threads[t].job \in 1..(jobs + 1)
                                   /\ threads[t].job # jobs + 1
  <2>1. \A s \in Index : thread_callbacks[s].callback_args \in Int
    BY DEF TableInv, ShapeInv, Slot
  <2>2. \A k \in 1..Len(executed) : executed[k] \in Int
    <3>1. executed \in Seq(0..MaxJobs)
      BY DEF TableInv, ShapeInv
    <3>2. \A k \in 1..Len(executed) : executed[k] \in 0..MaxJobs
      BY <3>1, ElementOfSeq
    <3> QED
      BY <3>2
  <2>3. /\ \A s \in Index : thread_callbacks[s].callback_args <= jobs
        /\ \A k \in 1..Len(executed) : executed[k] <= jobs
        /\ \A t \in Tid : Live(t) => threads[t].job \in 1..jobs
    BY DEF TableInv, JobsInv
  <2> QED
    BY <1>2, <2>1, <2>2, <2>3
<1> HIDE DEF tcb
<1>3. /\ set \in Slot /\ set.threadMain = jobs + 1 /\ ~set.isActive
      /\ ~set.callbackMain /\ set.lock
      /\ set.callback_args = thread_callbacks[tcb].callback_args
  <2> DEFINE a == [thread_callbacks[tcb] EXCEPT !.lock = TRUE]
             b == [a EXCEPT !.isActive = FALSE]
             c == [b EXCEPT !.threadMain = jobs + 1]
             d == [c EXCEPT !.callbackMain = FALSE]
             args == thread_callbacks[tcb].callback_args
  <2>1. set = d
    OBVIOUS
  <2>2. thread_callbacks[tcb] \in Slot
    BY <1>1 DEF TableInv, ShapeInv
  <2>3. a \in Slot /\ a.lock /\ a.callback_args = args
    BY <2>2 DEF Slot
  <2> HIDE DEF a, args
  <2>4. b \in Slot /\ b.lock /\ b.callback_args = args /\ ~b.isActive
    BY <2>3 DEF Slot
  <2> HIDE DEF b
  <2>5. c \in Slot /\ c.lock /\ c.callback_args = args /\ ~c.isActive
        /\ c.threadMain = jobs + 1
    BY <1>2, <2>4 DEF Slot
  <2> HIDE DEF c
  <2>6. d \in Slot /\ d.lock /\ d.callback_args = args /\ ~d.isActive
        /\ d.threadMain = jobs + 1 /\ ~d.callbackMain
    BY <2>5 DEF Slot
  <2> HIDE DEF d
  <2> QED
    BY <2>1, <2>6 DEF args
<1> HIDE DEF set
\* No thread is in the slot if it is the first
<1>4. tcb = 0 => \A t \in Tid : ~(Live(t) /\ threads[t].slot = 0)
  BY <1>1 DEF TableInv, JobsInv, FirstSlotIsKept, Live
<1>5. CASE \E t \in Tid :
               /\ threads[t] = None
               /\ threads' = [threads EXCEPT
                     ![t] = [state |-> "stub", slot |-> tcb, job |-> jobs + 1]]
               /\ thread_callbacks' = [thread_callbacks EXCEPT
                     ![tcb] = [set EXCEPT !.tid = t]]
  <2>1. PICK t \in Tid :
               /\ threads[t] = None
               /\ threads' = [threads EXCEPT
                     ![t] = [state |-> "stub", slot |-> tcb, job |-> jobs + 1]]
               /\ thread_callbacks' = [thread_callbacks EXCEPT
                     ![tcb] = [set EXCEPT !.tid = t]]
    BY <1>5
  <2> DEFINE th == [state |-> "stub", slot |-> tcb, job |-> jobs + 1]
             x == [set EXCEPT !.tid = t]
  <2>2. th \in Thread /\ th.state = "stub" /\ th.slot = tcb /\ th.job = jobs + 1
    BY <1>1, <1>2 DEF Thread
  <2>3. /\ x \in Slot /\ x.threadMain = jobs + 1 /\ ~x.isActive /\ ~x.callbackMain
        /\ x.callback_args = thread_callbacks[tcb].callback_args /\ x.tid = t
    BY <1>3 DEF Slot
  <2>4. /\ threads' \in [Tid -> Thread] /\ threads'[t] = th
        /\ \A u \in Tid : u # t => threads'[u] = threads[u]
    BY <2>1, <2>2 DEF TableInv, ShapeInv
  <2> HIDE DEF th, x
  <2>5. /\ thread_callbacks' \in [Index -> Slot] /\ thread_callbacks'[tcb] = x
        /\ \A s \in Index : s # tcb => thread_callbacks'[s] = thread_callbacks[s]
    BY <1>1, <2>1, <2>3 DEF TableInv, ShapeInv, x
  <2>6. ShapeInv'
    BY <1>2, <2>4, <2>5 DEF TableInv, ShapeInv
  <2>7. JobsInv'
    <3>1. \A u \in Tid : threads'[u].state # "none" => u = t \/ Live(u)
      BY <2>4 DEF Live
    <3>2. \A s \in Index : thread_callbacks'[s].callback_args
                              = thread_callbacks[s].callback_args
      BY <2>3, <2>5
    <3>3. jobs + 1 \in 1..(jobs + 1)
      BY <1>2
    <3>4. ASSUME NEW u \in Tid, NEW v \in Tid, threads'[u].state # "none",
                 threads'[v].state # "none", threads'[u].job = threads'[v].job
          PROVE  u = v
      <4>1. ASSUME NEW w \in Tid, w # t, threads'[w].state # "none"
            PROVE  threads'[w].job # threads'[t].job
        BY <1>20, <2>2, <2>4, <3>1, <4>1
      <4>2. CASE u # t /\ v # t
        BY <2>4, <3>1, <3>4, <4>2 DEF TableInv, JobsInv
      <4>3. CASE u = t \/ v = t
        BY <3>4, <4>1, <4>3
      <4> QED
        BY <4>2, <4>3
    <3> QED
      BY <1>2, <1>20, <2>2, <2>4, <3>1, <3>2, <3>3, <3>4 DEF JobsInv, Live
  <2>8. ReceivedInv' /\ ClearsMarked'
    BY <1>1, <1>2, <2>2, <2>3, <2>4, <2>5
       DEF TableInv, ReceivedInv, ClearsMarked, MainIs
  <2>9. DownloadInv'
    BY <1>2, <2>1, <2>2, <2>4, NoThread DEF TableInv, DownloadInv
  <2>10. FirstSlotIsKept'
    BY <1>1, <1>4, <2>2, <2>3, <2>4, <2>5, IndexInNat DEF TableInv, FirstSlotIsKept, Live
  <2>11. OnceInv'
    <3>1. ~Executed(jobs + 1)
      BY <1>2 DEF TableInv, JobsInv, ShapeInv, Executed
    <3>2. \A s \in Index : thread_callbacks[s].callback_args # jobs + 1
      BY <1>2 DEF TableInv, JobsInv, ShapeInv, Slot
    <3> QED
      BY <1>1, <1>2, <2>2, <2>3, <2>4, <2>5, <3>1, <3>2, IndexInNat
         DEF TableInv, OnceInv, CalledBackOnce, Before, Executed, MainIs
  <2> QED
    BY <2>6, <2>7, <2>8, <2>9, <2>10, <2>11 DEF TableInv
<1>6. CASE /\ thread_callbacks' = [thread_callbacks EXCEPT
                  ![tcb] = [set EXCEPT !.isActive = TRUE]]
           /\ UNCHANGED threads
  <2> DEFINE x == [set EXCEPT !.isActive = TRUE]
  <2>1. /\ x \in Slot /\ x.isActive /\ ~x.callbackMain
        /\ x.callback_args = thread_callbacks[tcb].callback_args
    BY <1>3 DEF Slot
  <2> HIDE DEF x
  <2>2. /\ thread_callbacks' \in [Index -> Slot] /\ thread_callbacks'[tcb] = x
        /\ \A s \in Index : s # tcb => thread_callbacks'[s] = thread_callbacks[s]
    BY <1>1, <1>6, <2>1 DEF TableInv, ShapeInv, x
  <2>3. ShapeInv' /\ ClearsMarked'
    BY <1>2, <1>6, <2>2 DEF TableInv, ShapeInv, ClearsMarked, MainIs
  <2>4. JobsInv'
    <3>1. \A s \in Index : thread_callbacks'[s].callback_args
                              = thread_callbacks[s].callback_args
      BY <2>1, <2>2
    <3> QED
      BY <1>2, <1>6, <1>20, <3>1 DEF TableInv, JobsInv, Live
  <2>5. ReceivedInv' /\ DownloadInv'
    BY <1>2, <1>6, <2>1, <2>2 DEF TableInv, ReceivedInv, DownloadInv
  <2>6. FirstSlotIsKept'
    BY <1>1, <1>4, <1>6, <2>2, IndexInNat DEF TableInv, FirstSlotIsKept, Live
  <2>7. OnceInv'
    BY <1>1, <1>2, <1>6, <2>1, <2>2, IndexInNat
       DEF TableInv, OnceInv, CalledBackOnce, Before, Executed, MainIs
  <2> QED
    BY <2>3, <2>4, <2>5, <2>6, <2>7 DEF TableInv
<1> QED
  BY <1>5, <1>6 DEF CreateCallbackThread, tcb, set

\* The loop goes on, or a command is refused
LEMMA WaitTable ==
    ASSUME TableInv, RefuseCallbackThread \/ RunThreadCallbacks \/ CheckSlot
    PROVE  TableInv'
<1>1. /\ main'.at = "clear" => main.at = "clear"
      /\ main.at = "clear" => main'.at = "clear"
      /\ main' \in [at : {"frame", "check", "clear"}, i : Index]
  BY NextSlotShape, IndexInNat DEF RefuseCallbackThread, RunThreadCallbacks, CheckSlot, MainIs,
     TableInv, ShapeInv
<1>2. /\ jobs' \in Nat /\ jobs' <= MaxJobs /\ jobs <= jobs'
      /\ UNCHANGED <<copy, thread_callbacks, threads, downloadActive, received, executed>>
  BY SizeAssumption DEF RefuseCallbackThread, RunThreadCallbacks, CheckSlot, TableInv, ShapeInv
<1>3. ShapeInv'
  BY <1>1, <1>2 DEF TableInv, ShapeInv
<1>4. JobsInv'
  <2>1. jobs \in Nat /\ jobs' \in Nat /\ jobs <= jobs'
    BY <1>2 DEF TableInv, ShapeInv
  <2>2. \A s \in Index : thread_callbacks[s].callback_args \in Int
    BY DEF TableInv, ShapeInv, Slot
  <2>3. \A k \in 1..Len(executed) : executed[k] \in Int
    <3>1. executed \in Seq(0..MaxJobs)
      BY DEF TableInv, ShapeInv
    <3>2. \A k \in 1..Len(executed) : executed[k] \in 0..MaxJobs
      BY <3>1, ElementOfSeq
    <3> QED
      BY <3>2
  <2>4. /\ \A s \in Index : thread_callbacks[s].callback_args <= jobs'
        /\ \A k \in 1..Len(executed) : executed[k] <= jobs'
    BY <2>1, <2>2, <2>3 DEF TableInv, JobsInv
  <2>5. \A t \in Tid : Live(t) => threads[t].job \in 1..jobs'
    BY <2>1 DEF TableInv, JobsInv
  <2> QED
    BY <1>2, <2>4, <2>5 DEF TableInv, JobsInv, Live
<1>5. /\ ReceivedInv' /\ ClearsMarked' /\ DownloadInv' /\ FirstSlotIsKept'
  BY <1>1, <1>2 DEF TableInv, ReceivedInv, ClearsMarked, DownloadInv, FirstSlotIsKept
<1>6. OnceInv'
  BY <1>1, <1>2 DEF TableInv, OnceInv, CalledBackOnce, Before, Executed
<1> QED
  BY <1>3, <1>4, <1>5, <1>6 DEF TableInv

\* What running the callback of the first slot adds
LEMMA CallBackTable ==
    ASSUME TableInv, CallBack
    PROVE  TableInv'
<1> DEFINE args == thread_callbacks[0].callback_args
           runs == thread_callbacks[Completed(main.i)].callbackMain
<1>1. /\ MainIs("check") /\ thread_callbacks[0].isActive
      /\ UNCHANGED <<copy, thread_callbacks, threads, downloadActive, jobs, received>>
      /\ executed' = IF runs THEN Append(executed, args) ELSE executed
  BY DEF CallBack, Ready
<1>2. main'.at = "clear" /\ main' \in [at : {"frame", "check", "clear"}, i : Index]
  BY DEF CallBack, TableInv, ShapeInv
<1>3. args \in 0..MaxJobs /\ args <= jobs
  BY IndexInNat DEF TableInv, ShapeInv, JobsInv, Slot
<1> HIDE DEF args
<1>4. ShapeInv'
  <2>1. executed \in Seq(0..MaxJobs)
    BY DEF TableInv, ShapeInv
  <2>2. Append(executed, args) \in Seq(0..MaxJobs)
    BY <1>3, <2>1
  <2>3. executed' \in Seq(0..MaxJobs)
    BY <1>1, <2>1, <2>2 DEF args
  <2> QED
    BY <1>1, <1>2, <2>3 DEF TableInv, ShapeInv
<1>5. JobsInv'
  BY <1>1, <1>3 DEF TableInv, ShapeInv, JobsInv, Live
<1>6. /\ ReceivedInv' /\ ClearsMarked' /\ DownloadInv' /\ FirstSlotIsKept'
  BY <1>1 DEF TableInv, ReceivedInv, ClearsMarked, DownloadInv, FirstSlotIsKept
<1>7. OnceInv'
  <2> SUFFICES ASSUME copy = "plugin" PROVE OnceInv'
    BY <1>1 DEF OnceInv
  <2>1. runs = thread_callbacks[0].callbackMain
    BY DEF Completed
  <2>2. CASE ~runs
    BY <1>1, <1>2, <2>2 DEF TableInv, OnceInv, CalledBackOnce, Before, Executed
  <2>3. CASE runs
    <3>1. /\ args \in received /\ ~Executed(args)
          /\ \A t \in Tid : Before(t) => args # threads[t].job
      BY <1>1, <2>1, <2>3, IndexInNat DEF TableInv, ReceivedInv, OnceInv, MainIs, args
    <3>2. /\ Len(executed') = Len(executed) + 1 /\ Len(executed) \in Nat
          /\ \A k \in 1..Len(executed) : executed'[k] = executed[k]
          /\ executed'[Len(executed) + 1] = args
      BY <1>1, <1>3, <2>3 DEF TableInv, ShapeInv
    <3>3. CalledBackOnce'
      BY <1>1, <3>1, <3>2 DEF TableInv, OnceInv, CalledBackOnce, Executed
    <3>4. \A t \in Tid : Before(t) => ~Executed(threads[t].job)'
      BY <1>1, <3>1, <3>2 DEF TableInv, OnceInv, Executed
    <3> QED
      BY <1>1, <1>2, <3>3, <3>4 DEF TableInv, OnceInv, Before
  <2> QED
    BY <2>2, <2>3
<1> QED
  BY <1>4, <1>5, <1>6, <1>7 DEF TableInv

\* A slot is cleared: the first only when it is marked
LEMMA ClearTable ==
    ASSUME TableInv, ClearSlot
    PROVE  TableInv'
<1> DEFINE c == Completed(main.i)
<1>1. /\ main.at = "clear" /\ main' = NextSlot(main.i)
      /\ thread_callbacks' = [thread_callbacks EXCEPT ![c] = Empty]
      /\ UNCHANGED <<copy, threads, downloadActive, jobs, received, executed>>
  BY DEF ClearSlot, MainIs
<1>2. c \in Index /\ (copy = "plugin" => c = 0)
  BY CompletedShape DEF TableInv, ShapeInv, Completed
<1>3. /\ main'.at # "clear"
      /\ main' \in [at : {"frame", "check", "clear"}, i : Index]
  BY <1>1, NextSlotShape DEF TableInv, ShapeInv
<1> HIDE DEF c
<1>4. /\ thread_callbacks' \in [Index -> Slot] /\ thread_callbacks'[c] = Empty
      /\ \A s \in Index : s # c => thread_callbacks'[s] = thread_callbacks[s]
  BY <1>1, <1>2, EmptySlot DEF TableInv, ShapeInv
<1>5. ShapeInv' /\ ClearsMarked'
  BY <1>1, <1>3, <1>4 DEF TableInv, ShapeInv, ClearsMarked
<1>6. JobsInv'
  BY <1>1, <1>4, EmptySlot DEF TableInv, ShapeInv, JobsInv, Live
<1>7. ReceivedInv' /\ DownloadInv'
  BY <1>1, <1>4, EmptySlot DEF TableInv, ReceivedInv, DownloadInv
<1>8. FirstSlotIsKept'
  BY <1>1, <1>4, IndexInNat DEF TableInv, ClearsMarked, FirstSlotIsKept
<1>9. OnceInv'
  BY <1>1, <1>2, <1>4, EmptySlot DEF TableInv, OnceInv, CalledBackOnce, Before, Executed
<1> QED
  BY <1>5, <1>6, <1>7, <1>8, <1>9 DEF TableInv

-----------------------------------------------------------------------------
\* A thread

LEMMA GoesShape ==
    ASSUME threads \in [Tid -> Thread], NEW t \in Tid,
           NEW state \in {"main", "downloading", "received", "returned", "crashed"},
           Goes(t, state)
    PROVE  /\ threads' \in [Tid -> Thread]
           /\ threads'[t].state = state
           /\ \A u \in Tid : /\ threads'[u].slot = threads[u].slot
                             /\ threads'[u].job = threads[u].job
                             /\ u # t => threads'[u].state = threads[u].state
<1>1. threads' = [threads EXCEPT ![t] = [@ EXCEPT !.state = state]]
  BY DEF Goes
<1>2. /\ [threads[t] EXCEPT !.state = state] \in Thread
      /\ [threads[t] EXCEPT !.state = state].state = state
      /\ [threads[t] EXCEPT !.state = state].slot = threads[t].slot
      /\ [threads[t] EXCEPT !.state = state].job = threads[t].job
  BY DEF Thread
<1> QED
  BY <1>1, <1>2

\* A thread is called, or begins, is refused, ends or completes a download
LEMMA StateTable ==
    ASSUME TableInv, NEW t \in Tid,
           \/ EnterThread(t) \/ BeginDownload(t) \/ RefuseDownload(t)
           \/ AbortDownload(t) \/ ReceiveMap(t)
    PROVE  TableInv'
<1>1. PICK state \in {"main", "downloading", "received", "returned", "crashed"} :
          Goes(t, state)
  BY DEF EnterThread, BeginDownload, RefuseDownload, AbortDownload, ReceiveMap
<1>2. /\ threads' \in [Tid -> Thread]
      /\ threads'[t].state = state
      /\ \A u \in Tid : /\ threads'[u].slot = threads[u].slot
                        /\ threads'[u].job = threads[u].job
                        /\ u # t => threads'[u].state = threads[u].state
  BY <1>1, GoesShape DEF TableInv, ShapeInv
<1>3. /\ Before(t) /\ Live(t)
      /\ UNCHANGED <<copy, thread_callbacks, main, jobs, executed>>
  BY DEF EnterThread, BeginDownload, RefuseDownload, AbortDownload, ReceiveMap, ThreadIs,
     Before, Live
<1>4. \A u \in Tid : Live(u)' <=> Live(u)
  BY <1>2, <1>3 DEF Live
<1>5. \A u \in Tid : Before(u)' => Before(u)
  BY <1>2, <1>3 DEF Before
<1>6. /\ received' \subseteq 1..jobs /\ received \subseteq received'
      /\ threads'[t].state = "received" => threads[t].job \in received'
  BY <1>2, <1>3 DEF EnterThread, BeginDownload, RefuseDownload, AbortDownload, ReceiveMap,
     Goes, TableInv, ShapeInv, JobsInv, Thread, ThreadIs
<1>7. DownloadInv' /\ downloadActive' \in BOOLEAN
  <2>1. CASE EnterThread(t) \/ RefuseDownload(t)
    <3>1. /\ threads[t].state # "downloading" /\ state # "downloading"
          /\ UNCHANGED downloadActive
      <4>1. PICK to \in {"main", "crashed", "returned"} : Goes(t, to)
        BY <2>1 DEF EnterThread, RefuseDownload
      <4>2. threads'[t].state = to
        BY <4>1, GoesShape DEF TableInv, ShapeInv
      <4> QED
        BY <1>2, <2>1, <4>2 DEF EnterThread, RefuseDownload, ThreadIs
    <3> QED
      BY <1>2, <3>1 DEF TableInv, ShapeInv, DownloadInv
  <2>2. CASE BeginDownload(t)
    <3>1. state = "downloading" /\ downloadActive' /\ ~downloadActive
          /\ downloadActive' \in BOOLEAN
      BY <1>2, <2>2 DEF BeginDownload, Goes, TableInv, ShapeInv
    <3> QED
      BY <1>2, <3>1 DEF TableInv, DownloadInv
  <2>3. CASE AbortDownload(t) \/ ReceiveMap(t)
    <3>1. /\ threads[t].state = "downloading" /\ state # "downloading"
          /\ downloadActive' = FALSE
      <4>1. PICK to \in {"received", "returned"} : Goes(t, to)
        BY <2>3 DEF AbortDownload, ReceiveMap
      <4>2. threads'[t].state = to
        BY <4>1, GoesShape DEF TableInv, ShapeInv
      <4> QED
        BY <1>2, <2>3, <4>2 DEF AbortDownload, ReceiveMap, ThreadIs
    <3>2. \A u \in Tid : threads'[u].state # "downloading"
      BY <1>2, <3>1 DEF TableInv, DownloadInv
    <3>3. ~downloadActive'
      BY <3>1
    <3>4. DownloadInv'
      BY <3>2, <3>3 DEF DownloadInv
    <3> QED
      BY <3>1, <3>4
  <2> QED
    BY <2>1, <2>2, <2>3
<1>8. ShapeInv'
  BY <1>2, <1>3, <1>6, <1>7 DEF TableInv, ShapeInv
<1>9. JobsInv'
  BY <1>2, <1>3, <1>4 DEF TableInv, JobsInv
<1>10. ReceivedInv' /\ ClearsMarked'
  BY <1>2, <1>3, <1>6 DEF TableInv, ReceivedInv, ClearsMarked
<1>11. FirstSlotIsKept'
  BY <1>2, <1>3, <1>4 DEF TableInv, FirstSlotIsKept, Live
<1>12. OnceInv'
  BY <1>2, <1>3, <1>5, <1>6 DEF TableInv, OnceInv, CalledBackOnce, Executed
<1> QED
  BY <1>7, <1>8, <1>9, <1>10, <1>11, <1>12 DEF TableInv

\* A thread leaves its callback in the first slot with its identifier
LEMMA SetupTable ==
    ASSUME TableInv, NEW t \in Tid, SetupThreadCallback(t)
    PROVE  TableInv'
<1> DEFINE found == {s \in Index : thread_callbacks[s].tid = t}
           m == Min(found)
           job == threads[t].job
<1>1. /\ threads' \in [Tid -> Thread]
      /\ threads'[t].state = "returned"
      /\ \A u \in Tid : /\ threads'[u].slot = threads[u].slot
                        /\ threads'[u].job = threads[u].job
                        /\ u # t => threads'[u].state = threads[u].state
  BY GoesShape DEF TableInv, ShapeInv, SetupThreadCallback
<1>2. /\ threads[t].state = "received"
      /\ UNCHANGED <<copy, main, downloadActive, jobs, received, executed>>
  BY DEF SetupThreadCallback, ThreadIs
<1>3. job \in 1..jobs /\ job \in 0..MaxJobs /\ job \in received
  BY <1>2 DEF TableInv, ShapeInv, JobsInv, ReceivedInv, Live, Thread
<1>4. /\ thread_callbacks' \in [Index -> Slot]
      /\ \A s \in Index :
            /\ thread_callbacks'[s].threadMain = thread_callbacks[s].threadMain
            /\ thread_callbacks'[s].isActive = thread_callbacks[s].isActive
            /\ thread_callbacks'[s].tid = thread_callbacks[s].tid
            /\ \/ thread_callbacks'[s] = thread_callbacks[s]
               \/ thread_callbacks'[s].callback_args = job
  <2>1. CASE found = {}
    BY <2>1 DEF SetupThreadCallback, TableInv, ShapeInv
  <2>2. CASE found # {}
    <3> DEFINE x == [thread_callbacks[m] EXCEPT !.callbackMain = TRUE]
               y == [x EXCEPT !.callback_args = job]
    <3>1. found \in SUBSET Nat
      BY IndexInNat
    <3>2. m \in found
      BY <2>2, <3>1, MinIsLeast
    <3>3. m \in Index
      BY <3>2
    <3>4. thread_callbacks' = [thread_callbacks EXCEPT ![m].callbackMain = TRUE,
                                                       ![m].callback_args = job]
      BY <2>2 DEF SetupThreadCallback
    <3> HIDE DEF m, job, found
    <3>5. thread_callbacks' = [thread_callbacks EXCEPT ![m] = y]
      BY <3>3, <3>4 DEF TableInv, ShapeInv
    <3>6. /\ x \in Slot /\ x.threadMain = thread_callbacks[m].threadMain
          /\ x.isActive = thread_callbacks[m].isActive
          /\ x.tid = thread_callbacks[m].tid
      BY <3>3 DEF TableInv, ShapeInv, Slot
    <3> HIDE DEF x
    <3>7. /\ y \in Slot /\ y.threadMain = x.threadMain /\ y.isActive = x.isActive
          /\ y.tid = x.tid /\ y.callback_args = job
      BY <1>3, <3>6 DEF Slot
    <3> HIDE DEF y
    <3> QED
      BY <3>3, <3>5, <3>6, <3>7 DEF TableInv, ShapeInv
  <2> QED
    BY <2>1, <2>2
<1> HIDE DEF found, m, job
<1>5. \A u \in Tid : Before(u)' => Before(u) /\ u # t
  BY <1>1 DEF Before
<1>6. \A u \in Tid : Live(u)' <=> Live(u)
  BY <1>1, <1>2 DEF Live
<1>7. ShapeInv' /\ ClearsMarked'
  BY <1>1, <1>2, <1>4, IndexInNat DEF TableInv, ShapeInv, ClearsMarked
<1>8. JobsInv'
  BY <1>1, <1>2, <1>3, <1>4, <1>6 DEF TableInv, ShapeInv, JobsInv
<1>9. ReceivedInv'
  BY <1>1, <1>2, <1>3, <1>4 DEF TableInv, ReceivedInv
<1>10. DownloadInv'
  BY <1>1, <1>2 DEF TableInv, DownloadInv
<1>11. FirstSlotIsKept'
  BY <1>1, <1>2, <1>4, <1>6, IndexInNat DEF TableInv, FirstSlotIsKept, Live
<1>12. OnceInv'
  <2> SUFFICES ASSUME copy = "plugin" PROVE OnceInv'
    BY <1>2 DEF OnceInv
  <2>1. ~Executed(job) /\ Before(t)
    BY <1>2 DEF TableInv, OnceInv, Before, job
  <2>2. \A u \in Tid : Before(u) /\ u # t => threads[u].job # job
    BY <2>1 DEF TableInv, JobsInv, Before, Live, job
  <2> QED
    BY <1>1, <1>2, <1>4, <1>5, <2>1, <2>2, IndexInNat
       DEF TableInv, OnceInv, CalledBackOnce, Executed
<1> QED
  BY <1>7, <1>8, <1>9, <1>10, <1>11, <1>12 DEF TableInv

\* A thread marks its slot and is gone
LEMMA LeaveTable ==
    ASSUME TableInv, NEW t \in Tid, LeaveThread(t)
    PROVE  TableInv'
<1> DEFINE s == threads[t].slot
           x == [thread_callbacks[s] EXCEPT !.isActive = TRUE]
<1>1. /\ threads[t].state = "returned"
      /\ threads' = [threads EXCEPT ![t] = None]
      /\ thread_callbacks' = [thread_callbacks EXCEPT ![s].isActive = TRUE]
      /\ UNCHANGED <<copy, main, downloadActive, jobs, received, executed>>
  BY DEF LeaveThread, ThreadIs
<1>2. /\ threads' \in [Tid -> Thread] /\ threads'[t] = None
      /\ \A u \in Tid : u # t => threads'[u] = threads[u]
  BY <1>1, NoThread DEF TableInv, ShapeInv
<1>3. s \in Index
  BY DEF TableInv, ShapeInv, Thread
<1>4. /\ x \in Slot /\ x.isActive
      /\ x.threadMain = thread_callbacks[s].threadMain
      /\ x.callbackMain = thread_callbacks[s].callbackMain
      /\ x.callback_args = thread_callbacks[s].callback_args
      /\ x.tid = thread_callbacks[s].tid
  <2>1. thread_callbacks[s] \in Slot
    BY <1>3 DEF TableInv, ShapeInv
  <2> HIDE DEF s
  <2> QED
    BY ONLY <2>1 DEF Slot, x
<1>5. thread_callbacks' = [thread_callbacks EXCEPT ![s] = x]
  BY <1>1
<1> HIDE DEF x
<1>6. /\ thread_callbacks' \in [Index -> Slot] /\ thread_callbacks'[s] = x
      /\ \A r \in Index : r # s => thread_callbacks'[r] = thread_callbacks[r]
  BY <1>3, <1>4, <1>5 DEF TableInv, ShapeInv
<1>7. ShapeInv' /\ ClearsMarked'
  BY <1>1, <1>2, <1>3, <1>4, <1>6, IndexInNat DEF TableInv, ShapeInv, ClearsMarked
<1>8. JobsInv'
  BY <1>1, <1>2, <1>3, <1>4, <1>6, NoThread DEF TableInv, JobsInv, Live
<1>9. ReceivedInv'
  BY <1>1, <1>2, <1>3, <1>4, <1>6, NoThread DEF TableInv, ReceivedInv
<1>10. DownloadInv'
  BY <1>1, <1>2, NoThread DEF TableInv, DownloadInv
<1>11. FirstSlotIsKept'
  BY <1>1, <1>2, <1>3, <1>6, NoThread, IndexInNat DEF TableInv, FirstSlotIsKept
<1>12. OnceInv'
  BY <1>1, <1>2, <1>3, <1>4, <1>6, NoThread, IndexInNat
     DEF TableInv, OnceInv, CalledBackOnce, Before, Executed
<1> QED
  BY <1>7, <1>8, <1>9, <1>10, <1>11, <1>12 DEF TableInv

-----------------------------------------------------------------------------

LEMMA NextTable == TableInv /\ [Next]_vars => TableInv'
<1> SUFFICES ASSUME TableInv, [Next]_vars
             PROVE  TableInv'
  OBVIOUS
<1>1. CASE MainStep
  BY <1>1, CreateTable, WaitTable, CallBackTable, ClearTable DEF MainStep
<1>2. CASE \E t \in Tid : ThreadStep(t)
  BY <1>2, StateTable, SetupTable, LeaveTable DEF ThreadStep
<1>3. CASE UNCHANGED vars
  BY <1>3 DEF vars, TableInv, ShapeInv, JobsInv, ReceivedInv, ClearsMarked, DownloadInv,
     FirstSlotIsKept, OnceInv, CalledBackOnce, Before, Live, Executed
<1> QED
  BY <1>1, <1>2, <1>3 DEF Next

THEOREM TableInvariance == Spec => []TableInv
BY InitTable, NextTable, PTL DEF Spec

\* The variables keep their types, also where a thread writes into a slot
\* that is no longer its own
THEOREM TypeCorrect == Spec => []TypeOK
<1>1. TableInv => TypeOK
  <2> SUFFICES ASSUME ShapeInv, JobsInv PROVE TypeOK
    BY DEF TableInv
  <2>1. \A k \in 1..Len(executed) : executed[k] \in 0..MaxJobs
    BY ElementOfSeq DEF ShapeInv
  <2>2. jobs \in Nat
    BY DEF ShapeInv
  <2>3. \A k \in 1..Len(executed) : executed[k] \in 0..jobs
    BY <2>1, <2>2 DEF JobsInv
  <2> QED
    BY <2>3 DEF ShapeInv, TypeOK
<1> QED
  BY <1>1, TableInvariance, PTL

\* The first slot stays its thread's until that has ended
THEOREM FirstSlotStaysKept == Spec => []FirstSlotIsKept
<1>1. TableInv => FirstSlotIsKept
  BY DEF TableInv
<1> QED
  BY <1>1, TableInvariance, PTL

\* A plugin's callback is run at most once, and for a map that was received
THEOREM RunAtMostOnce == Spec => []CalledBackOnce
<1>1. TableInv => CalledBackOnce
  BY DEF TableInv, OnceInv, CalledBackOnce
<1> QED
  BY <1>1, TableInvariance, PTL

\* At most one thread downloads, and the flag says whether one does
\* (SV_DownloadMapThread)
THEOREM OneDownloads == Spec => []OneDownload
<1>1. TableInv => OneDownload
  <2> SUFFICES ASSUME DownloadInv PROVE OneDownload
    BY DEF TableInv
  <2> DEFINE D == {t \in Tid : threads[t].state = "downloading"}
  <2>1. CASE D = {}
    <3>1. Cardinality(D) = 0
      BY <2>1, FS_EmptySet
    <3> QED
      BY <3>1 DEF DownloadInv, OneDownload
  <2>2. CASE D # {}
    <3>1. PICK t \in D : TRUE
      BY <2>2
    <3>2. D = {t}
      BY <3>1 DEF DownloadInv
    <3>3. Cardinality(D) = 1
      BY <3>2, FS_Singleton
    <3> QED
      BY <3>3 DEF DownloadInv, OneDownload
  <2> QED
    BY <2>1, <2>2
<1> QED
  BY <1>1, TableInvariance, PTL

=============================================================================
