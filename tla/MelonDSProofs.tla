---------------------------- MODULE MelonDSProofs ---------------------------
(***************************************************************************)
(* Proofs about a pair of DS consoles.  The two threads of egl_context.c   *)
(* keep WorkerInv, for any set of contexts and any number of tasks; what   *)
(* the pair keeps, for saves of any size, any number of writes, frames and *)
(* sessions, and any files; the link and renderer options: the renderer    *)
(* transaction, the exclusion of link and OpenGL, and the agreement of     *)
(* options, session and adapter between calls, for any number of consoles  *)
(* and failures.                                                           *)
(***************************************************************************)
EXTENDS NdsMemory, RendererLink, FiniteSetTheorems, TLAPS

-----------------------------------------------------------------------------
(* The threads of the OpenGL context.                                      *)

Busy == {"take", "run", "release", "report"}

\* TypeOK, by kind of variable.
MemoryKinds ==
  /\ caller \in {"idle", "starting", "executing", "joining"}
  /\ worker \in {"none", "start", "wait", "take", "run", "release", "report",
                 "exit", "done"}
  /\ waiting \subseteq Threads
  /\ task_slot \in Slots \cup {None} /\ current \in Slots \cup {None}
  /\ result \in {"none", "ok", "failed"}

Counts ==
  call \in Nat /\ call <= MaxCalls /\ ran \in Nat /\ ran <= call

MemoryFlags ==
  /\ allocated \in BOOLEAN /\ implementation \in BOOLEAN
  /\ startup_complete \in BOOLEAN /\ startup_success \in BOOLEAN
  /\ task_pending \in BOOLEAN /\ task_complete \in BOOLEAN
  /\ task_success \in BOOLEAN /\ stopping \in BOOLEAN
  /\ contexts \in BOOLEAN /\ success \in BOOLEAN

Types == MemoryKinds /\ Counts /\ MemoryFlags

\* Only a thread that waits is waiting for the condition.
Waiters ==
  /\ "caller" \in waiting => caller \in {"starting", "executing"}
  /\ "worker" \in waiting => worker = "wait"

\* Where the context thread may be follows from where the caller is.
Places ==
  /\ allocated <=> (caller # "idle" \/ implementation)
  /\ implementation => caller \in {"idle", "executing"}
  /\ caller = "executing" => implementation
  /\ ~allocated => worker \in {"none", "done"}
  /\ caller = "idle" /\ implementation => worker = "wait" /\ ~task_pending
  /\ implementation => worker \in {"wait"} \cup Busy
  /\ implementation => startup_success /\ ~stopping
  /\ caller = "starting" =>
       /\ worker \in {"start", "wait", "done"} /\ ~stopping
       /\ startup_complete <=> worker # "start"
       /\ startup_complete => (startup_success <=> worker = "wait")
  /\ caller = "joining" => worker \in {"wait", "exit", "done"}
  /\ ~implementation => ~task_pending
  /\ contexts <=> (worker \in {"wait", "exit"} \cup Busy)

\* The life of a task: pending until it is reported, and run in between.
TaskLife ==
  /\ (task_slot # None) <=> (caller = "executing")
  /\ caller = "executing" => (task_complete <=> ~task_pending)
  /\ worker \in Busy => task_pending
  /\ worker = "run" => current = task_slot
  /\ worker \in {"release", "report"} /\ success => ran = call
  /\ caller = "executing" /\ task_complete /\ task_success => ran = call
  /\ result # "none" => caller = "idle" /\ implementation
  /\ result = "ok" => ran = call

\* The inductive invariant.
ThreadInv == Types /\ Waiters /\ Places /\ TaskLife

\* A fresh context has no worker.
LEMMA InitThreads == Init => ThreadInv
  <1> SUFFICES ASSUME Init PROVE ThreadInv
    OBVIOUS
  <1>1. MemoryKinds
    BY SlotsAssumption DEF Init, MemoryKinds
  <1>2. Counts
    BY CallsAssumption DEF Init, Counts
  <1>3. MemoryFlags
    BY DEF Init, MemoryFlags
  <1>4. Waiters
    BY DEF Init, Waiters
  <1>5. Places
    BY DEF Init, Places, Busy
  <1>6. TaskLife
    BY DEF Init, TaskLife, Busy
  <1> QED BY <1>1, <1>2, <1>3, <1>4, <1>5, <1>6 DEF ThreadInv, Types

\* The steps of the adapter's thread.
LEMMA CreateThreads == ThreadInv /\ Create => ThreadInv'
  <1> SUFFICES ASSUME ThreadInv, Create PROVE ThreadInv'
    OBVIOUS
  <1>1. MemoryKinds'
    BY SlotsAssumption DEF ThreadInv, Types, MemoryKinds, Threads, Create, egl
  <1>2. Counts'
    BY DEF ThreadInv, Types, Counts, Create, egl
  <1>3. MemoryFlags'
    BY DEF ThreadInv, Types, MemoryFlags, Create, egl
  <1>4. Waiters'
    BY DEF ThreadInv, Types, MemoryKinds, MemoryFlags, Waiters, Places, TaskLife, Busy,
           Threads, Create, egl
  <1>5. Places'
    BY DEF ThreadInv, Types, MemoryKinds, MemoryFlags, Places, TaskLife, Busy, Create, egl
  <1>6. TaskLife'
    BY SlotsAssumption
    DEF ThreadInv, Types, MemoryKinds, Counts, MemoryFlags, Places, TaskLife, Busy,
        Create, egl
  <1> QED BY <1>1, <1>2, <1>3, <1>4, <1>5, <1>6 DEF ThreadInv, Types

\* dualboy_egl_context_create returns only when the worker has reported.
LEMMA AwaitStartThreads == ThreadInv /\ AwaitStart => ThreadInv'
  <1> SUFFICES ASSUME ThreadInv, AwaitStart PROVE ThreadInv'
    OBVIOUS
  <1>1. MemoryKinds'
    BY SlotsAssumption
    DEF ThreadInv, Types, MemoryKinds, Threads, AwaitStart, Awake, egl, startup,
        task
  <1>2. Counts'
    BY DEF ThreadInv, Types, Counts, AwaitStart, Awake, egl, startup, task
  <1>3. MemoryFlags'
    BY DEF ThreadInv, Types, MemoryFlags, AwaitStart, Awake, egl, startup, task
  <1>4. Waiters'
    BY DEF ThreadInv, Types, MemoryKinds, MemoryFlags, Waiters, Places, TaskLife, Busy,
           Threads, AwaitStart, Awake, egl, startup, task
  <1>5. Places'
    BY DEF ThreadInv, Types, MemoryKinds, MemoryFlags, Places, TaskLife, Busy, AwaitStart,
           Awake, egl, startup, task
  <1>6. TaskLife'
    BY SlotsAssumption
    DEF ThreadInv, Types, MemoryKinds, Counts, MemoryFlags, Places, TaskLife, Busy,
        AwaitStart, Awake, egl, startup, task
  <1> QED BY <1>1, <1>2, <1>3, <1>4, <1>5, <1>6 DEF ThreadInv, Types

\* A task is posted only when none is pending.
LEMMA ExecuteThreads == ThreadInv /\ Execute => ThreadInv'
  <1> SUFFICES ASSUME ThreadInv, Execute PROVE ThreadInv'
    OBVIOUS
  <1>1. MemoryKinds'
    BY SlotsAssumption
    DEF ThreadInv, Types, MemoryKinds, Threads, Execute, egl, startup
  <1>2. Counts'
    BY CallsAssumption DEF ThreadInv, Types, Counts, Execute
  <1>3. MemoryFlags'
    BY DEF ThreadInv, Types, MemoryFlags, Execute, egl, startup
  <1>4. Waiters'
    BY DEF ThreadInv, Types, MemoryKinds, MemoryFlags, Waiters, Places, TaskLife, Busy,
           Threads, Execute, egl, startup
  <1>5. Places'
    BY DEF ThreadInv, Types, MemoryKinds, MemoryFlags, Places, TaskLife, Busy, Execute,
           egl, startup
  <1>6. TaskLife'
    BY SlotsAssumption
    DEF ThreadInv, Types, MemoryKinds, Counts, MemoryFlags, Places, TaskLife, Busy,
        Execute, egl, startup
  <1> QED BY <1>1, <1>2, <1>3, <1>4, <1>5, <1>6 DEF ThreadInv, Types

\* A call takes the result of its own task.
LEMMA AwaitTaskThreads == ThreadInv /\ AwaitTask => ThreadInv'
  <1> SUFFICES ASSUME ThreadInv, AwaitTask PROVE ThreadInv'
    OBVIOUS
  <1>1. MemoryKinds'
    BY SlotsAssumption
    DEF ThreadInv, Types, MemoryKinds, Threads, AwaitTask, Awake, TaskSeen,
        TaskLeft, egl, startup, task
  <1>2. Counts'
    BY DEF ThreadInv, Types, Counts, AwaitTask, Awake, TaskSeen, TaskLeft,
           egl, startup, task
  <1>3. MemoryFlags'
    BY DEF ThreadInv, Types, MemoryFlags, AwaitTask, Awake, TaskSeen, TaskLeft, egl,
           startup, task
  <1>4. Waiters'
    BY DEF ThreadInv, Types, MemoryKinds, MemoryFlags, Waiters, Places, TaskLife, Busy,
           Threads, AwaitTask, Awake, TaskSeen, TaskLeft, egl, startup, task
  <1>5. Places'
    BY DEF ThreadInv, Types, MemoryKinds, MemoryFlags, Places, TaskLife, Busy, AwaitTask,
           Awake, TaskSeen, TaskLeft, egl, startup, task
  <1>6. TaskLife'
    BY SlotsAssumption
    DEF ThreadInv, Types, MemoryKinds, Counts, MemoryFlags, Places, TaskLife, Busy,
        AwaitTask, Awake, TaskSeen, TaskLeft, egl, startup, task
  <1> QED BY <1>1, <1>2, <1>3, <1>4, <1>5, <1>6 DEF ThreadInv, Types

\* Destruction asks the worker to stop and waits for it.
LEMMA DestroyThreads == ThreadInv /\ Destroy => ThreadInv'
  <1> SUFFICES ASSUME ThreadInv, Destroy PROVE ThreadInv'
    OBVIOUS
  <1>1. MemoryKinds'
    BY SlotsAssumption
    DEF ThreadInv, Types, MemoryKinds, Threads, Destroy, Broadcast, egl, startup,
        task
  <1>2. Counts'
    BY DEF ThreadInv, Types, Counts, Destroy, Broadcast, egl, startup, task
  <1>3. MemoryFlags'
    BY DEF ThreadInv, Types, MemoryFlags, Destroy, Broadcast, egl, startup, task
  <1>4. Waiters'
    BY DEF ThreadInv, Types, MemoryKinds, MemoryFlags, Waiters, Places, TaskLife, Busy,
           Threads, Destroy, Broadcast, egl, startup, task
  <1>5. Places'
    BY DEF ThreadInv, Types, MemoryKinds, MemoryFlags, Places, TaskLife, Busy, Destroy,
           Broadcast, egl, startup, task
  <1>6. TaskLife'
    BY SlotsAssumption
    DEF ThreadInv, Types, MemoryKinds, Counts, MemoryFlags, Places, TaskLife, Busy,
        Destroy, Broadcast, egl, startup, task
  <1> QED BY <1>1, <1>2, <1>3, <1>4, <1>5, <1>6 DEF ThreadInv, Types

\* A joined worker leaves nothing behind.
LEMMA JoinThreads == ThreadInv /\ Join => ThreadInv'
  <1> SUFFICES ASSUME ThreadInv, Join PROVE ThreadInv'
    OBVIOUS
  <1>1. MemoryKinds'
    BY SlotsAssumption
    DEF ThreadInv, Types, MemoryKinds, Threads, Join, Ended, egl, startup, task
  <1>2. Counts'
    BY DEF ThreadInv, Types, Counts, Join, Ended, egl, startup, task
  <1>3. MemoryFlags'
    BY DEF ThreadInv, Types, MemoryFlags, Join, Ended, egl, startup, task
  <1>4. Waiters'
    BY DEF ThreadInv, Types, MemoryKinds, MemoryFlags, Waiters, Places, TaskLife, Busy,
           Threads, Join, Ended, egl, startup, task
  <1>5. Places'
    BY DEF ThreadInv, Types, MemoryKinds, MemoryFlags, Places, TaskLife, Busy, Join,
           Ended, egl, startup, task
  <1>6. TaskLife'
    BY SlotsAssumption
    DEF ThreadInv, Types, MemoryKinds, Counts, MemoryFlags, Places, TaskLife, Busy, Join,
        Ended, egl, startup, task
  <1> QED BY <1>1, <1>2, <1>3, <1>4, <1>5, <1>6 DEF ThreadInv, Types

\* The steps of the context thread.
LEMMA StartThreads == ThreadInv /\ Start => ThreadInv'
  <1> SUFFICES ASSUME ThreadInv, Start PROVE ThreadInv'
    OBVIOUS
  <1>1. MemoryKinds'
    BY SlotsAssumption
    DEF ThreadInv, Types, MemoryKinds, Threads, Start, Broadcast, task
  <1>2. Counts'
    BY DEF ThreadInv, Types, Counts, Start, Broadcast, task
  <1>3. MemoryFlags'
    BY DEF ThreadInv, Types, MemoryFlags, Start, Broadcast, task
  <1>4. Waiters'
    BY DEF ThreadInv, Types, MemoryKinds, MemoryFlags, Waiters, Places, TaskLife, Busy,
           Threads, Start, Broadcast, task
  <1>5. Places'
    BY DEF ThreadInv, Types, MemoryKinds, MemoryFlags, Places, TaskLife, Busy, Start,
           Broadcast, task
  <1>6. TaskLife'
    BY SlotsAssumption
    DEF ThreadInv, Types, MemoryKinds, Counts, MemoryFlags, Places, TaskLife, Busy, Start,
        Broadcast, task
  <1> QED BY <1>1, <1>2, <1>3, <1>4, <1>5, <1>6 DEF ThreadInv, Types

\* The loop of the worker: a task, a stop, or more waiting.
LEMMA WakeThreads == ThreadInv /\ Wake => ThreadInv'
  <1> SUFFICES ASSUME ThreadInv, Wake PROVE ThreadInv'
    OBVIOUS
  <1>1. MemoryKinds'
    BY SlotsAssumption
    DEF ThreadInv, Types, MemoryKinds, Threads, Wake, Awake, egl, startup, task
  <1>2. Counts'
    BY DEF ThreadInv, Types, Counts, Wake, Awake, egl, startup, task
  <1>3. MemoryFlags'
    BY DEF ThreadInv, Types, MemoryFlags, Wake, Awake, egl, startup, task
  <1>4. Waiters'
    BY DEF ThreadInv, Types, MemoryKinds, MemoryFlags, Waiters, Places, TaskLife, Busy,
           Threads, Wake, Awake, egl, startup, task
  <1>5. Places'
    BY DEF ThreadInv, Types, MemoryKinds, MemoryFlags, Places, TaskLife, Busy, Wake,
           Awake, egl, startup, task
  <1>6. TaskLife'
    BY SlotsAssumption
    DEF ThreadInv, Types, MemoryKinds, Counts, MemoryFlags, Places, TaskLife, Busy, Wake,
        Awake, egl, startup, task
  <1> QED BY <1>1, <1>2, <1>3, <1>4, <1>5, <1>6 DEF ThreadInv, Types

\* A task whose context cannot be made current is not run.
LEMMA MakeCurrentThreads == ThreadInv /\ MakeCurrent => ThreadInv'
  <1> SUFFICES ASSUME ThreadInv, MakeCurrent PROVE ThreadInv'
    OBVIOUS
  <1>1. MemoryKinds'
    BY SlotsAssumption
    DEF ThreadInv, Types, MemoryKinds, Threads, MakeCurrent, MadeCurrent, egl,
        startup, task
  <1>2. Counts'
    BY DEF ThreadInv, Types, Counts, MakeCurrent, MadeCurrent, egl, startup,
           task
  <1>3. MemoryFlags'
    BY DEF ThreadInv, Types, MemoryFlags, MakeCurrent, MadeCurrent, egl, startup,
           task
  <1>4. Waiters'
    BY DEF ThreadInv, Types, MemoryKinds, MemoryFlags, Waiters, Places, TaskLife, Busy,
           Threads, MakeCurrent, MadeCurrent, egl, startup, task
  <1>5. Places'
    BY DEF ThreadInv, Types, MemoryKinds, MemoryFlags, Places, TaskLife, Busy,
           MakeCurrent, MadeCurrent, egl, startup, task
  <1>6. TaskLife'
    BY SlotsAssumption
    DEF ThreadInv, Types, MemoryKinds, Counts, MemoryFlags, Places, TaskLife, Busy,
        MakeCurrent, MadeCurrent, egl, startup, task
  <1> QED BY <1>1, <1>2, <1>3, <1>4, <1>5, <1>6 DEF ThreadInv, Types

\* The task itself runs on the worker only.
LEMMA RunTaskThreads == ThreadInv /\ RunTask => ThreadInv'
  <1> SUFFICES ASSUME ThreadInv, RunTask PROVE ThreadInv'
    OBVIOUS
  <1>1. MemoryKinds'
    BY SlotsAssumption
    DEF ThreadInv, Types, MemoryKinds, Threads, RunTask, egl, startup, task
  <1>2. Counts'
    BY DEF ThreadInv, Types, Counts, RunTask, egl, startup, task
  <1>3. MemoryFlags'
    BY DEF ThreadInv, Types, MemoryFlags, RunTask, egl, startup, task
  <1>4. Waiters'
    BY DEF ThreadInv, Types, MemoryKinds, MemoryFlags, Waiters, Places, TaskLife, Busy,
           Threads, RunTask, egl, startup, task
  <1>5. Places'
    BY DEF ThreadInv, Types, MemoryKinds, MemoryFlags, Places, TaskLife, Busy, RunTask,
           egl, startup, task
  <1>6. TaskLife'
    BY SlotsAssumption
    DEF ThreadInv, Types, MemoryKinds, Counts, MemoryFlags, Places, TaskLife, Busy,
        RunTask, egl, startup, task
  <1> QED BY <1>1, <1>2, <1>3, <1>4, <1>5, <1>6 DEF ThreadInv, Types

\* The context is released before the result is reported.
LEMMA ReleaseThreads == ThreadInv /\ Release => ThreadInv'
  <1> SUFFICES ASSUME ThreadInv, Release PROVE ThreadInv'
    OBVIOUS
  <1>1. MemoryKinds'
    BY SlotsAssumption
    DEF ThreadInv, Types, MemoryKinds, Threads, Release, egl, startup, task
  <1>2. Counts'
    BY DEF ThreadInv, Types, Counts, Release, egl, startup, task
  <1>3. MemoryFlags'
    BY DEF ThreadInv, Types, MemoryFlags, Release, egl, startup, task
  <1>4. Waiters'
    BY DEF ThreadInv, Types, MemoryKinds, MemoryFlags, Waiters, Places, TaskLife, Busy,
           Threads, Release, egl, startup, task
  <1>5. Places'
    BY DEF ThreadInv, Types, MemoryKinds, MemoryFlags, Places, TaskLife, Busy, Release,
           egl, startup, task
  <1>6. TaskLife'
    BY SlotsAssumption
    DEF ThreadInv, Types, MemoryKinds, Counts, MemoryFlags, Places, TaskLife, Busy,
        Release, egl, startup, task
  <1> QED BY <1>1, <1>2, <1>3, <1>4, <1>5, <1>6 DEF ThreadInv, Types

\* A report ends the task and wakes its caller.
LEMMA ReportThreads == ThreadInv /\ Report => ThreadInv'
  <1> SUFFICES ASSUME ThreadInv, Report PROVE ThreadInv'
    OBVIOUS
  <1>1. MemoryKinds'
    BY SlotsAssumption
    DEF ThreadInv, Types, MemoryKinds, Threads, Report, Broadcast, egl, startup,
        task
  <1>2. Counts'
    BY DEF ThreadInv, Types, Counts, Report, Broadcast, egl, startup, task
  <1>3. MemoryFlags'
    BY DEF ThreadInv, Types, MemoryFlags, Report, Broadcast, egl, startup, task
  <1>4. Waiters'
    BY DEF ThreadInv, Types, MemoryKinds, MemoryFlags, Waiters, Places, TaskLife, Busy,
           Threads, Report, Broadcast, egl, startup, task
  <1>5. Places'
    BY DEF ThreadInv, Types, MemoryKinds, MemoryFlags, Places, TaskLife, Busy, Report,
           Broadcast, egl, startup, task
  <1>6. TaskLife'
    BY SlotsAssumption
    DEF ThreadInv, Types, MemoryKinds, Counts, MemoryFlags, Places, TaskLife, Busy,
        Report, Broadcast, egl, startup, task
  <1> QED BY <1>1, <1>2, <1>3, <1>4, <1>5, <1>6 DEF ThreadInv, Types

\* A worker that stops has no task.
LEMMA ExitThreads == ThreadInv /\ Exit => ThreadInv'
  <1> SUFFICES ASSUME ThreadInv, Exit PROVE ThreadInv'
    OBVIOUS
  <1>1. MemoryKinds'
    BY SlotsAssumption
    DEF ThreadInv, Types, MemoryKinds, Threads, Exit, startup, task
  <1>2. Counts'
    BY DEF ThreadInv, Types, Counts, Exit, startup, task
  <1>3. MemoryFlags'
    BY DEF ThreadInv, Types, MemoryFlags, Exit, startup, task
  <1>4. Waiters'
    BY DEF ThreadInv, Types, MemoryKinds, MemoryFlags, Waiters, Places, TaskLife, Busy,
           Threads, Exit, startup, task
  <1>5. Places'
    BY DEF ThreadInv, Types, MemoryKinds, MemoryFlags, Places, TaskLife, Busy, Exit,
           startup, task
  <1>6. TaskLife'
    BY SlotsAssumption
    DEF ThreadInv, Types, MemoryKinds, Counts, MemoryFlags, Places, TaskLife, Busy, Exit,
        startup, task
  <1> QED BY <1>1, <1>2, <1>3, <1>4, <1>5, <1>6 DEF ThreadInv, Types

\* Wake-ups without a cause, and nothing at all.
LEMMA SpuriousWakeupThreads == ThreadInv /\ SpuriousWakeup => ThreadInv'
  <1> SUFFICES ASSUME ThreadInv, SpuriousWakeup PROVE ThreadInv'
    OBVIOUS
  <1>1. MemoryKinds'
    BY SlotsAssumption
    DEF ThreadInv, Types, MemoryKinds, Threads, SpuriousWakeup, egl, startup, task
  <1>2. Counts'
    BY DEF ThreadInv, Types, Counts, SpuriousWakeup, egl, startup, task
  <1>3. MemoryFlags'
    BY DEF ThreadInv, Types, MemoryFlags, SpuriousWakeup, egl, startup, task
  <1>4. Waiters'
    BY DEF ThreadInv, Types, MemoryKinds, MemoryFlags, Waiters, Places, TaskLife, Busy,
           Threads, SpuriousWakeup, egl, startup, task
  <1>5. Places'
    BY DEF ThreadInv, Types, MemoryKinds, MemoryFlags, Places, TaskLife, Busy,
           SpuriousWakeup, egl, startup, task
  <1>6. TaskLife'
    BY SlotsAssumption
    DEF ThreadInv, Types, MemoryKinds, Counts, MemoryFlags, Places, TaskLife, Busy,
        SpuriousWakeup, egl, startup, task
  <1> QED BY <1>1, <1>2, <1>3, <1>4, <1>5, <1>6 DEF ThreadInv, Types

\* Steps that leave the context alone.
LEMMA StutterThreads == ThreadInv /\ UNCHANGED vars => ThreadInv'
  <1> SUFFICES ASSUME ThreadInv, UNCHANGED vars PROVE ThreadInv'
    OBVIOUS
  <1> USE DEF vars, egl, startup, task
  <1>1. Types'
    BY DEF ThreadInv, Types, MemoryKinds, Counts, MemoryFlags
  <1>2. Waiters' /\ Places'
    BY DEF ThreadInv, Waiters, Places
  <1>3. TaskLife'
    BY DEF ThreadInv, TaskLife
  <1> QED BY <1>1, <1>2, <1>3 DEF ThreadInv

\* Every step of both threads.
LEMMA NextThreads == ThreadInv /\ [Next]_vars => ThreadInv'
  BY CreateThreads, AwaitStartThreads, ExecuteThreads, AwaitTaskThreads,
     DestroyThreads, JoinThreads, StartThreads, WakeThreads,
     MakeCurrentThreads, RunTaskThreads, ReleaseThreads, ReportThreads,
     ExitThreads, SpuriousWakeupThreads, StutterThreads
  DEF Next, Calling, Working

\* The invariant that the run checks follows from it.
LEMMA ThreadsKeepWorker == ThreadInv => WorkerInv
  <1> SUFFICES ASSUME ThreadInv PROVE WorkerInv
    OBVIOUS
  <1>1. TypeOK
    <2>1. (task_slot # None) = (caller = "executing")
      BY DEF ThreadInv, TaskLife
    <2>2. {allocated, implementation, startup_complete, startup_success,
           task_pending, task_complete, task_success, stopping, contexts,
           success} \subseteq BOOLEAN
      BY DEF ThreadInv, Types, MemoryFlags
    <2>3. call \in 0 .. MaxCalls /\ ran \in 0 .. call
      BY CallsAssumption DEF ThreadInv, Types, Counts
    <2>4. {task_slot, current} \subseteq Slots \cup {None}
      BY DEF ThreadInv, Types, MemoryKinds
    <2> QED BY <2>1, <2>2, <2>3, <2>4 DEF ThreadInv, Types, MemoryKinds, TypeOK
  <1>2. TaskInCall
    BY DEF ThreadInv, Types, MemoryKinds, MemoryFlags, Places, TaskLife, TaskInCall, Busy
  <1>3. ResultIsOwn
    BY DEF ThreadInv, Types, MemoryKinds, MemoryFlags, Places, TaskLife, ResultIsOwn
  <1>4. FreedAfterExit
    BY DEF ThreadInv, Types, MemoryKinds, MemoryFlags, Waiters, Places, FreedAfterExit,
           Threads, Busy
  <1> QED BY <1>1, <1>2, <1>3, <1>4 DEF WorkerInv

\* Threads, tasks and contexts keep to their calls, however often contexts are
\* created and destroyed and whatever fails in them.
THEOREM WorkerKept == Spec => []WorkerInv
  <1> QED
    BY InitThreads, NextThreads, ThreadsKeepWorker, PTL DEF Spec

-----------------------------------------------------------------------------
(* The memory of the consoles.                                             *)

Regions == {"save", "firmware"}

\* The cells that a transaction of count bytes has written.
Touched(i, first, count, size) ==
  \/ first <= i /\ i < first + count
  \/ i < first + count - size

-----------------------------------------------------------------------------
(* The arithmetic of wrapping.                                             *)

\* An address less than two memories long wraps at most once.
LEMMA ModOnce ==
  ASSUME NEW n \in Nat, NEW size \in Nat, size > 0, n < 2 * size
  PROVE  n % size = IF n < size THEN n ELSE n - size
  OBVIOUS

\* Two images with the same bytes are the same image.
LEMMA SameImage ==
  ASSUME NEW S, NEW B, NEW f \in [S -> B], NEW g \in [S -> B],
         \A i \in S : f[i] = g[i]
  PROVE  f = g
  OBVIOUS

\* std::min, as WriteNDSSave clamps the first part of a transaction.
LEMMA MinOfTwo ==
  ASSUME NEW a \in Int, NEW b \in Int
  PROVE  Min({a, b}) = IF a <= b THEN a ELSE b
  BY DEF Min

\* The cells of a memory are counted by its size.
LEMMA SizeOfImage ==
  ASSUME NEW size \in Nat PROVE Cardinality(0 .. size - 1) = size
  <1>1. Cardinality(0 .. size - 1) =
          IF 0 > size - 1 THEN 0 ELSE (size - 1) - 0 + 1
    BY FS_Interval
  <1> QED BY <1>1

\* WriteNDSSave takes over exactly the cells a transaction has written, also
\* when it wraps and when its masked length is zero.
LEMMA WholeTransaction ==
  ASSUME NEW size \in Nat, NEW B,
         NEW old \in [0 .. size - 1 -> B], NEW new \in [0 .. size - 1 -> B],
         NEW first \in Nat, NEW n \in Nat, n > 0, n <= size, first < size,
         \A i \in 0 .. size - 1 : ~Touched(i, first, n, size) => new[i] = old[i]
  PROVE  WriteNDSSave(old, new, first, n % size) = new
  <1> DEFINE length == n % size
             count == Committed(length, size)
             tail == Min({count, size - first})
  <1>1. count = n
    BY ModOnce DEF Committed
  <1>2. tail = IF n <= size - first THEN n ELSE size - first
    BY <1>1, MinOfTwo
  <1>3. Cardinality(DOMAIN old) = size
    BY SizeOfImage
  <1>4. WriteNDSSave(old, new, first, length) =
          [i \in 0 .. size - 1 |->
             IF i \in first .. first + tail - 1 \/ i < count - tail
             THEN new[i] ELSE old[i]]
    BY <1>3, Zenon DEF WriteNDSSave
  <1>5. ASSUME NEW i \in 0 .. size - 1,
               ~(i \in first .. first + tail - 1 \/ i < count - tail)
        PROVE  old[i] = new[i]
    <2>1. ~Touched(i, first, n, size)
      BY <1>1, <1>2, <1>5 DEF Touched
    <2> QED BY <2>1
  <1> HIDE DEF count, tail
  <1>6. new = [i \in 0 .. size - 1 |-> new[i]]
    OBVIOUS
  <1> QED BY <1>4, <1>5, <1>6, Zenon
-----------------------------------------------------------------------------
(* The invariant.                                                          *)

\* Variables have the shape that the actions rely on.
Shape ==
  /\ open \in BOOLEAN /\ swapped \in BOOLEAN
  /\ spi \in [Slots -> [first : Nat, count : Nat]]
  /\ live = [m \in Slots |-> live[m]]
  /\ shadow = [m \in Slots |-> shadow[m]]
  /\ committed = [m \in Slots |-> committed[m]]
  /\ ~open => spi = [m \in Slots |-> NoTransaction]

\* Files are whole images.
DiskOK ==
  /\ disk = [g \in Slots |-> disk[g]]
  /\ \A g \in Slots :
       /\ disk[g] = [kind \in Regions |-> disk[g][kind]]
       /\ disk[g]["save"] \in Image(g) \cup {NoFile}
       /\ disk[g]["firmware"] \in Macs \cup {NoFile, Bad}

\* Cartridge and shadow differ only where a transaction is open.
WriteTransaction(m) ==
  LET size == SaveSize[Game(m)]
  IN /\ live[m] \in Image(Game(m)) /\ shadow[m] \in Image(Game(m))
     /\ shadow[m] = committed[m]
     /\ spi[m].count <= size
     /\ spi[m].count > 0 => spi[m].first < size
     /\ \A i \in 0 .. size - 1 :
          spi[m].count = 0 \/ ~Touched(i, spi[m].first, spi[m].count, size)
            => live[m][i] = shadow[m][i]

Transactions == open => \A m \in Slots : WriteTransaction(m)

Addresses == MacsDiffer /\ (open => mac[0] \in Macs /\ mac[1] \in Macs)

\* The inductive invariant.
MemoryInv == Shape /\ DiskOK /\ Transactions /\ Addresses /\ FilesTracked

\* Swapping the consoles twice swaps nothing.
LEMMA GameOfSlot ==
  ASSUME NEW m \in Slots, swapped \in BOOLEAN
  PROVE  Game(m) \in Slots /\ Game(Game(m)) = m
  BY MemoryAssumption DEF Game

\* GetNDSSaveLength of a cartridge is a number.
LEMMA SizeOfGame ==
  ASSUME NEW g \in Slots PROVE SaveSize[g] \in Nat
  BY MemoryAssumption

\* With one console's transaction over, what the game reads is what is kept.
LEMMA InvKeepsMemory == MemoryInv => ConsoleMemory
  <1> SUFFICES ASSUME MemoryInv PROVE ConsoleMemory
    OBVIOUS
  <1>1. ASSUME open, NEW m \in Slots
        PROVE  /\ shadow[m] = committed[m]
               /\ spi[m].count = 0 => live[m] = shadow[m]
    <2>1. WriteTransaction(m)
      BY <1>1 DEF MemoryInv, Transactions
    <2>2. ASSUME spi[m].count = 0 PROVE live[m] = shadow[m]
      <3>1. \A i \in 0 .. SaveSize[Game(m)] - 1 : live[m][i] = shadow[m][i]
        BY <2>1, <2>2 DEF WriteTransaction
      <3> DEFINE S == 0 .. SaveSize[Game(m)] - 1
                 B == Bytes \cup {FF}
      <3>2. live[m] \in [S -> B] /\ shadow[m] \in [S -> B]
        BY <2>1 DEF WriteTransaction, Image
      <3>3. \A i \in S : live[m][i] = shadow[m][i]
        BY <3>1
      <3> HIDE DEF S, B
      <3> QED BY <3>2, <3>3, SameImage
    <2> QED BY <2>1, <2>2 DEF WriteTransaction
  <1>2. CommittedOnly
    BY <1>1 DEF CommittedOnly
  <1> QED BY <1>2 DEF MemoryInv, Addresses, ConsoleMemory
-----------------------------------------------------------------------------
(* Every step keeps it.                                                    *)

\* Before the first session there is nothing to keep.
LEMMA InitMemory == MemoryInit => MemoryInv
  <1> SUFFICES ASSUME MemoryInit PROVE MemoryInv
    OBVIOUS
  <1>1. Shape
    BY DEF MemoryInit, Shape, Each, Empty, Nowhere, NoTransaction
  <1>2. DiskOK
    BY FilesAssumption DEF MemoryInit, DiskOK, Regions
  <1>3. Transactions /\ Addresses /\ FilesTracked
    BY DEF MemoryInit, Transactions, Addresses, MacsDiffer, FilesTracked
  <1> QED BY <1>1, <1>2, <1>3 DEF MemoryInv

\* A step that leaves the memory and its files alone.
Quiet == UNCHANGED <<open, swapped, memory, disk>>

\* Tasks, results and waiting of the context thread.
LEMMA QuietMemory == MemoryInv /\ Quiet => MemoryInv'
  <1> SUFFICES ASSUME MemoryInv, Quiet PROVE MemoryInv'
    OBVIOUS
  <1> USE DEF MemoryInv, Quiet, memory
  <1>1. Shape' /\ DiskOK'
    BY DEF Shape, DiskOK
  <1>2. Transactions'
    BY DEF Transactions, WriteTransaction, Game
  <1>3. Addresses' /\ FilesTracked'
    BY DEF Addresses, MacsDiffer, FilesTracked, Game
  <1> QED BY <1>1, <1>2, <1>3

\* The addresses of a new session.
LEMMA RepairedDiffer ==
  ASSUME NEW macs \in [Slots -> Macs]
  PROVE  /\ Repaired(macs)[0] \in Macs /\ Repaired(macs)[1] \in Macs
         /\ Repaired(macs)[0] # Repaired(macs)[1]
         /\ \A m \in Slots : IsValidPairMac(Repaired(macs)[m])
  BY MemoryAssumption
  DEF Repaired, Macs, IsValidPairMac, DefaultMac

\* A session starts with the contents of its files and repaired addresses.
LEMMA LoadMemory == MemoryInv /\ LoadPair => MemoryInv'
  <1> SUFFICES ASSUME MemoryInv, LoadPair PROVE MemoryInv'
    OBVIOUS
  <1> DEFINE g(m) == Game(m)'
             file(m) == disk[g(m)]
             save(m) == SaveMemory(file(m)["save"], SaveSize[g(m)])
             address(m) == FirmwareMac(file(m)["firmware"], m)
  <1>1. /\ ~open /\ open' = TRUE /\ swapped' \in BOOLEAN
        /\ \A h \in Slots : disk[h]["firmware"] # Bad
        /\ shadow' = [m \in Slots |-> save(m)]
        /\ live' = [m \in Slots |-> save(m)]
        /\ committed' = [m \in Slots |-> save(m)]
        /\ mac' = Repaired([m \in Slots |-> address(m)])
        /\ tracked' = [m \in Slots |-> [save |-> save(m),
                                        firmware |-> address(m)]]
        /\ UNCHANGED <<spi, disk>>
    BY DEF LoadPair, Each
  <1>2. \A m \in Slots : g(m) \in Slots
    BY <1>1, MemoryAssumption DEF Game
  <1>3. \A m \in Slots : save(m) \in Image(g(m))
    <2> SUFFICES ASSUME NEW m \in Slots PROVE save(m) \in Image(g(m))
      OBVIOUS
    <2>1. file(m)["save"] \in Image(g(m)) \cup {NoFile}
      BY <1>2 DEF MemoryInv, DiskOK
    <2> QED BY <2>1 DEF SaveMemory, Image
  <1>4. [m \in Slots |-> address(m)] \in [Slots -> Macs]
    <2> SUFFICES ASSUME NEW m \in Slots PROVE address(m) \in Macs
      OBVIOUS
    <2>1. file(m)["firmware"] \in Macs \cup {NoFile}
      BY <1>1, <1>2 DEF MemoryInv, DiskOK
    <2> QED BY <2>1, MemoryAssumption DEF FirmwareMac, DefaultMac, Macs
  <1> HIDE DEF save, address
  <1>5. Shape'
    BY <1>1 DEF MemoryInv, Shape, NoTransaction
  <1>6. DiskOK'
    BY <1>1 DEF MemoryInv, DiskOK
  <1>7. Transactions'
    <2> SUFFICES ASSUME NEW m \in Slots PROVE WriteTransaction(m)'
      BY DEF Transactions
    <2>1. /\ live'[m] = save(m) /\ shadow'[m] = save(m)
          /\ committed'[m] = save(m)
      BY <1>1
    <2>2. spi'[m] = [first |-> 0, count |-> 0]
      BY <1>1 DEF MemoryInv, Shape, NoTransaction
    <2>3. SaveSize[g(m)] \in Nat
      BY <1>2, MemoryAssumption
    <2>4. save(m) \in Image(g(m))
      BY <1>3
    <2> QED BY <2>1, <2>2, <2>3, <2>4 DEF WriteTransaction, Image
  <1>8. Addresses'
    BY <1>1, <1>4, RepairedDiffer DEF Addresses, MacsDiffer
  <1>9. FilesTracked'
    <2> SUFFICES ASSUME NEW m \in Slots, NEW kind \in Regions
                 PROVE  file(m)[kind] \in {tracked'[m][kind], NoFile}
      BY <1>1, <1>2 DEF FilesTracked, Regions
    <2>1. tracked'[m]["save"] = save(m) /\ tracked'[m]["firmware"] = address(m)
      BY <1>1
    <2>2. file(m)["save"] \in {save(m), NoFile}
      BY DEF save, SaveMemory
    <2>3. file(m)["firmware"] \in {address(m), NoFile}
      BY DEF address, FirmwareMac
    <2> QED BY <2>1, <2>2, <2>3 DEF Regions
  <1> QED BY <1>5, <1>6, <1>7, <1>8, <1>9 DEF MemoryInv

\* Files that ValidatePersistentMemory rejects leave no session.
LEMMA RejectedMemory == MemoryInv /\ LoadRejected => MemoryInv'
  <1> SUFFICES ASSUME MemoryInv, LoadRejected PROVE MemoryInv'
    OBVIOUS
  <1>1. /\ ~open /\ UNCHANGED <<open, swapped, live, shadow, spi, mac,
                                tracked, committed>>
    BY DEF LoadRejected, memory
  <1>2. DiskOK'
    <2> PICK h \in Slots : disk' = [disk EXCEPT ![h].firmware = NoFile]
      BY DEF LoadRejected
    <2> QED BY DEF MemoryInv, DiskOK, Regions
  <1>3. Shape'
    BY <1>1 DEF MemoryInv, Shape
  <1>4. Transactions' /\ Addresses' /\ FilesTracked'
    BY <1>1 DEF Transactions, Addresses, MacsDiffer, FilesTracked
  <1> QED BY <1>2, <1>3, <1>4 DEF MemoryInv

\* One byte more is one cell more, after the last one.
LEMMA TouchedMore ==
  ASSUME NEW size \in Nat, NEW first \in Nat, NEW n \in Nat,
         first < size, n < size, NEW i \in 0 .. size - 1,
         i = (first + n) % size
           \/ Touched(i, first, n, size)
  PROVE  Touched(i, first, n + 1, size)
  <1> DEFINE k == first + n
  <1>1. k \in Nat /\ size > 0 /\ k < 2 * size
    OBVIOUS
  <1>2. k % size = IF k < size THEN k ELSE k - size
    <2> HIDE DEF k
    <2> QED BY <1>1, ModOnce
  <1> QED BY <1>2 DEF Touched

\* A byte of an open transaction reaches only the cartridge.
LEMMA ByteMemory ==
  ASSUME NEW m \in Slots, MemoryInv, SpiByte(m), open
  PROVE  MemoryInv'
  <1> DEFINE size == SaveSize[Game(m)]
             n == spi[m].count
  <1>1. PICK b \in Bytes, a \in 0 .. size - 1 :
          /\ n # 0 => a = spi[m].first
          /\ live' = [live EXCEPT ![m][(a + n) % size] = b]
          /\ spi' = [spi EXCEPT ![m] = [first |-> a, count |-> n + 1]]
    BY DEF SpiByte
  <1>2. /\ n < size
        /\ UNCHANGED <<open, swapped, shadow, mac, tracked, committed, disk>>
    BY DEF SpiByte
  <1>3. Game(m) \in Slots /\ size \in Nat /\ n \in Nat
    BY GameOfSlot, SizeOfGame DEF MemoryInv, Shape
  <1>4. Shape'
    <2>1. spi' \in [Slots -> [first : Nat, count : Nat]]
      BY <1>1, <1>3 DEF MemoryInv, Shape
    <2>2. live' = [k \in Slots |-> live'[k]]
      BY <1>1 DEF MemoryInv, Shape
    <2> QED BY <1>2, <2>1, <2>2 DEF MemoryInv, Shape
  <1>5. DiskOK' /\ Addresses' /\ FilesTracked'
    BY <1>2 DEF MemoryInv, DiskOK, Addresses, MacsDiffer, FilesTracked, Game
  <1>6. ASSUME NEW k \in Slots, k # m PROVE WriteTransaction(k)'
    <2>1. WriteTransaction(k)
      BY DEF MemoryInv, Transactions
    <2>2. live'[k] = live[k] /\ spi'[k] = spi[k] /\ Game(k)' = Game(k)
      BY <1>1, <1>2, <1>6 DEF MemoryInv, Shape, Game
    <2> QED BY <1>2, <2>1, <2>2 DEF WriteTransaction
  <1>7. WriteTransaction(m)'
    <2>1. WriteTransaction(m)
      BY DEF MemoryInv, Transactions
    <2>2. live'[m] = [live[m] EXCEPT ![(a + n) % size] = b]
      BY <1>1 DEF MemoryInv, Shape
    <2>3. spi'[m] = [first |-> a, count |-> n + 1] /\ Game(m)' = Game(m)
      BY <1>1, <1>2 DEF MemoryInv, Shape, Game
    <2>4. (a + n) % size \in 0 .. size - 1
      BY <1>2, <1>3, ModOnce
    <2>5. live'[m] \in Image(Game(m))
      BY <2>1, <2>2, <2>4 DEF WriteTransaction, Image
    <2>6. ASSUME NEW i \in 0 .. size - 1,
                 ~Touched(i, a, n + 1, size)
          PROVE  live'[m][i] = shadow[m][i]
      <3>1. i # (a + n) % size /\ ~Touched(i, a, n, size)
        <4> SUFFICES ASSUME \/ i = (a + n) % size
                            \/ Touched(i, a, n, size)
                     PROVE  FALSE
          OBVIOUS
        <4> HIDE DEF n, size
        <4> QED BY <1>2, <1>3, <2>6, TouchedMore
      <3>2. live'[m][i] = live[m][i]
        BY <2>1, <2>2, <3>1 DEF WriteTransaction, Image
      <3>3. n = 0 \/ ~Touched(i, spi[m].first, spi[m].count, size)
        BY <1>1, <3>1 DEF Touched
      <3> QED BY <2>1, <3>2, <3>3 DEF WriteTransaction
    <2> QED BY <1>2, <1>3, <2>1, <2>3, <2>5, <2>6 DEF WriteTransaction
  <1>8. Transactions'
    BY <1>6, <1>7 DEF Transactions
  <1> QED BY <1>4, <1>5, <1>8 DEF MemoryInv

\* The end of a transaction makes shadow and cartridge equal again.
LEMMA ReleaseMemory ==
  ASSUME NEW m \in Slots, MemoryInv, SpiRelease(m), open
  PROVE  MemoryInv'
  <1> DEFINE size == SaveSize[Game(m)]
  <1>1. /\ spi[m].count > 0
        /\ shadow' = [shadow EXCEPT ![m] =
                        WriteNDSSave(shadow[m], live[m], spi[m].first,
                                     spi[m].count % size)]
        /\ committed' = [committed EXCEPT ![m] = live[m]]
        /\ spi' = [spi EXCEPT ![m] = NoTransaction]
        /\ UNCHANGED <<open, swapped, live, mac, tracked, disk>>
    BY DEF SpiRelease
  <1>2. Game(m) \in Slots /\ size \in Nat /\ WriteTransaction(m)
    BY GameOfSlot, SizeOfGame DEF MemoryInv, Shape, Transactions
  <1>3. WriteNDSSave(shadow[m], live[m], spi[m].first, spi[m].count % size)
          = live[m]
    <2> DEFINE B == Bytes \cup {FF}
               old == shadow[m]
               new == live[m]
               first == spi[m].first
               n == spi[m].count
    <2>1. /\ old \in [0 .. size - 1 -> B] /\ new \in [0 .. size - 1 -> B]
          /\ first \in Nat /\ n \in Nat
          /\ n > 0 /\ n <= size /\ first < size
          /\ \A i \in 0 .. size - 1 :
               ~Touched(i, first, n, size) => new[i] = old[i]
      BY <1>1, <1>2 DEF MemoryInv, Shape, WriteTransaction, Image
    <2>2. WriteNDSSave(old, new, first, n % size) = new
      <3> HIDE DEF B, first, n, old, new, size
      <3> QED BY ZenonT(30), <1>2, <2>1, WholeTransaction
    <2> QED BY <2>2
  <1>4. Shape'
    BY <1>1 DEF MemoryInv, Shape, NoTransaction
  <1>5. DiskOK' /\ Addresses' /\ FilesTracked'
    BY <1>1 DEF MemoryInv, DiskOK, Addresses, MacsDiffer, FilesTracked, Game
  <1>6. ASSUME NEW k \in Slots, k # m PROVE WriteTransaction(k)'
    <2>1. WriteTransaction(k)
      BY DEF MemoryInv, Transactions
    <2>2. /\ shadow'[k] = shadow[k] /\ committed'[k] = committed[k]
          /\ spi'[k] = spi[k] /\ Game(k)' = Game(k)
      BY <1>1, <1>6 DEF MemoryInv, Shape, Game
    <2> QED BY <1>1, <2>1, <2>2 DEF WriteTransaction
  <1>7. WriteTransaction(m)'
    <2>1. /\ shadow'[m] = live[m] /\ committed'[m] = live[m]
          /\ spi'[m] = [first |-> 0, count |-> 0] /\ Game(m)' = Game(m)
      BY <1>1, <1>3 DEF MemoryInv, Shape, Game, NoTransaction
    <2> QED BY <1>1, <1>2, <2>1 DEF WriteTransaction
  <1>8. Transactions'
    BY <1>6, <1>7 DEF Transactions
  <1> QED BY <1>4, <1>5, <1>8 DEF MemoryInv

\* A reset of any consoles cuts their transactions off.
LEMMA ResetMemory ==
  ASSUME NEW ms, MemoryInv, ResetMachine(ms), open,
         UNCHANGED <<open, swapped, disk>>
  PROVE  MemoryInv'
  <1>1. /\ live' = [m \in Slots |-> IF m \in ms THEN shadow[m] ELSE live[m]]
        /\ spi' = [m \in Slots |->
                     IF m \in ms THEN NoTransaction ELSE spi[m]]
        /\ UNCHANGED <<shadow, mac, tracked, committed>>
    BY DEF ResetMachine
  <1>2. Shape'
    BY <1>1 DEF MemoryInv, Shape, NoTransaction
  <1>3. DiskOK' /\ Addresses' /\ FilesTracked'
    BY <1>1 DEF MemoryInv, DiskOK, Addresses, MacsDiffer, FilesTracked, Game
  <1>4. ASSUME NEW m \in Slots PROVE WriteTransaction(m)'
    <2>1. WriteTransaction(m) /\ Game(m)' = Game(m)
      BY DEF MemoryInv, Transactions, Game
    <2>2. SaveSize[Game(m)] \in Nat
      BY GameOfSlot, SizeOfGame DEF MemoryInv, Shape
    <2>3. CASE m \in ms
      <3>1. live'[m] = shadow[m] /\ spi'[m] = [first |-> 0, count |-> 0]
        BY <1>1, <2>3 DEF NoTransaction
      <3> QED BY <1>1, <2>1, <2>2, <3>1 DEF WriteTransaction
    <2>4. CASE m \notin ms
      <3>1. live'[m] = live[m] /\ spi'[m] = spi[m]
        BY <1>1, <2>4
      <3> QED BY <1>1, <2>1, <3>1 DEF WriteTransaction
    <2> QED BY <2>3, <2>4
  <1> QED BY <1>2, <1>3, <1>4 DEF MemoryInv, Transactions

\* A flush, of as many regions as it reaches, writes whole images to the files
\* of their own games.
LEMMA FlushKeepsDisk ==
  ASSUME NEW n, MemoryInv, open, disk' = FlushedDisk(n)
  PROVE  DiskOK'
  <1> SUFFICES ASSUME NEW g \in Slots
               PROVE  /\ disk'[g] = [kind \in Regions |-> disk'[g][kind]]
                      /\ disk'[g]["save"] \in Image(g) \cup {NoFile}
                      /\ disk'[g]["firmware"] \in Macs \cup {NoFile, Bad}
    BY DEF DiskOK, FlushedDisk
  <1> DEFINE m == Game(g)
  <1>1. m \in Slots /\ Game(m) = g
    BY GameOfSlot DEF MemoryInv, Shape
  <1>2. disk'[g] = [kind \in Regions |->
                      IF Writes(n, m, kind) THEN Data(m, kind)
                      ELSE disk[g][kind]]
    BY DEF FlushedDisk, Regions
  <1>3. /\ disk[g]["save"] \in Image(g) \cup {NoFile}
        /\ disk[g]["firmware"] \in Macs \cup {NoFile, Bad}
    BY DEF MemoryInv, DiskOK
  <1>4. Data(m, "save") \in Image(g)
    BY <1>1 DEF MemoryInv, Transactions, WriteTransaction, Data
  <1>5. Data(m, "firmware") \in Macs
    BY <1>1, MemoryAssumption DEF MemoryInv, Addresses, Data
  <1> HIDE DEF m
  <1> QED BY <1>2, <1>3, <1>4, <1>5 DEF Regions

\* A tick tracks what it has written, however far it came.
LEMMA TickMemory == MemoryInv /\ Tick => MemoryInv'
  <1> SUFFICES ASSUME MemoryInv, Tick PROVE MemoryInv'
    OBVIOUS
  <1>1. PICK n \in 0 .. Len(Order) :
          disk' = FlushedDisk(n) /\ tracked' = FlushedTracking(n)
    BY DEF Tick
  <1>2. /\ open /\ UNCHANGED <<open, swapped, live, shadow, spi, mac, committed>>
    BY DEF Tick, Idle
  <1>3. Shape'
    BY <1>2 DEF MemoryInv, Shape
  <1>4. DiskOK'
    BY <1>1, <1>2, FlushKeepsDisk
  <1>5. Transactions' /\ Addresses'
    BY <1>2 DEF MemoryInv, Transactions, WriteTransaction, Addresses, MacsDiffer,
         Game
  <1>6. FilesTracked'
    <2> SUFFICES ASSUME NEW m \in Slots, NEW kind \in Regions
                 PROVE  disk'[Game(m)'][kind] \in {tracked'[m][kind], NoFile}
      BY DEF FilesTracked, Regions
    <2>1. Game(m)' = Game(m) /\ Game(m) \in Slots /\ Game(Game(m)) = m
      BY <1>2, GameOfSlot DEF MemoryInv, Shape, Game
    <2>2. disk'[Game(m)][kind] = IF Writes(n, m, kind) THEN Data(m, kind)
                                 ELSE disk[Game(m)][kind]
      BY <1>1, <2>1 DEF FlushedDisk, Regions
    <2>3. tracked'[m][kind] = IF Writes(n, m, kind) THEN Data(m, kind)
                              ELSE tracked[m][kind]
      BY <1>1 DEF FlushedTracking, Regions
    <2>4. disk[Game(m)][kind] \in {tracked[m][kind], NoFile}
      BY <1>2 DEF MemoryInv, FilesTracked, Regions
    <2> QED BY <2>1, <2>2, <2>3, <2>4
  <1> QED BY <1>3, <1>4, <1>5, <1>6 DEF MemoryInv

\* The last flush of a session, after which its memory is gone.
LEMMA UnloadMemory == MemoryInv /\ UnloadPair => MemoryInv'
  <1> SUFFICES ASSUME MemoryInv, UnloadPair PROVE MemoryInv'
    OBVIOUS
  <1>1. open /\ open' = FALSE /\ swapped' = FALSE
    BY DEF UnloadPair, Idle
  <1>2. Shape'
    BY <1>1 DEF UnloadPair, Shape, Each, Empty, Nowhere, NoTransaction
  <1>3. DiskOK'
    BY <1>1, FlushKeepsDisk DEF UnloadPair
  <1>4. Transactions' /\ Addresses' /\ FilesTracked'
    BY <1>1 DEF Transactions, Addresses, MacsDiffer, FilesTracked
  <1> QED BY <1>2, <1>3, <1>4 DEF MemoryInv
-----------------------------------------------------------------------------
(* The theorems.                                                           *)

\* Frames and resets belong to a session.
JobInSession == open \/ job = "none"

\* A session is only unloaded between frames and resets.
LEMMA NextJob == MemoryInv /\ JobInSession /\ [MemoryNext]_allVars => JobInSession'
  BY DEF JobInSession, MemoryNext, OpenGL, Frames, Tasks, Files, SpiByte,
         SpiRelease, SoftwareFrame, SoftwareFrameEnds, SoftwareReset,
         FirstTask, NextTask, TaskReturns, TaskRuns, LoadPair, LoadRejected,
         Tick, UnloadPair, Idle, allVars, memoryVars

\* Every step of the adapter, the game and the save manager.
LEMMA NextMemory ==
  MemoryInv /\ JobInSession /\ [MemoryNext]_allVars => MemoryInv'
  <1> SUFFICES ASSUME MemoryInv, JobInSession, [MemoryNext]_allVars
               PROVE  MemoryInv'
    OBVIOUS
  <1>1. CASE OpenGL \/ UNCHANGED allVars
    BY <1>1, QuietMemory DEF OpenGL, Quiet, allVars, memoryVars
  <1>2. CASE SoftwareFrame \/ SoftwareFrameEnds \/ FirstTask \/ NextTask
               \/ TaskReturns
    BY <1>2, QuietMemory
    DEF Quiet, SoftwareFrame, SoftwareFrameEnds, FirstTask, NextTask,
        TaskReturns
  <1>3. CASE SoftwareReset
    BY <1>3, ResetMemory DEF SoftwareReset, Idle
  <1>4. CASE TaskRuns
    <2>1. CASE job = "reset" /\ ResetMachine({task_slot})
      BY <1>4, <2>1, ResetMemory DEF TaskRuns, JobInSession
    <2>2. CASE UNCHANGED memory
      BY <1>4, <2>2, QuietMemory DEF TaskRuns, Quiet
    <2> QED BY <1>4, <2>1, <2>2 DEF TaskRuns
  <1>5. CASE \E m \in Slots : SpiByte(m) \/ SpiRelease(m)
    <2> PICK m \in Slots : SpiByte(m) \/ SpiRelease(m)
      BY <1>5
    <2>1. open
      BY DEF SpiByte, SpiRelease, Running, JobInSession
    <2> QED BY <2>1, ByteMemory, ReleaseMemory
  <1> QED
    BY <1>1, <1>2, <1>3, <1>4, <1>5, LoadMemory, RejectedMemory, TickMemory,
       UnloadMemory
    DEF MemoryNext, Frames, Tasks, Files

\* The memory of a pair of consoles: what is flushed is what games completed,
\* a reset and a new session give it back, addresses differ, and the save
\* manager knows its files; for saves of any size and any number of sessions.
THEOREM ConsoleMemoryKept == MemorySpec => []ConsoleMemory
  <1>1. MemoryInit => MemoryInv /\ JobInSession
    BY InitMemory DEF MemoryInit, JobInSession
  <1>2. MemoryInv /\ JobInSession /\ [MemoryNext]_allVars
          => (MemoryInv /\ JobInSession)'
    BY NextMemory, NextJob
  <1> QED BY <1>1, <1>2, InvKeepsMemory, PTL DEF MemorySpec

\* Frames, resets and everything else the adapter asks of the context thread
\* are steps of EglWorker, so that its invariant holds during them.
THEOREM WorkerKeptByPair == MemorySpec => []WorkerInv
  <1>1. [MemoryNext]_allVars => [Next]_vars
    <2> SUFFICES ASSUME MemoryNext PROVE Next \/ UNCHANGED vars
      BY DEF allVars
    <2>1. CASE OpenGL
      BY <2>1 DEF OpenGL, Next, Calling, Working
    <2>2. CASE Tasks
      BY <2>2 DEF Tasks, FirstTask, NextTask, TaskReturns, TaskRuns, Next,
                  Calling, Working
    <2>3. CASE Frames \/ Files
      BY <2>3 DEF Frames, Files, SoftwareFrame, SoftwareFrameEnds,
                  SoftwareReset, LoadPair, LoadRejected, Tick, UnloadPair
    <2>4. CASE \E m \in Slots : SpiByte(m) \/ SpiRelease(m)
      BY <2>4 DEF SpiByte, SpiRelease
    <2> QED BY <2>1, <2>2, <2>3, <2>4 DEF MemoryNext
  <1>2. MemoryInit => ThreadInv
    BY InitThreads DEF MemoryInit
  <1>3. ThreadInv /\ [MemoryNext]_allVars => ThreadInv'
    BY <1>1, NextThreads
  <1> QED BY <1>2, <1>3, ThreadsKeepWorker, PTL DEF MemorySpec

-----------------------------------------------------------------------------
(* The first console on a list.                                            *)

\* The part of a list up to x.
Below(T, x) == {k \in T : k <= x}

\* A list of consoles that is not empty has a first one.
LEMMA FirstOnList ==
  ASSUME NEW T, T \subseteq Machines, T # {}
  PROVE  Min(T) \in T /\ \A k \in T : Min(T) <= k
  <1> DEFINE Parts == {Below(T, x) : x \in T}
             Less == StrictSubsetOrdering(T)
  <1>1. T \subseteq Nat /\ IsFiniteSet(T)
    BY MachinesAssumption, FS_Subset
  <1>2. IsWellFoundedOn(Less, SUBSET T)
    <2>1. FiniteSubsetsOf(T) = SUBSET T
      BY <1>1, FS_FiniteSubsetsOfFinite
    <2> QED BY <2>1, FS_StrictSubsetOrderingWellFounded
  <1>3. Parts \subseteq SUBSET T /\ Parts # {}
    BY DEF Below
  <1>4. \E W \in Parts : \A V \in Parts : <<V, W>> \notin Less
    <2> HIDE DEF Parts, Less
    <2> QED BY <1>2, <1>3, WFMin
  <1> PICK x \in T : \A V \in Parts : <<V, Below(T, x)>> \notin Less
    BY <1>4
  <1>5. ASSUME NEW y \in T, ~(x <= y) PROVE FALSE
    <2>1. y \in Nat /\ x \in Nat /\ y < x
      BY <1>1, <1>5
    <2>2. Below(T, y) \subseteq Below(T, x) /\ Below(T, y) # Below(T, x)
      <3>1. x \in Below(T, x) /\ x \notin Below(T, y)
        BY <2>1 DEF Below
      <3>2. \A k \in T : k <= y => k <= x
        BY <2>1, <1>1
      <3> QED BY <3>1, <3>2 DEF Below
    <2>3. <<Below(T, y), Below(T, x)>> \in Less
      <3>1. Below(T, y) \in SUBSET T /\ Below(T, x) \in SUBSET T
        BY DEF Below
      <3> QED BY <3>1, <2>2 DEF StrictSubsetOrdering
    <2> QED BY <2>3
  <1>6. \E m \in T : \A k \in T : m <= k
    BY <1>5
  <1> QED BY <1>6 DEF Min

-----------------------------------------------------------------------------
(* The inductive invariant.                                                *)

\* LinkTypeOK, by kind of variable.
Flags ==
  /\ fe_link \in BOOLEAN /\ updated \in BOOLEAN /\ honoured \in BOOLEAN
  /\ opt_link \in BOOLEAN /\ frontend_link \in BOOLEAN
  /\ pending \in BOOLEAN /\ pending_value \in BOOLEAN
  /\ session_link \in BOOLEAN /\ link_enabled \in BOOLEAN
  /\ poisoned \in BOOLEAN /\ requested \in BOOLEAN /\ context \in BOOLEAN
  /\ inhibited \in BOOLEAN /\ ok \in BOOLEAN /\ new_link \in BOOLEAN
  /\ old_link \in BOOLEAN

Kinds ==
  /\ fe_renderer \in Renderers /\ opt_renderer \in Renderers
  /\ loaded_renderer \in Renderers /\ video_renderer \in Renderers
  /\ target \in Renderers
  /\ session \in Engines \cup {"none"}
  /\ state_link \in {NoState, {TRUE}, {FALSE}}
  /\ pc \in {"idle", "activate", "install", "remove", "recover", "activated",
             "deactivate", "deactivated", "unlink", "relink", "retry", "frame"}
  /\ why \in {"none", "load", "option", "unload"}
  /\ faults \in 0 .. MaxFaults

Consoles ==
  /\ renderer \in [Machines -> Renderers \cup {"gone"}]
  /\ todo \subseteq Machines /\ (todo # {}) = InChange

\* Every console is on the renderer r, with its contexts.
On(r) ==
  /\ video_renderer = r /\ \A m \in Machines : renderer[m] = r
  /\ context = (r = "opengl")

\* No console is on OpenGL.
NoneGL == \A m \in Machines : renderer[m] # "opengl"

\* Places of a renderer change and of its return.
ChangePlaces == {"install", "remove", "recover", "activated", "deactivated"}

\* A renderer change, place by place: between changes all consoles are on one
\* renderer; during one, those that were handled are on the other.
Transaction ==
  /\ pc \notin ChangePlaces => On(video_renderer)
  /\ pc \in {"activate", "relink"} => video_renderer = "software"
  /\ pc = "deactivate" => video_renderer = "opengl"
  /\ pc = "install" =>
       /\ target = "opengl" /\ video_renderer = "software" /\ context
       /\ \A m \in Machines :
            renderer[m] = IF m \in todo THEN "software" ELSE "opengl"
       /\ \A m \in Machines, k \in todo : k <= m => m \in todo
  /\ pc = "remove" =>
       /\ target = "software" /\ video_renderer = "opengl" /\ context
       /\ \A m \in Machines :
            renderer[m] = IF m \in todo THEN "opengl" ELSE "software"
  /\ pc = "recover" =>
       context /\ \A m \in Machines \ todo : renderer[m] # "opengl"
  /\ pc = "activated" =>
       /\ ok => On("opengl")
       /\ ~ok /\ video_renderer = "software" => On("software")
       /\ ~ok /\ video_renderer = "opengl" => NoneGL
  /\ pc = "deactivated" =>
       /\ video_renderer = "software" => On("software")
       /\ video_renderer = "opengl" => context \/ NoneGL

\* On the way to OpenGL, or to software.
ToOpenGL ==
  \/ pc \in {"activate", "install", "activated"}
  \/ (pc = "recover" /\ target = "opengl")
ToSoftware ==
  \/ pc \in {"deactivate", "remove", "deactivated"}
  \/ (pc = "recover" /\ target = "software")

\* Which engine is loaded: only a DS pair changes renderers.
Sessions ==
  /\ session = "none" =>
       /\ pc = "idle" /\ video_renderer = "software" /\ ~link_enabled
       /\ ~requested /\ ~inhibited /\ ~poisoned /\ state_link = NoState
  /\ session = "other" =>
       pc \in {"idle", "retry", "frame"} /\ video_renderer = "software"
  /\ session = "nds" => pc # "retry" /\ state_link = NoState

\* The link of a DS pair is as the session and the options have it, unless a
\* late frame has ended it, and off during a change and under OpenGL; a pair
\* that is retired does not change its renderers.
LinkOfPair ==
  /\ session = "nds" =>
       /\ opt_link = session_link
       /\ link_enabled => session_link
       /\ poisoned \/ link_enabled = session_link
  /\ video_renderer = "opengl" => ~link_enabled
  /\ ToOpenGL \/ ToSoftware => ~link_enabled
  /\ InChange => ~poisoned

\* What update_options has decided when it comes to each of its steps.
Decisions ==
  /\ pc = "unlink" \/ ToOpenGL =>
       /\ ~frontend_link /\ fe_renderer = "opengl"
       /\ honoured => ~fe_link
  /\ pc = "unlink" => why = "option"
  /\ ToOpenGL => ~opt_link
  /\ ToOpenGL /\ why = "load" => ~requested /\ ~inhibited
  /\ ToSoftware /\ why = "unload" => ~inhibited
  /\ pc = "relink" \/ (ToSoftware /\ why = "option") =>
       /\ frontend_link = new_link
       /\ honoured => fe_link = new_link /\ fe_renderer = "software"

\* Options of a DS pair between calls.
OptionsOfPair ==
  /\ session = "nds" /\ pc \in {"idle", "frame", "unlink", "relink",
                               "deactivate"} =>
       loaded_renderer = video_renderer
  /\ session = "nds" /\ pc \in {"idle", "frame"} =>
       /\ opt_renderer = video_renderer
       /\ honoured /\ ~updated =>
            fe_link = opt_link /\ fe_renderer = opt_renderer
  /\ pc = "idle" => inhibited = Active

\* The link of another engine: while a request is pending it is the one of the
\* option; otherwise the session has the link of the option or of its state.
LinkOfOther ==
  /\ session = "other" /\ pending =>
       pending_value = frontend_link /\ state_link = NoState
  /\ session = "other" /\ ~pending =>
       IF state_link = NoState THEN session_link = frontend_link
       ELSE state_link = {session_link}
  /\ pc = "retry" => pending

\* The inductive invariant.
SessionInv ==
  /\ Flags /\ Kinds /\ Consoles /\ Transaction
  /\ Sessions /\ LinkOfPair /\ Decisions /\ OptionsOfPair /\ LinkOfOther

-----------------------------------------------------------------------------
(* Every step keeps it.                                                    *)

\* The console that is handled next is on the list.
LEMMA MinOnList ==
  ASSUME Consoles, InChange
  PROVE  /\ Min(todo) \in todo /\ Min(todo) \in Machines
         /\ \A k \in todo : Min(todo) <= k
  <1>1. todo \subseteq Machines /\ todo # {}
    BY DEF Consoles
  <1> QED BY <1>1, FirstOnList

\* Inside a change the rest of the session stands still.
LEMMA InsideChange ==
  ASSUME SessionInv, InChange, Outside, target' = target,
         pc' \in ChangePlaces, InChange' => ~poisoned',
         ToOpenGL => ToOpenGL', ToSoftware => ToSoftware',
         video_renderer' \in Renderers
  PROVE  Sessions' /\ LinkOfPair' /\ Decisions' /\ OptionsOfPair'
           /\ LinkOfOther'
  <1> USE DEF SessionInv, InChange, Outside, fe, options, ChangePlaces
  <1>1. session = "nds" /\ state_link = NoState
    BY DEF Sessions, Kinds, Engines
  <1>2. ToOpenGL \/ ToSoftware
    BY DEF ToOpenGL, ToSoftware, Kinds, Renderers
  <1>3. ~link_enabled /\ ~session_link /\ ~poisoned
    BY <1>1, <1>2 DEF LinkOfPair, Flags
  <1>4. ToOpenGL' = ToOpenGL /\ ToSoftware' = ToSoftware
    BY <1>2 DEF ToOpenGL, ToSoftware
  <1>5. Sessions'
    BY <1>1 DEF Sessions
  <1>6. LinkOfPair'
    BY <1>1, <1>3 DEF LinkOfPair
  <1>7. Decisions'
    BY <1>4 DEF Decisions
  <1>8. OptionsOfPair'
    BY DEF OptionsOfPair
  <1>9. LinkOfOther'
    BY <1>1 DEF LinkOfOther
  <1> QED BY <1>5, <1>6, <1>7, <1>8, <1>9

\* The user changes options: a note for the next frame.
LEMMA UserChangesKeeps == SessionInv /\ UserChanges => SessionInv'
  <1> SUFFICES ASSUME SessionInv, UserChanges PROVE SessionInv'
    OBVIOUS
  <1> USE DEF SessionInv, UserChanges, options, pair, change, Renderers,
            Engines, NoState
  <1>1. Flags'
    BY DEF Flags, Kinds
  <1>2. Kinds'
    BY DEF Kinds
  <1>3. Consoles'
    BY DEF Consoles, InChange, Kinds
  <1>4. Transaction'
    BY DEF Transaction, On, NoneGL, ChangePlaces, Kinds, Consoles, Sessions
  <1>5. Sessions'
    BY DEF Sessions, Kinds
  <1>6. LinkOfPair'
    BY DEF LinkOfPair, InChange, ToOpenGL, ToSoftware, Sessions, Kinds, Flags
  <1>7. Decisions'
    BY DEF Decisions, ToOpenGL, ToSoftware, Kinds, Flags
  <1>8. OptionsOfPair'
    BY DEF OptionsOfPair, Active, Sessions, Kinds
  <1>9. LinkOfOther'
    BY DEF LinkOfOther, Sessions, Kinds
  <1> QED BY <1>1, <1>2, <1>3, <1>4, <1>5, <1>6, <1>7, <1>8, <1>9

\* Loading starts on software, and on the way to OpenGL without a link.
LEMMA LoadKeeps == SessionInv /\ Load => SessionInv'
  <1> SUFFICES ASSUME SessionInv, Load PROVE SessionInv'
    OBVIOUS
  <1> USE DEF SessionInv, Load, LoadedLink, Fault, Shows, Renderers,
            Engines, NoState
  <1>1. Flags'
    BY ZenonT(30) DEF Flags, Kinds, Consoles, InChange, Transaction, On, NoneGL,
    ChangePlaces, Sessions, LinkOfPair, ToOpenGL, ToSoftware, Decisions,
    OptionsOfPair, Active, LinkOfOther
  <1>2. Kinds'
    <2>1. faults' \in 0 .. MaxFaults
      BY FaultsAssumption DEF Kinds
    <2>2. session' \in Engines \cup {"none"}
      BY DEF Kinds
    <2>3. pc' \in {pc, "activate"} /\ why' \in {why, "load"}
      OBVIOUS
    <2> QED BY <2>1, <2>2, <2>3 DEF Kinds
  <1>3. Consoles'
    BY DEF Consoles, InChange, Kinds
  <1>4. Transaction'
    BY DEF Transaction, On, NoneGL, ChangePlaces, Kinds, Consoles, Sessions
  <1>5. Sessions'
    BY DEF Sessions, Kinds
  <1>6. LinkOfPair'
    BY DEF LinkOfPair, InChange, ToOpenGL, ToSoftware, Sessions, Kinds, Flags
  <1>7. Decisions'
    BY DEF Flags, Kinds, Consoles, InChange, Transaction, On, NoneGL,
    ChangePlaces, Sessions, LinkOfPair, ToOpenGL, ToSoftware, Decisions,
    OptionsOfPair, Active, LinkOfOther
  <1>8. OptionsOfPair'
    BY DEF OptionsOfPair, Active, Sessions, Kinds
  <1>9. LinkOfOther'
    BY DEF LinkOfOther, Sessions, Kinds
  <1> QED BY <1>1, <1>2, <1>3, <1>4, <1>5, <1>6, <1>7, <1>8, <1>9

\* Unloading starts from a settled pair.
LEMMA UnloadKeeps == SessionInv /\ Unload => SessionInv'
  <1> SUFFICES ASSUME SessionInv, Unload PROVE SessionInv'
    OBVIOUS
  <1> USE DEF SessionInv, Unload, Destroyed, fe, pair, Renderers, Engines,
            NoState
  <1>1. Flags'
    BY DEF Flags, Kinds
  <1>2. Kinds'
    BY DEF Kinds
  <1>3. Consoles'
    BY DEF Consoles, InChange, Kinds, AllSoftware, Flags, LinkOfPair,
    OptionsOfPair, Decisions, Sessions, ToSoftware, ToOpenGL, InChange,
    ChangePlaces
  <1>4. Transaction'
    <2>1. On(video_renderer)
      BY DEF Transaction, ChangePlaces
    <2>2. CASE UNCHANGED pair /\ pc' = "deactivate"
      BY <2>1, <2>2 DEF Transaction, On, ChangePlaces
    <2>3. CASE Destroyed
      BY <2>3 DEF Transaction, On, ChangePlaces, AllSoftware
    <2> QED BY <2>2, <2>3
  <1>5. Sessions'
    BY DEF Sessions, Kinds
  <1>6. LinkOfPair'
    BY DEF LinkOfPair, InChange, ToOpenGL, ToSoftware, Sessions, Kinds, Flags
  <1>7. Decisions'
    BY DEF Decisions, ToOpenGL, ToSoftware, Kinds, Flags
  <1>8. OptionsOfPair'
    BY DEF OptionsOfPair, Active, Sessions, Kinds
  <1>9. LinkOfOther'
    BY DEF LinkOfOther, Sessions, Kinds
  <1> QED BY <1>1, <1>2, <1>3, <1>4, <1>5, <1>6, <1>7, <1>8, <1>9

\* A destroyed session leaves nothing behind.
LEMMA UnloadedKeeps == SessionInv /\ Unloaded => SessionInv'
  <1> SUFFICES ASSUME SessionInv, Unloaded PROVE SessionInv'
    OBVIOUS
  <1> USE DEF SessionInv, Unloaded, Destroyed, fe, Renderers, Engines,
            NoState
  <1>1. Flags'
    BY DEF Flags, Kinds
  <1>2. Kinds'
    BY DEF Kinds
  <1>3. Consoles'
    BY DEF Consoles, InChange, Kinds, AllSoftware, Flags, LinkOfPair,
    OptionsOfPair, Decisions, Sessions, ToSoftware, ToOpenGL, InChange,
    ChangePlaces
  <1>4. Transaction'
    BY DEF Transaction, On, NoneGL, ChangePlaces, Kinds, Consoles, Sessions,
    AllSoftware, Flags, LinkOfPair, OptionsOfPair, Decisions, Sessions,
    ToSoftware, ToOpenGL, InChange, ChangePlaces
  <1>5. Sessions'
    BY DEF Sessions, Kinds, AllSoftware, Flags, LinkOfPair, OptionsOfPair,
    Decisions, Sessions, ToSoftware, ToOpenGL, InChange, ChangePlaces
  <1>6. LinkOfPair'
    BY DEF LinkOfPair, InChange, ToOpenGL, ToSoftware, Sessions, Kinds, Flags
  <1>7. Decisions'
    BY DEF Decisions, ToOpenGL, ToSoftware, Kinds, Flags
  <1>8. OptionsOfPair'
    BY DEF OptionsOfPair, Active, Sessions, Kinds, AllSoftware, Flags,
    LinkOfPair, OptionsOfPair, Decisions, Sessions, ToSoftware, ToOpenGL,
    InChange, ChangePlaces
  <1>9. LinkOfOther'
    BY DEF LinkOfOther, Sessions, Kinds
  <1> QED BY <1>1, <1>2, <1>3, <1>4, <1>5, <1>6, <1>7, <1>8, <1>9

\* A change to OpenGL starts with all consoles on software and no link.
LEMMA ActivateKeeps == SessionInv /\ Activate => SessionInv'
  <1> SUFFICES ASSUME SessionInv, Activate PROVE SessionInv'
    OBVIOUS
  <1> USE DEF SessionInv, Activate, Returns, Fault, Outside, fe, options,
            Renderers, Engines, NoState
  <1>1. Flags'
    <2>1. ok' \in BOOLEAN
      BY DEF Flags
    <2>2. context' \in BOOLEAN
      BY DEF Flags
    <2> QED BY <2>1, <2>2 DEF Flags
  <1>2. Kinds'
    <2>1. faults' \in 0 .. MaxFaults
      BY FaultsAssumption DEF Kinds
    <2>2. pc' \in {"activated", "install"}
      OBVIOUS
    <2> QED BY ZenonT(30), <2>1, <2>2 DEF Kinds
  <1>3. Consoles'
    BY MachinesAssumption DEF Consoles, InChange, Kinds
  <1>4. Transaction'
    BY DEF Transaction, On, NoneGL, ChangePlaces, Kinds, Consoles, Sessions
  <1>5. Sessions'
    BY DEF Sessions, Kinds
  <1>6. LinkOfPair'
    BY DEF LinkOfPair, InChange, ToOpenGL, ToSoftware, Sessions, Kinds, Flags
  <1>7. Decisions'
    BY DEF Decisions, ToOpenGL, ToSoftware, Kinds, Flags
  <1>8. OptionsOfPair'
    BY DEF OptionsOfPair, Active, Sessions, Kinds
  <1>9. LinkOfOther'
    BY DEF LinkOfOther, Sessions, Kinds
  <1> QED BY <1>1, <1>2, <1>3, <1>4, <1>5, <1>6, <1>7, <1>8, <1>9

\* A change to software starts with all consoles on OpenGL.
LEMMA DeactivateKeeps == SessionInv /\ Deactivate => SessionInv'
  <1> SUFFICES ASSUME SessionInv, Deactivate PROVE SessionInv'
    OBVIOUS
  <1> USE DEF SessionInv, Deactivate, Returns, Outside, fe, options,
            Renderers, Engines, NoState
  <1>1. Flags'
    <2>1. ok' \in BOOLEAN
      BY DEF Flags
    <2> QED BY <2>1 DEF Flags
  <1>2. Kinds'
    BY ZenonT(30) DEF Kinds
  <1>3. Consoles'
    BY MachinesAssumption DEF Consoles, InChange, Kinds
  <1>4. Transaction'
    BY DEF Transaction, On, NoneGL, ChangePlaces, Kinds, Consoles, Sessions
  <1>5. Sessions'
    BY DEF Sessions, Kinds
  <1>6. LinkOfPair'
    BY DEF LinkOfPair, InChange, ToOpenGL, ToSoftware, Sessions, Kinds, Flags
  <1>7. Decisions'
    BY DEF Decisions, ToOpenGL, ToSoftware, Kinds, Flags
  <1>8. OptionsOfPair'
    BY DEF OptionsOfPair, Active, Sessions, Kinds
  <1>9. LinkOfOther'
    BY DEF LinkOfOther, Sessions, Kinds
  <1> QED BY <1>1, <1>2, <1>3, <1>4, <1>5, <1>6, <1>7, <1>8, <1>9

\* Consoles are handled in order; a failure puts back all that were.
LEMMA InstallKeeps == SessionInv /\ Install => SessionInv'
  <1> SUFFICES ASSUME SessionInv, Install PROVE SessionInv'
    OBVIOUS
  <1> DEFINE
        Installed(m) ==
          /\ renderer' = [renderer EXCEPT ![m] = "opengl"]
          /\ Handled(m)
          /\ video_renderer' = IF todo = {m} THEN "opengl" ELSE video_renderer
          /\ UNCHANGED faults
        Broken(m) ==
          /\ Fault /\ Failed(m)
          /\ todo' = Undo(m) /\ pc' = "recover"
          /\ UNCHANGED <<video_renderer, ok>>
  <1> PICK m \in {Min(todo)} : Installed(m) \/ Broken(m)
    BY DEF Install
  <1>1. pc = "install" /\ InChange /\ Outside
          /\ UNCHANGED <<poisoned, context, target>>
    BY DEF Install, InChange
  <1>2. m \in todo /\ m \in Machines /\ \A k \in todo : m <= k
    BY <1>1, MinOnList DEF SessionInv
  <1>3. /\ target = "opengl" /\ video_renderer = "software" /\ context
        /\ \A k \in Machines :
             renderer[k] = IF k \in todo THEN "software" ELSE "opengl"
        /\ \A k \in Machines : m <= k => k \in todo
    BY <1>1, <1>2 DEF SessionInv, Transaction
  <1>4. /\ renderer \in [Machines -> Renderers \cup {"gone"}]
        /\ todo \subseteq Machines
    BY DEF SessionInv, Consoles
  <1>5. /\ pc' \in {"install", "activated", "recover"}
        /\ video_renderer' \in Renderers
    BY <1>1, <1>3 DEF Handled, Returns, Renderers
  <1>6. faults' \in 0 .. MaxFaults
    BY FaultsAssumption DEF SessionInv, Kinds, Fault
  <1>7. Flags'
    <2>1. ok' \in BOOLEAN
      BY <1>1 DEF SessionInv, Flags, Handled, Returns
    <2> QED BY <1>1, <2>1 DEF SessionInv, Flags, Outside, fe, options
  <1>8. Kinds'
    BY <1>1, <1>5, <1>6 DEF SessionInv, Kinds, Outside, fe, options
  <1>9. ASSUME Installed(m) /\ todo = {m}
        PROVE  Transaction' /\ Consoles'
    <2>1. /\ pc' = "activated" /\ ok' /\ todo' = {}
          /\ video_renderer' = "opengl" /\ context'
          /\ renderer' = [renderer EXCEPT ![m] = "opengl"]
      BY <1>1, <1>3, <1>9 DEF Handled, Returns
    <2>2. \A k \in Machines : renderer'[k] = "opengl"
      BY <1>2, <1>3, <1>4, <1>9, <2>1
    <2>3. Transaction'
      BY <2>1, <2>2 DEF Transaction, On, ChangePlaces
    <2>4. Consoles'
      <3>1. renderer' \in [Machines -> Renderers \cup {"gone"}]
        BY <1>4, <2>1 DEF Renderers
      <3> QED BY <2>1, <3>1 DEF Consoles, InChange
    <2> QED BY <2>3, <2>4
  <1>10. ASSUME Installed(m) /\ todo # {m}
         PROVE  Transaction' /\ Consoles'
    <2>1. /\ pc' = "install" /\ todo' = todo \ {m}
          /\ video_renderer' = "software" /\ context' /\ target' = "opengl"
          /\ renderer' = [renderer EXCEPT ![m] = "opengl"]
      BY <1>1, <1>3, <1>10 DEF Handled
    <2>2. \A k \in Machines :
            renderer'[k] = IF k \in todo' THEN "software" ELSE "opengl"
      BY <1>2, <1>3, <1>4, <2>1
    <2>3. \A k \in Machines, l \in todo' : l <= k => k \in todo'
      <3>1. SUFFICES ASSUME NEW k \in Machines, NEW l \in todo', l <= k
                     PROVE  k \in todo \ {m}
        BY <2>1
      <3>2. l \in todo /\ l # m /\ m <= l
        BY <1>2, <2>1, <3>1
      <3>3. k \in Nat /\ l \in Nat /\ m \in Nat
        BY <1>2, <1>4, <3>2, MachinesAssumption
      <3>4. m < l /\ l <= k
        BY <3>1, <3>2, <3>3
      <3>5. m <= k /\ k # m
        BY <3>3, <3>4
      <3> QED BY <1>3, <3>5
    <2>4. Transaction'
      BY <2>1, <2>2, <2>3 DEF Transaction, ChangePlaces
    <2>5. Consoles'
      BY <1>2, <1>4, <1>10, <2>1 DEF Consoles, InChange, Renderers
    <2> QED BY <2>4, <2>5
  <1>11. ASSUME Broken(m)
         PROVE  Transaction' /\ Consoles'
    <2>1. /\ pc' = "recover" /\ todo' = Undo(m) /\ context'
          /\ renderer' \in {renderer, [renderer EXCEPT ![m] = "opengl"]}
      BY <1>1, <1>3, <1>11 DEF Failed
    <2>2. \A k \in Machines \ Undo(m) : k \in todo /\ k # m
      <3>1. SUFFICES ASSUME NEW k \in Machines, ~(k <= m)
                     PROVE  m <= k /\ k # m
        BY <1>3 DEF Undo
      <3> QED BY <1>2, <3>1, MachinesAssumption
    <2>3. \A k \in Machines \ todo' : renderer'[k] # "opengl"
      BY <1>3, <1>4, <2>1, <2>2
    <2>4. Transaction'
      BY <2>1, <2>3 DEF Transaction, ChangePlaces
    <2>5. m \in Undo(m) /\ Undo(m) \subseteq Machines
      BY <1>2, MachinesAssumption DEF Undo
    <2>6. Consoles'
      BY <1>4, <2>1, <2>5 DEF Consoles, InChange, Renderers
    <2> QED BY <2>4, <2>6
  <1>12. Transaction' /\ Consoles'
    BY <1>9, <1>10, <1>11
  <1>13. ~poisoned'
    BY <1>1 DEF SessionInv, LinkOfPair
  <1>14. ToOpenGL' /\ ~ToSoftware
    BY <1>1, <1>3, <1>5 DEF ToOpenGL, ToSoftware
  <1>15. Sessions' /\ LinkOfPair' /\ Decisions' /\ OptionsOfPair'
           /\ LinkOfOther'
    BY <1>1, <1>5, <1>13, <1>14, InsideChange DEF ChangePlaces
  <1> QED BY <1>7, <1>8, <1>12, <1>15 DEF SessionInv

\* A failure leaves the consoles that are still on OpenGL to recovery.
LEMMA RemoveKeeps == SessionInv /\ Remove => SessionInv'
  <1> SUFFICES ASSUME SessionInv, Remove PROVE SessionInv'
    OBVIOUS
  <1> DEFINE
        Removed(m) ==
          /\ renderer' = [renderer EXCEPT ![m] = "software"]
          /\ Handled(m)
          /\ video_renderer' =
               IF todo = {m} THEN "software" ELSE video_renderer
          /\ context' = (todo # {m})
          /\ UNCHANGED faults
        Broken(m) ==
          /\ Fault /\ Failed(m)
          /\ pc' = "recover"
          /\ UNCHANGED <<video_renderer, todo, ok, context>>
  <1> PICK m \in {Min(todo)} : Removed(m) \/ Broken(m)
    BY DEF Remove
  <1>1. pc = "remove" /\ InChange /\ Outside
          /\ UNCHANGED <<poisoned, target>>
    BY DEF Remove, InChange
  <1>2. m \in todo /\ m \in Machines
    BY <1>1, MinOnList DEF SessionInv
  <1>3. /\ target = "software" /\ video_renderer = "opengl" /\ context
        /\ \A k \in Machines :
             renderer[k] = IF k \in todo THEN "opengl" ELSE "software"
    BY <1>1 DEF SessionInv, Transaction
  <1>4. /\ renderer \in [Machines -> Renderers \cup {"gone"}]
        /\ todo \subseteq Machines
    BY DEF SessionInv, Consoles
  <1>5. /\ pc' \in {"remove", "deactivated", "recover"}
        /\ video_renderer' \in Renderers
    BY <1>1, <1>3 DEF Handled, Returns, Renderers
  <1>6. faults' \in 0 .. MaxFaults
    BY FaultsAssumption DEF SessionInv, Kinds, Fault
  <1>7. Flags'
    <2>1. ok' \in BOOLEAN
      BY <1>1 DEF SessionInv, Flags, Handled, Returns
    <2>2. context' \in BOOLEAN
      BY DEF SessionInv, Flags
    <2> QED BY <1>1, <2>1, <2>2 DEF SessionInv, Flags, Outside, fe, options
  <1>8. Kinds'
    BY <1>1, <1>5, <1>6 DEF SessionInv, Kinds, Outside, fe, options
  <1>9. ASSUME Removed(m) /\ todo = {m}
        PROVE  Transaction' /\ Consoles'
    <2>1. /\ pc' = "deactivated" /\ todo' = {}
          /\ video_renderer' = "software" /\ ~context'
          /\ renderer' = [renderer EXCEPT ![m] = "software"]
      BY <1>1, <1>3, <1>9 DEF Handled, Returns
    <2>2. \A k \in Machines : renderer'[k] = "software"
      BY <1>2, <1>3, <1>4, <1>9, <2>1
    <2>3. Transaction'
      BY <1>7, <2>1, <2>2 DEF Transaction, On, ChangePlaces, Flags
    <2>4. Consoles'
      <3>1. renderer' \in [Machines -> Renderers \cup {"gone"}]
        BY <1>4, <2>1 DEF Renderers
      <3> QED BY <2>1, <3>1 DEF Consoles, InChange
    <2> QED BY <2>3, <2>4
  <1>10. ASSUME Removed(m) /\ todo # {m}
         PROVE  Transaction' /\ Consoles'
    <2>1. /\ pc' = "remove" /\ todo' = todo \ {m}
          /\ video_renderer' = "opengl" /\ context' /\ target' = "software"
          /\ renderer' = [renderer EXCEPT ![m] = "software"]
      BY <1>1, <1>3, <1>10 DEF Handled
    <2>2. \A k \in Machines :
            renderer'[k] = IF k \in todo' THEN "opengl" ELSE "software"
      BY <1>2, <1>3, <1>4, <2>1
    <2>3. Transaction'
      BY <2>1, <2>2 DEF Transaction, ChangePlaces
    <2>4. Consoles'
      BY <1>2, <1>4, <1>10, <2>1 DEF Consoles, InChange, Renderers
    <2> QED BY <2>3, <2>4
  <1>11. ASSUME Broken(m)
         PROVE  Transaction' /\ Consoles'
    <2>1. /\ pc' = "recover" /\ todo' = todo /\ context'
          /\ renderer' \in {renderer, [renderer EXCEPT ![m] = "software"]}
      BY <1>1, <1>3, <1>11 DEF Failed
    <2>2. \A k \in Machines \ todo' : renderer'[k] # "opengl"
      BY <1>3, <1>4, <2>1
    <2>3. Transaction'
      BY <2>1, <2>2 DEF Transaction, ChangePlaces
    <2>4. Consoles'
      BY <1>2, <1>4, <2>1 DEF Consoles, InChange, Renderers
    <2> QED BY <2>3, <2>4
  <1>12. Transaction' /\ Consoles'
    BY <1>9, <1>10, <1>11
  <1>13. ~poisoned'
    BY <1>1 DEF SessionInv, LinkOfPair
  <1>14. ToSoftware' /\ ~ToOpenGL
    BY <1>1, <1>3, <1>5 DEF ToOpenGL, ToSoftware
  <1>15. Sessions' /\ LinkOfPair' /\ Decisions' /\ OptionsOfPair'
           /\ LinkOfOther'
    BY <1>1, <1>5, <1>13, <1>14, InsideChange DEF ChangePlaces
  <1> QED BY <1>7, <1>8, <1>12, <1>15 DEF SessionInv

\* Recovery leaves no console on OpenGL, or retires the pair.
LEMMA RecoverKeeps == SessionInv /\ Recover => SessionInv'
  <1> SUFFICES ASSUME SessionInv, Recover PROVE SessionInv'
    OBVIOUS
  <1> DEFINE
        Goes(m) ==
          /\ todo # {m} /\ todo' = todo \ {m}
          /\ UNCHANGED <<pc, ok, context, poisoned, video_renderer>>
        Ends(m) ==
          /\ todo = {m}
          /\ Returns(target, target = "software" /\ Whole)
          /\ context' = FALSE /\ poisoned' = ~Whole
          /\ video_renderer' = IF Whole THEN "software" ELSE "opengl"
        Left(m) ==
          \/ renderer' = [renderer EXCEPT ![m] = "software"] /\ UNCHANGED faults
          \/ renderer' = [renderer EXCEPT ![m] = "gone"] /\ Fault
  <1> PICK m \in {Min(todo)} : Left(m) /\ (Goes(m) \/ Ends(m))
    BY DEF Recover
  <1>1. pc = "recover" /\ InChange /\ Outside /\ target' = target
    BY DEF Recover, InChange
  <1>2. m \in todo /\ m \in Machines
    BY <1>1, MinOnList DEF SessionInv
  <1>3. /\ context /\ ~poisoned
        /\ \A k \in Machines \ todo : renderer[k] # "opengl"
    BY <1>1 DEF SessionInv, Transaction, LinkOfPair
  <1>4. /\ renderer \in [Machines -> Renderers \cup {"gone"}]
        /\ todo \subseteq Machines
        /\ target \in Renderers /\ video_renderer \in Renderers
    BY DEF SessionInv, Consoles, Kinds
  <1>5. renderer' \in [Machines -> Renderers \cup {"gone"}]
          /\ \A k \in Machines \ (todo \ {m}) : renderer'[k] # "opengl"
    BY <1>2, <1>3, <1>4 DEF Renderers
  <1>6. faults' \in 0 .. MaxFaults
    BY FaultsAssumption DEF SessionInv, Kinds, Fault
  <1>7. ASSUME Goes(m)
        PROVE  /\ pc' = "recover" /\ video_renderer' \in Renderers
               /\ ok' \in BOOLEAN /\ context' \in BOOLEAN
               /\ poisoned' \in BOOLEAN /\ ~poisoned'
               /\ Transaction' /\ Consoles'
    <2>1. pc' = "recover" /\ todo' = todo \ {m} /\ context' /\ ~poisoned'
      BY <1>1, <1>3, <1>7
    <2>2. Transaction'
      BY <1>5, <2>1 DEF Transaction, ChangePlaces
    <2>3. Consoles'
      BY <1>2, <1>4, <1>5, <1>7, <2>1 DEF Consoles, InChange
    <2>4. ok' \in BOOLEAN /\ context' \in BOOLEAN /\ poisoned' \in BOOLEAN
      BY <1>7 DEF SessionInv, Flags
    <2> QED BY <1>4, <1>7, <2>1, <2>2, <2>3, <2>4
  <1>8. ASSUME Ends(m)
        PROVE  /\ pc' \in {"activated", "deactivated"}
               /\ pc' = "activated" <=> target = "opengl"
               /\ video_renderer' \in Renderers
               /\ ok' \in BOOLEAN /\ context' \in BOOLEAN
               /\ poisoned' \in BOOLEAN
               /\ Transaction' /\ Consoles'
    <2>1. /\ pc' \in {"activated", "deactivated"} /\ todo' = {} /\ ~context'
          /\ pc' = "activated" <=> target = "opengl"
          /\ ok' <=> target = "software" /\ Whole
          /\ video_renderer' = IF Whole THEN "software" ELSE "opengl"
      BY <1>8 DEF Returns
    <2>2. \A k \in Machines : renderer'[k] # "opengl"
      BY <1>5, <1>8
    <2>3. Whole => \A k \in Machines : renderer'[k] = "software"
      BY <1>5, <2>2 DEF Whole, Renderers
    <2>4. ok' \in BOOLEAN
      BY <1>8 DEF Returns
    <2>5. poisoned' \in BOOLEAN /\ context' \in BOOLEAN
      BY <1>8
    <2>6. On("software")' \/ video_renderer' = "opengl"
      BY <2>1, <2>3, <2>5 DEF On
    <2>7. NoneGL'
      BY <2>2 DEF NoneGL
    <2>8. Transaction'
      BY <2>1, <2>6, <2>7 DEF Transaction, ChangePlaces
    <2>9. Consoles'
      BY <1>5, <2>1 DEF Consoles, InChange
    <2> QED BY <2>1, <2>4, <2>5, <2>8, <2>9 DEF Renderers
  <1>9. Flags'
    <2>1. ok' \in BOOLEAN /\ context' \in BOOLEAN /\ poisoned' \in BOOLEAN
      BY <1>7, <1>8
    <2> QED BY <1>1, <2>1 DEF SessionInv, Flags, Outside, fe, options
  <1>10. Kinds'
    BY <1>1, <1>6, <1>7, <1>8 DEF SessionInv, Kinds, Outside, fe, options
  <1>11. /\ pc' \in ChangePlaces /\ (InChange' => ~poisoned')
         /\ ToOpenGL => ToOpenGL'
         /\ ToSoftware => ToSoftware'
    BY <1>1, <1>4, <1>7, <1>8
      DEF ChangePlaces, InChange, ToOpenGL, ToSoftware, Renderers
  <1>12. Sessions' /\ LinkOfPair' /\ Decisions' /\ OptionsOfPair'
           /\ LinkOfOther'
    BY <1>1, <1>7, <1>8, <1>11, InsideChange
  <1> QED BY <1>7, <1>8, <1>9, <1>10, <1>12 DEF SessionInv

\* The conflict of link and OpenGL is decided one way.
LEMMA UpdateNdsKeeps == SessionInv /\ UpdateNds => SessionInv'
  <1> SUFFICES ASSUME SessionInv, UpdateNds PROVE SessionInv'
    OBVIOUS
  <1> USE DEF SessionInv, UpdateNds, LinkWins, Shows, pair, Renderers,
            Engines, NoState
  <1>1. Flags'
    BY ZenonT(30) DEF Flags, Kinds
  <1>2. Kinds'
    BY DEF Kinds
  <1>3. Consoles'
    BY DEF Consoles, InChange, Kinds
  <1>4. Transaction'
    BY DEF Flags, Kinds, Consoles, InChange, Transaction, On, NoneGL,
    ChangePlaces, Sessions, LinkOfPair, ToOpenGL, ToSoftware, Decisions,
    OptionsOfPair, Active, LinkOfOther
  <1>5. Sessions'
    BY DEF Sessions, Kinds
  <1>6. LinkOfPair'
    BY DEF Flags, Kinds, Consoles, InChange, Transaction, On, NoneGL,
    ChangePlaces, Sessions, LinkOfPair, ToOpenGL, ToSoftware, Decisions,
    OptionsOfPair, Active, LinkOfOther
  <1>7. Decisions'
    BY DEF Decisions, ToOpenGL, ToSoftware, Kinds, Flags
  <1>8. OptionsOfPair'
    BY DEF OptionsOfPair, Active, Sessions, Kinds
  <1>9. LinkOfOther'
    BY DEF LinkOfOther, Sessions, Kinds
  <1> QED BY <1>1, <1>2, <1>3, <1>4, <1>5, <1>6, <1>7, <1>8, <1>9

\* The link goes before OpenGL comes.
LEMMA UnlinkKeeps == SessionInv /\ Unlink => SessionInv'
  <1> SUFFICES ASSUME SessionInv, Unlink PROVE SessionInv'
    OBVIOUS
  <1> USE DEF SessionInv, Unlink, SetPairLink, fe, change, Renderers,
            Engines, NoState
  <1>1. Flags'
    <2>1. /\ opt_link' \in BOOLEAN /\ link_enabled' \in BOOLEAN
          /\ session_link' \in BOOLEAN
      BY DEF Flags
    <2> QED BY <2>1 DEF Flags
  <1>2. Kinds'
    BY DEF Kinds
  <1>3. Consoles'
    BY DEF Consoles, InChange, Kinds
  <1>4. Transaction'
    BY DEF Flags, Kinds, Consoles, InChange, Transaction, On, NoneGL,
    ChangePlaces, Sessions, LinkOfPair, ToOpenGL, ToSoftware, Decisions,
    OptionsOfPair, Active, LinkOfOther
  <1>5. Sessions'
    BY DEF Sessions, Kinds
  <1>6. LinkOfPair'
    BY DEF LinkOfPair, InChange, ToOpenGL, ToSoftware, Sessions, Kinds, Flags
  <1>7. Decisions'
    <2>1. pc' # "relink" /\ (ToSoftware' <=> FALSE)
      BY DEF ToSoftware
    <2>2. ~frontend_link /\ fe_renderer = "opengl" /\ (honoured => ~fe_link)
      BY DEF Decisions
    <2>3. opt_link' = FALSE /\ why = "option"
      BY DEF Decisions
    <2> QED BY <2>1, <2>2, <2>3 DEF Decisions
  <1>8. OptionsOfPair'
    BY DEF Flags, Kinds, Consoles, InChange, Transaction, On, NoneGL,
    ChangePlaces, Sessions, LinkOfPair, ToOpenGL, ToSoftware, Decisions,
    OptionsOfPair, Active, LinkOfOther
  <1>9. LinkOfOther'
    BY DEF LinkOfOther, Sessions, Kinds
  <1> QED BY <1>1, <1>2, <1>3, <1>4, <1>5, <1>6, <1>7, <1>8, <1>9

\* After the change options follow what the pair really runs on.
LEMMA ActivatedKeeps == SessionInv /\ Activated => SessionInv'
  <1> SUFFICES ASSUME SessionInv, Activated PROVE SessionInv'
    OBVIOUS
  <1> USE DEF SessionInv, Activated, SetPairLink, ReflectLink, Shows,
            change, Renderers, Engines, NoState
  <1>1. Flags'
    <2>1. opt_link' \in BOOLEAN /\ frontend_link' \in BOOLEAN
      BY DEF Flags
    <2>2. fe_link' \in BOOLEAN
      BY DEF Flags
    <2>3. link_enabled' \in BOOLEAN /\ session_link' \in BOOLEAN
      BY DEF Flags
    <2> QED BY <2>1, <2>2, <2>3 DEF Flags
  <1>2. Kinds'
    BY DEF Kinds
  <1>3. Consoles'
    <2>1. pc' \in {"idle", "frame"}
      OBVIOUS
    <2> QED BY <2>1 DEF Consoles, InChange
  <1>4. Transaction'
    BY DEF Transaction, On, NoneGL, ChangePlaces, Kinds, Consoles, Sessions
  <1>5. Sessions'
    BY DEF Sessions, Kinds
  <1>6. LinkOfPair'
    BY DEF Flags, Kinds, Consoles, InChange, Transaction, On, NoneGL,
    ChangePlaces, Sessions, LinkOfPair, ToOpenGL, ToSoftware, Decisions,
    OptionsOfPair, Active, LinkOfOther
  <1>7. Decisions'
    BY DEF Decisions, ToOpenGL, ToSoftware, Kinds, Flags
  <1>8. OptionsOfPair'
    BY DEF Flags, Kinds, Consoles, InChange, Transaction, On, NoneGL,
    ChangePlaces, Sessions, LinkOfPair, ToOpenGL, ToSoftware, Decisions,
    OptionsOfPair, Active, LinkOfOther
  <1>9. LinkOfOther'
    BY DEF LinkOfOther, Sessions, Kinds
  <1> QED BY <1>1, <1>2, <1>3, <1>4, <1>5, <1>6, <1>7, <1>8, <1>9

\* The link may only follow when all consoles are on software.
LEMMA DeactivatedKeeps == SessionInv /\ Deactivated => SessionInv'
  <1> SUFFICES ASSUME SessionInv, Deactivated PROVE SessionInv'
    OBVIOUS
  <1> USE DEF SessionInv, Deactivated, fe, pair, change, Renderers, Engines,
            NoState
  <1>1. Flags'
    BY DEF Flags, Kinds
  <1>2. Kinds'
    BY DEF Kinds
  <1>3. Consoles'
    BY DEF Consoles, InChange, Kinds
  <1>4. Transaction'
    BY DEF Transaction, On, NoneGL, ChangePlaces, Kinds, Consoles, Sessions
  <1>5. Sessions'
    BY DEF Sessions, Kinds
  <1>6. LinkOfPair'
    BY DEF LinkOfPair, InChange, ToOpenGL, ToSoftware, Sessions, Kinds, Flags
  <1>7. Decisions'
    BY DEF Decisions, ToOpenGL, ToSoftware, Kinds, Flags
  <1>8. OptionsOfPair'
    BY DEF OptionsOfPair, Active, Sessions, Kinds
  <1>9. LinkOfOther'
    BY DEF LinkOfOther, Sessions, Kinds
  <1> QED BY <1>1, <1>2, <1>3, <1>4, <1>5, <1>6, <1>7, <1>8, <1>9

\* The link follows the option, under software.
LEMMA RelinkKeeps == SessionInv /\ Relink => SessionInv'
  <1> SUFFICES ASSUME SessionInv, Relink PROVE SessionInv'
    OBVIOUS
  <1> USE DEF SessionInv, Relink, SetPairLink, fe, change, Renderers,
            Engines, NoState
  <1>1. Flags'
    BY DEF Flags, Kinds
  <1>2. Kinds'
    BY DEF Kinds
  <1>3. Consoles'
    BY DEF Consoles, InChange, Kinds
  <1>4. Transaction'
    BY DEF Transaction, On, NoneGL, ChangePlaces, Kinds, Consoles, Sessions
  <1>5. Sessions'
    BY DEF Sessions, Kinds
  <1>6. LinkOfPair'
    BY DEF LinkOfPair, InChange, ToOpenGL, ToSoftware, Sessions, Kinds, Flags
  <1>7. Decisions'
    BY DEF Decisions, ToOpenGL, ToSoftware, Kinds, Flags
  <1>8. OptionsOfPair'
    BY DEF Flags, Kinds, Consoles, InChange, Transaction, On, NoneGL,
    ChangePlaces, Sessions, LinkOfPair, ToOpenGL, ToSoftware, Decisions,
    OptionsOfPair, Active, LinkOfOther
  <1>9. LinkOfOther'
    BY DEF LinkOfOther, Sessions, Kinds
  <1> QED BY <1>1, <1>2, <1>3, <1>4, <1>5, <1>6, <1>7, <1>8, <1>9

\* A pair that is not whole goes, with what the frontend shows.
LEMMA RetireKeeps == SessionInv /\ Retire => SessionInv'
  <1> SUFFICES ASSUME SessionInv, Retire PROVE SessionInv'
    OBVIOUS
  <1> USE DEF SessionInv, Retire, Destroyed, ReflectLink, Shows, Renderers,
            Engines, NoState
  <1>1. Flags'
    BY DEF Flags, Kinds
  <1>2. Kinds'
    BY DEF Kinds
  <1>3. Consoles'
    BY DEF Consoles, InChange, Kinds, AllSoftware, Flags, LinkOfPair,
    OptionsOfPair, Decisions, Sessions, ToSoftware, ToOpenGL, InChange,
    ChangePlaces
  <1>4. Transaction'
    BY DEF Transaction, On, NoneGL, ChangePlaces, Kinds, Consoles, Sessions,
    AllSoftware, Flags, LinkOfPair, OptionsOfPair, Decisions, Sessions,
    ToSoftware, ToOpenGL, InChange, ChangePlaces
  <1>5. Sessions'
    BY DEF Sessions, Kinds
  <1>6. LinkOfPair'
    BY DEF LinkOfPair, InChange, ToOpenGL, ToSoftware, Sessions, Kinds, Flags
  <1>7. Decisions'
    BY DEF Decisions, ToOpenGL, ToSoftware, Kinds, Flags
  <1>8. OptionsOfPair'
    BY DEF OptionsOfPair, Active, Sessions, Kinds
  <1>9. LinkOfOther'
    BY DEF LinkOfOther, Sessions, Kinds
  <1> QED BY <1>1, <1>2, <1>3, <1>4, <1>5, <1>6, <1>7, <1>8, <1>9

\* A change of the link option replaces a restored one by a request.
LEMMA UpdateOtherKeeps == SessionInv /\ UpdateOther => SessionInv'
  <1> SUFFICES ASSUME SessionInv, UpdateOther PROVE SessionInv'
    OBVIOUS
  <1> USE DEF SessionInv, UpdateOther, pair, change, Renderers, Engines,
            NoState
  <1>1. Flags'
    <2>1. pending' \in BOOLEAN /\ pending_value' \in BOOLEAN
      BY DEF Flags
    <2> QED BY ZenonT(30), <2>1 DEF Flags
  <1>2. Kinds'
    BY DEF Kinds
  <1>3. Consoles'
    BY DEF Consoles, InChange, Kinds
  <1>4. Transaction'
    BY DEF Transaction, On, NoneGL, ChangePlaces, Kinds, Consoles, Sessions
  <1>5. Sessions'
    BY DEF Sessions, Kinds
  <1>6. LinkOfPair'
    BY DEF LinkOfPair, InChange, ToOpenGL, ToSoftware, Sessions, Kinds, Flags
  <1>7. Decisions'
    BY DEF Decisions, ToOpenGL, ToSoftware, Kinds, Flags
  <1>8. OptionsOfPair'
    BY DEF OptionsOfPair, Active, Sessions, Kinds
  <1>9. LinkOfOther'
    BY DEF LinkOfOther, Sessions, Kinds
  <1> QED BY <1>1, <1>2, <1>3, <1>4, <1>5, <1>6, <1>7, <1>8, <1>9

\* A request that is granted becomes the link of the session.
LEMMA RetryKeeps == SessionInv /\ Retry => SessionInv'
  <1> SUFFICES ASSUME SessionInv, Retry PROVE SessionInv'
    OBVIOUS
  <1> USE DEF SessionInv, Retry, Fault, fe, change, Renderers, Engines,
            NoState
  <1>1. Flags'
    <2>1. pending' \in BOOLEAN /\ opt_link' \in BOOLEAN
      BY DEF Flags
    <2>2. link_enabled' \in BOOLEAN /\ session_link' \in BOOLEAN
      BY DEF Flags
    <2> QED BY <2>1, <2>2 DEF Flags
  <1>2. Kinds'
    <2>1. faults' \in 0 .. MaxFaults
      BY FaultsAssumption DEF Kinds
    <2> QED BY <2>1 DEF Kinds
  <1>3. Consoles'
    BY DEF Consoles, InChange, Kinds
  <1>4. Transaction'
    BY DEF Transaction, On, NoneGL, ChangePlaces, Kinds, Consoles, Sessions
  <1>5. Sessions'
    BY DEF Sessions, Kinds
  <1>6. LinkOfPair'
    BY DEF LinkOfPair, InChange, ToOpenGL, ToSoftware, Sessions, Kinds, Flags
  <1>7. Decisions'
    BY DEF Decisions, ToOpenGL, ToSoftware, Kinds, Flags
  <1>8. OptionsOfPair'
    BY DEF OptionsOfPair, Active, Sessions, Kinds
  <1>9. LinkOfOther'
    <2>1. session = "other" /\ pending
      BY DEF Sessions, Kinds, LinkOfOther
    <2>2. state_link = NoState /\ pending_value = frontend_link
      BY <2>1 DEF LinkOfOther
    <2>3. CASE pending' = FALSE /\ session_link' = pending_value
      BY <2>1, <2>2, <2>3 DEF LinkOfOther
    <2>4. CASE UNCHANGED <<session_link, pending>>
      BY <2>1, <2>2, <2>4 DEF LinkOfOther
    <2> QED BY <2>3, <2>4
  <1> QED BY <1>1, <1>2, <1>3, <1>4, <1>5, <1>6, <1>7, <1>8, <1>9

\* A frame that is too late ends the link and retires the pair.
LEMMA FrameKeeps == SessionInv /\ Frame => SessionInv'
  <1> SUFFICES ASSUME SessionInv, Frame PROVE SessionInv'
    OBVIOUS
  <1> USE DEF SessionInv, Frame, Fault, Synchronized, fe, options, change,
            Renderers, Engines, NoState
  <1>1. Flags'
    <2>1. requested' \in BOOLEAN /\ inhibited' \in BOOLEAN
      BY DEF Active, Flags
    <2>2. poisoned' \in BOOLEAN /\ link_enabled' \in BOOLEAN
      BY DEF Flags
    <2> QED BY <2>1, <2>2 DEF Flags
  <1>2. Kinds'
    <2>1. faults' \in 0 .. MaxFaults
      BY FaultsAssumption DEF Kinds
    <2> QED BY <2>1 DEF Kinds
  <1>3. Consoles'
    BY DEF Consoles, InChange, Kinds
  <1>4. Transaction'
    BY DEF Transaction, On, NoneGL, ChangePlaces, Kinds, Consoles, Sessions
  <1>5. Sessions'
    BY DEF Sessions, Kinds
  <1>6. LinkOfPair'
    BY DEF LinkOfPair, InChange, ToOpenGL, ToSoftware, Sessions, Kinds, Flags
  <1>7. Decisions'
    BY DEF Decisions, ToOpenGL, ToSoftware, Kinds, Flags
  <1>8. OptionsOfPair'
    BY DEF OptionsOfPair, Active, Sessions, Kinds
  <1>9. LinkOfOther'
    BY DEF LinkOfOther, Sessions, Kinds
  <1> QED BY <1>1, <1>2, <1>3, <1>4, <1>5, <1>6, <1>7, <1>8, <1>9

\* A reset ends wireless and may retire a pair under OpenGL.
LEMMA ResetKeeps == SessionInv /\ Reset => SessionInv'
  <1> SUFFICES ASSUME SessionInv, Reset PROVE SessionInv'
    OBVIOUS
  <1> USE DEF SessionInv, Reset, Fault, Synchronized, fe, options, change,
            Renderers, Engines, NoState
  <1>1. Flags'
    <2>1. requested' \in BOOLEAN /\ inhibited' \in BOOLEAN
      BY DEF Active
    <2>2. poisoned' \in BOOLEAN
      BY DEF Flags
    <2> QED BY <2>1, <2>2 DEF Flags
  <1>2. Kinds'
    <2>1. faults' \in 0 .. MaxFaults
      BY FaultsAssumption DEF Kinds
    <2> QED BY <2>1 DEF Kinds
  <1>3. Consoles'
    BY DEF Consoles, InChange, Kinds
  <1>4. Transaction'
    BY DEF Transaction, On, NoneGL, ChangePlaces, Kinds, Consoles, Sessions
  <1>5. Sessions'
    BY DEF Sessions, Kinds
  <1>6. LinkOfPair'
    BY DEF LinkOfPair, InChange, ToOpenGL, ToSoftware, Sessions, Kinds, Flags
  <1>7. Decisions'
    BY DEF Decisions, ToOpenGL, ToSoftware, Kinds, Flags
  <1>8. OptionsOfPair'
    BY DEF OptionsOfPair, Active, Sessions, Kinds
  <1>9. LinkOfOther'
    BY DEF LinkOfOther, Sessions, Kinds
  <1> QED BY <1>1, <1>2, <1>3, <1>4, <1>5, <1>6, <1>7, <1>8, <1>9

\* A restored link replaces all older requests.
LEMMA RestoreKeeps == SessionInv /\ Restore => SessionInv'
  <1> SUFFICES ASSUME SessionInv, Restore PROVE SessionInv'
    OBVIOUS
  <1> USE DEF SessionInv, Restore, Synchronized, fe, change, Renderers,
            Engines, NoState
  <1>1. Flags'
    <2>1. Active' \in BOOLEAN
      BY Zenon DEF Active
    <2>2. inhibited' = Active'
      BY Zenon
    <2>3. inhibited' \in BOOLEAN
      BY <2>1, <2>2
    <2> QED BY ZenonT(30), <2>3 DEF Flags
  <1>2. Kinds'
    BY DEF Kinds
  <1>3. Consoles'
    BY DEF Consoles, InChange, Kinds
  <1>4. Transaction'
    BY DEF Transaction, On, NoneGL, ChangePlaces, Kinds, Consoles, Sessions
  <1>5. Sessions'
    BY DEF Sessions, Kinds
  <1>6. LinkOfPair'
    BY DEF LinkOfPair, InChange, ToOpenGL, ToSoftware, Sessions, Kinds, Flags
  <1>7. Decisions'
    BY DEF Decisions, ToOpenGL, ToSoftware, Kinds, Flags
  <1>8. OptionsOfPair'
    BY DEF OptionsOfPair, Active, Sessions, Kinds
  <1>9. LinkOfOther'
    BY DEF LinkOfOther, Sessions, Kinds, Flags
  <1> QED BY <1>1, <1>2, <1>3, <1>4, <1>5, <1>6, <1>7, <1>8, <1>9

\* A session that is lost leaves nothing behind.
LEMMA DiscardKeeps == SessionInv /\ Discard => SessionInv'
  <1> SUFFICES ASSUME SessionInv, Discard PROVE SessionInv'
    OBVIOUS
  <1> USE DEF SessionInv, Discard, Destroyed, Fault, fe, Renderers, Engines,
            NoState
  <1>1. Flags'
    BY DEF Flags, Kinds
  <1>2. Kinds'
    BY FaultsAssumption DEF Kinds
  <1>3. Consoles'
    BY DEF Consoles, InChange, Kinds, AllSoftware, Flags, LinkOfPair,
    OptionsOfPair, Decisions, Sessions, ToSoftware, ToOpenGL, InChange,
    ChangePlaces
  <1>4. Transaction'
    BY DEF Transaction, On, NoneGL, ChangePlaces, Kinds, Consoles, Sessions,
    AllSoftware, Flags, LinkOfPair, OptionsOfPair, Decisions, Sessions,
    ToSoftware, ToOpenGL, InChange, ChangePlaces
  <1>5. Sessions'
    BY DEF Sessions, Kinds
  <1>6. LinkOfPair'
    BY DEF LinkOfPair, InChange, ToOpenGL, ToSoftware, Sessions, Kinds, Flags
  <1>7. Decisions'
    BY DEF Decisions, ToOpenGL, ToSoftware, Kinds, Flags
  <1>8. OptionsOfPair'
    BY DEF OptionsOfPair, Active, Sessions, Kinds
  <1>9. LinkOfOther'
    BY DEF LinkOfOther, Sessions, Kinds
  <1> QED BY <1>1, <1>2, <1>3, <1>4, <1>5, <1>6, <1>7, <1>8, <1>9

-----------------------------------------------------------------------------
(* What follows.                                                           *)

\* It holds initially.
LEMMA InitKeeps == LinkInit => SessionInv
  <1> SUFFICES ASSUME LinkInit PROVE SessionInv
    OBVIOUS
  <1> USE DEF LinkInit
  <1>1. Flags
    BY DEF Flags
  <1>2. Kinds
    BY FaultsAssumption DEF Kinds, Renderers
  <1>3. Consoles
    BY DEF Consoles, InChange, AllSoftware, Renderers
  <1>4. Transaction
    BY DEF Transaction, On, ChangePlaces, AllSoftware
  <1>5. Sessions
    BY DEF Sessions
  <1>6. LinkOfPair /\ Decisions
    BY DEF LinkOfPair, Decisions, ToOpenGL, ToSoftware, InChange
  <1>7. OptionsOfPair
    BY DEF OptionsOfPair, Active
  <1>8. LinkOfOther
    BY DEF LinkOfOther
  <1> QED BY <1>1, <1>2, <1>3, <1>4, <1>5, <1>6, <1>7, <1>8 DEF SessionInv

\* And in every step.
LEMMA NextKeeps == SessionInv /\ [LinkNext]_linkVars => SessionInv'
  <1> SUFFICES ASSUME SessionInv, [LinkNext]_linkVars PROVE SessionInv'
    OBVIOUS
  <1>1. CASE UNCHANGED linkVars
    <2> USE <1>1 DEF SessionInv, linkVars, fe, options, pair, change
    <2>1. Flags'
      BY DEF Flags
    <2>2. Kinds' /\ Consoles'
      BY DEF Kinds, Consoles, InChange
    <2>3. Transaction' /\ Sessions'
      BY DEF Transaction, On, NoneGL, ChangePlaces, Sessions
    <2>4. LinkOfPair' /\ Decisions'
      BY DEF LinkOfPair, Decisions, ToOpenGL, ToSoftware, InChange
    <2>5. OptionsOfPair' /\ LinkOfOther'
      BY DEF OptionsOfPair, Active, LinkOfOther
    <2> QED BY <2>1, <2>2, <2>3, <2>4, <2>5
  <1>2. CASE LinkNext
    BY <1>2, UserChangesKeeps, LoadKeeps, UnloadKeeps, UnloadedKeeps,
       ActivateKeeps, DeactivateKeeps, InstallKeeps, RemoveKeeps,
       RecoverKeeps, UpdateNdsKeeps, UnlinkKeeps, ActivatedKeeps,
       DeactivatedKeeps, RelinkKeeps, RetireKeeps, UpdateOtherKeeps,
       RetryKeeps, FrameKeeps, ResetKeeps, RestoreKeeps, DiscardKeeps
       DEF LinkNext
  <1> QED BY <1>1, <1>2

\* The inductive invariant of the session: what is decided, which console is
\* on which renderer and whose the link is, at every step of a call.
THEOREM SessionKept == LinkSpec => []SessionInv
  <1>1. LinkInit => SessionInv
    BY InitKeeps
  <1>2. SessionInv /\ [LinkNext]_linkVars => SessionInv'
    BY NextKeeps
  <1> QED BY <1>1, <1>2, PTL DEF LinkSpec

\* The wireless link is never on while a console has an OpenGL renderer, not
\* even inside a renderer change, and no change to OpenGL starts under the
\* link: update_options unlinks first, and the link returns after recovery.
THEOREM LinkExcludesOpenGL == LinkSpec => []Exclusive
  <1>1. SessionInv => Exclusive
    <2> SUFFICES ASSUME SessionInv PROVE Exclusive
      OBVIOUS
    <2>1. pc = "activate" => ~link_enabled
      BY DEF SessionInv, LinkOfPair, ToOpenGL
    <2>2. ASSUME link_enabled, NEW m \in Machines PROVE renderer[m] # "opengl"
      <3>1. pc \notin ChangePlaces
        BY <2>2 DEF SessionInv, LinkOfPair, ToOpenGL, ToSoftware,
                    ChangePlaces, Kinds, Renderers
      <3>2. video_renderer # "opengl"
        BY <2>2 DEF SessionInv, LinkOfPair
      <3> QED BY <2>2, <3>1, <3>2 DEF SessionInv, Transaction, On
    <2> QED BY <2>1, <2>2 DEF Exclusive
  <1> QED BY <1>1, SessionKept, PTL

\* SetVideoRenderer is transactional: before the next frame all consoles are
\* alive on the one renderer the pair reports, with OpenGL contexts exactly
\* when that is OpenGL, or the session is gone; and RestoreSoftwareOrTerminalize
\* never leaves an OpenGL renderer behind its contexts.
THEOREM RendererChangesAreWhole == LinkSpec => []RendererTransaction
  <1>1. SessionInv => LinkTypeOK
    <2> SUFFICES ASSUME SessionInv PROVE LinkTypeOK
      OBVIOUS
    <2>1. {fe_link, updated, honoured, opt_link, frontend_link, pending,
           pending_value, session_link, link_enabled, poisoned, requested,
           context, inhibited, ok, new_link, old_link} \subseteq BOOLEAN
      <3>1. Flags
        BY DEF SessionInv
      <3> QED BY <3>1 DEF Flags
    <2>2. {fe_renderer, opt_renderer, loaded_renderer, video_renderer, target}
            \subseteq Renderers
      BY DEF SessionInv, Kinds
    <2> QED BY <2>1, <2>2 DEF SessionInv, Kinds, Consoles, LinkTypeOK
  <1>2. SessionInv => GLInContext
    <2> SUFFICES ASSUME SessionInv, ~context, NEW m \in Machines
                 PROVE  renderer[m] # "opengl"
      BY DEF GLInContext
    <2> USE DEF SessionInv, Transaction, On, NoneGL, Consoles
    <2>1. CASE pc \notin ChangePlaces
      BY <2>1
    <2>2. CASE pc \in ChangePlaces
      BY <2>2 DEF ChangePlaces, Kinds, Renderers, Flags
    <2> QED BY <2>1, <2>2
  <1>3. SessionInv /\ pc \in {"idle", "frame", "relink"} =>
          /\ renderer = [m \in Machines |-> video_renderer]
          /\ context = (video_renderer = "opengl")
    BY DEF SessionInv, Transaction, On, ChangePlaces, Consoles
  <1>4. SessionInv => RendererTransaction
    BY <1>1, <1>2, <1>3 DEF RendererTransaction
  <1> QED BY <1>4, SessionKept, PTL

\* Between calls the options, the session and the adapter agree, the frontend
\* shows it when it lets the core correct its options, and fast-forward is
\* inhibited exactly while both consoles are on the air.
THEOREM OptionsFollow == LinkSpec => []OptionsAgree
  <1>1. SessionInv => OptionsAgree
    BY DEF SessionInv, OptionsOfPair, LinkOfPair, OptionsAgree
  <1> QED BY <1>1, SessionKept, PTL

\* The link of another engine is that of the last restored state, or the one
\* the option asks for, granted or still to be tried; a request made before a
\* restore never comes back.
THEOREM LinkHasOneOwner == LinkSpec => []LinkOwner
  <1>1. SessionInv => LinkOwner
    BY DEF SessionInv, LinkOfOther, LinkOwner, Flags
  <1> QED BY <1>1, SessionKept, PTL
=============================================================================
