----------------------------- MODULE EglWorker -----------------------------
(***************************************************************************)
(* The thread that owns the OpenGL contexts of a pair                      *)
(* (src/src/engines/melonds/egl_context.c): its start, the synchronous     *)
(* tasks the adapter gives it, and its end.                                *)
(*                                                                         *)
(* A critical section of worker->mutex is one step.  A thread that waits   *)
(* for worker->condition moves only after a broadcast or a spurious        *)
(* wake-up, and then looks again.                                          *)
(***************************************************************************)
EXTENDS Naturals

CONSTANTS
  Slots,      \* the contexts, one per console
  None,       \* no slot
  MaxCalls    \* bound on tasks

ASSUME SlotsAssumption == Slots # {} /\ None \notin Slots
ASSUME CallsAssumption == MaxCalls \in Nat

Threads == {"caller", "worker"}

VARIABLES
  caller,     \* place of the adapter's thread
  worker,     \* place of the context thread
  waiting,    \* threads in pthread_cond_wait
  allocated,  \* struct dualboy_egl_worker exists
  implementation, \* context->implementation is set
  startup_complete, startup_success,
  task_pending, task_complete, task_success,
  task_slot,  \* the slot of worker->task, None when there is no task
  stopping,
  contexts,   \* the contexts exist
  current,    \* the slot that is current on the context thread
  success,    \* local to egl_worker_main
  result,     \* what dualboy_egl_context_execute returned
  call,       \* history: tasks given to the worker
  ran         \* history: the last task that was run

startup == <<startup_complete, startup_success>>
task == <<task_pending, task_complete, task_success, task_slot>>
egl == <<contexts, current>>
vars == <<caller, worker, waiting, allocated, implementation, startup, task,
          stopping, egl, success, result, call, ran>>

Init ==
  /\ caller = "idle" /\ worker = "none" /\ waiting = {}
  /\ allocated = FALSE /\ implementation = FALSE
  /\ startup_complete = FALSE /\ startup_success = FALSE
  /\ task_pending = FALSE /\ task_complete = FALSE /\ task_success = FALSE
  /\ task_slot = None /\ stopping = FALSE
  /\ contexts = FALSE /\ current = None
  /\ success = FALSE /\ result = "none" /\ call = 0 /\ ran = 0

Awake(t) == t \notin waiting
Broadcast == {}

----------------------------------------------------------------------------
(* The adapter's thread                                                    *)

\* dualboy_egl_context_create: a fresh worker and its thread.
Create ==
  /\ caller = "idle" /\ ~implementation
  /\ caller' = "starting" /\ worker' = "start" /\ allocated' = TRUE
  /\ startup_complete' = FALSE /\ startup_success' = FALSE
  /\ task_pending' = FALSE /\ task_complete' = FALSE
  /\ task_success' = FALSE /\ task_slot' = None /\ stopping' = FALSE
  /\ result' = "none"
  /\ UNCHANGED <<waiting, implementation, egl, success, call, ran>>

\* It waits for the thread to say how its start went.
AwaitStart ==
  /\ caller = "starting" /\ Awake("caller")
  /\ \/ /\ ~startup_complete
        /\ waiting' = waiting \cup {"caller"}
        /\ UNCHANGED <<caller, implementation>>
     \/ /\ startup_complete /\ startup_success
        /\ caller' = "idle" /\ implementation' = TRUE /\ UNCHANGED waiting
     \/ /\ startup_complete /\ ~startup_success
        /\ caller' = "joining" /\ UNCHANGED <<implementation, waiting>>
  /\ UNCHANGED <<worker, allocated, startup, task, stopping, egl, success,
                 result, call, ran>>

\* dualboy_egl_context_execute hands over a task.
Execute ==
  /\ caller = "idle" /\ implementation /\ call < MaxCalls
  /\ startup_success /\ ~stopping /\ ~task_pending
  /\ \E slot \in Slots : task_slot' = slot
  /\ task_complete' = FALSE /\ task_pending' = TRUE
  /\ caller' = "executing" /\ waiting' = {"caller"}
  /\ call' = call + 1 /\ result' = "none"
  /\ UNCHANGED <<worker, allocated, implementation, startup, task_success,
                 stopping, egl, success, ran>>

\* A bug: a wake-up is taken for the end of the task.
TaskSeen_Any == TRUE

TaskSeen == task_complete

\* What a call leaves in the worker.
TaskLeft == None

\* It waits until the task is complete.
AwaitTask ==
  /\ caller = "executing" /\ Awake("caller")
  /\ \/ /\ ~TaskSeen
        /\ waiting' = waiting \cup {"caller"}
        /\ UNCHANGED <<caller, result, task>>
     \/ /\ TaskSeen
        /\ caller' = "idle" /\ task_slot' = TaskLeft
        /\ result' = IF task_success THEN "ok" ELSE "failed"
        /\ UNCHANGED <<waiting, task_pending, task_complete, task_success>>
  /\ UNCHANGED <<worker, allocated, implementation, startup, stopping, egl,
                 success, call, ran>>

\* A bug: the worker is not told.
Destroy_Silent ==
  /\ caller = "idle" /\ implementation
  /\ implementation' = FALSE /\ stopping' = TRUE /\ caller' = "joining"
  /\ result' = "none"
  /\ UNCHANGED <<worker, waiting, allocated, startup, task, egl, success,
                 call, ran>>

\* dualboy_egl_context_destroy.
Destroy ==
  /\ caller = "idle" /\ implementation
  /\ implementation' = FALSE /\ stopping' = TRUE /\ waiting' = Broadcast
  /\ caller' = "joining" /\ result' = "none"
  /\ UNCHANGED <<worker, allocated, startup, task, egl, success, call, ran>>

\* pthread_join.
Ended == worker = "done"

\* The thread has ended; its worker is freed.
Join ==
  /\ caller = "joining" /\ Ended
  /\ caller' = "idle" /\ allocated' = FALSE
  /\ UNCHANGED <<worker, waiting, implementation, startup, task, stopping,
                 egl, success, result, call, ran>>

----------------------------------------------------------------------------
(* The context thread                                                      *)

\* create_implementation, which releases what it has made when it fails.
Start ==
  /\ worker = "start"
  /\ startup_complete' = TRUE
  /\ \/ /\ startup_success' = TRUE /\ contexts' = TRUE
        /\ worker' = "wait"
     \/ /\ startup_success' = FALSE /\ UNCHANGED contexts
        /\ worker' = "done"
  /\ waiting' = Broadcast
  /\ UNCHANGED <<caller, allocated, implementation, task, stopping, current,
                 success, result, call, ran>>

\* It looks for work, at stopping first, and waits when there is none.
Wake ==
  /\ worker = "wait" /\ Awake("worker")
  /\ worker' = IF stopping THEN "exit" ELSE IF task_pending THEN "take"
               ELSE worker
  /\ waiting' = IF stopping \/ task_pending THEN waiting
                ELSE waiting \cup {"worker"}
  /\ UNCHANGED <<caller, allocated, implementation, startup, task, stopping,
                 egl, success, result, call, ran>>

MadeCurrent == task_slot

\* make_slot_current; without a context the task is not run.
MakeCurrent ==
  /\ worker = "take"
  /\ \/ current' = MadeCurrent /\ worker' = "run" /\ success' = success
     \/ current' = current /\ worker' = "release" /\ success' = FALSE
  /\ UNCHANGED <<caller, waiting, allocated, implementation, startup, task,
                 stopping, contexts, result, call, ran>>

\* The task itself.
RunTask ==
  /\ worker = "run" /\ worker' = "release"
  /\ success' \in BOOLEAN /\ ran' = call
  /\ UNCHANGED <<caller, waiting, allocated, implementation, startup, task,
                 stopping, egl, result, call>>

\* release_current, whatever happened; its failure fails the task.
Release ==
  /\ worker = "release" /\ worker' = "report"
  /\ \/ current' = None /\ success' = success
     \/ current' = current /\ success' = FALSE
  /\ UNCHANGED <<caller, waiting, allocated, implementation, startup, task,
                 stopping, contexts, result, call, ran>>

\* The result is published, and the worker looks for more.
Report ==
  /\ worker = "report"
  /\ task_success' = success /\ task_pending' = FALSE /\ task_complete' = TRUE
  /\ worker' = "wait" /\ waiting' = Broadcast
  /\ UNCHANGED <<caller, allocated, implementation, startup, task_slot,
                 stopping, egl, success, result, call, ran>>

\* release_implementation, and the thread ends.
Exit ==
  /\ worker = "exit" /\ worker' = "done"
  /\ contexts' = FALSE /\ current' = None
  /\ UNCHANGED <<caller, waiting, allocated, implementation, startup, task,
                 stopping, success, result, call, ran>>

SpuriousWakeup ==
  /\ \E t \in waiting : waiting' = waiting \ {t}
  /\ UNCHANGED <<caller, worker, allocated, implementation, startup, task,
                 stopping, egl, success, result, call, ran>>

Calling == AwaitStart \/ AwaitTask \/ Join
Working == Start \/ Wake \/ MakeCurrent \/ RunTask \/ Release \/ Report \/ Exit
Next == Create \/ Execute \/ Destroy \/ Calling \/ Working \/ SpuriousWakeup

\* Both threads are scheduled, and EGL calls and tasks return.
Spec == Init /\ [][Next]_vars /\ WF_vars(Calling) /\ WF_vars(Working)

----------------------------------------------------------------------------
(* Properties                                                              *)

\* Values have their types; there is a task exactly during a call.
TypeOK ==
  /\ caller \in {"idle", "starting", "executing", "joining"}
  /\ worker \in {"none", "start", "wait", "take", "run", "release", "report",
                 "exit", "done"}
  /\ waiting \subseteq Threads
  /\ {allocated, implementation, startup_complete, startup_success,
      task_pending, task_complete, task_success, stopping, contexts, success}
       \subseteq BOOLEAN
  /\ {task_slot, current} \subseteq Slots \cup {None}
  /\ (task_slot # None) = (caller = "executing")
  /\ result \in {"none", "ok", "failed"}
  /\ call \in 0 .. MaxCalls /\ ran \in 0 .. call

\* A task works on the stack of the thread that gave it: it is pending or runs
\* only while that thread is inside dualboy_egl_context_execute, with its own
\* context current.
TaskInCall ==
  /\ task_pending \/ worker \in {"take", "run", "release", "report"} =>
       caller = "executing" /\ task_pending
  /\ worker = "run" => contexts /\ current = task_slot

\* A call that reports success has run its own task, to the end.
ResultIsOwn == result = "ok" => ran = call /\ worker \notin {"take", "run"}

\* The worker is freed only when its thread is gone and took the contexts
\* with it; no thread waits for the condition of a freed worker.
FreedAfterExit ==
  ~allocated => worker \in {"none", "done"} /\ ~contexts /\ waiting = {}

\* The two threads never share anything they should not: a task runs inside
\* its call, a result belongs to its call, a worker is freed after its thread.
WorkerInv == TypeOK /\ TaskInCall /\ ResultIsOwn /\ FreedAfterExit

\* Every call of the adapter returns.
CallReturns == caller # "idle" ~> caller = "idle"
============================================================================
