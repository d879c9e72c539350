------------------------------ MODULE NdsFrame ------------------------------
(***************************************************************************)
(* The frame barrier of the melonDS pair                                   *)
(* (src/src/engines/melonds/nds_adapter.cpp): the frontend thread, which   *)
(* calls RunFrame and DestroyPair, and one persistent worker thread per    *)
(* machine, which runs NDS::RunFrame() for every generation.  They share   *)
(* the fields guarded by frame_mutex, the condition variables start_cv and *)
(* done_cv, and the atomic flags abort_requested and worker_frame_active.  *)
(*                                                                         *)
(* A critical section of frame_mutex is one step.  Every access to an      *)
(* atomic outside it is a step of its own.  A thread blocked on a          *)
(* condition variable is at "blocked" (worker) or at "waiting"/"draining"  *)
(* (frontend) and moves on only when it is notified, spuriously, or by the *)
(* deadline of wait_for, so a lost wakeup would show.                      *)
(*                                                                         *)
(* The contents of video and audio are abstracted to the generation that   *)
(* produced them; 0 is an empty audio queue or the zeroed frame.  The pair  *)
(* uses the software renderer and both cartridges are loaded.  What machine *)
(* code does inside NDS::RunFrame() is left to NdsPair.                     *)
(***************************************************************************)
EXTENDS Naturals, FiniteSets

CONSTANTS Machines,       \* the emulated consoles; two in the code
          Primary,        \* the machine whose audio is kept (id 0)
          MaxGeneration   \* bound on frames started, for model checking

ASSUME MachinesAssumption == IsFiniteSet(Machines) /\ Primary \in Machines
ASSUME MaxGenerationAssumption == MaxGeneration \in Nat

VARIABLES
  frame_state,         \* FrameState
  abort_requested,     \* atomic: stop starting transport work
  generation,          \* number of frames dispatched
  completed_workers,   \* workers that reported the current generation
  worker_success,      \* [Machines -> BOOLEAN]
  worker_frame_active, \* atomic, per machine: its frame is not over yet
  observed,            \* WorkerMain's observed_generation
  ok,                  \* ExecuteMachine's local success
  pc,                  \* where each worker thread is
  main,                \* where the frontend thread is
  deadline_exceeded,   \* RunFrame's local flag
  result,              \* what the last RunFrame returned
  video,               \* per machine: generation of the frame in video[]
  audio                \* generation of the samples in machine 0's queue

sharedVars == <<frame_state, abort_requested, generation, completed_workers,
                worker_success, worker_frame_active>>
workerVars == <<observed, ok, pc>>
mainVars   == <<main, deadline_exceeded, result>>
outputVars == <<video, audio>>
frameVars  == <<sharedVars, workerVars, mainVars, outputVars>>

FrameStates == {"Idle", "Running", "DeadlineExceeded", "Poisoned",
                "ShuttingDown"}

\* Places of a worker where it uses no machine and writes no pair state.
Quiet == {"check", "blocked", "notify", "exited"}

\* Places between picking a generation up and reporting it.
Executing == {"exec", "run", "ran", "snapshot", "drain", "audio",
              "stopcheck", "mpend", "inactive", "report"}

\* Places of the frontend thread inside RunFrame and inside the destructor.
InRunFrame == {"dispatch", "notifystart", "waitcheck", "waiting",
               "draincheck", "draining", "unlink"}
InDestructor == {"notifystop", "join", "release"}

\* Places of the frontend thread where dispatched workers own the pair.
EngineOwns == InRunFrame \ {"dispatch"}

FrameInit ==
  /\ frame_state = "Idle"
  /\ abort_requested = FALSE
  /\ generation = 0
  /\ completed_workers = 0
  /\ worker_success = [m \in Machines |-> TRUE]
  /\ worker_frame_active = [m \in Machines |-> FALSE]
  /\ observed = [m \in Machines |-> 0]
  /\ ok = [m \in Machines |-> TRUE]
  /\ pc = [m \in Machines |-> "check"]
  /\ main = "idle"
  /\ deadline_exceeded = FALSE
  /\ result = "none"
  /\ video = [m \in Machines |-> 0]
  /\ audio = 0

Goto(m, place) == pc' = [pc EXCEPT ![m] = place]
-----------------------------------------------------------------------------
(* The worker threads.                                                     *)

\* Mutant: a worker runs the generation it has already reported again.
NewGeneration_NotStrict(m) == generation >= observed[m]

\* The generation half of start_cv's predicate.
NewGeneration(m) == generation > observed[m]

\* WorkerMain evaluates the predicate of start_cv.wait under frame_mutex.
WorkerCheck(m) ==
  /\ pc[m] = "check"
  /\ \/ /\ frame_state = "ShuttingDown"
        /\ Goto(m, "exited")
        /\ UNCHANGED <<observed, ok>>
     \/ /\ frame_state # "ShuttingDown"
        /\ NewGeneration(m)
        /\ observed' = [observed EXCEPT ![m] = generation]
        /\ ok' = [ok EXCEPT ![m] = TRUE]
        /\ Goto(m, "exec")
     \/ /\ frame_state # "ShuttingDown"
        /\ ~NewGeneration(m)
        /\ Goto(m, "blocked")
        /\ UNCHANGED <<observed, ok>>
  /\ UNCHANGED <<sharedVars, mainVars, outputVars>>

\* A condition variable may wake without a notification.
SpuriousStart(m) ==
  /\ pc[m] = "blocked"
  /\ Goto(m, "check")
  /\ UNCHANGED <<sharedVars, observed, ok, mainVars, outputVars>>

\* ExecuteMachine: the first look at abort_requested.
ExecBegin(m) ==
  /\ pc[m] = "exec"
  /\ Goto(m, IF abort_requested THEN "mpend" ELSE "run")
  /\ ok' = [ok EXCEPT ![m] = ~abort_requested]
  /\ UNCHANGED <<sharedVars, observed, mainVars, outputVars>>

\* NDS::RunFrame() comes back, or an exception leaves it.
RunReturns(m) ==
  /\ pc[m] = "run"
  /\ \/ Goto(m, "ran") /\ UNCHANGED ok
     \/ Goto(m, "mpend") /\ ok' = [ok EXCEPT ![m] = FALSE]
  /\ UNCHANGED <<sharedVars, observed, mainVars, outputVars>>

\* The second look at abort_requested, before the framebuffer is copied.
AfterRun(m) ==
  /\ pc[m] = "ran"
  /\ Goto(m, IF abort_requested THEN "drain" ELSE "snapshot")
  /\ ok' = [ok EXCEPT ![m] = ~abort_requested]
  /\ UNCHANGED <<sharedVars, observed, mainVars, outputVars>>

\* SnapshotVideo copies both screens, or fails before it writes a pixel.
SnapshotVideo(m) ==
  /\ pc[m] = "snapshot"
  /\ \/ video' = [video EXCEPT ![m] = observed[m]] /\ UNCHANGED ok
     \/ ok' = [ok EXCEPT ![m] = FALSE] /\ UNCHANGED video
  /\ Goto(m, "drain")
  /\ UNCHANGED <<sharedVars, observed, mainVars, audio>>

\* The third look at abort_requested, before the audio queue is drained.
DrainCheck(m) ==
  /\ pc[m] = "drain"
  /\ Goto(m, IF abort_requested THEN "stopcheck" ELSE "audio")
  /\ UNCHANGED <<sharedVars, observed, ok, mainVars, outputVars>>

\* DrainAudio keeps the samples of machine 0 and discards the others'.
\* Growing the queue may throw after the old samples were cleared.
DrainAudio(m) ==
  /\ pc[m] = "audio"
  /\ \/ /\ audio' = IF m = Primary THEN observed[m] ELSE audio
        /\ Goto(m, "stopcheck")
        /\ UNCHANGED ok
     \/ /\ m = Primary
        /\ audio' = 0
        /\ ok' = [ok EXCEPT ![m] = FALSE]
        /\ Goto(m, "mpend")
  /\ UNCHANGED <<sharedVars, observed, mainVars, video>>

\* NDS::IsRunning(): a stopped console fails the frame.
StopCheck(m) ==
  /\ pc[m] = "stopcheck"
  /\ \E running \in BOOLEAN :
       /\ ok' = [ok EXCEPT ![m] = @ /\ running]
       /\ Goto(m, IF ok[m] /\ running THEN "inactive" ELSE "mpend")
  /\ UNCHANGED <<sharedVars, observed, mainVars, outputVars>>

\* A failed frame leaves the transport: MPEnd(machine).
FailedLeaves(m) ==
  /\ pc[m] = "mpend"
  /\ Goto(m, "inactive")
  /\ UNCHANGED <<sharedVars, observed, ok, mainVars, outputVars>>

\* The release store that announces this machine's frame boundary.
FrameBoundary(m) ==
  /\ pc[m] = "inactive"
  /\ worker_frame_active' = [worker_frame_active EXCEPT ![m] = FALSE]
  /\ Goto(m, "report")
  /\ UNCHANGED <<frame_state, abort_requested, generation, completed_workers,
                 worker_success, observed, ok, mainVars, outputVars>>

\* The worker reports under frame_mutex ...
Report(m) ==
  /\ pc[m] = "report"
  /\ worker_success' = [worker_success EXCEPT ![m] = ok[m]]
  /\ completed_workers' = completed_workers + 1
  /\ Goto(m, "notify")
  /\ UNCHANGED <<frame_state, abort_requested, generation,
                 worker_frame_active, observed, ok, mainVars, outputVars>>

\* ... and notifies done_cv after it has released the mutex.
NotifyDone(m) ==
  /\ pc[m] = "notify"
  /\ main' = IF main = "waiting" THEN "waitcheck"
             ELSE IF main = "draining" THEN "draincheck" ELSE main
  /\ Goto(m, "check")
  /\ UNCHANGED <<sharedVars, observed, ok, deadline_exceeded, result,
                 outputVars>>

Worker(m) ==
  \/ WorkerCheck(m) \/ ExecBegin(m) \/ RunReturns(m) \/ AfterRun(m)
  \/ SnapshotVideo(m) \/ DrainCheck(m) \/ DrainAudio(m) \/ StopCheck(m)
  \/ FailedLeaves(m) \/ FrameBoundary(m) \/ Report(m) \/ NotifyDone(m)
-----------------------------------------------------------------------------
(* The frontend thread.                                                    *)

\* RunFrame turned away: the pair is poisoned, or a cartridge's save extent
\* no longer matches its shadow.
RunFrameRejected ==
  /\ main = "idle"
  /\ result' = "rejected"
  /\ UNCHANGED <<sharedVars, workerVars, main, deadline_exceeded, outputVars>>

\* RunFrame passes the state check under frame_mutex and the save check.
RunFrameEnter ==
  /\ main = "idle"
  /\ frame_state = "Idle"
  /\ generation < MaxGeneration
  /\ main' = "dispatch"
  /\ deadline_exceeded' = FALSE
  /\ result' = "none"
  /\ UNCHANGED <<sharedVars, workerVars, outputVars>>

\* The second critical section: a new generation is published.
Dispatch ==
  /\ main = "dispatch"
  /\ completed_workers' = 0
  /\ worker_success' = [m \in Machines |-> TRUE]
  /\ abort_requested' = FALSE
  /\ worker_frame_active' = [m \in Machines |-> TRUE]
  /\ frame_state' = "Running"
  /\ generation' = generation + 1
  /\ main' = "notifystart"
  /\ UNCHANGED <<workerVars, deadline_exceeded, result, outputVars>>

\* Mutant: start_cv.notify_one().
WakeWorkers_One == LET asleep == {m \in Machines : pc[m] = "blocked"} IN
  IF asleep = {} THEN UNCHANGED pc
                 ELSE pc' = [pc EXCEPT ![CHOOSE m \in asleep : TRUE] = "check"]

\* start_cv.notify_all().
WakeWorkers == pc' = [m \in Machines |-> IF pc[m] = "blocked" THEN "check"
                                                              ELSE pc[m]]

NotifyStart ==
  /\ main = "notifystart"
  /\ WakeWorkers
  /\ main' = "waitcheck"
  /\ UNCHANGED <<sharedVars, observed, ok, deadline_exceeded, result,
                 outputVars>>

\* Mutant: one report is taken for all.
AllReported_Any == completed_workers > 0

\* The predicate of done_cv: completed_workers == kMachineCount.
AllReported == completed_workers = Cardinality(Machines)

\* frame_state once every worker is quiescent.
StateAfter(late) == IF late THEN "Poisoned" ELSE "Idle"

\* RunFrame fails if any worker failed.
FrameResult == IF \A m \in Machines : worker_success[m] THEN "ok" ELSE "failed"

\* Every worker reported within the deadline: the frame ends.
FinishFrame ==
  /\ AllReported
  /\ frame_state' = StateAfter(deadline_exceeded)
  /\ main' = "idle"
  /\ result' = FrameResult
  /\ UNCHANGED <<abort_requested, generation, completed_workers,
                 worker_success, worker_frame_active, workerVars,
                 deadline_exceeded, outputVars>>

\* done_cv.wait_for evaluates its predicate and blocks if it is false.
WaitDone ==
  /\ main = "waitcheck"
  /\ \/ FinishFrame
     \/ /\ ~AllReported
        /\ main' = "waiting"
        /\ UNCHANGED <<sharedVars, workerVars, deadline_exceeded, result,
                       outputVars>>

\* The deadline passes while the frontend is blocked: wait_for returns what
\* the predicate says then, and a frame that is not complete is abandoned.
DeadlineExpires ==
  /\ main = "waiting"
  /\ \/ FinishFrame
     \/ /\ ~AllReported
        /\ deadline_exceeded' = TRUE
        /\ frame_state' = "DeadlineExceeded"
        /\ abort_requested' = TRUE
        /\ main' = "draining"
        /\ UNCHANGED <<generation, completed_workers, worker_success,
                       worker_frame_active, workerVars, result, outputVars>>

SpuriousDone ==
  /\ \/ main = "waiting" /\ main' = "waitcheck"
     \/ main = "draining" /\ main' = "draincheck"
  /\ UNCHANGED <<sharedVars, workerVars, deadline_exceeded, result,
                 outputVars>>

\* The unbounded wait for quiescence: only then is the pair poisoned and the
\* possibly partial audio dropped.
AwaitQuiescence ==
  /\ main = "draincheck"
  /\ \/ /\ AllReported
        /\ frame_state' = StateAfter(deadline_exceeded)
        /\ audio' = 0
        /\ main' = "unlink"
     \/ /\ ~AllReported
        /\ main' = "draining"
        /\ UNCHANGED <<frame_state, audio>>
  /\ UNCHANGED <<abort_requested, generation, completed_workers,
                 worker_success, worker_frame_active, workerVars,
                 deadline_exceeded, result, video>>

\* A timed-out frame leaves LocalMP (SetLink(false)) and returns.
Unlink ==
  /\ main = "unlink"
  /\ main' = "idle"
  /\ result' = "timeout"
  /\ UNCHANGED <<sharedVars, workerVars, deadline_exceeded, outputVars>>

\* ~MelonDSPair calls ShutdownWorkers.
ShutdownWorkers ==
  /\ main = "idle"
  /\ frame_state' = "ShuttingDown"
  /\ abort_requested' = TRUE
  /\ generation' = generation + 1
  /\ main' = "notifystop"
  /\ UNCHANGED <<completed_workers, worker_success, worker_frame_active,
                 workerVars, deadline_exceeded, result, outputVars>>

NotifyStop ==
  /\ main = "notifystop"
  /\ WakeWorkers
  /\ main' = "join"
  /\ UNCHANGED <<sharedVars, observed, ok, deadline_exceeded, result,
                 outputVars>>

Join ==
  /\ main = "join"
  /\ \A m \in Machines : pc[m] = "exited"
  /\ main' = "release"
  /\ UNCHANGED <<sharedVars, workerVars, deadline_exceeded, result,
                 outputVars>>

\* The destructor unlinks the pair and destroys both consoles.
Release ==
  /\ main = "release"
  /\ main' = "gone"
  /\ UNCHANGED <<sharedVars, workerVars, deadline_exceeded, result,
                 outputVars>>

\* Nothing is left to run.
Gone == main = "gone" /\ UNCHANGED frameVars

\* The steps the frontend thread must take once it is inside a call.
MainStep == \/ Dispatch \/ NotifyStart \/ WaitDone \/ AwaitQuiescence
            \/ Unlink \/ NotifyStop \/ Join \/ Release

MainCall == RunFrameRejected \/ RunFrameEnter \/ ShutdownWorkers

FrameNext == \/ \E m \in Machines : Worker(m) \/ SpuriousStart(m)
             \/ MainStep \/ MainCall \/ DeadlineExpires \/ SpuriousDone
             \/ Gone

FrameSpec == FrameInit /\ [][FrameNext]_frameVars

\* Threads are scheduled by the operating system and NDS::RunFrame() returns.
\* Nothing is assumed of the deadline timer or of the caller.
FairFrameSpec == /\ FrameSpec
                 /\ WF_frameVars(MainStep)
                 /\ \A m \in Machines : WF_frameVars(Worker(m))
-----------------------------------------------------------------------------
(* Properties.                                                             *)

\* Types and ranges; in particular no generation is reported more often than
\* there are workers, on which the equality test of done_cv depends.
TypeOK ==
  /\ frame_state \in FrameStates
  /\ abort_requested \in BOOLEAN
  /\ generation \in Nat
  /\ completed_workers \in 0 .. Cardinality(Machines)
  /\ worker_success \in [Machines -> BOOLEAN]
  /\ worker_frame_active \in [Machines -> BOOLEAN]
  /\ observed \in [Machines -> Nat]
  /\ ok \in [Machines -> BOOLEAN]
  /\ pc \in [Machines -> Quiet \cup Executing]
  /\ main \in {"idle", "gone"} \cup InRunFrame \cup InDestructor
  /\ deadline_exceeded \in BOOLEAN
  /\ result \in {"none", "ok", "failed", "timeout", "rejected"}
  /\ video \in [Machines -> Nat]
  /\ audio \in Nat

\* A RunFrame that returned true exposes the frame it ran: every machine's
\* pixels and machine 0's samples belong to the current generation, none is
\* left over from an earlier frame (RunFrame, lines 1362-1407).
SuccessIsFresh ==
  main = "idle" /\ result = "ok" =>
    /\ \A m \in Machines : video[m] = generation
    /\ audio = generation

\* A RunFrame that missed its deadline leaves a pair that is retired, whose
\* transport is told to stop and whose partial audio is suppressed, however
\* late the workers were and whatever they reported.
TimeoutRetires ==
  main = "idle" /\ deadline_exceeded =>
    /\ frame_state = "Poisoned"
    /\ abort_requested
    /\ audio = 0

\* Outside RunFrame no worker writes video or audio: what video_frame and
\* read_audio hand out by pointer does not change under the frontend.
OutputsStable == [][main \notin EngineOwns => UNCHANGED outputVars]_frameVars

\* Every machine whose worker has been given a frame it has not reported.
Touching == {m \in Machines :
               \/ pc[m] \in Executing
               \/ frame_state # "ShuttingDown" /\ observed[m] < generation}

Owner == IF main \in EngineOwns THEN "engine"
         ELSE IF main \in {"idle", "dispatch"} THEN "frontend" ELSE "gone"

Usable == \/ frame_state \in {"Idle", "Running", "DeadlineExceeded"}
          \/ main = "unlink"

Contract == INSTANCE EngineContract
              WITH owner <- Owner, touching <- Touching, usable <- Usable

\* The barrier implements the ownership contract of run_frame in engine.h:
\* on every return the workers have let go, a retired pair starts no frame,
\* a destroyed one is not touched.
ImplementsContract == Contract!Spec

-----------------------------------------------------------------------------
(* The inductive invariant behind the safety properties.                   *)

\* Where the frontend thread is says what state the pair is in.
StateAgrees ==
  /\ main \in {"notifystart", "waitcheck", "waiting"} =>
       frame_state = "Running" /\ ~abort_requested /\ ~deadline_exceeded
  /\ main \in {"draincheck", "draining"} =>
       frame_state = "DeadlineExceeded" /\ abort_requested /\ deadline_exceeded
  /\ main = "unlink" => frame_state = "Poisoned" /\ deadline_exceeded
  /\ main = "idle" => frame_state = StateAfter(deadline_exceeded)
  /\ main = "dispatch" => frame_state = "Idle" /\ ~deadline_exceeded
  /\ main \in InDestructor \cup {"gone"} => frame_state = "ShuttingDown"
  /\ frame_state = "Poisoned" => abort_requested /\ audio = 0

\* The counter counts: a worker runs only the generation it was given, and
\* while the engine owns the pair completed_workers is the number of
\* machines no worker touches; while it does not, there are no others.
ReportsCounted ==
  /\ \A m \in Machines : /\ observed[m] <= generation
                         /\ pc[m] \in Executing => observed[m] = generation
                         /\ pc[m] = "exited" => frame_state = "ShuttingDown"
  /\ main \in EngineOwns =>
       completed_workers = Cardinality(Machines \ Touching)
  /\ main \notin EngineOwns \ {"unlink"} => Touching = {}

Fresh(m) == video[m] = generation /\ (m = Primary => audio = generation)

\* Until an abort is requested, a worker that still counts its frame a
\* success has already stored the output it is past.
OutputFollowsProgress ==
  /\ \A m \in Machines : pc[m] = "mpend" => ~ok[m]
  /\ ~abort_requested =>
       \A m \in Machines :
         /\ pc[m] \in {"drain", "audio"} /\ ok[m] => video[m] = generation
         /\ pc[m] \in {"stopcheck", "inactive", "report"} /\ ok[m] => Fresh(m)
         /\ main \in EngineOwns /\ m \notin Touching /\ worker_success[m] =>
              Fresh(m)

\* Together with the types and the claim about successful frames these are
\* preserved by every step of the frontend and of the workers.
BarrierInv == /\ TypeOK
              /\ StateAgrees
              /\ ReportsCounted
              /\ OutputFollowsProgress
              /\ SuccessIsFresh
-----------------------------------------------------------------------------
(* Liveness.                                                               *)

\* Every call of RunFrame returns, also one that ran past its deadline, and
\* the destructor always joins its workers: no notification of start_cv or
\* done_cv is lost.
CallsReturn == /\ main \in InRunFrame ~> main = "idle"
               /\ main \in InDestructor ~> main = "gone"
=============================================================================
