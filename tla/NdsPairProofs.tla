--------------------------- MODULE NdsPairProofs ----------------------------
(***************************************************************************)
(* Proofs about the melonDS pair, for any finite set of machines and any   *)
(* number of frames: the inductive invariant of the frame barrier, what a  *)
(* successful and what a timed-out frame leave behind, and the ownership   *)
(* contract of run_frame; then, with the wireless transport, that what     *)
(* LocalMP is told agrees with the flags the callbacks read, and that a    *)
(* peer's last send of a frame is seen in that frame.  That callbacks      *)
(* always come back is liveness, and left to the model checker.            *)
(***************************************************************************)
EXTENDS NdsPair, FiniteSetTheorems, TLAPS

-----------------------------------------------------------------------------
(* The frame barrier.                                                      *)

\* Counting subsets of Machines: the count is in range, and a full count
\* means that nothing is missing.
LEMMA CountBounds ==
  ASSUME NEW T \in SUBSET Machines
  PROVE  /\ Cardinality(Machines) \in Nat
         /\ IsFiniteSet(T)
         /\ Cardinality(T) \in 0 .. Cardinality(Machines)
         /\ Cardinality(T) = Cardinality(Machines) => T = Machines
<1>1. IsFiniteSet(T) /\ Cardinality(T) <= Cardinality(Machines)
      /\ (Cardinality(Machines) = Cardinality(T) => Machines = T)
  BY MachinesAssumption, FS_Subset
<1>2. Cardinality(T) \in Nat /\ Cardinality(Machines) \in Nat
  BY <1>1, MachinesAssumption, FS_CardinalityType
<1> QED
  BY <1>1, <1>2

\* The barrier invariant holds before the first frame.
LEMMA BarrierInit == FrameInit => BarrierInv
<1> SUFFICES ASSUME FrameInit PROVE BarrierInv
  OBVIOUS
<1>1. Cardinality(Machines) \in Nat
  BY CountBounds
<1>2. TypeOK
  <2>1. /\ abort_requested \in BOOLEAN
        /\ worker_success \in [Machines -> BOOLEAN]
        /\ worker_frame_active \in [Machines -> BOOLEAN]
        /\ ok \in [Machines -> BOOLEAN]
        /\ deadline_exceeded \in BOOLEAN
    BY Zenon DEF FrameInit
  <2> QED
    BY <1>1, <2>1 DEF FrameInit, TypeOK, FrameStates, Quiet
<1>3. Touching = {}
  BY DEF FrameInit, Touching, Executing
<1>4. StateAgrees
  BY DEF FrameInit, StateAgrees, StateAfter, InDestructor
<1>5. ReportsCounted
  BY <1>3 DEF FrameInit, ReportsCounted, Executing, EngineOwns, InRunFrame
<1>6. OutputFollowsProgress /\ SuccessIsFresh
  BY DEF FrameInit, OutputFollowsProgress, SuccessIsFresh, EngineOwns,
         InRunFrame
<1> QED
  BY <1>2, <1>4, <1>5, <1>6 DEF BarrierInv

\* Every worker step but Report leaves the set of touched machines alone: it
\* picks a generation up, moves on inside it, or is between generations.
LEMMA TouchingKept ==
  ASSUME BarrierInv, NEW m \in Machines,
         \/ WorkerCheck(m) \/ SpuriousStart(m) \/ ExecBegin(m)
         \/ RunReturns(m) \/ AfterRun(m) \/ SnapshotVideo(m)
         \/ DrainCheck(m) \/ DrainAudio(m) \/ StopCheck(m)
         \/ FailedLeaves(m) \/ FrameBoundary(m) \/ NotifyDone(m)
  PROVE  Touching' = Touching
<1>1. CASE WorkerCheck(m)
  BY <1>1
  DEF BarrierInv, TypeOK, ReportsCounted, WorkerCheck, Goto, Touching,
      Executing, Quiet, sharedVars, workerVars, mainVars, outputVars,
      NewGeneration
<1>2. CASE SpuriousStart(m)
  BY <1>2
  DEF BarrierInv, TypeOK, ReportsCounted, SpuriousStart, Goto, Touching,
      Executing, Quiet, sharedVars, workerVars, mainVars, outputVars
<1>3. CASE ExecBegin(m)
  BY <1>3
  DEF BarrierInv, TypeOK, ReportsCounted, ExecBegin, Goto, Touching,
      Executing, Quiet, sharedVars, workerVars, mainVars, outputVars
<1>4. CASE RunReturns(m)
  BY <1>4
  DEF BarrierInv, TypeOK, ReportsCounted, RunReturns, Goto, Touching,
      Executing, Quiet, sharedVars, workerVars, mainVars, outputVars
<1>5. CASE AfterRun(m)
  BY <1>5
  DEF BarrierInv, TypeOK, ReportsCounted, AfterRun, Goto, Touching, Executing,
      Quiet, sharedVars, workerVars, mainVars, outputVars
<1>6. CASE SnapshotVideo(m)
  BY <1>6
  DEF BarrierInv, TypeOK, ReportsCounted, SnapshotVideo, Goto, Touching,
      Executing, Quiet, sharedVars, workerVars, mainVars, outputVars
<1>7. CASE DrainCheck(m)
  BY <1>7
  DEF BarrierInv, TypeOK, ReportsCounted, DrainCheck, Goto, Touching,
      Executing, Quiet, sharedVars, workerVars, mainVars, outputVars
<1>8. CASE DrainAudio(m)
  BY <1>8
  DEF BarrierInv, TypeOK, ReportsCounted, DrainAudio, Goto, Touching,
      Executing, Quiet, sharedVars, workerVars, mainVars, outputVars
<1>9. CASE StopCheck(m)
  BY <1>9
  DEF BarrierInv, TypeOK, ReportsCounted, StopCheck, Goto, Touching,
      Executing, Quiet, sharedVars, workerVars, mainVars, outputVars
<1>10. CASE FailedLeaves(m)
  BY <1>10
  DEF BarrierInv, TypeOK, ReportsCounted, FailedLeaves, Goto, Touching,
      Executing, Quiet, sharedVars, workerVars, mainVars, outputVars
<1>11. CASE FrameBoundary(m)
  BY <1>11
  DEF BarrierInv, TypeOK, ReportsCounted, FrameBoundary, Goto, Touching,
      Executing, Quiet, sharedVars, workerVars, mainVars, outputVars
<1>12. CASE NotifyDone(m)
  BY <1>12
  DEF BarrierInv, TypeOK, ReportsCounted, NotifyDone, Goto, Touching,
      Executing, Quiet, sharedVars, workerVars, mainVars, outputVars
<1> QED
  BY <1>1, <1>2, <1>3, <1>4, <1>5, <1>6, <1>7, <1>8, <1>9, <1>10, <1>11, <1>12

\* Every worker step but Report preserves the barrier invariant.
LEMMA WorkerPreserves ==
  ASSUME BarrierInv, NEW m \in Machines,
         \/ WorkerCheck(m) \/ SpuriousStart(m) \/ ExecBegin(m)
         \/ RunReturns(m) \/ AfterRun(m) \/ SnapshotVideo(m)
         \/ DrainCheck(m) \/ DrainAudio(m) \/ StopCheck(m)
         \/ FailedLeaves(m) \/ FrameBoundary(m) \/ NotifyDone(m)
  PROVE  BarrierInv'
<1>t. Touching' = Touching
  BY TouchingKept
<1> USE DEF Goto, sharedVars, workerVars, mainVars, outputVars
<1>1. CASE WorkerCheck(m)
  <2>1. TypeOK'
    <3>1. ok' \in [Machines -> BOOLEAN]
      BY <1>1, Zenon DEF BarrierInv, TypeOK, WorkerCheck
    <3> QED
      BY <1>1, <3>1 DEF BarrierInv, TypeOK, WorkerCheck, Quiet, Executing
  <2>2. StateAgrees'
    BY <1>1
    DEF BarrierInv, TypeOK, StateAgrees, WorkerCheck, StateAfter,
        InDestructor, InRunFrame
  <2>3. ReportsCounted'
    BY <1>1, <1>t
    DEF BarrierInv, TypeOK, ReportsCounted, WorkerCheck, Quiet, Executing,
        EngineOwns, InRunFrame, InDestructor, NewGeneration
  <2>4. OutputFollowsProgress'
    BY <1>1, <1>t
    DEF BarrierInv, TypeOK, OutputFollowsProgress, ReportsCounted, Fresh,
        WorkerCheck, Executing, EngineOwns, InRunFrame, Touching
  <2>5. SuccessIsFresh'
    BY <1>1
    DEF BarrierInv, TypeOK, SuccessIsFresh, ReportsCounted, WorkerCheck,
        Touching, Executing, EngineOwns, InRunFrame
  <2> QED
    BY <2>1, <2>2, <2>3, <2>4, <2>5 DEF BarrierInv
<1>2. CASE SpuriousStart(m)
  <2>1. TypeOK'
    BY <1>2
    DEF BarrierInv, TypeOK, SpuriousStart, Quiet, Executing, InRunFrame
  <2>2. StateAgrees'
    BY <1>2
    DEF BarrierInv, TypeOK, StateAgrees, SpuriousStart, StateAfter,
        InDestructor, InRunFrame
  <2>3. ReportsCounted'
    BY <1>2, <1>t
    DEF BarrierInv, TypeOK, ReportsCounted, SpuriousStart, Quiet, Executing,
        EngineOwns, InRunFrame, InDestructor
  <2>4. OutputFollowsProgress'
    BY <1>2, <1>t
    DEF BarrierInv, TypeOK, OutputFollowsProgress, ReportsCounted, Fresh,
        SpuriousStart, Executing, EngineOwns, InRunFrame, Touching
  <2>5. SuccessIsFresh'
    BY <1>2
    DEF BarrierInv, TypeOK, SuccessIsFresh, ReportsCounted, SpuriousStart,
        Touching, Executing, EngineOwns, InRunFrame
  <2> QED
    BY <2>1, <2>2, <2>3, <2>4, <2>5 DEF BarrierInv
<1>3. CASE ExecBegin(m)
  <2>1. TypeOK'
    BY <1>3 DEF BarrierInv, TypeOK, ExecBegin, Quiet, Executing, InRunFrame
  <2>2. StateAgrees'
    BY <1>3
    DEF BarrierInv, TypeOK, StateAgrees, ExecBegin, StateAfter, InDestructor,
        InRunFrame
  <2>3. ReportsCounted'
    BY <1>3, <1>t
    DEF BarrierInv, TypeOK, ReportsCounted, ExecBegin, Quiet, Executing,
        EngineOwns, InRunFrame, InDestructor
  <2>4. OutputFollowsProgress'
    BY <1>3, <1>t
    DEF BarrierInv, TypeOK, OutputFollowsProgress, ReportsCounted, Fresh,
        ExecBegin, Executing, EngineOwns, InRunFrame, Touching
  <2>5. SuccessIsFresh'
    BY <1>3
    DEF BarrierInv, TypeOK, SuccessIsFresh, ReportsCounted, ExecBegin,
        Touching, Executing, EngineOwns, InRunFrame
  <2> QED
    BY <2>1, <2>2, <2>3, <2>4, <2>5 DEF BarrierInv
<1>4. CASE RunReturns(m)
  <2>1. TypeOK'
    BY <1>4 DEF BarrierInv, TypeOK, RunReturns, Quiet, Executing, InRunFrame
  <2>2. StateAgrees'
    BY <1>4
    DEF BarrierInv, TypeOK, StateAgrees, RunReturns, StateAfter, InDestructor,
        InRunFrame
  <2>3. ReportsCounted'
    BY <1>4, <1>t
    DEF BarrierInv, TypeOK, ReportsCounted, RunReturns, Quiet, Executing,
        EngineOwns, InRunFrame, InDestructor
  <2>4. OutputFollowsProgress'
    BY <1>4, <1>t
    DEF BarrierInv, TypeOK, OutputFollowsProgress, ReportsCounted, Fresh,
        RunReturns, Executing, EngineOwns, InRunFrame, Touching
  <2>5. SuccessIsFresh'
    BY <1>4
    DEF BarrierInv, TypeOK, SuccessIsFresh, ReportsCounted, RunReturns,
        Touching, Executing, EngineOwns, InRunFrame
  <2> QED
    BY <2>1, <2>2, <2>3, <2>4, <2>5 DEF BarrierInv
<1>5. CASE AfterRun(m)
  <2>1. TypeOK'
    BY <1>5 DEF BarrierInv, TypeOK, AfterRun, Quiet, Executing, InRunFrame
  <2>2. StateAgrees'
    BY <1>5
    DEF BarrierInv, TypeOK, StateAgrees, AfterRun, StateAfter, InDestructor,
        InRunFrame
  <2>3. ReportsCounted'
    BY <1>5, <1>t
    DEF BarrierInv, TypeOK, ReportsCounted, AfterRun, Quiet, Executing,
        EngineOwns, InRunFrame, InDestructor
  <2>4. OutputFollowsProgress'
    BY <1>5, <1>t
    DEF BarrierInv, TypeOK, OutputFollowsProgress, ReportsCounted, Fresh,
        AfterRun, Executing, EngineOwns, InRunFrame, Touching
  <2>5. SuccessIsFresh'
    BY <1>5
    DEF BarrierInv, TypeOK, SuccessIsFresh, ReportsCounted, AfterRun,
        Touching, Executing, EngineOwns, InRunFrame
  <2> QED
    BY <2>1, <2>2, <2>3, <2>4, <2>5 DEF BarrierInv
<1>6. CASE SnapshotVideo(m)
  <2>1. TypeOK'
    BY <1>6
    DEF BarrierInv, TypeOK, SnapshotVideo, Quiet, Executing, InRunFrame
  <2>2. StateAgrees'
    BY <1>6
    DEF BarrierInv, TypeOK, StateAgrees, SnapshotVideo, StateAfter,
        InDestructor, InRunFrame
  <2>3. ReportsCounted'
    BY <1>6, <1>t
    DEF BarrierInv, TypeOK, ReportsCounted, SnapshotVideo, Quiet, Executing,
        EngineOwns, InRunFrame, InDestructor
  <2>4. OutputFollowsProgress'
    BY <1>6, <1>t
    DEF BarrierInv, TypeOK, OutputFollowsProgress, ReportsCounted, Fresh,
        SnapshotVideo, Executing, EngineOwns, InRunFrame, Touching
  <2>5. SuccessIsFresh'
    BY <1>6
    DEF BarrierInv, TypeOK, SuccessIsFresh, ReportsCounted, SnapshotVideo,
        Touching, Executing, EngineOwns, InRunFrame
  <2> QED
    BY <2>1, <2>2, <2>3, <2>4, <2>5 DEF BarrierInv
<1>7. CASE DrainCheck(m)
  <2>1. TypeOK'
    BY <1>7 DEF BarrierInv, TypeOK, DrainCheck, Quiet, Executing, InRunFrame
  <2>2. StateAgrees'
    BY <1>7
    DEF BarrierInv, TypeOK, StateAgrees, DrainCheck, StateAfter, InDestructor,
        InRunFrame
  <2>3. ReportsCounted'
    BY <1>7, <1>t
    DEF BarrierInv, TypeOK, ReportsCounted, DrainCheck, Quiet, Executing,
        EngineOwns, InRunFrame, InDestructor
  <2>4. OutputFollowsProgress'
    BY <1>7, <1>t
    DEF BarrierInv, TypeOK, OutputFollowsProgress, ReportsCounted, Fresh,
        DrainCheck, Executing, EngineOwns, InRunFrame, Touching
  <2>5. SuccessIsFresh'
    BY <1>7
    DEF BarrierInv, TypeOK, SuccessIsFresh, ReportsCounted, DrainCheck,
        Touching, Executing, EngineOwns, InRunFrame
  <2> QED
    BY <2>1, <2>2, <2>3, <2>4, <2>5 DEF BarrierInv
<1>8. CASE DrainAudio(m)
  <2>1. TypeOK'
    <3>1. ok' \in [Machines -> BOOLEAN]
      BY <1>8, Zenon DEF BarrierInv, TypeOK, DrainAudio
    <3> QED
      BY <1>8, <3>1 DEF BarrierInv, TypeOK, DrainAudio, Quiet, Executing
  <2>2. StateAgrees'
    <3>1. frame_state # "Poisoned"
      BY <1>8 DEF BarrierInv, TypeOK, StateAgrees, ReportsCounted, DrainAudio,
                  Touching, Executing, EngineOwns, InRunFrame, InDestructor
    <3> QED
      BY <1>8, <3>1 DEF BarrierInv, TypeOK, StateAgrees, DrainAudio,
                        StateAfter, InDestructor, InRunFrame
  <2>3. ReportsCounted'
    BY <1>8, <1>t
    DEF BarrierInv, TypeOK, ReportsCounted, DrainAudio, Quiet, Executing,
        EngineOwns, InRunFrame, InDestructor
  <2>4. OutputFollowsProgress'
    BY <1>8, <1>t
    DEF BarrierInv, TypeOK, OutputFollowsProgress, ReportsCounted, Fresh,
        DrainAudio, Executing, EngineOwns, InRunFrame, Touching
  <2>5. SuccessIsFresh'
    BY <1>8
    DEF BarrierInv, TypeOK, SuccessIsFresh, ReportsCounted, DrainAudio,
        Touching, Executing, EngineOwns, InRunFrame
  <2> QED
    BY <2>1, <2>2, <2>3, <2>4, <2>5 DEF BarrierInv
<1>9. CASE StopCheck(m)
  <2>1. TypeOK'
    BY <1>9 DEF BarrierInv, TypeOK, StopCheck, Quiet, Executing, InRunFrame
  <2>2. StateAgrees'
    BY <1>9
    DEF BarrierInv, TypeOK, StateAgrees, StopCheck, StateAfter, InDestructor,
        InRunFrame
  <2>3. ReportsCounted'
    BY <1>9, <1>t
    DEF BarrierInv, TypeOK, ReportsCounted, StopCheck, Quiet, Executing,
        EngineOwns, InRunFrame, InDestructor
  <2>4. OutputFollowsProgress'
    BY <1>9, <1>t
    DEF BarrierInv, TypeOK, OutputFollowsProgress, ReportsCounted, Fresh,
        StopCheck, Executing, EngineOwns, InRunFrame, Touching
  <2>5. SuccessIsFresh'
    BY <1>9
    DEF BarrierInv, TypeOK, SuccessIsFresh, ReportsCounted, StopCheck,
        Touching, Executing, EngineOwns, InRunFrame
  <2> QED
    BY <2>1, <2>2, <2>3, <2>4, <2>5 DEF BarrierInv
<1>10. CASE FailedLeaves(m)
  <2>1. TypeOK'
    BY <1>10
    DEF BarrierInv, TypeOK, FailedLeaves, Quiet, Executing, InRunFrame
  <2>2. StateAgrees'
    BY <1>10
    DEF BarrierInv, TypeOK, StateAgrees, FailedLeaves, StateAfter,
        InDestructor, InRunFrame
  <2>3. ReportsCounted'
    BY <1>10, <1>t
    DEF BarrierInv, TypeOK, ReportsCounted, FailedLeaves, Quiet, Executing,
        EngineOwns, InRunFrame, InDestructor
  <2>4. OutputFollowsProgress'
    BY <1>10, <1>t
    DEF BarrierInv, TypeOK, OutputFollowsProgress, ReportsCounted, Fresh,
        FailedLeaves, Executing, EngineOwns, InRunFrame, Touching
  <2>5. SuccessIsFresh'
    BY <1>10
    DEF BarrierInv, TypeOK, SuccessIsFresh, ReportsCounted, FailedLeaves,
        Touching, Executing, EngineOwns, InRunFrame
  <2> QED
    BY <2>1, <2>2, <2>3, <2>4, <2>5 DEF BarrierInv
<1>11. CASE FrameBoundary(m)
  <2>1. TypeOK'
    BY <1>11
    DEF BarrierInv, TypeOK, FrameBoundary, Quiet, Executing, InRunFrame
  <2>2. StateAgrees'
    BY <1>11
    DEF BarrierInv, TypeOK, StateAgrees, FrameBoundary, StateAfter,
        InDestructor, InRunFrame
  <2>3. ReportsCounted'
    BY <1>11, <1>t
    DEF BarrierInv, TypeOK, ReportsCounted, FrameBoundary, Quiet, Executing,
        EngineOwns, InRunFrame, InDestructor
  <2>4. OutputFollowsProgress'
    BY <1>11, <1>t
    DEF BarrierInv, TypeOK, OutputFollowsProgress, ReportsCounted, Fresh,
        FrameBoundary, Executing, EngineOwns, InRunFrame, Touching
  <2>5. SuccessIsFresh'
    BY <1>11
    DEF BarrierInv, TypeOK, SuccessIsFresh, ReportsCounted, FrameBoundary,
        Touching, Executing, EngineOwns, InRunFrame
  <2> QED
    BY <2>1, <2>2, <2>3, <2>4, <2>5 DEF BarrierInv
<1>12. CASE NotifyDone(m)
  <2>1. TypeOK'
    BY <1>12 DEF BarrierInv, TypeOK, NotifyDone, Quiet, Executing, InRunFrame
  <2>2. StateAgrees'
    BY <1>12
    DEF BarrierInv, TypeOK, StateAgrees, NotifyDone, StateAfter, InDestructor,
        InRunFrame
  <2>3. ReportsCounted'
    BY <1>12, <1>t
    DEF BarrierInv, TypeOK, ReportsCounted, NotifyDone, Quiet, Executing,
        EngineOwns, InRunFrame, InDestructor
  <2>4. OutputFollowsProgress'
    BY <1>12, <1>t
    DEF BarrierInv, TypeOK, OutputFollowsProgress, ReportsCounted, Fresh,
        NotifyDone, Executing, EngineOwns, InRunFrame, Touching
  <2>5. SuccessIsFresh'
    BY <1>12
    DEF BarrierInv, TypeOK, SuccessIsFresh, ReportsCounted, NotifyDone,
        Touching, Executing, EngineOwns, InRunFrame
  <2> QED
    BY <2>1, <2>2, <2>3, <2>4, <2>5 DEF BarrierInv
<1> QED
  BY <1>1, <1>2, <1>3, <1>4, <1>5, <1>6, <1>7, <1>8, <1>9, <1>10, <1>11, <1>12

\* Report takes one machine off the touched ones and counts it.
LEMMA ReportPreserves ==
  ASSUME BarrierInv, NEW m \in Machines, Report(m)
  PROVE  BarrierInv'
<1> USE DEF Goto, sharedVars, workerVars, mainVars, outputVars
<1>1. m \in Touching /\ main \in EngineOwns \ {"unlink"}
  BY DEF BarrierInv, ReportsCounted, Report, Touching, Executing
<1>2. Touching' = Touching \ {m}
  BY DEF BarrierInv, TypeOK, ReportsCounted, Report, Touching, Executing
<1>3. completed_workers' = Cardinality((Machines \ Touching)')
  <2>1. (Machines \ Touching)' = (Machines \ Touching) \cup {m}
    BY <1>1, <1>2
  <2>2. IsFiniteSet(Machines \ Touching)
    BY CountBounds
  <2>3. Cardinality((Machines \ Touching) \cup {m})
          = Cardinality(Machines \ Touching) + 1
    BY <1>1, <2>2, FS_AddElement
  <2> QED
    BY <1>1, <2>1, <2>3 DEF BarrierInv, ReportsCounted, Report
<1>4. TypeOK'
  <2>1. worker_success' \in [Machines -> BOOLEAN]
    BY Zenon DEF BarrierInv, TypeOK, Report
  <2>2. completed_workers' \in 0 .. Cardinality(Machines)
    BY <1>3, CountBounds
  <2> QED
    BY <2>1, <2>2 DEF BarrierInv, TypeOK, Report, Quiet
<1>5. StateAgrees'
  BY DEF BarrierInv, TypeOK, StateAgrees, Report, StateAfter
<1>6. ReportsCounted'
  BY <1>1, <1>3 DEF BarrierInv, TypeOK, ReportsCounted, Report, Executing
<1>7. OutputFollowsProgress'
  BY <1>2 DEF BarrierInv, TypeOK, OutputFollowsProgress, Fresh, Report
<1>8. SuccessIsFresh'
  BY DEF BarrierInv, SuccessIsFresh, Report
<1> QED
  BY <1>4, <1>5, <1>6, <1>7, <1>8 DEF BarrierInv

\* Every step of the frontend thread preserves the barrier invariant.
LEMMA FrontendPreserves ==
  ASSUME BarrierInv, MainStep \/ MainCall \/ DeadlineExpires \/ SpuriousDone
  PROVE  BarrierInv'
<1> USE DEF sharedVars, workerVars, mainVars, outputVars
<1>1. CASE RunFrameRejected
  <2>1. TypeOK'
    BY <1>1
    DEF BarrierInv, TypeOK, RunFrameRejected, Quiet, InRunFrame, InDestructor
  <2>2. StateAgrees'
    BY <1>1
    DEF BarrierInv, TypeOK, StateAgrees, RunFrameRejected, StateAfter,
        InDestructor
  <2>3. Touching' = Touching
    BY <1>1 DEF BarrierInv, TypeOK, Touching, RunFrameRejected, Executing
  <2>4. ReportsCounted'
    BY <1>1, <2>3
    DEF BarrierInv, TypeOK, ReportsCounted, RunFrameRejected, Executing,
        EngineOwns, InRunFrame, InDestructor
  <2>5. OutputFollowsProgress'
    BY <1>1, <2>3
    DEF BarrierInv, TypeOK, OutputFollowsProgress, Fresh, RunFrameRejected,
        EngineOwns, InRunFrame
  <2>6. SuccessIsFresh'
    BY <1>1 DEF BarrierInv, SuccessIsFresh, RunFrameRejected
  <2> QED
    BY <2>1, <2>2, <2>4, <2>5, <2>6 DEF BarrierInv
<1>2. CASE RunFrameEnter
  <2>1. TypeOK'
    BY <1>2
    DEF BarrierInv, TypeOK, RunFrameEnter, Quiet, InRunFrame, InDestructor
  <2>2. StateAgrees'
    BY <1>2
    DEF BarrierInv, TypeOK, StateAgrees, RunFrameEnter, StateAfter,
        InDestructor
  <2>3. Touching' = Touching
    BY <1>2 DEF BarrierInv, TypeOK, Touching, RunFrameEnter, Executing
  <2>4. ReportsCounted'
    BY <1>2, <2>3
    DEF BarrierInv, TypeOK, ReportsCounted, RunFrameEnter, Executing,
        EngineOwns, InRunFrame, InDestructor
  <2>5. OutputFollowsProgress'
    BY <1>2, <2>3
    DEF BarrierInv, TypeOK, OutputFollowsProgress, Fresh, RunFrameEnter,
        EngineOwns, InRunFrame
  <2>6. SuccessIsFresh'
    BY <1>2 DEF BarrierInv, SuccessIsFresh, RunFrameEnter
  <2> QED
    BY <2>1, <2>2, <2>4, <2>5, <2>6 DEF BarrierInv
<1>3. CASE Unlink
  <2>1. TypeOK'
    BY <1>3 DEF BarrierInv, TypeOK, Unlink, Quiet, InRunFrame, InDestructor
  <2>2. StateAgrees'
    BY <1>3
    DEF BarrierInv, TypeOK, StateAgrees, Unlink, StateAfter, InDestructor
  <2>3. Touching' = Touching
    BY <1>3 DEF BarrierInv, TypeOK, Touching, Unlink, Executing
  <2>4. ReportsCounted'
    BY <1>3, <2>3
    DEF BarrierInv, TypeOK, ReportsCounted, Unlink, Executing, EngineOwns,
        InRunFrame, InDestructor
  <2>5. OutputFollowsProgress'
    BY <1>3, <2>3
    DEF BarrierInv, TypeOK, OutputFollowsProgress, Fresh, Unlink, EngineOwns,
        InRunFrame
  <2>6. SuccessIsFresh'
    BY <1>3 DEF BarrierInv, SuccessIsFresh, Unlink
  <2> QED
    BY <2>1, <2>2, <2>4, <2>5, <2>6 DEF BarrierInv
<1>4. CASE Join
  <2>1. TypeOK'
    BY <1>4 DEF BarrierInv, TypeOK, Join, Quiet, InRunFrame, InDestructor
  <2>2. StateAgrees'
    BY <1>4
    DEF BarrierInv, TypeOK, StateAgrees, Join, StateAfter, InDestructor
  <2>3. Touching' = Touching
    BY <1>4 DEF BarrierInv, TypeOK, Touching, Join, Executing
  <2>4. ReportsCounted'
    BY <1>4, <2>3
    DEF BarrierInv, TypeOK, ReportsCounted, Join, Executing, EngineOwns,
        InRunFrame, InDestructor
  <2>5. OutputFollowsProgress'
    BY <1>4, <2>3
    DEF BarrierInv, TypeOK, OutputFollowsProgress, Fresh, Join, EngineOwns,
        InRunFrame
  <2>6. SuccessIsFresh'
    BY <1>4 DEF BarrierInv, SuccessIsFresh, Join
  <2> QED
    BY <2>1, <2>2, <2>4, <2>5, <2>6 DEF BarrierInv
<1>5. CASE Release
  <2>1. TypeOK'
    BY <1>5 DEF BarrierInv, TypeOK, Release, Quiet, InRunFrame, InDestructor
  <2>2. StateAgrees'
    BY <1>5
    DEF BarrierInv, TypeOK, StateAgrees, Release, StateAfter, InDestructor
  <2>3. Touching' = Touching
    BY <1>5 DEF BarrierInv, TypeOK, Touching, Release, Executing
  <2>4. ReportsCounted'
    BY <1>5, <2>3
    DEF BarrierInv, TypeOK, ReportsCounted, Release, Executing, EngineOwns,
        InRunFrame, InDestructor
  <2>5. OutputFollowsProgress'
    BY <1>5, <2>3
    DEF BarrierInv, TypeOK, OutputFollowsProgress, Fresh, Release, EngineOwns,
        InRunFrame
  <2>6. SuccessIsFresh'
    BY <1>5 DEF BarrierInv, SuccessIsFresh, Release
  <2> QED
    BY <2>1, <2>2, <2>4, <2>5, <2>6 DEF BarrierInv
<1>6. CASE SpuriousDone
  <2>1. TypeOK'
    BY <1>6
    DEF BarrierInv, TypeOK, SpuriousDone, Quiet, InRunFrame, InDestructor
  <2>2. StateAgrees'
    BY <1>6
    DEF BarrierInv, TypeOK, StateAgrees, SpuriousDone, StateAfter,
        InDestructor
  <2>3. Touching' = Touching
    BY <1>6 DEF BarrierInv, TypeOK, Touching, SpuriousDone, Executing
  <2>4. ReportsCounted'
    BY <1>6, <2>3
    DEF BarrierInv, TypeOK, ReportsCounted, SpuriousDone, Executing,
        EngineOwns, InRunFrame, InDestructor
  <2>5. OutputFollowsProgress'
    BY <1>6, <2>3
    DEF BarrierInv, TypeOK, OutputFollowsProgress, Fresh, SpuriousDone,
        EngineOwns, InRunFrame
  <2>6. SuccessIsFresh'
    BY <1>6 DEF BarrierInv, SuccessIsFresh, SpuriousDone
  <2> QED
    BY <2>1, <2>2, <2>4, <2>5, <2>6 DEF BarrierInv
<1>7. CASE NotifyStart
  <2>1. TypeOK'
    BY <1>7
    DEF BarrierInv, TypeOK, NotifyStart, WakeWorkers, Quiet, InRunFrame,
        InDestructor
  <2>2. StateAgrees'
    BY <1>7
    DEF BarrierInv, TypeOK, StateAgrees, NotifyStart, WakeWorkers, StateAfter,
        InDestructor
  <2>3. Touching' = Touching
    BY <1>7
    DEF BarrierInv, TypeOK, Touching, NotifyStart, WakeWorkers, Executing
  <2>4. ReportsCounted'
    BY <1>7, <2>3
    DEF BarrierInv, TypeOK, ReportsCounted, NotifyStart, WakeWorkers,
        Executing, EngineOwns, InRunFrame, InDestructor
  <2>5. OutputFollowsProgress'
    BY <1>7, <2>3
    DEF BarrierInv, TypeOK, OutputFollowsProgress, Fresh, NotifyStart,
        WakeWorkers, EngineOwns, InRunFrame
  <2>6. SuccessIsFresh'
    BY <1>7 DEF BarrierInv, SuccessIsFresh, NotifyStart, WakeWorkers
  <2> QED
    BY <2>1, <2>2, <2>4, <2>5, <2>6 DEF BarrierInv
<1>8. CASE NotifyStop
  <2>1. TypeOK'
    BY <1>8
    DEF BarrierInv, TypeOK, NotifyStop, WakeWorkers, Quiet, InRunFrame,
        InDestructor
  <2>2. StateAgrees'
    BY <1>8
    DEF BarrierInv, TypeOK, StateAgrees, NotifyStop, WakeWorkers, StateAfter,
        InDestructor
  <2>3. Touching' = Touching
    BY <1>8
    DEF BarrierInv, TypeOK, Touching, NotifyStop, WakeWorkers, Executing
  <2>4. ReportsCounted'
    BY <1>8, <2>3
    DEF BarrierInv, TypeOK, ReportsCounted, NotifyStop, WakeWorkers,
        Executing, EngineOwns, InRunFrame, InDestructor
  <2>5. OutputFollowsProgress'
    BY <1>8, <2>3
    DEF BarrierInv, TypeOK, OutputFollowsProgress, Fresh, NotifyStop,
        WakeWorkers, EngineOwns, InRunFrame
  <2>6. SuccessIsFresh'
    BY <1>8 DEF BarrierInv, SuccessIsFresh, NotifyStop, WakeWorkers
  <2> QED
    BY <2>1, <2>2, <2>4, <2>5, <2>6 DEF BarrierInv
<1>9. CASE Dispatch
  <2>1. Touching' = Machines
    BY <1>9 DEF BarrierInv, TypeOK, ReportsCounted, Touching, Dispatch
  <2>2. completed_workers' = Cardinality((Machines \ Touching)')
    BY <1>9, <2>1, FS_EmptySet DEF Dispatch
  <2>3. TypeOK'
    <3>1. /\ worker_success' \in [Machines -> BOOLEAN]
          /\ worker_frame_active' \in [Machines -> BOOLEAN]
          /\ abort_requested' \in BOOLEAN
      BY <1>9, Zenon DEF Dispatch
    <3>2. completed_workers' \in 0 .. Cardinality(Machines)
      BY <2>2, CountBounds
    <3> QED
      BY <1>9, <3>1, <3>2 DEF BarrierInv, TypeOK, Dispatch, FrameStates,
                              InRunFrame
  <2>4. StateAgrees'
    BY <1>9 DEF BarrierInv, TypeOK, StateAgrees, Dispatch, InDestructor
  <2>5. ReportsCounted'
    <3>1. \A m \in Machines : pc[m] \notin Executing /\ pc[m] # "exited"
      BY <1>9 DEF BarrierInv, StateAgrees, ReportsCounted, Touching, Dispatch,
                  EngineOwns
    <3> QED
      BY <1>9, <2>1, <2>2, <3>1 DEF BarrierInv, TypeOK, ReportsCounted,
                                    Dispatch, EngineOwns, InRunFrame
  <2>6. OutputFollowsProgress'
    <3>1. \A m \in Machines : pc[m] \notin Executing
      BY <1>9 DEF BarrierInv, ReportsCounted, Touching, Dispatch, EngineOwns
    <3> QED
      BY <1>9, <2>1, <3>1 DEF BarrierInv, TypeOK, OutputFollowsProgress,
                              Dispatch, Executing
  <2>7. SuccessIsFresh'
    BY <1>9 DEF SuccessIsFresh, Dispatch
  <2> QED
    BY <2>3, <2>4, <2>5, <2>6, <2>7 DEF BarrierInv
<1>10. CASE WaitDone \/ DeadlineExpires
  <2>0. main \in {"waitcheck", "waiting"} /\ ~deadline_exceeded
        /\ ~abort_requested /\ frame_state = "Running"
        /\ main \in EngineOwns /\ main # "unlink"
    BY <1>10 DEF BarrierInv, StateAgrees, WaitDone, DeadlineExpires,
                 EngineOwns, InRunFrame
  <2>1. CASE FinishFrame
    <3>1. Machines \ Touching = Machines
      BY <2>0, <2>1, CountBounds DEF BarrierInv, ReportsCounted, FinishFrame,
                                     AllReported
    <3>2. Touching = {}
      BY <3>1 DEF Touching
    <3>3. Touching' = {}
      BY <2>0, <2>1, <3>2 DEF Touching, FinishFrame, StateAfter
    <3>4. TypeOK'
      BY <2>1 DEF BarrierInv, TypeOK, FinishFrame, FrameStates, StateAfter,
                  FrameResult
    <3>5. StateAgrees'
      BY <2>0, <2>1 DEF StateAgrees, FinishFrame, StateAfter, InDestructor
    <3>6. ReportsCounted'
      BY <2>0, <2>1, <3>3 DEF BarrierInv, TypeOK, ReportsCounted, FinishFrame,
                        EngineOwns, InRunFrame
    <3>7. OutputFollowsProgress'
      BY <2>1
      DEF BarrierInv, TypeOK, OutputFollowsProgress, Fresh, FinishFrame,
                  EngineOwns, InRunFrame
    <3>8. SuccessIsFresh'
      BY <2>0, <2>1, <3>2, MachinesAssumption
         DEF BarrierInv, TypeOK, OutputFollowsProgress, SuccessIsFresh, Fresh,
             FinishFrame, FrameResult
    <3> QED
      BY <3>4, <3>5, <3>6, <3>7, <3>8 DEF BarrierInv
  <2>2. CASE /\ ~AllReported
             /\ main' = "waiting"
             /\ UNCHANGED <<sharedVars, workerVars, deadline_exceeded, result,
                            outputVars>>
    <3>1. Touching' = Touching
      BY <2>2 DEF Touching
    <3> QED
      BY <2>0, <2>2, <3>1
         DEF BarrierInv, TypeOK, StateAgrees, ReportsCounted, Fresh,
             OutputFollowsProgress, SuccessIsFresh, InRunFrame, InDestructor,
             EngineOwns
  <2>3. CASE DeadlineExpires /\ ~FinishFrame
    <3>1. Touching' = Touching
      BY <2>0, <2>3 DEF Touching, DeadlineExpires
    <3>2. TypeOK'
      BY <2>3 DEF BarrierInv, TypeOK, DeadlineExpires, FrameStates, InRunFrame
    <3>3. StateAgrees'
      BY <2>3 DEF StateAgrees, DeadlineExpires, InDestructor
    <3>4. ReportsCounted'
      BY <2>0, <2>3, <3>1 DEF BarrierInv, TypeOK, ReportsCounted,
                              DeadlineExpires, EngineOwns, InRunFrame
    <3>5. OutputFollowsProgress' /\ SuccessIsFresh'
      BY <2>3 DEF BarrierInv, OutputFollowsProgress, SuccessIsFresh,
                  DeadlineExpires
    <3> QED
      BY <3>2, <3>3, <3>4, <3>5 DEF BarrierInv
  <2> QED
    BY <1>10, <2>1, <2>2, <2>3 DEF WaitDone, DeadlineExpires
<1>11. CASE AwaitQuiescence
  <2>0. /\ deadline_exceeded /\ abort_requested /\ main \in EngineOwns
        /\ main = "draincheck" /\ frame_state = "DeadlineExceeded"
    BY <1>11 DEF BarrierInv, StateAgrees, AwaitQuiescence, EngineOwns,
                 InRunFrame
  <2>1. Touching' = Touching
    BY <1>11, <2>0 DEF Touching, AwaitQuiescence, StateAfter
  <2>2. main' = "unlink" => Touching = {}
    <3>1. main' = "unlink" => Machines \ Touching = Machines
      BY <1>11, <2>0, CountBounds DEF BarrierInv, ReportsCounted,
                                      AwaitQuiescence, AllReported
    <3> QED
      BY <3>1 DEF Touching
  <2>3. TypeOK'
    BY <1>11 DEF BarrierInv, TypeOK, AwaitQuiescence, FrameStates, InRunFrame,
                 StateAfter
  <2>4. StateAgrees'
    BY <1>11, <2>0 DEF StateAgrees, AwaitQuiescence, StateAfter, InDestructor
  <2>5. ReportsCounted'
    BY <1>11, <2>0, <2>1, <2>2 DEF BarrierInv, TypeOK, ReportsCounted,
                       AwaitQuiescence, EngineOwns, InRunFrame
  <2>6. OutputFollowsProgress' /\ SuccessIsFresh'
    BY <1>11, <2>0 DEF BarrierInv, OutputFollowsProgress, SuccessIsFresh,
                       AwaitQuiescence
  <2> QED
    BY <2>3, <2>4, <2>5, <2>6 DEF BarrierInv
<1>12. CASE ShutdownWorkers
  <2>1. Touching = {} /\ Touching' = {}
    BY <1>12 DEF BarrierInv, ReportsCounted, Touching, ShutdownWorkers,
                 EngineOwns, InRunFrame
  <2>2. TypeOK'
    BY <1>12
    DEF BarrierInv, TypeOK, ShutdownWorkers, FrameStates, InDestructor
  <2>3. StateAgrees'
    BY <1>12 DEF StateAgrees, ShutdownWorkers
  <2>4. ReportsCounted'
    BY <1>12, <2>1 DEF BarrierInv, TypeOK, ReportsCounted, ShutdownWorkers,
                       Touching, EngineOwns, InRunFrame
  <2>5. OutputFollowsProgress' /\ SuccessIsFresh'
    BY <1>12 DEF BarrierInv, OutputFollowsProgress, SuccessIsFresh,
                 ShutdownWorkers
  <2> QED
    BY <2>2, <2>3, <2>4, <2>5 DEF BarrierInv
<1> QED
  BY <1>1, <1>2, <1>3, <1>4, <1>5, <1>6, <1>7, <1>8, <1>9, <1>10, <1>11, <1>12
     DEF MainStep, MainCall

\* The barrier invariant is inductive.
LEMMA BarrierStep == BarrierInv /\ [FrameNext]_frameVars => BarrierInv'
<1> SUFFICES ASSUME BarrierInv, [FrameNext]_frameVars PROVE BarrierInv'
  OBVIOUS
<1>1. ASSUME NEW m \in Machines, Worker(m) \/ SpuriousStart(m)
      PROVE  BarrierInv'
  BY <1>1, WorkerPreserves, ReportPreserves DEF Worker
<1>2. CASE MainStep \/ MainCall \/ DeadlineExpires \/ SpuriousDone
  BY <1>2, FrontendPreserves
<1>3. CASE UNCHANGED frameVars
  BY <1>3 DEF frameVars, sharedVars, workerVars, mainVars, outputVars,
     BarrierInv, TypeOK, StateAgrees, ReportsCounted, Touching,
     OutputFollowsProgress, Fresh, SuccessIsFresh
<1> QED
  BY <1>1, <1>2, <1>3 DEF FrameNext, Gone

\* The barrier invariant holds in every state of every run.
THEOREM BarrierInvariant == FrameSpec => []BarrierInv
<1> QED
  BY BarrierInit, BarrierStep, PTL DEF FrameSpec

\* Types hold, and no generation is reported more often than there are
\* workers.
THEOREM TypeCorrect == FrameSpec => []TypeOK
<1>1. BarrierInv => TypeOK
  BY DEF BarrierInv
<1> QED
  BY <1>1, BarrierInvariant, PTL

\* A RunFrame that returned true exposes the output of exactly that frame.
THEOREM SuccessfulFrameIsFresh == FrameSpec => []SuccessIsFresh
<1>1. BarrierInv => SuccessIsFresh
  BY DEF BarrierInv
<1> QED
  BY <1>1, BarrierInvariant, PTL

\* A RunFrame that missed its deadline leaves a retired and silent pair.
THEOREM TimeoutRetiresThePair == FrameSpec => []TimeoutRetires
<1>1. BarrierInv => TimeoutRetires
  BY DEF BarrierInv, TypeOK, StateAgrees, StateAfter, TimeoutRetires
<1> QED
  BY <1>1, BarrierInvariant, PTL

\* Outside RunFrame no worker writes the frames and samples handed out.
THEOREM OutputsAreStable == FrameSpec => OutputsStable
<1>1. BarrierInv /\ [FrameNext]_frameVars =>
        [main \notin EngineOwns => UNCHANGED outputVars]_frameVars
  <2> SUFFICES ASSUME BarrierInv, FrameNext, main \notin EngineOwns
               PROVE  UNCHANGED outputVars
    BY DEF frameVars
  <2>1. \A m \in Machines : pc[m] \notin Executing
    BY DEF BarrierInv, ReportsCounted, Touching
  <2>2. ASSUME NEW m \in Machines, Worker(m) \/ SpuriousStart(m)
        PROVE  UNCHANGED outputVars
    BY <2>1, <2>2 DEF Worker, SpuriousStart, WorkerCheck, ExecBegin,
         RunReturns, AfterRun, SnapshotVideo, DrainCheck, DrainAudio,
         StopCheck, FailedLeaves, FrameBoundary, Report, NotifyDone,
         Executing, outputVars
  <2>3. CASE MainStep \/ MainCall \/ DeadlineExpires \/ SpuriousDone \/ Gone
    BY <2>3 DEF MainStep, MainCall, DeadlineExpires, SpuriousDone, Gone,
         Dispatch, NotifyStart, WaitDone, FinishFrame, AwaitQuiescence, Unlink,
         NotifyStop, Join, Release, RunFrameRejected, RunFrameEnter,
         ShutdownWorkers, EngineOwns, InRunFrame, frameVars, outputVars
  <2> QED
    BY <2>2, <2>3 DEF FrameNext
<1> QED
  BY <1>1, BarrierInvariant, PTL DEF FrameSpec, OutputsStable
-----------------------------------------------------------------------------
(* The barrier implements the ownership contract.                          *)

\* A worker step but Report is a stuttering step of the contract.
LEMMA WorkerStutters ==
  ASSUME BarrierInv, NEW m \in Machines, Worker(m) \/ SpuriousStart(m),
         ~Report(m)
  PROVE  UNCHANGED Contract!contractVars
<1>1. Touching' = Touching
  BY TouchingKept DEF Worker
<1>2. frame_state' = frame_state /\ (main' = main \/ NotifyDone(m))
  BY DEF Worker, SpuriousStart, WorkerCheck, ExecBegin, RunReturns, AfterRun,
         SnapshotVideo, DrainCheck, DrainAudio, StopCheck, FailedLeaves,
         FrameBoundary, NotifyDone, sharedVars, mainVars
<1>3. Owner' = Owner /\ Usable' = Usable
  BY <1>2 DEF Owner, Usable, NotifyDone, EngineOwns, InRunFrame
<1> QED
  BY <1>1, <1>3 DEF Contract!contractVars

\* Report is the contract's LetGo.
LEMMA ReportLetsGo ==
  ASSUME BarrierInv, NEW m \in Machines, Report(m)
  PROVE  Contract!LetGo(m)
<1>1. m \in Touching /\ main \in EngineOwns
  BY DEF BarrierInv, ReportsCounted, Report, Touching, Executing
<1>2. Touching' = Touching \ {m}
  BY DEF BarrierInv, TypeOK, ReportsCounted, Report, Goto, Touching, Executing
<1>3. Owner' = Owner /\ Usable' = Usable
  BY DEF Report, mainVars, Owner, Usable
<1> QED
  BY <1>1, <1>2, <1>3 DEF Contract!LetGo, Owner

\* Dispatch is Begin, the two ways out of RunFrame are Return, the start of
\* the destructor is Destroy; every other frontend step stutters.
LEMMA FrontendRefines ==
  ASSUME BarrierInv, BarrierInv',
         MainStep \/ MainCall \/ DeadlineExpires \/ SpuriousDone
  PROVE  [Contract!Next]_(Contract!contractVars)
<1> USE DEF Contract!contractVars, sharedVars, workerVars
<1>1. CASE Dispatch
  <2>1. Owner = "frontend" /\ Owner' = "engine"
    BY <1>1 DEF Dispatch, Owner, EngineOwns, InRunFrame
  <2>2. Usable /\ Usable'
    BY <1>1 DEF BarrierInv, StateAgrees, Dispatch, Usable
  <2>3. Touching' = Machines
    BY <1>1 DEF BarrierInv, TypeOK, ReportsCounted, Touching, Dispatch
  <2>4. Usable' = Usable
    BY <2>2 DEF Usable
  <2> QED
    BY <2>1, <2>2, <2>3, <2>4 DEF Contract!Next, Contract!Begin
<1>2. CASE FinishFrame /\ main \in {"waitcheck", "waiting"}
  <2>1. Owner = "engine" /\ Owner' = "frontend"
    BY <1>2 DEF FinishFrame, Owner, EngineOwns, InRunFrame
  <2>2. Touching' = {} /\ Touching = {}
    <3>1. Touching' = {}
      BY <1>2 DEF BarrierInv, ReportsCounted, FinishFrame, EngineOwns,
                  InRunFrame
    <3> QED
      BY <1>2, <3>1 DEF BarrierInv, StateAgrees, FinishFrame, Touching,
                        StateAfter
  <2>3. Usable' = Usable
    BY <1>2 DEF BarrierInv, StateAgrees, FinishFrame, Usable, StateAfter
  <2> QED
    BY <2>1, <2>2, <2>3 DEF Contract!Next, Contract!Return
<1>3. CASE Unlink
  <2>1. Owner = "engine" /\ Owner' = "frontend"
    BY <1>3 DEF Unlink, Owner, EngineOwns, InRunFrame
  <2>2. Touching' = Touching /\ Touching = {}
    BY <1>3 DEF BarrierInv, ReportsCounted, Unlink, Touching, EngineOwns,
                InRunFrame
  <2>3. Usable' = FALSE
    BY <1>3 DEF BarrierInv, StateAgrees, Unlink, Usable
  <2> QED
    BY <2>1, <2>2, <2>3 DEF Contract!Next, Contract!Return
<1>4. CASE ShutdownWorkers
  <2>1. Owner = "frontend" /\ Owner' = "gone"
    BY <1>4 DEF ShutdownWorkers, Owner, EngineOwns, InRunFrame
  <2>2. Touching' = {} /\ Touching = {}
    BY <1>4 DEF BarrierInv, ReportsCounted, ShutdownWorkers, Touching,
                EngineOwns, InRunFrame
  <2>3. Usable' = FALSE
    BY <1>4 DEF ShutdownWorkers, Usable
  <2> QED
    BY <2>1, <2>2, <2>3 DEF Contract!Next, Contract!Destroy
<1>5. CASE \/ NotifyStart \/ NotifyStop \/ AwaitQuiescence \/ Join \/ Release
           \/ RunFrameRejected \/ RunFrameEnter \/ SpuriousDone
           \/ (WaitDone \/ DeadlineExpires) /\ ~FinishFrame
  <2>1. Owner' = Owner
    BY <1>5 DEF NotifyStart, NotifyStop, AwaitQuiescence, Join, Release,
         RunFrameRejected, RunFrameEnter, SpuriousDone, WaitDone,
         DeadlineExpires, Owner, EngineOwns, InRunFrame
  <2>2. Usable' = Usable
    BY <1>5 DEF BarrierInv, TypeOK, FrameStates, StateAgrees, NotifyStart,
         NotifyStop, AwaitQuiescence, Join, Release, RunFrameRejected,
         RunFrameEnter, SpuriousDone, WaitDone, DeadlineExpires, StateAfter,
         Usable
  <2>3. Touching' = Touching
    <3>1. generation' = generation /\ observed' = observed
      BY <1>5 DEF NotifyStart, NotifyStop, AwaitQuiescence, Join, Release,
           RunFrameRejected, RunFrameEnter, SpuriousDone, WaitDone,
           DeadlineExpires
    <3>2. (frame_state' = "ShuttingDown") = (frame_state = "ShuttingDown")
      BY <1>5 DEF BarrierInv, StateAgrees, NotifyStart, NotifyStop,
           AwaitQuiescence, Join, Release, RunFrameRejected, RunFrameEnter,
           SpuriousDone, WaitDone, DeadlineExpires, StateAfter
    <3>3. pc' = pc \/ WakeWorkers
      BY <1>5 DEF NotifyStart, NotifyStop, AwaitQuiescence, Join, Release,
           RunFrameRejected, RunFrameEnter, SpuriousDone, WaitDone,
           DeadlineExpires
    <3> QED
      BY <3>1, <3>2, <3>3 DEF BarrierInv, TypeOK, Touching, WakeWorkers,
                              Executing
  <2> QED
    BY <2>1, <2>2, <2>3
<1> QED
  BY <1>1, <1>2, <1>3, <1>4, <1>5 DEF MainStep, MainCall, WaitDone,
     DeadlineExpires

\* run_frame is the synchronous ownership boundary engine.h promises, for any
\* number of machines and frames, with any delay of any worker.
THEOREM BarrierImplementsContract == FrameSpec => ImplementsContract
<1>1. FrameInit => Contract!Init
  BY DEF FrameInit, Contract!Init, Owner, Touching, Usable, Executing,
         EngineOwns, InRunFrame
<1>2. BarrierInv /\ BarrierInv' /\ [FrameNext]_frameVars =>
        [Contract!Next]_(Contract!contractVars)
  <2> SUFFICES ASSUME BarrierInv, BarrierInv', [FrameNext]_frameVars
               PROVE  [Contract!Next]_(Contract!contractVars)
    OBVIOUS
  <2>1. ASSUME NEW m \in Machines, Worker(m) \/ SpuriousStart(m)
        PROVE  [Contract!Next]_(Contract!contractVars)
    BY <2>1, WorkerStutters, ReportLetsGo DEF Contract!Next
  <2>2. CASE MainStep \/ MainCall \/ DeadlineExpires \/ SpuriousDone
    BY <2>2, FrontendRefines
  <2>3. CASE UNCHANGED frameVars
    BY <2>3 DEF frameVars, sharedVars, workerVars, mainVars,
       Contract!contractVars, Owner, Touching, Usable
  <2> QED
    BY <2>1, <2>2, <2>3 DEF FrameNext, Gone
<1> QED
  BY <1>1, <1>2, BarrierInvariant, PTL DEF FrameSpec, ImplementsContract,
     Contract!Spec

-----------------------------------------------------------------------------
(* The wireless transport.                                                 *)

\* A callback step changes nothing of the frame barrier, except that MPEnd of
\* a failed frame ends with the worker's FailedLeaves.
LEMMA CallKeepsFrame ==
  ASSUME NEW m \in Machines, CallStep(m) \/ MPCall(m)
  PROVE  FailedLeaves(m) \/ UNCHANGED frameVars
BY DEF CallStep, MPCall, MPBegin, MPBeginStore, MPEnd, MPEndExchange,
       MPEndLeave, EndDone, MPSend, MPDeliver, MPRecvPacket, MPRecvHostPacket,
       HostPeer, Probe, Poll, HostProbe, HostActive, HostFinal, HostBudget,
       HostWait

\* Every step of the pair is a step of the frame barrier or leaves it alone.
LEMMA PairStepIsFrameStep == PairNext => [FrameNext]_frameVars
<1> SUFFICES ASSUME PairNext PROVE [FrameNext]_frameVars
  OBVIOUS
<1>1. ASSUME NEW m \in Machines, PairWorker(m)
      PROVE  [FrameNext]_frameVars
  BY <1>1, CallKeepsFrame DEF PairWorker, WorkerOnly, OutsideCalls, FrameNext,
                              Worker
<1>2. CASE PairMain \/ PairDispatch \/ PairUnlink
  BY <1>2 DEF PairMain, PairCallStep, PairDispatch, PairUnlink, FrameNext,
              MainStep
<1>3. CASE Reset \/ \E enabled \in BOOLEAN : SetLinkOp(enabled)
  BY <1>3 DEF Reset, SetLinkOp
<1> QED
  BY <1>1, <1>2, <1>3 DEF PairNext

\* A behaviour of the pair is one of the frame barrier: NdsPair is built so,
\* and the facts about the barrier can be cited for the pair.
LEMMA PairRunsFrames == PairSpec => FrameSpec
<1>1. PairInit => FrameInit
  BY DEF PairInit
<1>2. [PairNext]_pairVars => [FrameNext]_frameVars
  BY PairStepIsFrameStep DEF pairVars
<1> QED
  BY <1>1, <1>2, PTL DEF PairSpec, FrameSpec

\* run_frame of the complete pair is the ownership boundary of engine.h.
THEOREM PairImplementsContract == PairSpec => ImplementsContract
BY PairRunsFrames, BarrierImplementsContract, PTL
-----------------------------------------------------------------------------
(* Membership.                                                             *)

\* The flags are functions on the machines, and each machine's part of
\* MembershipOf holds.
MembershipInv ==
  /\ mp_requested \in [Machines -> BOOLEAN]
  /\ mp_registered \in [Machines -> BOOLEAN]
  /\ call \in [Machines -> CallPlaces]
  /\ \A m \in Machines : MembershipOf(m)

\* Outside RunFrame no machine is in a callback.
LEMMA NoCallOutsideFrame ==
  ASSUME BarrierInv, MembershipInv, main \notin EngineOwns \ {"unlink"},
         NEW m \in Machines
  PROVE  call[m] = "none"
BY DEF BarrierInv, ReportsCounted, Touching, Executing, MembershipInv,
       MembershipOf

\* A callback of one machine preserves the membership facts.
LEMMA CallKeepsMembership ==
  ASSUME MembershipInv, BarrierInv, NEW m \in Machines,
         CallStep(m) \/ MPCall(m)
  PROVE  MembershipInv'
<1>0. pc' = pc \/ FailedLeaves(m)
  BY CallKeepsFrame DEF frameVars, workerVars
<1> USE DEF MembershipInv, MembershipOf, Proceed, CallPlaces, mpVars, hostVars,
            netVars, frameVars, workerVars
<1>1. CASE MPBegin(m)
  <2>1. mp_requested' \in [Machines -> BOOLEAN]
    BY <1>1, Zenon DEF MPBegin
  <2>2. CASE mp_requested' = [mp_requested EXCEPT ![m] = TRUE]
    BY <1>1, <2>1, <2>2 DEF MPBegin, Enter
  <2>3. CASE UNCHANGED <<mp_requested, mp_control, call, joined, inbox>>
    BY <1>1, <2>3 DEF MPBegin, Enter
  <2> QED
    BY <1>1, <2>2, <2>3 DEF MPBegin
<1>2. CASE MPBeginStore(m)
  BY <1>2 DEF MPBeginStore
<1>3. CASE MPEnd(m)
  BY <1>3 DEF MPEnd, Enter
<1>4. CASE MPEndExchange(m)
  BY <1>4 DEF MPEndExchange, EndDone, FailedLeaves, Goto, BarrierInv, TypeOK
<1>5. CASE MPEndLeave(m)
  BY <1>5 DEF MPEndLeave, EndDone, FailedLeaves, Goto, BarrierInv, TypeOK
<1>6. CASE MPSend(m) \/ MPRecvPacket(m) \/ MPRecvHostPacket(m)
  BY <1>6 DEF MPSend, MPRecvPacket, MPRecvHostPacket, Enter
<1>7. CASE MPDeliver(m) \/ HostPeer(m) \/ HostActive(m) \/ HostWait(m)
  BY <1>7 DEF MPDeliver, HostPeer, HostActive, HostWait
<1>8. CASE Poll(m) \/ HostProbe(m) \/ HostFinal(m)
  BY <1>8 DEF Poll, HostProbe, HostFinal, Probe
<1>9. CASE HostBudget(m)
  BY <1>9 DEF HostBudget
<1> QED
  BY <1>1, <1>2, <1>3, <1>4, <1>5, <1>6, <1>7, <1>8, <1>9
     DEF CallStep, MPCall

\* Every step of the pair preserves the membership facts.
LEMMA MembershipStep ==
  MembershipInv /\ BarrierInv /\ [PairNext]_pairVars => MembershipInv'
<1> SUFFICES ASSUME MembershipInv, BarrierInv, [PairNext]_pairVars
             PROVE  MembershipInv'
  OBVIOUS
<1>1. ASSUME NEW m \in Machines, CallStep(m) \/ MPCall(m)
      PROVE  MembershipInv'
  BY <1>1, CallKeepsMembership
<1>2. ASSUME NEW m \in Machines, WorkerOnly(m)
      PROVE  MembershipInv'
  <2>1. /\ UNCHANGED <<mpVars, netVars, call>>
        /\ call[m] = "none"
        /\ \A n \in Machines \ {m} : pc'[n] = pc[n]
    BY <1>2 DEF BarrierInv, TypeOK, WorkerOnly, OutsideCalls,
         TransportRests, Worker, SpuriousStart,
         WorkerCheck, ExecBegin, RunReturns, AfterRun, SnapshotVideo,
         DrainCheck, DrainAudio, StopCheck, FailedLeaves, FrameBoundary,
         Report, NotifyDone, Goto
  <2> QED
    BY <2>1 DEF MembershipInv, MembershipOf, mpVars, netVars
<1>3. CASE PairMain \/ PairDispatch
  <2>1. UNCHANGED <<mpVars, netVars, call>>
    BY <1>3 DEF PairMain, PairCallStep, TransportRests, PairDispatch
  <2>2. \A m \in Machines : pc[m] \in {"run", "mpend"} => pc'[m] = pc[m]
    BY <1>3 DEF PairMain, PairCallStep, PairDispatch, NotifyStart, WaitDone, FinishFrame,
         AwaitQuiescence, NotifyStop, Join, MainCall, RunFrameRejected,
         RunFrameEnter, ShutdownWorkers, DeadlineExpires, SpuriousDone, Gone,
         Dispatch, WakeWorkers, workerVars, frameVars
  <2> QED
    BY <2>1, <2>2 DEF MembershipInv, MembershipOf, mpVars, netVars
<1>4. ASSUME NEW enabled \in BOOLEAN, SetLink(enabled), UNCHANGED call,
             main \notin EngineOwns \ {"unlink"}
      PROVE  MembershipInv'
  <2>1. \A m \in Machines : call[m] = "none"
    BY <1>4, NoCallOutsideFrame
  <2>2. mp_registered' \in [Machines -> BOOLEAN]
    <3>1. mp_registered' = [m \in Machines |-> m \in LinkAfter(enabled)]
      BY <1>4 DEF SetLink
    <3>2. \A m \in Machines : (m \in LinkAfter(enabled)) \in BOOLEAN
      OBVIOUS
    <3> QED
      BY <3>1, <3>2, Zenon
  <2>3. /\ \A m \in Machines : mp_registered'[m] <=> m \in LinkAfter(enabled)
        /\ link_enabled' = enabled
        /\ mp_requested' = mp_requested
        /\ joined' = (joined \ {m \in Machines : mp_registered[m]})
                       \cup LinkAfter(enabled)
    BY <1>4 DEF SetLink
  <2>4. \A m \in Machines : /\ m \in joined <=> mp_registered[m]
                            /\ mp_registered[m] => mp_requested[m]
    BY <2>1 DEF MembershipInv, MembershipOf
  <2>5. \A m \in Machines :
          /\ m \in joined' <=> mp_registered'[m]
          /\ mp_registered'[m] <=> link_enabled' /\ mp_requested'[m]
    BY <2>3, <2>4 DEF LinkAfter
  <2> QED
    BY <1>4, <2>1, <2>2, <2>3, <2>5 DEF MembershipInv, MembershipOf
<1>5. CASE Reset
  <2>1. \A m \in Machines : call[m] = "none"
    BY <1>5, NoCallOutsideFrame DEF Reset, EngineOwns, InRunFrame
  <2>2. /\ mp_registered' \in [Machines -> BOOLEAN]
        /\ mp_requested' \in [Machines -> BOOLEAN]
        /\ \A m \in Machines : ~mp_registered'[m] /\ ~mp_requested'[m]
    BY <1>5, Zenon DEF Reset
  <2>3. \A m \in Machines : m \notin joined'
    BY <1>5, <2>1 DEF Reset, MembershipInv, MembershipOf
  <2> QED
    BY <1>5, <2>1, <2>2, <2>3 DEF Reset, MembershipInv, MembershipOf
<1>6. CASE PairUnlink
  BY <1>4, <1>6 DEF PairUnlink, Unlink, Release, EngineOwns, InRunFrame
<1>7. CASE \E enabled \in BOOLEAN : SetLinkOp(enabled)
  BY <1>4, <1>7 DEF SetLinkOp, EngineOwns, InRunFrame
<1>8. CASE UNCHANGED pairVars
  BY <1>8 DEF pairVars, mpVars, netVars, frameVars, workerVars,
              MembershipInv, MembershipOf
<1> QED
  BY <1>1, <1>2, <1>3, <1>5, <1>6, <1>7, <1>8 DEF PairNext, PairWorker

\* The membership facts hold in every state of the pair.
THEOREM MembershipInvariant == PairSpec => []MembershipInv
<1>1. PairInit => MembershipInv
  <2> SUFFICES ASSUME PairInit PROVE MembershipInv
    OBVIOUS
  <2>1. /\ mp_requested \in [Machines -> BOOLEAN]
        /\ mp_registered \in [Machines -> BOOLEAN]
        /\ \A m \in Machines : ~mp_registered[m] /\ ~mp_requested[m]
    BY Zenon DEF PairInit
  <2> QED
    BY <2>1 DEF PairInit, MembershipInv, MembershipOf, CallPlaces
<1>2. PairSpec => []BarrierInv
  BY PairRunsFrames, BarrierInvariant, PTL
<1> QED
  BY <1>1, <1>2, MembershipStep, PTL DEF PairSpec

\* A registered machine is connected to LocalMP at every moment.
THEOREM RegisteredMachinesAreJoined == PairSpec => []RegisteredIsJoined
<1>1. MembershipInv => RegisteredIsJoined
  BY DEF MembershipInv, MembershipOf, RegisteredIsJoined
<1> QED
  BY <1>1, MembershipInvariant, PTL

\* Between frames the registrations are those the setting and the consoles
\* ask for, and LocalMP has the same members.
THEOREM RegistrationsAgree == PairSpec => []RegistrationAgrees
<1>1. BarrierInv /\ MembershipInv => RegistrationAgrees
  <2> SUFFICES ASSUME BarrierInv, MembershipInv, main \in {"idle", "gone"},
                      NEW m \in Machines
               PROVE  /\ mp_registered[m] = (link_enabled /\ mp_requested[m])
                      /\ (m \in joined) = mp_registered[m]
    BY DEF RegistrationAgrees
  <2>1. call[m] = "none"
    BY NoCallOutsideFrame DEF EngineOwns, InRunFrame
  <2>2. mp_registered[m] \in BOOLEAN
    BY DEF MembershipInv
  <2> QED
    BY <2>1, <2>2 DEF MembershipInv, MembershipOf
<1>2. PairSpec => []BarrierInv
  BY PairRunsFrames, BarrierInvariant, PTL
<1> QED
  BY <1>1, <1>2, MembershipInvariant, PTL
-----------------------------------------------------------------------------
(* The race of the last send with the frame boundary.                      *)

\* Every console is the other one's peer.
LEMMA PeerOfPeer ==
  ASSUME NEW m \in Machines
  PROVE  Peer(m) \in Machines /\ Peer(m) # m /\ Peer(Peer(m)) = m
<1> PICK a \in Machines, b \in Machines : a # b /\ Machines = {a, b}
  BY PairAssumption
<1>1. \A n \in Machines : \E p \in Machines : p # n
  OBVIOUS
<1>2. \A n \in Machines : Peer(n) \in Machines /\ Peer(n) # n
  BY <1>1 DEF Peer
<1> QED
  BY <1>2

\* A machine that works on the current frame has not announced its end, but
\* for the moment before it reports.
ActiveInFrame ==
  \A m \in Machines :
    m \in Touching /\ pc[m] # "report" => worker_frame_active[m]

\* A step within a frame never brings a machine back into it; a new
\* generation begins with every machine at rest.
FrameMoves ==
  \/ /\ generation' = generation /\ Touching' \subseteq Touching
     /\ \A m \in Machines : worker_frame_active'[m] => worker_frame_active[m]
  \/ generation' = generation + 1 /\ main \in {"idle", "dispatch"}

\* Every step of the barrier is one or the other, and keeps the flags.
LEMMA FrameStepMoves ==
  ASSUME BarrierInv, ActiveInFrame, [FrameNext]_frameVars
  PROVE  FrameMoves /\ ActiveInFrame'
<1> USE DEF sharedVars, workerVars, mainVars, outputVars
<1>1. /\ pc \in [Machines -> Quiet \cup Executing] /\ generation \in Nat
      /\ worker_frame_active \in [Machines -> BOOLEAN]
      /\ \A m \in Machines : pc[m] \in Executing => observed[m] = generation
  BY DEF BarrierInv, TypeOK, ReportsCounted
<1>2. ASSUME NEW m \in Machines,
             \/ WorkerCheck(m) \/ SpuriousStart(m) \/ ExecBegin(m)
             \/ RunReturns(m) \/ AfterRun(m) \/ SnapshotVideo(m)
             \/ DrainCheck(m) \/ DrainAudio(m) \/ StopCheck(m)
             \/ FailedLeaves(m) \/ NotifyDone(m)
      PROVE  FrameMoves /\ ActiveInFrame'
  <2>1. Touching' = Touching
    BY <1>2, TouchingKept
  <2>2. /\ UNCHANGED <<generation, worker_frame_active>>
        /\ pc[m] # "report"
        /\ \A n \in Machines \ {m} : pc'[n] = pc[n]
    BY <1>1, <1>2 DEF WorkerCheck, SpuriousStart, ExecBegin, RunReturns,
         AfterRun, SnapshotVideo, DrainCheck, DrainAudio, StopCheck,
         FailedLeaves, NotifyDone, Goto
  <2> QED
    BY <2>1, <2>2 DEF FrameMoves, ActiveInFrame
<1>3. ASSUME NEW m \in Machines, FrameBoundary(m)
      PROVE  FrameMoves /\ ActiveInFrame'
  <2>1. Touching' = Touching
    BY <1>3, TouchingKept
  <2> QED
    BY <1>1, <1>3, <2>1 DEF FrameBoundary, Goto, FrameMoves, ActiveInFrame
<1>4. ASSUME NEW m \in Machines, Report(m)
      PROVE  FrameMoves /\ ActiveInFrame'
  <2>1. Touching' = Touching \ {m}
    BY <1>1, <1>4 DEF Report, Goto, Touching, Executing
  <2> QED
    BY <1>1, <1>4, <2>1 DEF Report, Goto, FrameMoves, ActiveInFrame
<1>5. CASE Dispatch
  BY <1>5 DEF Dispatch, FrameMoves, ActiveInFrame
<1>6. CASE ShutdownWorkers
  <2>1. Touching = {}
    BY <1>6 DEF BarrierInv, ReportsCounted, ShutdownWorkers, EngineOwns,
                InRunFrame
  <2>2. Touching' = {}
    BY <1>6, <2>1 DEF ShutdownWorkers, Touching
  <2> QED
    BY <1>6, <2>2 DEF ShutdownWorkers, FrameMoves, ActiveInFrame
<1>7. CASE \/ NotifyStart \/ WaitDone \/ AwaitQuiescence \/ Unlink
           \/ NotifyStop \/ Join \/ Release \/ RunFrameRejected
           \/ RunFrameEnter \/ DeadlineExpires \/ SpuriousDone \/ Gone
           \/ UNCHANGED frameVars
  <2>1. /\ UNCHANGED <<generation, worker_frame_active, observed>>
        /\ frame_state = "ShuttingDown" => frame_state' = "ShuttingDown"
    BY <1>7 DEF NotifyStart, WaitDone, FinishFrame, AwaitQuiescence, Unlink,
         NotifyStop, Join, Release, RunFrameRejected, RunFrameEnter,
         DeadlineExpires, SpuriousDone, Gone, frameVars, BarrierInv,
         StateAgrees
  <2>2. \A m \in Machines :
          pc'[m] = pc[m] \/ (pc[m] = "blocked" /\ pc'[m] = "check")
    BY <1>7 DEF NotifyStart, WaitDone, FinishFrame, AwaitQuiescence, Unlink,
         NotifyStop, Join, Release, RunFrameRejected, RunFrameEnter,
         DeadlineExpires, SpuriousDone, Gone, frameVars, WakeWorkers
  <2>3. Touching' \subseteq Touching
    BY <2>1, <2>2 DEF Touching, Executing
  <2> QED
    BY <2>1, <2>2, <2>3 DEF FrameMoves, ActiveInFrame
<1> QED
  BY <1>2, <1>3, <1>4, <1>5, <1>6, <1>7
     DEF FrameNext, Worker, MainStep, MainCall

\* What one machine has been told, and may still be told: a peer that has
\* been seen to be finished, and an empty queue, stay so within the frame.
DrainedOf(m) ==
  /\ drained[m] <= generation
  /\ drained[m] = generation /\ m \in Touching =>
       inbox[m] = 0 /\ ~worker_frame_active[Peer(m)]
  /\ call[m] = "final" => ~worker_frame_active[Peer(m)]

\* The wait of this frame is spent or still available.
BudgetOf(m) ==
  /\ waits[m] <= 1
  /\ host_receive_wait_available[m] => waits[m] = 0

\* The inductive form of LastSendSeen.
LastSendInv ==
  /\ inbox \in [Machines -> Nat] /\ drained \in [Machines -> Nat]
  /\ waits \in [Machines -> Nat]
  /\ host_receive_wait_available \in [Machines -> BOOLEAN]
  /\ ActiveInFrame
  /\ \A m \in Machines : DrainedOf(m) /\ BudgetOf(m)

\* A step that lets no packet in and tells no machine anything.
LEMMA QuietKeepsLastSend ==
  ASSUME LastSendInv, BarrierInv, MembershipInv, [FrameNext]_frameVars,
         inbox' \in [Machines -> Nat], UNCHANGED <<call, drained>>,
         \A m \in Machines : inbox'[m] \in {inbox[m], 0},
         NEW m \in Machines
  PROVE  DrainedOf(m)'
<1>1. generation \in Nat /\ drained[m] \in Nat
  BY DEF LastSendInv, BarrierInv, TypeOK
<1>2. DrainedOf(m) /\ Peer(m) \in Machines
  BY PeerOfPeer DEF LastSendInv
<1>3. CASE /\ generation' = generation /\ Touching' \subseteq Touching
           /\ \A n \in Machines :
                worker_frame_active'[n] => worker_frame_active[n]
  BY <1>2, <1>3 DEF DrainedOf
<1>4. CASE generation' = generation + 1 /\ main \in {"idle", "dispatch"}
  <2>1. call[m] = "none"
    BY <1>4, NoCallOutsideFrame DEF EngineOwns, InRunFrame
  <2> QED
    BY <1>1, <1>2, <1>4, <2>1 DEF DrainedOf
<1> QED
  BY <1>3, <1>4, FrameStepMoves DEF LastSendInv, FrameMoves

\* A callback: packets come only from a peer whose frame is not over, and a
\* machine is told that nothing follows only when it is.
LEMMA CallKeepsLastSend ==
  ASSUME LastSendInv, BarrierInv, MembershipInv,
         NEW c \in Machines, CallStep(c) \/ MPCall(c)
  PROVE  LastSendInv'
<1> USE DEF frameVars, sharedVars, workerVars, mpVars, hostVars, netVars,
            Proceed, Enter
<1>1. [FrameNext]_frameVars
  BY CallKeepsFrame DEF FrameNext, Worker
<1>2. FrameMoves /\ ActiveInFrame'
  BY <1>1, FrameStepMoves DEF LastSendInv
<1>3. UNCHANGED <<generation, worker_frame_active>> /\ Touching' = Touching
  <2>1. CASE FailedLeaves(c)
    BY <2>1, TouchingKept DEF FailedLeaves
  <2>2. CASE UNCHANGED frameVars
    BY <2>2 DEF Touching
  <2> QED
    BY <2>1, <2>2, CallKeepsFrame
<1>4. /\ inbox \in [Machines -> Nat] /\ drained \in [Machines -> Nat]
      /\ waits \in [Machines -> Nat] /\ generation \in Nat
      /\ host_receive_wait_available \in [Machines -> BOOLEAN]
      /\ call \in [Machines -> CallPlaces]
      /\ Peer(c) \in Machines
      /\ \A m \in Machines : DrainedOf(m) /\ BudgetOf(m)
  BY PeerOfPeer DEF LastSendInv, BarrierInv, TypeOK, MembershipInv
<1>5. /\ waits' \in [Machines -> Nat]
      /\ host_receive_wait_available' \in [Machines -> BOOLEAN]
      /\ \A m \in Machines : BudgetOf(m)'
  <2>1. CASE HostBudget(c)
    BY <1>4, <2>1 DEF HostBudget, BudgetOf
  <2>2. CASE UNCHANGED <<waits, host_receive_wait_available>>
    BY <1>4, <2>2 DEF BudgetOf
  <2> QED
    BY <2>1, <2>2 DEF CallStep, MPCall, MPBegin, MPBeginStore, MPEnd,
         MPEndExchange, MPEndLeave, MPSend, MPDeliver, MPRecvPacket,
         MPRecvHostPacket, HostPeer, Probe, Poll, HostProbe, HostActive,
         HostFinal, HostWait
<1>6. ASSUME inbox' \in [Machines -> Nat],
             \A m \in Machines : inbox'[m] <= inbox[m],
             drained' = drained,
             \A m \in Machines : call'[m] = "final" => call[m] = "final"
      PROVE  LastSendInv'
  <2>1. \A m \in Machines : DrainedOf(m)'
    BY <1>3, <1>4, <1>6 DEF DrainedOf
  <2> QED
    BY <1>2, <1>4, <1>5, <1>6, <2>1 DEF LastSendInv
<1>7. CASE MPDeliver(c)
  <2>1. inbox' = [inbox EXCEPT ![Peer(c)] =
                    IF Peer(c) \in joined /\ @ < MaxPackets THEN @ + 1 ELSE @]
    BY <1>7 DEF MPDeliver
  <2>2. inbox' \in [Machines -> Nat]
    BY <1>4, <2>1
  <2>3. worker_frame_active[c]
    <3>1. pc[c] \in {"run", "mpend"}
      BY <1>7 DEF MPDeliver, MembershipInv, MembershipOf
    <3> QED
      BY <3>1 DEF Touching, Executing, LastSendInv, ActiveInFrame
  <2>4. ASSUME NEW m \in Machines PROVE DrainedOf(m)'
    <3>1. m = Peer(c) => Peer(m) = c
      BY PeerOfPeer
    <3>2. m # Peer(c) => inbox'[m] = inbox[m]
      BY <1>4, <2>1
    <3>3. /\ drained' = drained
          /\ call'[m] = "final" => call[m] = "final"
      BY <1>4, <1>7 DEF MPDeliver
    <3> QED
      BY <1>3, <1>4, <2>3, <3>1, <3>2, <3>3 DEF DrainedOf
  <2> QED
    BY <1>2, <1>4, <1>5, <1>7, <2>2, <2>4 DEF LastSendInv, MPDeliver
<1>8. CASE HostActive(c)
  <2>1. \A m \in Machines : DrainedOf(m)'
    BY <1>3, <1>4, <1>8 DEF HostActive, DrainedOf
  <2> QED
    BY <1>2, <1>4, <1>5, <1>8, <2>1 DEF HostActive, LastSendInv
<1>9. CASE HostFinal(c)
  <2>1. /\ call[c] = "final"
        /\ inbox' = [inbox EXCEPT ![c] = IF inbox[c] > 0 THEN @ - 1 ELSE @]
        /\ drained' =
             [drained EXCEPT ![c] = IF inbox[c] = 0 THEN generation ELSE @]
        /\ call' = [call EXCEPT ![c] = "none"]
    BY <1>4, <1>9 DEF HostFinal, Probe
  <2>2. /\ inbox' \in [Machines -> Nat] /\ drained' \in [Machines -> Nat]
        /\ \A m \in Machines : DrainedOf(m)'
    BY <1>3, <1>4, <2>1 DEF DrainedOf
  <2> QED
    BY <1>2, <1>5, <2>2 DEF LastSendInv
<1>10. CASE MPBegin(c)
  BY <1>4, <1>6, <1>10 DEF MPBegin
<1>11. CASE Poll(c) \/ HostProbe(c)
  BY <1>4, <1>6, <1>11 DEF Poll, HostProbe, Probe
<1>12. CASE HostWait(c)
  BY <1>4, <1>6, <1>12 DEF HostWait
<1>13. CASE \/ MPBeginStore(c) \/ MPEnd(c) \/ MPSend(c) \/ MPRecvPacket(c)
            \/ MPRecvHostPacket(c) \/ HostPeer(c) \/ HostBudget(c)
  BY <1>4, <1>6, <1>13 DEF MPBeginStore, MPEnd, MPSend, MPRecvPacket,
       MPRecvHostPacket, HostPeer, HostBudget
<1>14. CASE MPEndExchange(c) \/ MPEndLeave(c)
  BY <1>4, <1>6, <1>14 DEF MPEndExchange, MPEndLeave, EndDone
<1> QED
  BY <1>7, <1>8, <1>9, <1>10, <1>11, <1>12, <1>13, <1>14 DEF CallStep, MPCall

\* Every step of the pair preserves it.
LEMMA LastSendStep ==
  ASSUME LastSendInv, BarrierInv, MembershipInv, [PairNext]_pairVars
  PROVE  LastSendInv'
<1>1. [FrameNext]_frameVars
  BY PairStepIsFrameStep DEF pairVars
<1>2. ASSUME NEW m \in Machines, CallStep(m) \/ MPCall(m)
      PROVE  LastSendInv'
  BY <1>2, CallKeepsLastSend
<1>3. ASSUME UNCHANGED <<call, drained>>,
             inbox' \in [Machines -> Nat],
             \A m \in Machines : inbox'[m] \in {inbox[m], 0},
             \/ UNCHANGED <<waits, host_receive_wait_available>>
             \/ /\ waits' = [m \in Machines |-> 0]
                /\ host_receive_wait_available' = [m \in Machines |-> TRUE]
      PROVE  LastSendInv'
  <2>1. \A m \in Machines : DrainedOf(m)'
    BY <1>1, <1>3, QuietKeepsLastSend
  <2>2. /\ waits' \in [Machines -> Nat]
        /\ host_receive_wait_available' \in [Machines -> BOOLEAN]
        /\ \A m \in Machines : BudgetOf(m)'
    <3>1. CASE UNCHANGED <<waits, host_receive_wait_available>>
      BY <3>1 DEF LastSendInv, BudgetOf
    <3>2. CASE /\ waits' = [m \in Machines |-> 0]
               /\ host_receive_wait_available' = [m \in Machines |-> TRUE]
      BY <3>2 DEF BudgetOf
    <3> QED
      BY <1>3, <3>1, <3>2
  <2>3. ActiveInFrame'
    BY <1>1, FrameStepMoves DEF LastSendInv
  <2> QED
    BY <1>3, <2>1, <2>2, <2>3 DEF LastSendInv
<1>4. inbox \in [Machines -> Nat]
  BY DEF LastSendInv
<1>5. CASE \/ \E m \in Machines : WorkerOnly(m)
           \/ PairMain \/ PairDispatch \/ UNCHANGED pairVars
  BY <1>3, <1>4, <1>5 DEF WorkerOnly, OutsideCalls, PairMain, PairCallStep,
       TransportRests, PairDispatch, pairVars, hostVars, netVars
<1>6. ASSUME NEW enabled \in BOOLEAN, SetLink(enabled),
             UNCHANGED <<call, hostVars>>
      PROVE  LastSendInv'
  BY <1>3, <1>4, <1>6 DEF SetLink, hostVars
<1>7. CASE PairUnlink \/ \E enabled \in BOOLEAN : SetLinkOp(enabled)
  BY <1>6, <1>7 DEF PairUnlink, SetLinkOp
<1>8. CASE Reset
  BY <1>3, <1>4, <1>8 DEF Reset, hostVars
<1> QED
  BY <1>2, <1>5, <1>7, <1>8 DEF PairNext, PairWorker

\* MPRecvHostPacket never loses the peer's last send to the race with the
\* peer's frame boundary: a console that was told so in this frame has
\* nothing queued until the frame ends.  And it blocks at most once a frame.
THEOREM LastSendIsSeen == PairSpec => []LastSendSeen
<1>1. PairInit => LastSendInv
  <2> SUFFICES ASSUME PairInit PROVE LastSendInv
    OBVIOUS
  <2>1. Touching = {} /\ generation = 0
    BY DEF PairInit, FrameInit, Touching, Executing
  <2>2. host_receive_wait_available \in [Machines -> BOOLEAN]
          /\ \A m \in Machines : ~host_receive_wait_available[m]
    BY Zenon DEF PairInit
  <2> QED
    BY <2>1, <2>2 DEF PairInit, LastSendInv, ActiveInFrame, DrainedOf, BudgetOf
<1>2. PairSpec => []BarrierInv
  BY PairRunsFrames, BarrierInvariant, PTL
<1>3. LastSendInv /\ BarrierInv /\ MembershipInv /\ [PairNext]_pairVars
        => LastSendInv'
  BY LastSendStep
<1>4. LastSendInv => LastSendSeen
  BY DEF LastSendInv, LastSendSeen, DrainedOf, BudgetOf, Touching, Executing
<1> QED
  BY <1>1, <1>2, <1>3, <1>4, MembershipInvariant, PTL DEF PairSpec
=============================================================================
