--------------------------- MODULE LockstepProofs ---------------------------
(***************************************************************************)
(* Theorems about the GBA link, for every value of its constants.          *)
(*                                                                         *)
(* Of Lockstep: queues never exceed their capacity (TypeOK), a barrier     *)
(* always has an event that will release it (BarrierInv), the cooperative  *)
(* scheduler never finds both machines blocked nor an assertion failing    *)
(* (NeverStuck), a machine wakes in time for its first event               *)
(* (WakeCoversQueue), and the words of two transfers are never mixed       *)
(* (TransferExact).                                                        *)
(*                                                                         *)
(* Of LockstepSession, with failed frames, link changes, resets and saved  *)
(* states: the same invariant (SessionOK), every saved state can be loaded *)
(* and resumes where it was, and the machines know each other's mode.      *)
(***************************************************************************)
EXTENDS LockstepSession, FiniteSetTheorems, SequenceTheorems, TLAPS

\* The larger of two integers.
LEMMA MaxOfTwo ==
  ASSUME NEW a \in Int, NEW b \in Int
  PROVE  Max({a, b}) \in {a, b} /\ Max({a, b}) >= a /\ Max({a, b}) >= b
<1>1. \E x \in {a, b} : \A y \in {a, b} : x >= y
  OBVIOUS
<1> QED BY <1>1 DEF Max

\* The smaller of two integers.
LEMMA MinOfTwo ==
  ASSUME NEW a \in Int, NEW b \in Int
  PROVE  Min({a, b}) \in {a, b} /\ Min({a, b}) <= a /\ Min({a, b}) <= b
<1>1. \E x \in {a, b} : \A y \in {a, b} : x =< y
  OBVIOUS
<1> QED BY <1>1 DEF Min

\* Linking an event into a queue keeps its kind and adds one entry.
LEMMA InsertAtType ==
  ASSUME NEW S, NEW q \in Seq(S), NEW i \in 1..(Len(q) + 1), NEW e \in S
  PROVE  InsertAt(q, i, e) \in Seq(S) /\ Len(InsertAt(q, i, e)) = Len(q) + 1
<1>1. SubSeq(q, 1, i - 1) \in Seq(S) /\ Len(SubSeq(q, 1, i - 1)) = i - 1
  OBVIOUS
<1>2. SubSeq(q, i, Len(q)) \in Seq(S)
        /\ Len(SubSeq(q, i, Len(q))) = Len(q) - i + 1
  OBVIOUS
<1>3. <<e>> \in Seq(S) /\ Len(<<e>>) = 1
  OBVIOUS
<1> DEFINE a == SubSeq(q, 1, i - 1)
<1> DEFINE b == SubSeq(q, i, Len(q))
<1> HIDE DEF a, b
<1>4. a \o <<e>> \in Seq(S) /\ Len(a \o <<e>>) = i
  BY <1>1, <1>3, ConcatProperties DEF a
<1>5. (a \o <<e>>) \o b \in Seq(S)
        /\ Len((a \o <<e>>) \o b) = Len(a \o <<e>>) + Len(b)
  BY <1>2, <1>4, ConcatProperties DEF b
<1>6. InsertAt(q, i, e) = (a \o <<e>>) \o b
  BY DEF InsertAt, a, b
<1>7. Len(b) = Len(q) - i + 1 /\ Len(q) \in Nat /\ i \in Int
  BY <1>2 DEF b
<1> QED BY <1>4, <1>5, <1>6, <1>7
-----------------------------------------------------------------------------
\* Queues of the right kind, within their capacity.
QueuesOK(qs) ==
  /\ qs \in [Players -> Seq(EventRecords)]
  /\ \A m \in Players : qs[m] \in Seq(EventsFor(m)) /\ Len(qs[m]) <= Capacity

\* The invariant that is carried through the steps.
LinkOK == TypeOK /\ LinkInv

\* _enqueueEvent keeps queues and timing events well formed, and the target
\* has something to handle.
LEMMA Delivered ==
  ASSUME TypeOK, NEW qs, QueuesOK(qs), NEW m \in Players,
         NEW e \in EventsFor(m), Deliver(qs, m, e)
  PROVE  /\ QueuesOK(queue') /\ when' \in [Players -> Int]
         /\ queue'[m] # << >> /\ dropped' = dropped
         /\ \A p \in Players : p # m => queue'[p] = qs[p]
<1>1. PICK i \in InsertPoints(qs[m], e) :
        queue' = [qs EXCEPT ![m] = InsertAt(qs[m], i, e)]
  BY DEF Deliver, QueuesOK
<1>2. i \in 1..(Len(qs[m]) + 1)
  BY <1>1 DEF InsertPoints
<1>3. qs[m] \in Seq(EventsFor(m)) /\ qs[m] \in Seq(EventRecords)
        /\ Len(qs[m]) < Capacity /\ Capacity \in Nat
  BY IntervalAssumption DEF QueuesOK, Deliver, Room
<1>4. e \in EventRecords
  BY DEF EventsFor
<1> DEFINE q == InsertAt(qs[m], i, e)
<1>5. q \in Seq(EventsFor(m)) /\ Len(q) = Len(qs[m]) + 1
  BY <1>2, <1>3, InsertAtType
<1>6. q \in Seq(EventRecords)
  BY <1>2, <1>3, <1>4, InsertAtType
<1> HIDE DEF q
<1>7. queue' = [qs EXCEPT ![m] = q]
  BY <1>1 DEF q
<1>8. queue'[m] = q /\ \A p \in Players : p # m => queue'[p] = qs[p]
  BY <1>7 DEF QueuesOK
<1>9. QueuesOK(queue')
  BY <1>3, <1>5, <1>6, <1>7, <1>8 DEF QueuesOK
<1>10. q # << >> /\ q[1] \in EventRecords
  BY <1>3, <1>5, <1>6
<1>11. q[1].ts \in Int
  BY <1>10 DEF EventRecords
<1>12. WhenForHead(m, q) \in Int
  <2>1. when[m] \in Int /\ time[m] \in Int
    BY DEF TypeOK
  <2> DEFINE early_wake == Max({time[m] + 1, q[1].ts})
  <2>2. time[m] + 1 \in Int /\ q[1].ts \in Int /\ when[m] \in Int
    BY <2>1, <1>11
  <2>3. early_wake \in {time[m] + 1, q[1].ts}
    BY <2>2, MaxOfTwo
  <2> HIDE DEF early_wake
  <2>4. early_wake \in Int
    BY <2>1, <1>11, <2>3
  <2>5. Min({when[m], early_wake}) \in {when[m], early_wake}
    BY <2>2, <2>4, MinOfTwo
  <2>6. Min({when[m], early_wake}) \in Int
    BY <2>1, <2>4, <2>5
  <2> QED BY <2>1, <2>6 DEF WhenForHead, early_wake
<1>13. when' \in [Players -> Int]
  BY <1>8, <1>12 DEF Deliver, TypeOK
<1> QED BY <1>8, <1>9, <1>10, <1>13 DEF Deliver

\* A lost event changes no queue.
LEMMA Lost ==
  ASSUME TypeOK, NEW qs, QueuesOK(qs), NEW m, Lose(qs, m)
  PROVE  QueuesOK(queue') /\ when' \in [Players -> Int] /\ queue' = qs
           /\ dropped' = TRUE
BY DEF Lose, TypeOK

\* The events the machines create are of the kind their peer accepts.
LEMMA EventKind ==
  ASSUME TypeOK, NEW m \in Players, NEW type, NEW md \in Modes \cup {NoMode},
         NEW finish \in Int, NEW txn \in Nat,
         type \in {"MODE_SET", "HARD_SYNC", "TRANSFER_START"},
         m = 1 => type = "MODE_SET"
  PROVE  Event(type, m, md, finish, txn) \in EventsFor(Peer(m))
BY SMTT(30) DEF Event, EventsFor, EventRecords, Peer, Players, TypeOK

\* The queues of a state and of one whose head was taken.
LEMMA QueuesKept ==
  ASSUME LinkOK
  PROVE  /\ QueuesOK(queue)
         /\ cur \in Players /\ HasPendingEvents(cur) => QueuesOK(Popped)
<1>1. QueuesOK(queue)
  BY DEF LinkOK, TypeOK, LinkInv, QueuesOK
<1>2. ASSUME cur \in Players, HasPendingEvents(cur) PROVE QueuesOK(Popped)
  <2>1. queue[cur] # << >> /\ queue[cur] \in Seq(EventRecords)
          /\ queue[cur] \in Seq(EventsFor(cur)) /\ Len(queue[cur]) <= Capacity
    BY <1>1, <1>2 DEF HasPendingEvents, QueuesOK
  <2>2. Tail(queue[cur]) \in Seq(EventRecords)
          /\ Tail(queue[cur]) \in Seq(EventsFor(cur))
          /\ Len(Tail(queue[cur])) <= Capacity
    BY <2>1, IntervalAssumption
  <2> QED BY <1>1, <1>2, <2>2 DEF Popped, QueuesOK
<1> QED BY <1>1, <1>2

\* Raising a barrier when none is up passes every assertion.
LEMMA Waited ==
  ASSUME LinkOK, ~waiting, NEW hs \in Int, NEW place,
         WaitOnPlayers(hs, place)
  PROVE  /\ cycle' = time[0] /\ nextHardSync' \in Int /\ waiting' = TRUE
         /\ asleep' \in [Players -> BOOLEAN] /\ asleep'[0] /\ ~asleep'[1]
         /\ early' = TRUE /\ ctl' = place
<1>1. ~asleep[0] /\ cycle <= time[0] /\ time[0] \in Int /\ cycle \in Int
        /\ nextHardSync \in Int
  BY DEF LinkOK, LinkInv, BarrierInv, TypeOK, Players
<1>2. asleep' \in [Players -> BOOLEAN]
  BY Zenon DEF WaitOnPlayers
<1>3. asleep'[0] /\ ~asleep'[1]
  <2>1. 0 \in Players /\ 1 \in Players /\ 1 # 0
    BY DEF Players
  <2>2. asleep'[0] = (0 = 0) /\ asleep'[1] = (1 = 0)
    BY <2>1, Zenon DEF WaitOnPlayers
  <2> QED BY <2>1, <2>2, Zenon
<1> QED BY <1>1, <1>2, <1>3 DEF WaitOnPlayers

\* Handling an event of the primary leaves no barrier up.
LEMMA Acked ==
  ASSUME LinkOK, AckPlayer
  PROVE  /\ waiting' = FALSE /\ transferActive' = FALSE
         /\ asleep' \in [Players -> BOOLEAN] /\ ~asleep'[0]
         /\ dataReceived' \in [Players -> BOOLEAN] /\ early' \in BOOLEAN
<1>1. CASE waiting
  <2>1. asleep' \in [Players -> BOOLEAN] /\ dataReceived' \in [Players -> BOOLEAN]
    BY <1>1, Zenon DEF AckPlayer
  <2> QED BY <1>1, <2>1 DEF AckPlayer, Players
<1>2. CASE ~waiting
  BY <1>2 DEF AckPlayer, Players, LinkOK, LinkInv, BarrierInv, TypeOK
<1> QED BY <1>1, <1>2

\* The initial state.
LEMMA LinkInit == Init => LinkOK
<1> SUFFICES ASSUME Init PROVE LinkOK
  OBVIOUS
<1> USE IntervalAssumption
<1>1. queue \in [Players -> Seq(EventRecords)]
        /\ (\A m \in Players : queue[m] \in Seq(EventsFor(m))
              /\ Len(queue[m]) <= Capacity)
  BY DEF Init, EventRecords, EventsFor, Players, Peer, Modes, NoMode
<1>2. TypeOK
  BY SMTT(30), <1>1 DEF Init, TypeOK, Players, Modes, NoMode, Nothing, Places,
       SlicePlaces
<1>3. LinkInv
  BY <1>1 DEF Init, LinkInv, BarrierInv, SchedulerInv, SlicePlaces, NeverStuck,
       Players
<1> QED BY <1>2, <1>3 DEF LinkOK

\* The scheduler's own steps.
LEMMA SchedulerStep ==
  ASSUME LinkOK, Scheduler
  PROVE  LinkOK'
<1> USE DEF LinkOK
<1>1. CASE FrameStart
  <2>1. start_frames' \in [Players -> Int]
    <3>1. \A t \in Int : FrameOf(t) \in Int
      BY IntervalAssumption DEF FrameOf
    <3> QED BY <1>1, <3>1 DEF FrameStart, TypeOK, Players
  <2>2. TypeOK'
    BY <1>1, <2>1 DEF FrameStart, TypeOK, Places, SlicePlaces, clockVars,
         modeVars, wireVars, syncVars, dataVars
  <2>3. ~Done(0)'
    BY <1>1 DEF FrameStart, Done, clockVars, Players
  <2> QED BY <1>1, <2>2, <2>3 DEF FrameStart, LinkInv, BarrierInv,
        SchedulerInv, SlicePlaces, NeverStuck, FrameComplete, clockVars,
        wireVars, syncVars, dataVars, Players
<1>2. CASE Round
  <2> DEFINE sleepers == {m \in Players : asleep[m]}
  <2>1. IsFiniteSet(sleepers) /\ Cardinality(sleepers) \in 0..2
          /\ (Cardinality(sleepers) = 0 <=> sleepers = {})
    <3>1. IsFiniteSet(Players) /\ Cardinality(Players) = 2
      <4>1. IsFiniteSet({0}) /\ Cardinality({0}) = 1
        BY FS_Singleton
      <4>2. Players = {0} \cup {1} /\ 1 \notin {0}
        BY DEF Players
      <4>3. Cardinality({0} \cup {1}) = Cardinality({0}) + 1
              /\ IsFiniteSet({0} \cup {1})
        BY <4>1, <4>2, FS_AddElement
      <4> QED BY <4>1, <4>2, <4>3
    <3>2. IsFiniteSet(sleepers) /\ Cardinality(sleepers) <= 2
      BY <3>1, FS_Subset
    <3>3. Cardinality(sleepers) \in Nat
      BY <3>2, FS_CardinalityType
    <3>4. Cardinality(sleepers) = 0 <=> sleepers = {}
      BY <3>2, FS_EmptySet
    <3> QED BY <3>2, <3>3, <3>4
  <2>2. blocked_count' = 0 <=> \A m \in Players : ~asleep[m]
    <3>1. blocked_count' = Cardinality(sleepers)
      BY <1>2 DEF Round
    <3>2. sleepers = {} <=> \A m \in Players : ~asleep[m]
      OBVIOUS
    <3> QED BY <2>1, <3>1, <3>2
  <2>3. blocked_count' \in 0..2
    BY <1>2, <2>1 DEF Round
  <2> HIDE DEF sleepers
  <2>4. TypeOK'
    BY <1>2, <2>3 DEF Round, TypeOK, Places, SlicePlaces, clockVars, modeVars,
         wireVars, syncVars, dataVars, Players
  <2>5. FrameComplete' = FrameComplete /\ asleep' = asleep
    BY <1>2 DEF Round, FrameComplete, Done, HasPendingEvents, clockVars,
         wireVars, syncVars
  <2>6. SchedulerInv'
    BY <1>2, <2>2, <2>5 DEF Round, LinkInv, SchedulerInv, SlicePlaces
  <2> QED BY <1>2, <2>4, <2>6 DEF Round, LinkInv, BarrierInv, NeverStuck,
        clockVars, wireVars, syncVars, dataVars
<1>3. CASE Turn
  BY ZenonT(30), <1>3
    DEF Turn, NextTurn, TypeOK, Places, SlicePlaces, LinkInv, BarrierInv,
        SchedulerInv, SlicePlaces, NeverStuck, FrameComplete, Done,
        HasPendingEvents, SkipTurn, clockVars, modeVars, wireVars, syncVars,
        dataVars, Players
<1>4. CASE Check
  BY <1>4 DEF Check, TypeOK, Places, SlicePlaces, LinkInv, BarrierInv,
        SchedulerInv, SlicePlaces, NeverStuck, FrameComplete, Done,
        HasPendingEvents, clockVars, modeVars, wireVars, syncVars, dataVars,
        loopVars, Players
<1>5. CASE SliceEnds
  BY <1>5 DEF SliceEnds, NextTurn, TypeOK, Places, SlicePlaces, LinkInv,
        BarrierInv, SchedulerInv, SlicePlaces, NeverStuck, FrameComplete, Done,
        HasPendingEvents, clockVars, modeVars, wireVars, syncVars, dataVars,
        loopVars, Players
<1> QED BY <1>1, <1>2, <1>3, <1>4, <1>5 DEF Scheduler
-----------------------------------------------------------------------------
\* Every event waiting for the secondary can release a barrier.
LEMMA AnyAckable ==
  ASSUME NEW qs, QueuesOK(qs), qs[1] # << >>
  PROVE  \E i \in 1..Len(qs[1]) : Ackable(qs[1][i])
<1>1. qs[1] \in Seq(EventsFor(1))
  BY DEF QueuesOK, Players
<1>2. 1 \in 1..Len(qs[1]) /\ qs[1][1] \in EventsFor(1)
  BY <1>1
<1> QED BY <1>2 DEF EventsFor, Ackable, Peer

\* Inside a slice only the queues, the barrier and the clock matter.
LEMMA MidSlice ==
  ASSUME LinkOK, ctl \in SlicePlaces, UNCHANGED loopVars,
         ctl' \in {"tick", "callback", "mode", "started"},
         ctl' \in {"mode", "started"} => early' \/ ~asleep'[cur'],
         QueuesOK(queue'), BarrierInv', cycle' <= time'[0]
  PROVE  LinkInv'
<1>1. ran_any' = ran_any /\ ran_any = TRUE
  BY DEF LinkOK, LinkInv, SchedulerInv, SlicePlaces, TypeOK, loopVars
<1>2. SchedulerInv'
  BY <1>1, Zenon DEF SchedulerInv, SlicePlaces
<1> QED BY <1>2 DEF LinkInv, QueuesOK, NeverStuck

\* The CPU only moves its own clock forward.
LEMMA CpuStep ==
  ASSUME LinkOK, Cpu
  PROVE  LinkOK'
<1> USE DEF LinkOK
<1>1. CASE CpuRuns
  <2>1. PICK t \in (time[cur] + 1)..(Horizon(cur) + MaxLate) :
          /\ time' = [time EXCEPT ![cur] = t]
          /\ early' = (early \/ FrameOf(t) # FrameOf(time[cur]))
          /\ \/ /\ writes < MaxWrites
                /\ writes' = writes + 1
                /\ ctl' = "write"
             \/ ctl' = "tick" /\ UNCHANGED writes
    BY <1>1 DEF CpuRuns
  <2>2. t \in Int /\ t > time[cur] /\ cur \in Players
    <3>1. time[cur] \in Int /\ cur \in Players
      BY DEF TypeOK
    <3>2. t \in Int /\ t >= time[cur] + 1
      OBVIOUS
    <3> QED BY <3>1, <3>2
  <2>3. early' \in BOOLEAN
    BY <2>1, Zenon DEF TypeOK
  <2>4. TypeOK'
    <3>1. time' \in [Players -> Int]
      BY <2>1, <2>2 DEF TypeOK
    <3>2. writes' \in 0..MaxWrites /\ ctl' \in Places
      <4>1. MaxWrites \in Nat /\ writes \in Nat /\ writes <= MaxWrites
        BY IntervalAssumption DEF TypeOK
      <4> QED BY <2>1, <4>1 DEF Places, SlicePlaces
    <3>3. UNCHANGED <<when, complete, modeVars, wireVars, syncVars, dataVars,
                      loopVars, cur, next>>
      BY <1>1 DEF CpuRuns
    <3> QED BY <2>3, <3>1, <3>2, <3>3 DEF TypeOK, modeVars, wireVars,
          syncVars, dataVars, loopVars
  <2>5. cycle' <= time'[0]
    BY SMTT(30), <1>1, <2>1, <2>2
      DEF CpuRuns, LinkInv, TypeOK, syncVars, Players
  <2>6. SchedulerInv'
    BY <1>1, <2>1 DEF CpuRuns, LinkInv, SchedulerInv, SlicePlaces, syncVars,
         loopVars
  <2> QED BY <1>1, <2>1, <2>4, <2>5, <2>6 DEF CpuRuns, LinkInv, BarrierInv,
        NeverStuck, wireVars, syncVars, dataVars
<1>2. CASE InstructionEnds
  <2>1. time' \in [Players -> Int] /\ time'[0] >= time[0]
    <3>1. CASE early
      <4>1. PICK late \in 0..MaxLate :
              time' = [time EXCEPT ![cur] = time[cur] + late]
        BY <1>2, <3>1 DEF InstructionEnds
      <4>2. late \in Nat /\ time[cur] \in Int /\ time[0] \in Int
              /\ cur \in Players
        BY SMTT(30) DEF TypeOK, Players
      <4> DEFINE t == time[cur] + late
      <4>3. t \in Int /\ t >= time[cur] /\ time' = [time EXCEPT ![cur] = t]
        BY <4>1, <4>2
      <4> HIDE DEF t
      <4>4. time' \in [Players -> Int]
        BY <4>2, <4>3 DEF TypeOK
      <4>5. time'[0] = IF cur = 0 THEN t ELSE time[0]
        BY <4>3 DEF TypeOK, Players
      <4> QED BY <4>2, <4>3, <4>4, <4>5
    <3>2. CASE ~early
      BY <1>2, <3>2 DEF InstructionEnds, TypeOK, Players
    <3> QED BY <3>1, <3>2
  <2>2. TypeOK'
    BY <1>2, <2>1 DEF InstructionEnds, TypeOK, Places, SlicePlaces, modeVars,
         wireVars, syncVars, dataVars, loopVars
  <2>3. cycle' <= time'[0]
    BY SMTT(30), <1>2, <2>1
      DEF InstructionEnds, LinkInv, TypeOK, syncVars, Players
  <2>4. SchedulerInv'
    BY <1>2 DEF InstructionEnds, LinkInv, SchedulerInv, SlicePlaces, syncVars,
         loopVars
  <2> QED BY <1>2, <2>2, <2>3, <2>4 DEF InstructionEnds, LinkInv, BarrierInv,
        NeverStuck, wireVars, syncVars, dataVars
<1>3. CASE Halted
  <2> DEFINE t == Horizon(cur)
  <2>1. t \in Int /\ t >= time[cur] /\ time' = [time EXCEPT ![cur] = t]
    BY <1>3 DEF Halted, TypeOK
  <2>2. early' \in BOOLEAN
    BY <1>3, Zenon DEF Halted
  <2> HIDE DEF t
  <2>3. time' \in [Players -> Int] /\ time'[0] >= time[0]
    BY SMTT(30), <2>1 DEF TypeOK, Players
  <2>4. TypeOK'
    BY <1>3, <2>2, <2>3 DEF Halted, TypeOK, Places, SlicePlaces, modeVars,
         wireVars, syncVars, dataVars, loopVars
  <2>5. cycle' <= time'[0]
    BY SMTT(30), <1>3, <2>3 DEF Halted, LinkInv, TypeOK, syncVars, Players
  <2>6. SchedulerInv'
    BY <1>3 DEF Halted, LinkInv, SchedulerInv, SlicePlaces, syncVars, loopVars
  <2> QED BY <1>3, <2>4, <2>5, <2>6 DEF Halted, LinkInv, BarrierInv,
        NeverStuck, wireVars, syncVars, dataVars
<1> QED BY <1>1, <1>2, <1>3 DEF Cpu

\* A mode change: the primary raises a barrier only when none is up.
LEMMA SetModeStep ==
  ASSUME LinkOK, NEW md \in GameModes, SetMode(md)
  PROVE  LinkOK'
<1> USE DEF LinkOK
<1>1. cur \in Players /\ Peer(cur) \in Players /\ md \in Modes
        /\ Peer(Peer(cur)) = cur /\ (Peer(cur) = 1 <=> cur = 0)
  BY IntervalAssumption DEF TypeOK, Players, Peer, Modes
<1>2. ~asleep[cur] /\ QueuesOK(queue)
  BY QueuesKept DEF SetMode, LinkInv, SchedulerInv, SlicePlaces
<1>3. ~(cur = 0 /\ transferActive) /\ (cur = 0 => ~waiting)
  BY <1>2 DEF LinkInv, BarrierInv
<1>4. mode' \in [Players -> Modes] /\ transferMode' \in Modes
  BY <1>1 DEF SetMode, TypeOK
<1>5. UNCHANGED <<time, complete, other, syncArmed, dataReceived,
                  transferActive, multiData, normalData, transfers, pending,
                  loopVars, cur, next, writes>> /\ clean' \subseteq Nat
  BY DEF SetMode, TypeOK
<1>6. ASSUME QueuesOK(queue'), when' \in [Players -> Int],
             dropped' \in BOOLEAN, early' \in BOOLEAN, ctl' = "mode",
             early' \/ ~asleep'[cur], BarrierInv', cycle' <= time[0],
             cycle' \in Int, nextHardSync' \in Int, waiting' \in BOOLEAN,
             asleep' \in [Players -> BOOLEAN]
      PROVE  LinkOK'
  <2>1. TypeOK'
    BY <1>4, <1>5, <1>6 DEF TypeOK, QueuesOK, Places, SlicePlaces, loopVars
  <2>2. LinkInv'
    BY <1>5, <1>6, MidSlice DEF SetMode, SlicePlaces
  <2> QED BY <2>1, <2>2
<1>7. CASE Lose(queue, Peer(cur)) /\ ctl' = "mode"
             /\ UNCHANGED <<cycle, nextHardSync, waiting, asleep, early>>
  <2>1. QueuesOK(queue') /\ when' \in [Players -> Int] /\ queue' = queue
          /\ dropped' = TRUE
    BY <1>2, <1>7, Lost
  <2>2. BarrierInv'
    BY <1>5, <1>7, <2>1 DEF LinkInv, BarrierInv
  <2> QED BY <1>2, <1>6, <1>7, <2>1, <2>2 DEF LinkInv, TypeOK
<1>8. CASE Deliver(queue, Peer(cur), Event("MODE_SET", cur, md, 0, 0))
  <2>1. Event("MODE_SET", cur, md, 0, 0) \in EventsFor(Peer(cur))
    BY <1>1, EventKind
  <2>2. /\ QueuesOK(queue') /\ when' \in [Players -> Int]
        /\ queue'[Peer(cur)] # << >> /\ dropped' = dropped
        /\ \A p \in Players : p # Peer(cur) => queue'[p] = queue[p]
    BY <1>1, <1>2, <1>8, <2>1, Delivered
  <2>3. CASE cur = 0 /\ WaitOnPlayers(nextHardSync, "mode")
    <3>1. nextHardSync \in Int /\ ~waiting
      BY <1>3, <2>3 DEF TypeOK
    <3>2. /\ cycle' = time[0] /\ nextHardSync' \in Int /\ waiting' = TRUE
          /\ asleep' \in [Players -> BOOLEAN] /\ asleep'[0] /\ ~asleep'[1]
          /\ early' = TRUE /\ ctl' = "mode"
      BY <2>3, <3>1, Waited
    <3>3. \E i \in 1..Len(queue'[1]) : Ackable(queue'[1][i])
      BY <1>1, <2>2, <2>3, AnyAckable
    <3>4. BarrierInv'
      BY <3>2, <3>3 DEF BarrierInv
    <3>5. cycle' <= time[0] /\ cycle' \in Int /\ dropped' \in BOOLEAN
      BY <2>2, <3>2 DEF TypeOK, Players
    <3> QED BY <1>6, <2>2, <3>2, <3>4, <3>5
  <2>4. CASE cur = 1 /\ early' = TRUE /\ ctl' = "mode"
               /\ UNCHANGED <<cycle, nextHardSync, waiting, asleep>>
    <3>1. queue'[1] = queue[1]
      BY <2>2, <2>4 DEF Peer, Players
    <3>2. BarrierInv'
      BY <1>5, <2>4, <3>1 DEF LinkInv, BarrierInv
    <3> QED BY <1>6, <2>2, <2>4, <3>2 DEF LinkInv, TypeOK
  <2> QED BY <1>1, <1>3, <1>8, <2>3, <2>4 DEF SetMode, Players, Deliver, Lose
<1> QED BY <1>3, <1>7, <1>8 DEF SetMode

\* A transfer starts: it is in flight only under a barrier.
LEMMA StartStep ==
  ASSUME LinkOK, Start
  PROVE  LinkOK'
<1> USE DEF LinkOK
<1> DEFINE finish == time[0] + TransferCycles(mode[0])
           arm == mode[0] = "MULTI" /\ ~syncArmed
           hs == IF arm THEN HARD_SYNC_INTERVAL ELSE nextHardSync
           e == Event("TRANSFER_START", 0, NoMode, finish, transfers')
<1>1. cur = 0 /\ ctl \in {"write", "mode"} /\ QueuesOK(queue)
        /\ (early \/ ~asleep[0])
  BY QueuesKept DEF Start, MayStart, LinkInv, SchedulerInv, SlicePlaces
<1>2. transfers' \in Nat /\ finish \in Int /\ hs \in Int
  <2>1. MultiCycles \in Nat /\ NormalCycles \in Nat
          /\ HARD_SYNC_INTERVAL \in Nat
    BY IntervalAssumption
  <2>2. time[0] \in Int /\ nextHardSync \in Int /\ transfers \in Nat
          /\ transfers' = transfers + 1
    BY DEF Start, TypeOK, Players
  <2>3. TransferCycles(mode[0]) \in Nat
    BY <2>1 DEF TransferCycles
  <2> QED BY <2>1, <2>2, <2>3
<1>3. e \in EventsFor(1)
  <2>1. NoMode \in Modes \cup {NoMode} /\ 0 \in Players /\ Peer(0) = 1
    BY DEF Players, Peer
  <2> HIDE DEF finish
  <2> QED BY <1>2, <2>1, EventKind
<1>4. multiData' \in [Players -> Nat] /\ normalData' \in Nat
        /\ clean' \subseteq Nat
  BY <1>2 DEF Start, TypeOK, Nothing
<1>5. UNCHANGED <<time, modeVars, dataReceived, loopVars, cur, next, writes>>
  BY DEF Start
<1>6. ASSUME QueuesOK(queue'), when' \in [Players -> Int],
             dropped' \in BOOLEAN, early' \in BOOLEAN, ctl' = "started",
             early' \/ ~asleep'[0], BarrierInv', cycle' <= time[0],
             cycle' \in Int, nextHardSync' \in Int, waiting' \in BOOLEAN,
             asleep' \in [Players -> BOOLEAN], syncArmed' \in BOOLEAN,
             transferActive' \in BOOLEAN, complete' \in [Players -> Int],
             pending' \in [Players -> Nat]
      PROVE  LinkOK'
  <2>1. TypeOK'
    BY <1>2, <1>4, <1>5, <1>6 DEF TypeOK, QueuesOK, Places, SlicePlaces,
         loopVars, modeVars
  <2>2. LinkInv'
    BY <1>1, <1>5, <1>6, MidSlice DEF SlicePlaces
  <2> QED BY <2>1, <2>2
<1> HIDE DEF finish, arm, hs, e
<1>7. CASE Lose(queue, 1) /\ ctl' = "started"
             /\ UNCHANGED <<complete, pending, syncVars, transferActive, early>>
  <2>1. QueuesOK(queue') /\ when' \in [Players -> Int] /\ queue' = queue
          /\ dropped' = TRUE
    BY <1>1, <1>7, Lost
  <2>2. BarrierInv'
    BY <1>7, <2>1 DEF LinkInv, BarrierInv, syncVars
  <2> QED BY <1>1, <1>6, <1>7, <2>1, <2>2 DEF LinkInv, TypeOK, syncVars
<1>8. CASE /\ Deliver(queue, 1, e)
           /\ transferActive' = TRUE
           /\ syncArmed' = (syncArmed \/ arm)
           /\ complete' = [complete EXCEPT ![0] = finish]
           /\ pending' = [pending EXCEPT ![0] = transfers']
           /\ IF waiting
              THEN /\ nextHardSync' = hs
                   /\ ctl' = "started"
                   /\ UNCHANGED <<cycle, waiting, asleep, early>>
              ELSE WaitOnPlayers(hs, "started")
  <2>1. /\ QueuesOK(queue') /\ when' \in [Players -> Int]
        /\ queue'[1] # << >> /\ dropped' = dropped
    BY <1>1, <1>3, <1>8, Delivered DEF Players
  <2>2. \E i \in 1..Len(queue'[1]) : Ackable(queue'[1][i])
    BY <2>1, AnyAckable
  <2>3. complete' \in [Players -> Int] /\ pending' \in [Players -> Nat]
    BY <1>2, <1>8 DEF TypeOK, Players
  <2>4. syncArmed' \in BOOLEAN
    BY <1>8, Zenon DEF TypeOK
  <2>5. CASE waiting
    <3>1. BarrierInv'
      BY <1>8, <2>2, <2>5 DEF LinkInv, BarrierInv
    <3> QED BY <1>1, <1>2, <1>6, <1>8, <2>1, <2>3, <2>4, <2>5, <3>1
          DEF LinkInv, TypeOK
  <2>6. CASE ~waiting
    <3>1. /\ cycle' = time[0] /\ nextHardSync' \in Int /\ waiting' = TRUE
          /\ asleep' \in [Players -> BOOLEAN] /\ asleep'[0] /\ ~asleep'[1]
          /\ early' = TRUE /\ ctl' = "started"
      BY <1>2, <1>8, <2>6, Waited
    <3>2. BarrierInv'
      BY <1>8, <2>2, <3>1 DEF BarrierInv
    <3>3. cycle' <= time[0] /\ cycle' \in Int /\ dropped' \in BOOLEAN
      BY <2>1, <3>1 DEF TypeOK, Players
    <3> QED BY <1>6, <1>8, <2>1, <2>3, <2>4, <3>1, <3>2, <3>3
  <2> QED BY <2>5, <2>6
<1> QED BY <1>7, <1>8 DEF Start, finish, arm, hs, e

\* The primary queues a HARD_SYNC and waits.
LEMMA HardSynced ==
  ASSUME LinkOK, ~waiting, NEW hs \in Int, NEW place, HardSync(hs, place),
         UNCHANGED transferActive
  PROVE  /\ QueuesOK(queue') /\ when' \in [Players -> Int]
         /\ dropped' = dropped /\ BarrierInv' /\ cycle' = time[0]
         /\ nextHardSync' \in Int /\ waiting' = TRUE /\ early' = TRUE
         /\ asleep' \in [Players -> BOOLEAN] /\ ctl' = place
<1>1. TypeOK /\ QueuesOK(queue)
  BY QueuesKept DEF LinkOK
<1>2. Event("HARD_SYNC", 0, NoMode, 0, 0) \in EventsFor(1)
  <2>1. NoMode \in Modes \cup {NoMode} /\ 0 \in Players /\ Peer(0) = 1
    BY DEF Players, Peer
  <2> QED BY <1>1, <2>1, EventKind
<1>3. /\ QueuesOK(queue') /\ when' \in [Players -> Int]
      /\ queue'[1] # << >> /\ dropped' = dropped
  BY <1>1, <1>2, Delivered DEF HardSync, Players
<1>4. \E i \in 1..Len(queue'[1]) : Ackable(queue'[1][i])
  BY <1>3, AnyAckable
<1>5. /\ cycle' = time[0] /\ nextHardSync' \in Int /\ waiting' = TRUE
      /\ asleep' \in [Players -> BOOLEAN] /\ asleep'[0] /\ ~asleep'[1]
      /\ early' = TRUE /\ ctl' = place
  BY Waited DEF HardSync
<1>6. BarrierInv'
  BY <1>4, <1>5 DEF BarrierInv
<1> QED BY <1>3, <1>5, <1>6

\* A transfer completes; at most the primary synchronises.
LEMMA FinishStep ==
  ASSUME LinkOK, Finish
  PROVE  LinkOK'
<1> USE DEF LinkOK
<1>1. ctl = "tick" /\ QueuesOK(queue) /\ cur \in Players
        /\ nextHardSync \in Int /\ time[0] \in Int
  BY QueuesKept DEF Finish, TypeOK, Players
<1>2. complete' \in [Players -> Int] /\ pending' \in [Players -> Nat]
  BY DEF Finish, TypeOK, Nothing
<1>3. dataReceived' \in [Players -> BOOLEAN]
  <2>1. PICK b \in BOOLEAN : dataReceived' = [dataReceived EXCEPT ![cur] = b]
    <3>1. dataReceived[cur] \in BOOLEAN
      BY <1>1 DEF TypeOK
    <3> QED BY <3>1, Zenon DEF Finish
  <2> QED BY <2>1, Zenon DEF TypeOK
<1>4. UNCHANGED <<time, modeVars, syncArmed, transferActive, multiData,
                  normalData, transfers, clean, loopVars, cur, next, writes>>
  BY DEF Finish
<1>5. ASSUME QueuesOK(queue'), when' \in [Players -> Int],
             dropped' \in BOOLEAN, early' \in BOOLEAN, ctl' = "tick",
             BarrierInv', cycle' <= time[0], cycle' \in Int,
             nextHardSync' \in Int, waiting' \in BOOLEAN,
             asleep' \in [Players -> BOOLEAN]
      PROVE  LinkOK'
  <2>1. TypeOK'
    BY <1>2, <1>3, <1>4, <1>5 DEF TypeOK, QueuesOK, Places, SlicePlaces,
         loopVars, modeVars
  <2>2. LinkInv'
    BY <1>1, <1>4, <1>5, MidSlice DEF SlicePlaces
  <2> QED BY <2>1, <2>2
<1>6. CASE ~waiting /\ HardSync(nextHardSync, "tick")
  <2>1. /\ QueuesOK(queue') /\ when' \in [Players -> Int]
        /\ dropped' = dropped /\ BarrierInv' /\ cycle' = time[0]
        /\ nextHardSync' \in Int /\ waiting' = TRUE /\ early' = TRUE
        /\ asleep' \in [Players -> BOOLEAN] /\ ctl' = "tick"
    BY <1>1, <1>4, <1>6, HardSynced
  <2>2. dropped' \in BOOLEAN /\ cycle' <= time[0] /\ cycle' \in Int
    BY <1>1, <2>1 DEF TypeOK
  <2> QED BY <1>5, <2>1, <2>2
<1>7. CASE /\ Lose(queue, 1) \/ UNCHANGED <<queue, dropped, when>>
           /\ nextHardSync' \in {-1, nextHardSync}
           /\ UNCHANGED <<cycle, waiting, asleep, early, ctl>>
  <2>1. queue' = queue /\ when' = when /\ dropped' \in BOOLEAN
    BY <1>7 DEF Lose, TypeOK
  <2>2. BarrierInv'
    BY <1>4, <1>7, <2>1 DEF LinkInv, BarrierInv
  <2>3. nextHardSync' \in Int
    BY <1>1, <1>7
  <2>4. cycle' <= time[0] /\ cycle' \in Int /\ waiting' \in BOOLEAN
          /\ asleep' \in [Players -> BOOLEAN] /\ early' \in BOOLEAN
          /\ when' \in [Players -> Int]
    BY <1>7, <2>1 DEF LinkInv, TypeOK
  <2> QED BY <1>1, <1>5, <1>7, <2>1, <2>2, <2>3, <2>4
<1> QED BY <1>6, <1>7 DEF Finish

\* The lockstep event of the clock owner begins.
LEMMA PrimaryEventStep ==
  ASSUME LinkOK, PrimaryEvent
  PROVE  LinkOK'
<1> USE DEF LinkOK
<1>1. ctl = "tick" /\ QueuesOK(queue) /\ nextHardSync \in Int
        /\ time[0] \in Int /\ cycle \in Int /\ HARD_SYNC_INTERVAL \in Nat
  BY QueuesKept, IntervalAssumption DEF PrimaryEvent, TypeOK, Players
<1>2. next' \in Int
  <2>1. LOCKSTEP_INTERVAL \in Nat /\ UNLOCKED_INTERVAL \in Nat
    BY IntervalAssumption
  <2> QED BY <1>1, <2>1 DEF PrimaryEvent, UntilNextSync
<1>3. UNCHANGED <<time, complete, modeVars, syncArmed, dataVars, loopVars,
                  cur, writes>>
  BY DEF PrimaryEvent
<1>4. ASSUME QueuesOK(queue'), when' \in [Players -> Int],
             dropped' \in BOOLEAN, early' \in BOOLEAN, ctl' = "callback",
             BarrierInv', cycle' = time[0], nextHardSync' \in Int,
             waiting' \in BOOLEAN, asleep' \in [Players -> BOOLEAN]
      PROVE  LinkOK'
  <2>1. TypeOK'
    BY <1>1, <1>2, <1>3, <1>4 DEF TypeOK, QueuesOK, Places, SlicePlaces,
         loopVars, modeVars, dataVars
  <2>2. cycle' <= time'[0]
    BY <1>1, <1>3, <1>4
  <2>3. LinkInv'
    BY <1>1, <1>3, <1>4, <2>2, MidSlice DEF SlicePlaces
  <2> QED BY <2>1, <2>3
<1>5. CASE ~waiting
             /\ HardSync(nextHardSync + HARD_SYNC_INTERVAL, "callback")
  <2>1. nextHardSync + HARD_SYNC_INTERVAL \in Int /\ UNCHANGED transferActive
    BY <1>1, <1>3 DEF dataVars
  <2>2. /\ QueuesOK(queue') /\ when' \in [Players -> Int]
        /\ dropped' = dropped /\ BarrierInv' /\ cycle' = time[0]
        /\ nextHardSync' \in Int /\ waiting' = TRUE /\ early' = TRUE
        /\ asleep' \in [Players -> BOOLEAN] /\ ctl' = "callback"
    BY <1>5, <2>1, HardSynced
  <2> QED BY <1>4, <2>2 DEF TypeOK
<1>6. CASE /\ Lose(queue, 1) \/ UNCHANGED <<queue, dropped, when>>
           /\ nextHardSync' \in Int /\ cycle' = time[0] /\ asleep' = Woken
           /\ ctl' = "callback" /\ UNCHANGED <<waiting, early>>
  <2>1. queue' = queue /\ when' = when /\ dropped' \in BOOLEAN
    BY <1>6 DEF Lose, TypeOK
  <2>2. asleep' \in [Players -> BOOLEAN] /\ asleep'[0] = asleep[0]
          /\ (asleep'[1] => asleep[1])
    <3>1. 0 \in Players /\ 1 \in Players /\ 0 # 1
      BY DEF Players
    <3>2. asleep \in [Players -> BOOLEAN]
      BY DEF TypeOK
    <3> QED BY <1>6, <3>1, <3>2, Zenon DEF Woken
  <2>3. BarrierInv'
    BY <1>3, <1>6, <2>1, <2>2 DEF LinkInv, BarrierInv, dataVars
  <2> QED BY <1>1, <1>4, <1>6, <2>1, <2>2, <2>3 DEF TypeOK
<1>7. nextHardSync - (time[0] - cycle) \in Int
        /\ nextHardSync - (time[0] - cycle) + HARD_SYNC_INTERVAL \in Int
  BY <1>1
<1> QED BY <1>5, <1>6, <1>7 DEF PrimaryEvent

\* The lockstep event of the secondary begins.
LEMMA SecondaryEventStep ==
  ASSUME LinkOK, SecondaryEvent
  PROVE  LinkOK'
<1> USE DEF LinkOK
<1>1. next' \in Int
  <2>1. LOCKSTEP_INTERVAL \in Nat /\ UNLOCKED_INTERVAL \in Nat
          /\ cycle \in Int /\ time[1] \in Int
    BY IntervalAssumption DEF TypeOK, Players
  <2> QED BY <2>1 DEF SecondaryEvent, UntilNextSync
<1>2. TypeOK'
  BY <1>1 DEF SecondaryEvent, TypeOK, Places, SlicePlaces, clockVars, modeVars,
       wireVars, syncVars, dataVars, loopVars
<1>3. QueuesOK(queue') /\ BarrierInv' /\ cycle' <= time'[0]
  BY QueuesKept DEF SecondaryEvent, LinkInv, BarrierInv, clockVars, wireVars,
       syncVars, dataVars
<1>4. ctl = "tick" /\ ctl' = "callback" /\ UNCHANGED loopVars
  BY DEF SecondaryEvent
<1>5. LinkInv'
  BY <1>3, <1>4, MidSlice DEF SlicePlaces
<1> QED BY <1>2, <1>5

\* Taking the head of the own queue leaves the peer's alone.
LEMMA Taken ==
  ASSUME LinkOK, NEW type, Takes(type)
  PROVE  /\ cur \in Players /\ QueuesOK(Popped) /\ ctl = "callback"
         /\ cur = 0 => Popped[1] = queue[1]
         /\ Head(queue[cur]) \in EventsFor(cur)
<1>1. cur \in Players /\ queue \in [Players -> Seq(EventRecords)]
        /\ queue[cur] \in Seq(EventsFor(cur)) /\ queue[cur] # << >>
  BY DEF LinkOK, TypeOK, LinkInv, Takes, HasPendingEvents
<1>2. QueuesOK(Popped)
  BY <1>1, QueuesKept DEF Takes
<1>3. Head(queue[cur]) \in EventsFor(cur)
  BY <1>1
<1>4. cur = 0 => Popped[1] = queue[1]
  BY <1>1 DEF Popped, Players
<1> QED BY <1>1, <1>2, <1>3, <1>4 DEF Takes

\* The primary learns of the newcomer and answers with its mode.
LEMMA AttachStep ==
  ASSUME LinkOK, HandleAttach
  PROVE  LinkOK'
<1> USE DEF LinkOK
<1>1. /\ cur \in Players /\ QueuesOK(Popped) /\ ctl = "callback"
      /\ cur = 0 => Popped[1] = queue[1]
      /\ Head(queue[cur]) \in EventsFor(cur)
  BY Taken DEF HandleAttach
<1>2. cur = 0 /\ Head(queue[cur]).from = 1
  BY <1>1 DEF HandleAttach, Takes, EventsFor, Players, Peer
<1>3. UNCHANGED <<time, complete, mode, transferMode, syncVars, dataVars,
                  loopVars, ctl, cur, early, next, writes>>
        /\ other' \in [Players -> Modes \cup {NoMode}]
  BY DEF HandleAttach, TypeOK
<1>4. /\ QueuesOK(queue') /\ when' \in [Players -> Int]
      /\ dropped' \in BOOLEAN
      /\ queue'[1] # << >> \/ queue'[1] = queue[1]
  <2>1. CASE Deliver(Popped, 1, Event("MODE_SET", cur, mode[cur], 0, 0))
    <3>1. mode[cur] \in Modes \cup {NoMode} /\ Peer(cur) = 1 /\ 1 \in Players
      BY <1>1, <1>2 DEF TypeOK, Peer, Players
    <3>2. Event("MODE_SET", cur, mode[cur], 0, 0) \in EventsFor(1)
      BY <1>1, <3>1, EventKind
    <3> QED BY <1>1, <2>1, <3>1, <3>2, Delivered DEF TypeOK
  <2>2. CASE Lose(Popped, 1)
    BY <1>1, <1>2, <2>2, Lost
  <2> QED BY <1>2, <2>1, <2>2 DEF HandleAttach
<1>5. queue'[1] # << >> =>
        \E i \in 1..Len(queue'[1]) : Ackable(queue'[1][i])
  BY <1>4, AnyAckable
<1>6. BarrierInv'
  BY <1>3, <1>4, <1>5 DEF LinkInv, BarrierInv, syncVars, dataVars
<1>7. TypeOK'
  BY <1>3, <1>4 DEF TypeOK, QueuesOK, syncVars, dataVars, loopVars
<1>8. cycle' <= time'[0]
  BY <1>3 DEF LinkInv, syncVars
<1>9. LinkInv'
  BY <1>1, <1>3, <1>4, <1>6, <1>8, MidSlice DEF SlicePlaces
<1> QED BY <1>7, <1>9

\* The events that may release a barrier.
LEMMA AcknowledgingStep ==
  ASSUME LinkOK, HandleModeSet \/ HandleHardSync \/ HandleTransferStart
  PROVE  LinkOK'
<1> USE DEF LinkOK
<1>1. /\ cur \in Players /\ QueuesOK(Popped) /\ ctl = "callback"
      /\ cur = 0 => Popped[1] = queue[1]
      /\ Head(queue[cur]) \in EventsFor(cur)
  BY Taken DEF HandleModeSet, HandleHardSync, HandleTransferStart
<1> DEFINE ev == Head(queue[cur])
<1>2. ev \in EventRecords /\ ev.from = Peer(cur)
        /\ ev.mode \in Modes \cup {NoMode} /\ ev.finish \in Int
        /\ ev.txn \in Nat
  BY <1>1 DEF EventsFor, EventRecords
<1>3. UNCHANGED <<time, when, mode, transferMode, dropped, cycle,
                  nextHardSync, syncArmed, normalData, transfers, clean,
                  loopVars, ctl, cur, writes>> /\ queue' = Popped
  BY DEF HandleModeSet, HandleHardSync, HandleTransferStart, clockVars,
       modeVars
<1>4. /\ QueuesOK(queue') /\ BarrierInv'
      /\ asleep' \in [Players -> BOOLEAN] /\ waiting' \in BOOLEAN
      /\ transferActive' \in BOOLEAN /\ early' \in BOOLEAN
      /\ dataReceived' \in [Players -> BOOLEAN]
  <2>1. CASE AckPlayer
    <3>1. /\ waiting' = FALSE /\ transferActive' = FALSE
          /\ asleep' \in [Players -> BOOLEAN] /\ ~asleep'[0]
          /\ dataReceived' \in [Players -> BOOLEAN] /\ early' \in BOOLEAN
      BY <2>1, Acked
    <3> QED BY <1>1, <1>3, <3>1 DEF BarrierInv
  <2>2. CASE /\ ev.from # 0
             /\ UNCHANGED <<waiting, dataReceived, transferActive, asleep,
                            early>>
    <3>1. queue'[1] = queue[1]
      BY <1>1, <1>2, <1>3, <2>2 DEF Peer, Players
    <3> QED BY <1>1, <1>3, <2>2, <3>1 DEF LinkInv, BarrierInv, TypeOK
  <2> QED BY <2>1, <2>2 DEF HandleModeSet, HandleHardSync,
        HandleTransferStart
<1>5. other' \in [Players -> Modes \cup {NoMode}]
  BY <1>2 DEF HandleModeSet, HandleHardSync, HandleTransferStart, modeVars,
       TypeOK
<1>6. /\ multiData' \in [Players -> Nat] /\ complete' \in [Players -> Int]
      /\ pending' \in [Players -> Nat] /\ next' \in Int
  <2>1. CASE HandleModeSet \/ HandleHardSync
    BY <2>1 DEF HandleModeSet, HandleHardSync, clockVars, TypeOK
  <2>2. CASE HandleTransferStart
    <3> DEFINE late == time[cur] - when[cur]
               delay == Max({1, ev.finish - time[cur] - late})
    <3>1. time[cur] \in Int /\ when[cur] \in Int
      BY <1>1 DEF TypeOK
    <3>2. 1 \in Int /\ ev.finish - time[cur] - late \in Int
      BY <1>2, <3>1
    <3>3. delay \in Int /\ delay >= 1
      BY <3>2, MaxOfTwo
    <3>4. /\ multiData' = IF transferMode = "MULTI"
                          THEN [multiData EXCEPT ![cur] = ev.txn]
                          ELSE multiData
          /\ complete' = [complete EXCEPT ![cur] = time[cur] + delay]
          /\ pending' = [pending EXCEPT ![cur] = ev.txn]
          /\ next' = delay
      BY <2>2 DEF HandleTransferStart
    <3> HIDE DEF delay, late, ev
    <3>5. time[cur] + delay \in Int
      BY <3>1, <3>3
    <3> QED BY <1>2, <3>3, <3>4, <3>5 DEF TypeOK
  <2> QED BY <2>1, <2>2
<1>7. TypeOK'
  BY <1>3, <1>4, <1>5, <1>6 DEF TypeOK, QueuesOK, loopVars
<1>8. cycle' <= time'[0]
  BY <1>3 DEF LinkInv
<1>9. LinkInv'
  BY <1>1, <1>3, <1>4, <1>8, MidSlice DEF SlicePlaces
<1> QED BY <1>7, <1>9

\* The lockstep event ends; a secondary that sleeps has an empty queue, so no
\* barrier is up.
LEMMA EventEndsStep ==
  ASSUME LinkOK, EventEnds
  PROVE  LinkOK'
<1> USE DEF LinkOK
<1> DEFINE n == IF HasPendingEvents(cur)
                THEN Min({next, Head(queue[cur]).ts - time[cur]}) ELSE next
           sleeps == Sleeps(n)
           delay == Max({n, IF sleeps THEN MIN_SLEEP ELSE 1})
<1>1. /\ asleep' = [asleep EXCEPT ![cur] = asleep[cur] \/ sleeps]
      /\ early' = (early \/ sleeps)
      /\ when' = [when EXCEPT ![cur] = time[cur] + delay]
      /\ ctl' = IF sleeps /\ asleep[0] THEN "abort" ELSE "tick"
      /\ next' = 0
  BY DEF EventEnds
<1>2. UNCHANGED <<time, complete, modeVars, wireVars, cycle, waiting,
                  nextHardSync, syncArmed, dataVars, loopVars, cur, writes>>
  BY DEF EventEnds
<1>3. cur \in Players /\ time[cur] \in Int /\ next \in Int
        /\ MIN_SLEEP \in Nat /\ ctl = "callback"
  BY IntervalAssumption DEF TypeOK, EventEnds
<1>4. n \in Int
  <2>1. CASE HasPendingEvents(cur)
    <3>1. Head(queue[cur]) \in EventRecords
      BY <1>3, <2>1 DEF HasPendingEvents, TypeOK
    <3>2. Head(queue[cur]).ts - time[cur] \in Int
      BY <1>3, <3>1 DEF EventRecords
    <3> QED BY <1>3, <2>1, <3>2, MinOfTwo
  <2>2. CASE ~HasPendingEvents(cur)
    BY <1>3, <2>2
  <2> QED BY <2>1, <2>2
<1>5. sleeps => cur = 1 /\ ~waiting /\ ~asleep[0]
  <2>1. ASSUME sleeps PROVE cur = 1 /\ queue[1] = << >>
    BY <2>1 DEF Sleeps, HasPendingEvents
  <2>2. ASSUME queue[1] = << >> PROVE ~waiting
    BY <2>2 DEF LinkInv, BarrierInv
  <2> QED BY <2>1, <2>2 DEF LinkInv, BarrierInv
<1> HIDE DEF n
<1>6. sleeps \in BOOLEAN
  BY DEF Sleeps
<1>7. delay \in Int /\ delay >= 1
  <2>1. MIN_SLEEP \in Int /\ MIN_SLEEP >= 1
    BY IntervalAssumption
  <2> DEFINE least == IF sleeps THEN MIN_SLEEP ELSE 1
  <2>2. least \in Int /\ least >= 1
    BY <2>1
  <2> HIDE DEF least
  <2>3. Max({n, least}) \in {n, least} /\ Max({n, least}) >= least
    BY <1>4, <2>2, MaxOfTwo
  <2>4. delay = Max({n, least})
    BY DEF least
  <2> HIDE DEF delay
  <2> QED BY <1>4, <2>2, <2>3, <2>4
<1> HIDE DEF sleeps, delay
<1>8. asleep' \in [Players -> BOOLEAN] /\ early' \in BOOLEAN
  <2>1. asleep \in [Players -> BOOLEAN] /\ early \in BOOLEAN
    BY DEF TypeOK
  <2> QED BY <1>1, <1>3, <1>6, <2>1, Zenon
<1>9. asleep'[0] = asleep[0] /\ (waiting => asleep'[1] = asleep[1])
  <2>1. CASE sleeps
    BY <1>1, <1>5, <2>1 DEF TypeOK, Players
  <2>2. CASE ~sleeps
    <3>1. asleep' = asleep
      BY <1>1, <1>3, <2>2 DEF TypeOK
    <3> QED BY <3>1
  <2> QED BY <1>6, <2>1, <2>2
<1>10. when' \in [Players -> Int]
  <2>1. time[cur] + delay \in Int
    BY <1>3, <1>7
  <2> QED BY <1>1, <2>1 DEF TypeOK
<1>11. ctl' = "tick"
  BY <1>1, <1>5
<1>12. QueuesOK(queue') /\ BarrierInv'
  BY <1>2, <1>9, QueuesKept DEF LinkInv, BarrierInv, wireVars, dataVars
<1>13. TypeOK'
  <2>1. next' \in Int /\ ctl' \in Places
    BY <1>1, <1>11 DEF Places, SlicePlaces
  <2> QED BY <1>2, <1>8, <1>10, <2>1 DEF TypeOK, modeVars, wireVars, dataVars,
        loopVars
<1>14. cycle' <= time'[0]
  BY <1>2 DEF LinkInv
<1>15. LinkInv'
  BY <1>2, <1>3, <1>11, <1>12, <1>14, MidSlice DEF SlicePlaces
<1> QED BY <1>13, <1>15

\* Nothing changes.
LEMMA LinkStutter ==
  ASSUME LinkOK, UNCHANGED lockstepVars
  PROVE  LinkOK'
<1>1. TypeOK'
  BY DEF LinkOK, TypeOK, lockstepVars, clockVars, modeVars, wireVars,
       syncVars, dataVars, loopVars
<1>2. LinkInv'
  BY DEF LinkOK, LinkInv, BarrierInv, SchedulerInv, SlicePlaces, NeverStuck,
       FrameComplete, Done, HasPendingEvents, SkipTurn, lockstepVars,
       clockVars, modeVars, wireVars, syncVars, dataVars, loopVars
<1> QED BY <1>1, <1>2 DEF LinkOK
-----------------------------------------------------------------------------
\* Every step of run_linked_frame, of the two machines and of the
\* coordinator keeps LinkOK.
LEMMA LinkNext == LinkOK /\ [Next]_lockstepVars => LinkOK'
<1> SUFFICES ASSUME LinkOK, Next PROVE LinkOK'
  BY LinkStutter
<1>1. CASE Scheduler
  BY <1>1, SchedulerStep
<1>2. CASE Cpu
  BY <1>2, CpuStep
<1>3. CASE SerialWrite
  BY <1>3, SetModeStep, StartStep DEF SerialWrite
<1>4. CASE Finish
  BY <1>4, FinishStep
<1>5. CASE LockstepEvent
  BY <1>5, PrimaryEventStep, SecondaryEventStep, AttachStep,
     AcknowledgingStep, EventEndsStep DEF LockstepEvent, Handle
<1> QED BY <1>1, <1>2, <1>3, <1>4, <1>5 DEF Next

\* LinkOK is an inductive invariant of the linked pair.
THEOREM LinkInvariant == Spec => []LinkOK
BY LinkInit, LinkNext, PTL DEF Spec

\* Event queues never exceed the fixed table of _enqueueEvent, and every part
\* of the coordinator's state keeps its type.
THEOREM LinkTypeCorrect == Spec => []TypeOK
<1>1. LinkOK => TypeOK
  BY DEF LinkOK
<1> QED BY <1>1, LinkInvariant, PTL

\* A barrier of WaitOnPlayers always has an event queued at the secondary
\* whose handling calls AckPlayer; a transfer is in flight only under one.
THEOREM BarriersAreReleased == Spec => []BarrierInv
<1>1. LinkOK => BarrierInv
  BY DEF LinkOK, LinkInv
<1> QED BY <1>1, LinkInvariant, PTL

\* run_linked_frame never finds both machines blocked and no mASSERT of the
\* coordinator fails.
THEOREM SchedulerNeverStuck == Spec => []NeverStuck
<1>1. LinkOK => NeverStuck
  BY DEF LinkOK, LinkInv
<1> QED BY <1>1, LinkInvariant, PTL
-----------------------------------------------------------------------------
\* The event e is sent to the machine m, whose queue is one of qs: it is
\* linked in, or lost.
Sends(qs, m, e) ==
  /\ QueuesOK(qs) /\ m \in Players /\ e \in EventsFor(m)
  /\ Deliver(qs, m, e) \/ Lose(qs, m)

HardSyncEvent == Event("HARD_SYNC", 0, NoMode, 0, 0)

\* SetMode announces the new mode to the peer.
LEMMA SetModeSends ==
  ASSUME LinkOK, NEW md \in GameModes, SetMode(md)
  PROVE  /\ Sends(queue, Peer(cur), Event("MODE_SET", cur, md, 0, 0))
         /\ UNCHANGED <<time, cur>> /\ ctl' # "callback"
<1>1. cur \in Players /\ md \in Modes \cup {NoMode} /\ Peer(cur) \in Players
        /\ QueuesOK(queue)
  <2>1. QueuesOK(queue)
    BY QueuesKept
  <2>2. md \in Modes \cup {NoMode}
    BY IntervalAssumption DEF Modes
  <2> QED BY <2>1, <2>2 DEF LinkOK, TypeOK, Peer, Players
<1> DEFINE e == Event("MODE_SET", cur, md, 0, 0)
<1>2. e \in EventsFor(Peer(cur))
  BY <1>1, EventKind DEF LinkOK
<1>3. /\ Deliver(queue, Peer(cur), e) \/ Lose(queue, Peer(cur))
      /\ UNCHANGED <<time, cur>> /\ ctl' # "callback"
  BY DEF SetMode, WaitOnPlayers
<1> HIDE DEF e
<1> QED BY <1>1, <1>2, <1>3 DEF Sends, e

\* Start announces the transfer to the secondary.
LEMMA StartSends ==
  ASSUME LinkOK, Start
  PROVE  /\ \E finish \in Int, txn \in Nat :
              Sends(queue, 1, Event("TRANSFER_START", 0, NoMode, finish, txn))
         /\ UNCHANGED <<time, cur>> /\ ctl' # "callback"
<1> DEFINE finish == time[0] + TransferCycles(mode[0])
           e == Event("TRANSFER_START", 0, NoMode, finish, transfers')
<1>1. time[0] \in Int /\ QueuesOK(queue) /\ transfers' \in Nat
  BY QueuesKept DEF Start, LinkOK, TypeOK, Players
<1>2. finish \in Int
  <2>1. MultiCycles \in Nat /\ NormalCycles \in Nat
    BY IntervalAssumption
  <2>2. TransferCycles(mode[0]) \in Int
    BY <2>1 DEF TransferCycles
  <2> QED BY <1>1, <2>2
<1>3. /\ Deliver(queue, 1, e) \/ Lose(queue, 1)
      /\ UNCHANGED <<time, cur>> /\ ctl' # "callback"
  BY DEF Start, WaitOnPlayers
<1> HIDE DEF finish
<1>4. e \in EventsFor(1)
  <2>1. 0 \in Players /\ Peer(0) = 1 /\ NoMode \in Modes \cup {NoMode}
    BY DEF Players, Peer
  <2> QED BY <1>1, <1>2, <2>1, EventKind DEF LinkOK
<1>5. Sends(queue, 1, e)
  BY <1>1, <1>3, <1>4, Zenon DEF Sends, Players
<1> QED BY <1>1, <1>2, <1>3, <1>5

\* A hard synchronisation is an event for the secondary.
LEMMA HardSyncSends ==
  ASSUME LinkOK, Deliver(queue, 1, HardSyncEvent) \/ Lose(queue, 1)
  PROVE  Sends(queue, 1, HardSyncEvent)
<1>1. 0 \in Players /\ 1 \in Players /\ Peer(0) = 1
        /\ NoMode \in Modes \cup {NoMode} /\ QueuesOK(queue)
  BY QueuesKept DEF Players, Peer
<1>2. HardSyncEvent \in EventsFor(1)
  BY <1>1, EventKind DEF LinkOK, HardSyncEvent
<1> QED BY <1>1, <1>2 DEF Sends

\* The end of a transfer, and the primary's lockstep event, may synchronise.
LEMMA SyncSends ==
  ASSUME LinkOK, Finish \/ PrimaryEvent
  PROVE  /\ \/ Sends(queue, 1, HardSyncEvent) /\ cur = 0
            \/ UNCHANGED <<queue, dropped, when>>
         /\ UNCHANGED <<time, cur>>
<1>1. CASE Finish
  <2>1. /\ \/ /\ Deliver(queue, 1, HardSyncEvent) \/ Lose(queue, 1)
              /\ SyncAfter(cur)
           \/ UNCHANGED <<queue, dropped, when>>
        /\ UNCHANGED <<time, cur>>
    BY <1>1 DEF Finish, HardSync, HardSyncEvent
  <2> QED BY <2>1, HardSyncSends DEF SyncAfter
<1>2. CASE PrimaryEvent
  <2>1. /\ \/ Deliver(queue, 1, HardSyncEvent) \/ Lose(queue, 1)
           \/ UNCHANGED <<queue, dropped, when>>
        /\ UNCHANGED <<time, cur>> /\ cur = 0
    BY <1>2 DEF PrimaryEvent, HardSync, HardSyncEvent
  <2> QED BY <2>1, HardSyncSends
<1> QED BY <1>1, <1>2

\* The primary answers the newcomer with its mode.
LEMMA AttachSends ==
  ASSUME LinkOK, HandleAttach
  PROVE  /\ Sends(Popped, Peer(cur), Event("MODE_SET", cur, mode[cur], 0, 0))
         /\ cur = 0 /\ UNCHANGED <<time, cur, ctl>>
<1>1. cur \in Players /\ Head(queue[cur]) \in EventsFor(cur)
        /\ QueuesOK(Popped) /\ Head(queue[cur]).type = "ATTACH"
  BY Taken DEF HandleAttach, Takes
<1>2. Head(queue[cur]).from = Peer(cur) /\ Peer(cur) \in Players /\ cur = 0
  BY <1>1 DEF EventsFor, Peer, Players
<1>3. mode[cur] \in Modes \cup {NoMode}
  BY <1>1 DEF LinkOK, TypeOK
<1> DEFINE e == Event("MODE_SET", cur, mode[cur], 0, 0)
<1>4. e \in EventsFor(Peer(cur))
  BY <1>1, <1>3, EventKind DEF LinkOK
<1>5. /\ Deliver(Popped, Peer(cur), e) \/ Lose(Popped, Peer(cur))
      /\ UNCHANGED <<time, cur, ctl>>
  BY <1>2 DEF HandleAttach
<1> HIDE DEF e
<1> QED BY <1>1, <1>2, <1>4, <1>5 DEF Sends, e
-----------------------------------------------------------------------------
\* The wake-up times (WakeCoversQueue).

\* A queue is ordered by the time of its events.
Ordered(q) == \A i, j \in 1..Len(q) : i < j => q[i].ts <= q[j].ts

\* The timing event of a machine at t, due at w, comes in time for the head
\* of its queue q.
InTime(w, t, q) ==
  (q # << >> /\ q[1].type # "ATTACH") => w <= t + 1 \/ w <= q[1].ts

\* The inductive form of WakeCoversQueue: it holds inside a slice too, and a
\* callback only runs once its machine's timing event was due.
WakeInv ==
  /\ \A m \in Players : Ordered(queue[m]) /\ InTime(when[m], time[m], queue[m])
  /\ ctl = "callback" => when[cur] <= time[cur]

\* The entries of a queue in which e was linked at i.
LEMMA InsertedAt ==
  ASSUME NEW S, NEW q \in Seq(S), NEW i \in 1..(Len(q) + 1), NEW e \in S
  PROVE  \A j \in 1..(Len(q) + 1) :
           InsertAt(q, i, e)[j] = IF j < i THEN q[j]
                                  ELSE IF j = i THEN e ELSE q[j - 1]
<1> DEFINE a == SubSeq(q, 1, i - 1)
           b == SubSeq(q, i, Len(q))
<1>1. a \in Seq(S) /\ Len(a) = i - 1 /\ \A j \in 1..(i - 1) : a[j] = q[j]
  OBVIOUS
<1>2. b \in Seq(S) /\ Len(b) = Len(q) - i + 1
        /\ \A j \in 1..(Len(q) - i + 1) : b[j] = q[i + j - 1]
  OBVIOUS
<1> DEFINE c == a \o <<e>>
<1>3. InsertAt(q, i, e) = c \o b
  BY DEF InsertAt
<1> HIDE DEF a, b
<1>4. i \in Nat /\ i >= 1 /\ i <= Len(q) + 1 /\ Len(q) \in Nat
  OBVIOUS
<1>5. c \in Seq(S) /\ Len(c) = i /\ c[i] = e
        /\ \A j \in 1..(i - 1) : c[j] = q[j]
  BY <1>1, <1>4
<1> HIDE DEF c
<1>6. TAKE j \in 1..(Len(q) + 1)
<1>7. CASE j <= i
  <2>1. (c \o b)[j] = c[j]
    BY <1>2, <1>4, <1>5, <1>7
  <2> QED BY <1>3, <1>4, <1>5, <1>7, <2>1
<1>8. CASE j > i
  <2>1. (c \o b)[j] = b[j - i]
    BY <1>2, <1>4, <1>5, <1>8
  <2>2. b[j - i] = q[j - 1]
    <3>1. j - i \in 1..(Len(q) - i + 1) /\ i + (j - i) - 1 = j - 1
      BY <1>4, <1>8
    <3> QED BY <1>2, <3>1
  <2> QED BY <1>3, <1>4, <1>8, <2>1, <2>2
<1> QED BY <1>4, <1>7, <1>8

\* Linking an event in where _enqueueEvent does keeps a queue ordered.
LEMMA InsertKeepsOrder ==
  ASSUME NEW q \in Seq(EventRecords), Ordered(q), NEW e \in EventRecords,
         NEW i \in InsertPoints(q, e)
  PROVE  Ordered(InsertAt(q, i, e))
<1> DEFINE r == InsertAt(q, i, e)
<1>1. /\ i \in 1..(Len(q) + 1) /\ Len(q) \in Nat
      /\ \A j \in 1..(i - 1) : q[j].ts <= e.ts
      /\ i <= Len(q) => e.ts < q[i].ts
  BY DEF InsertPoints
<1>2. Len(r) = Len(q) + 1
  BY <1>1, InsertAtType
<1>3. \A j \in 1..(Len(q) + 1) : r[j] = IF j < i THEN q[j]
                                        ELSE IF j = i THEN e ELSE q[j - 1]
  BY <1>1, InsertedAt
<1>4. e.ts \in Int /\ \A j \in 1..Len(q) : q[j].ts \in Int
  <2>1. \A j \in 1..Len(q) : q[j] \in EventRecords
    OBVIOUS
  <2> QED BY <2>1 DEF EventRecords
<1>5. \A j \in 1..Len(q) : j >= i => e.ts <= q[j].ts
  BY <1>1, <1>4 DEF Ordered
<1> HIDE DEF r
<1>6. ASSUME NEW j \in 1..Len(r), NEW k \in 1..Len(r), j < k
      PROVE  r[j].ts <= r[k].ts
  <2>1. CASE k < i
    <3>1. r[j] = q[j] /\ r[k] = q[k] /\ j \in 1..Len(q) /\ k \in 1..Len(q)
      BY <1>1, <1>2, <1>3, <1>6, <2>1
    <3> QED BY <1>6, <3>1 DEF Ordered
  <2>2. CASE k = i
    BY <1>1, <1>2, <1>3, <1>6, <2>2
  <2>3. CASE k > i /\ j < i
    <3>1. r[j] = q[j] /\ r[k] = q[k - 1] /\ j <= k - 1
            /\ j \in 1..Len(q) /\ k - 1 \in 1..Len(q)
      BY <1>1, <1>2, <1>3, <1>6, <2>3
    <3> QED BY <1>4, <3>1 DEF Ordered
  <2>4. CASE k > i /\ j = i
    <3>1. r[j] = e /\ r[k] = q[k - 1] /\ k - 1 \in 1..Len(q) /\ k - 1 >= i
      BY <1>1, <1>2, <1>3, <1>6, <2>4
    <3> QED BY <1>5, <3>1
  <2>5. CASE k > i /\ j > i
    <3>1. r[j] = q[j - 1] /\ r[k] = q[k - 1] /\ j - 1 < k - 1
            /\ j - 1 \in 1..Len(q) /\ k - 1 \in 1..Len(q)
      BY <1>1, <1>2, <1>3, <1>6, <2>5
    <3> QED BY <3>1 DEF Ordered
  <2> QED BY <1>1, <1>2, <2>1, <2>2, <2>3, <2>4, <2>5
<1> QED BY <1>6 DEF Ordered, r

\* Taking the head keeps a queue ordered.
LEMMA TailKeepsOrder ==
  ASSUME NEW q \in Seq(EventRecords), Ordered(q), q # << >>
  PROVE  Ordered(Tail(q))
<1>1. Len(Tail(q)) = Len(q) - 1 /\ Len(q) \in Nat
        /\ \A j \in 1..(Len(q) - 1) : Tail(q)[j] = q[j + 1]
  OBVIOUS
<1> QED BY <1>1 DEF Ordered

\* _rescheduleForQueueHead wakes the target of a delivered event in time and
\* never moves a timing event that is due.
LEMMA DeliveryWakes ==
  ASSUME LinkOK, NEW qs, QueuesOK(qs), \A p \in Players : Ordered(qs[p]),
         NEW m \in Players, NEW e \in EventsFor(m), Deliver(qs, m, e)
  PROVE  /\ \A p \in Players : Ordered(queue'[p])
         /\ InTime(when'[m], time[m], queue'[m])
         /\ when[m] <= time[m] => when'[m] = when[m]
         /\ \A p \in Players : p # m => /\ queue'[p] = qs[p]
                                        /\ when'[p] = when[p]
<1>1. /\ QueuesOK(queue') /\ when' \in [Players -> Int] /\ queue'[m] # << >>
      /\ \A p \in Players : p # m => queue'[p] = qs[p]
  BY Delivered DEF LinkOK
<1>2. /\ qs \in [Players -> Seq(EventRecords)] /\ e \in EventRecords
      /\ when[m] \in Int /\ time[m] \in Int /\ when \in [Players -> Int]
  BY DEF QueuesOK, EventsFor, LinkOK, TypeOK
<1>3. Ordered(queue'[m])
  <2>1. PICK i \in InsertPoints(qs[m], e) :
          queue' = [qs EXCEPT ![m] = InsertAt(qs[m], i, e)]
    BY <1>2 DEF Deliver
  <2>2. queue'[m] = InsertAt(qs[m], i, e)
    BY <1>2, <2>1
  <2>3. Ordered(InsertAt(qs[m], i, e))
    BY <1>2, InsertKeepsOrder
  <2> QED BY <2>2, <2>3
<1>4. /\ when'[m] = WhenForHead(m, queue'[m])
      /\ \A p \in Players : p # m => when'[p] = when[p]
  BY <1>2 DEF Deliver
<1>5. queue'[m][1].ts \in Int
  <2>1. queue'[m] \in Seq(EventRecords)
    BY <1>1 DEF QueuesOK
  <2>2. queue'[m][1] \in EventRecords
    BY <1>1, <2>1
  <2> QED BY <2>2 DEF EventRecords
<1> DEFINE first == queue'[m][1].ts
           wake == Max({time[m] + 1, first})
<1>6. wake \in {time[m] + 1, first}
  <2>1. time[m] + 1 \in Int /\ first \in Int
    BY <1>2, <1>5
  <2> QED BY <2>1, MaxOfTwo
<1>7. CASE when[m] <= time[m]
  <2>1. when'[m] = when[m]
    BY <1>4, <1>7 DEF WhenForHead
  <2>2. when'[m] <= time[m] + 1
    BY <1>2, <1>7, <2>1
  <2> QED BY <1>1, <1>3, <1>4, <2>1, <2>2 DEF InTime
<1>8. CASE ~(when[m] <= time[m])
  <2>1. when'[m] = Min({when[m], wake})
    BY <1>4, <1>8 DEF WhenForHead
  <2> HIDE DEF wake, first
  <2>2. wake \in Int
    BY <1>2, <1>5, <1>6 DEF first
  <2>3. when'[m] <= wake
    BY <1>2, <2>1, <2>2, MinOfTwo
  <2>4. when'[m] <= time[m] + 1 \/ when'[m] <= first
    BY <1>6, <2>3
  <2>5. InTime(when'[m], time[m], queue'[m])
    BY <2>4 DEF InTime, first
  <2> QED BY <1>1, <1>3, <1>4, <1>8, <2>5
<1> QED BY <1>7, <1>8

\* A step that leaves queues and timing events alone, and no clock goes back.
LEMMA QuietKeepsWake ==
  ASSUME LinkOK, WakeInv, UNCHANGED <<queue, when>>,
         \A m \in Players : time'[m] \in Int /\ time'[m] >= time[m],
         ctl' = "callback" => when'[cur'] <= time'[cur']
  PROVE  WakeInv'
<1>1. ASSUME NEW m \in Players
      PROVE  Ordered(queue'[m]) /\ InTime(when'[m], time'[m], queue'[m])
  <2>1. InTime(when[m], time[m], queue[m]) /\ Ordered(queue[m])
    BY DEF WakeInv
  <2>2. when[m] \in Int /\ time[m] \in Int
    BY DEF LinkOK, TypeOK
  <2> QED BY <2>1, <2>2 DEF InTime
<1> QED BY <1>1 DEF WakeInv

\* A step that delivers one event, or loses it, and moves no clock; qs are
\* the queues before the delivery.
LEMMA DeliveryKeepsWake ==
  ASSUME LinkOK, WakeInv, NEW qs, NEW m, NEW e, Sends(qs, m, e),
         \A p \in Players : /\ Ordered(qs[p])
                            /\ InTime(when[p], time[p], qs[p]),
         UNCHANGED <<time, cur>>,
         ctl' = "callback" => when[cur] <= time[cur]
  PROVE  WakeInv'
<1> USE DEF Sends
<1>1. CASE Deliver(qs, m, e)
  <2>1. /\ \A p \in Players : Ordered(queue'[p])
        /\ InTime(when'[m], time[m], queue'[m])
        /\ when[m] <= time[m] => when'[m] = when[m]
        /\ \A p \in Players : p # m => /\ queue'[p] = qs[p]
                                       /\ when'[p] = when[p]
    BY <1>1, DeliveryWakes
  <2>2. \A p \in Players : InTime(when'[p], time'[p], queue'[p])
    BY <2>1
  <2>3. when[cur] <= time[cur] => when'[cur] = when[cur]
    BY <2>1 DEF LinkOK, TypeOK
  <2> QED BY <2>1, <2>2, <2>3 DEF WakeInv
<1>2. CASE Lose(qs, m)
  BY <1>2 DEF Lose, WakeInv
<1> QED BY <1>1, <1>2

\* While the CPU runs no clock goes back.
LEMMA TimeGrows ==
  ASSUME LinkOK, Cpu
  PROVE  \A m \in Players : time'[m] \in Int /\ time'[m] >= time[m]
<1>1. time \in [Players -> Int] /\ cur \in Players /\ MaxLate \in Nat
  BY IntervalAssumption DEF LinkOK, TypeOK
<1>2. \E t \in Int : t >= time[cur] /\ time' = [time EXCEPT ![cur] = t]
  <2>1. CASE CpuRuns
    <3>1. PICK t \in (time[cur] + 1)..(Horizon(cur) + MaxLate) :
            time' = [time EXCEPT ![cur] = t]
      BY <2>1 DEF CpuRuns
    <3>2. t \in Int /\ t >= time[cur]
      BY <1>1
    <3> QED BY <3>1, <3>2
  <2>2. CASE InstructionEnds
    <3>1. \E late \in 0..MaxLate : time' = [time EXCEPT ![cur] = @ + late]
      <4>1. time' = time => time' = [time EXCEPT ![cur] = @ + 0]
        BY <1>1
      <4> QED BY <1>1, <2>2, <4>1 DEF InstructionEnds
    <3>2. PICK late \in 0..MaxLate :
            time' = [time EXCEPT ![cur] = time[cur] + late]
      BY <3>1
    <3>3. time[cur] + late \in Int /\ time[cur] + late >= time[cur]
      BY <1>1
    <3> QED BY <3>2, <3>3
  <2>3. CASE Halted
    <3> DEFINE t == Horizon(cur)
    <3>1. t \in Int /\ t >= time[cur] /\ time' = [time EXCEPT ![cur] = t]
      BY <1>1, <2>3 DEF Halted
    <3> HIDE DEF t
    <3> QED BY <3>1
  <2> QED BY <2>1, <2>2, <2>3 DEF Cpu
<1> QED BY <1>1, <1>2

\* The scheduler and the CPU.
LEMMA RunKeepsWake ==
  ASSUME LinkOK, WakeInv, Scheduler \/ Cpu
  PROVE  WakeInv'
<1>1. time \in [Players -> Int] /\ cur \in Players
  BY DEF LinkOK, TypeOK
<1>2. CASE Scheduler
  <2>1. UNCHANGED <<time, when, queue>> /\ ctl' # "callback"
    BY <1>2 DEF Scheduler, FrameStart, Round, Turn, Check, SliceEnds,
         NextTurn, clockVars, wireVars
  <2> QED BY <1>1, <2>1, QuietKeepsWake
<1>3. CASE Cpu
  <2>1. UNCHANGED <<when, queue>> /\ ctl' # "callback"
    BY <1>3 DEF Cpu, CpuRuns, InstructionEnds, Halted, wireVars
  <2>2. \A m \in Players : time'[m] \in Int /\ time'[m] >= time[m]
    BY <1>3, TimeGrows
  <2> QED BY <2>1, <2>2, QuietKeepsWake
<1> QED BY <1>2, <1>3

\* The callbacks from a serial register write, the end of a transfer and the
\* beginning of a lockstep event.
LEMMA SendsKeepWake ==
  ASSUME LinkOK, WakeInv,
         SerialWrite \/ Finish \/ PrimaryEvent \/ SecondaryEvent
  PROVE  WakeInv'
<1>1. /\ cur \in Players /\ time \in [Players -> Int]
      /\ \A p \in Players : /\ Ordered(queue[p])
                            /\ InTime(when[p], time[p], queue[p])
  BY DEF LinkOK, TypeOK, WakeInv
<1>2. CASE \E md \in GameModes : SetMode(md)
  BY <1>1, <1>2, SetModeSends, DeliveryKeepsWake
<1>3. CASE Start
  BY <1>1, <1>3, StartSends, DeliveryKeepsWake
<1>4. CASE Finish \/ PrimaryEvent
  <2>1. ctl' = "callback" => when[cur] <= time[cur]
    BY <1>4 DEF Finish, PrimaryEvent, HardSync, WaitOnPlayers, LockstepDue
  <2>2. CASE Sends(queue, 1, HardSyncEvent)
    BY <1>1, <1>4, <2>1, <2>2, SyncSends, DeliveryKeepsWake
  <2>3. CASE UNCHANGED <<queue, dropped, when>>
    BY <1>1, <1>4, <2>1, <2>3, SyncSends, QuietKeepsWake
  <2> QED BY <1>4, <2>2, <2>3, SyncSends
<1>5. CASE SecondaryEvent
  <2>1. UNCHANGED <<queue, when, time, cur>> /\ when[cur] <= time[cur]
    BY <1>5 DEF SecondaryEvent, clockVars, wireVars, LockstepDue
  <2> QED BY <1>1, <2>1, QuietKeepsWake
<1> QED BY <1>2, <1>3, <1>4, <1>5 DEF SerialWrite

\* The queues once the head was taken are still ordered and covered: the
\* callback's own timing event is due.
LEMMA PoppedInTime ==
  ASSUME LinkOK, WakeInv, ctl = "callback", HasPendingEvents(cur)
  PROVE  /\ QueuesOK(Popped) /\ cur \in Players /\ when[cur] <= time[cur]
         /\ \A p \in Players : /\ Ordered(Popped[p])
                               /\ InTime(when[p], time[p], Popped[p])
<1>1. cur \in Players /\ queue \in [Players -> Seq(EventRecords)]
        /\ when \in [Players -> Int] /\ time \in [Players -> Int]
  BY DEF LinkOK, TypeOK
<1>2. QueuesOK(Popped) /\ when[cur] <= time[cur] /\ Ordered(queue[cur])
  BY <1>1, QueuesKept DEF WakeInv
<1>3. Popped[cur] = Tail(queue[cur])
        /\ \A p \in Players : p # cur => Popped[p] = queue[p]
  BY <1>1 DEF Popped
<1>4. Ordered(Popped[cur])
  BY <1>1, <1>2, <1>3, TailKeepsOrder DEF HasPendingEvents
<1>5. InTime(when[cur], time[cur], Popped[cur])
  BY <1>1, <1>2 DEF InTime
<1>6. \A p \in Players : /\ Ordered(Popped[p])
                         /\ InTime(when[p], time[p], Popped[p])
  BY <1>3, <1>4, <1>5 DEF WakeInv
<1> QED BY <1>1, <1>2, <1>6

\* An event is handled.
LEMMA HandleKeepsWake ==
  ASSUME LinkOK, WakeInv, Handle
  PROVE  WakeInv'
<1>1. ctl = "callback" /\ HasPendingEvents(cur)
  BY DEF Handle, HandleAttach, HandleModeSet, HandleHardSync,
     HandleTransferStart, Takes
<1>2. /\ QueuesOK(Popped) /\ cur \in Players /\ when[cur] <= time[cur]
      /\ \A p \in Players : /\ Ordered(Popped[p])
                            /\ InTime(when[p], time[p], Popped[p])
  BY <1>1, PoppedInTime
<1>3. CASE HandleAttach
  BY <1>2, <1>3, AttachSends, DeliveryKeepsWake
<1>4. CASE HandleModeSet \/ HandleHardSync \/ HandleTransferStart
  <2>1. queue' = Popped /\ UNCHANGED <<time, when, ctl, cur>>
    BY <1>4 DEF HandleModeSet, HandleHardSync, HandleTransferStart, clockVars
  <2> QED BY <1>2, <2>1 DEF WakeInv
<1> QED BY <1>3, <1>4 DEF Handle

\* The callback ends: its timing event is scheduled no later than the first
\* event still queued.
LEMMA EventEndsKeepsWake ==
  ASSUME LinkOK, WakeInv, EventEnds
  PROVE  WakeInv'
<1> DEFINE n == IF HasPendingEvents(cur)
                THEN Min({next, Head(queue[cur]).ts - time[cur]}) ELSE next
           sleeps == Sleeps(n)
           delay == Max({n, IF sleeps THEN MIN_SLEEP ELSE 1})
<1>1. /\ when' = [when EXCEPT ![cur] = time[cur] + delay]
      /\ UNCHANGED <<time, queue, cur>> /\ ctl' # "callback"
  BY DEF EventEnds, wireVars
<1>2. /\ cur \in Players /\ time[cur] \in Int /\ next \in Int
      /\ when \in [Players -> Int] /\ queue[cur] \in Seq(EventRecords)
  BY DEF LinkOK, TypeOK
<1>3. CASE HasPendingEvents(cur)
  <2> DEFINE due == Head(queue[cur]).ts
  <2>1. due \in Int /\ queue[cur][1].ts = due
    <3>1. queue[cur] # << >>
      BY <1>3 DEF HasPendingEvents
    <3>2. Head(queue[cur]) \in EventRecords
            /\ Head(queue[cur]) = queue[cur][1]
      BY <1>2, <3>1
    <3> QED BY <3>2 DEF EventRecords
  <2> HIDE DEF due
  <2>2. ~sleeps /\ n = Min({next, due - time[cur]})
    BY <1>3 DEF Sleeps, due
  <2>3. delay = Max({n, 1})
    BY <2>2
  <2> HIDE DEF delay, sleeps, n
  <2>4. due - time[cur] \in Int
    BY <1>2, <2>1
  <2>5. n \in Int /\ n <= due - time[cur]
    BY <1>2, <2>2, <2>4, MinOfTwo
  <2>6. delay \in {n, 1}
    <3>1. 1 \in Int
      OBVIOUS
    <3> QED BY <2>3, <2>5, <3>1, MaxOfTwo
  <2>7. time[cur] + delay <= time[cur] + 1 \/ time[cur] + delay <= due
    BY <1>2, <2>1, <2>5, <2>6
  <2>8. InTime(when'[cur], time'[cur], queue'[cur])
    BY <1>1, <1>2, <2>1, <2>7 DEF InTime
  <2> QED BY <1>1, <1>2, <2>8 DEF WakeInv
<1>4. CASE ~HasPendingEvents(cur)
  <2> HIDE DEF delay
  <2>1. InTime(when'[cur], time'[cur], queue'[cur])
    BY <1>1, <1>4 DEF InTime, HasPendingEvents
  <2> QED BY <1>1, <1>2, <2>1 DEF WakeInv
<1> QED BY <1>3, <1>4

\* The invariant of the wake-ups holds at first and is kept.
LEMMA WakeInit == Init => WakeInv
<1> SUFFICES ASSUME Init PROVE WakeInv
  OBVIOUS
<1>1. ASSUME NEW m \in Players
      PROVE  Ordered(queue[m]) /\ InTime(when[m], time[m], queue[m])
  BY DEF Init, Ordered, InTime, Players
<1> QED BY <1>1 DEF Init, WakeInv

LEMMA WakeNext == LinkOK /\ WakeInv /\ [Next]_lockstepVars => WakeInv'
<1> SUFFICES ASSUME LinkOK, WakeInv, [Next]_lockstepVars PROVE WakeInv'
  OBVIOUS
<1>1. CASE Scheduler \/ Cpu
  BY <1>1, RunKeepsWake
<1>2. CASE SerialWrite \/ Finish
  BY <1>2, SendsKeepWake
<1>3. CASE LockstepEvent
  BY <1>3, SendsKeepWake, HandleKeepsWake, EventEndsKeepsWake
     DEF LockstepEvent
<1>4. CASE UNCHANGED lockstepVars
  BY <1>4 DEF WakeInv, lockstepVars, clockVars, wireVars
<1> QED BY <1>1, <1>2, <1>3, <1>4 DEF Next

\* A machine's timing event is never later than the first event it has to
\* handle, so _enqueueEvent and the end of _lockstepEvent never strand one.
THEOREM WakeIsInTime == Spec => []WakeCoversQueue
<1>1. LinkOK /\ WakeInv => WakeCoversQueue
  <2> SUFFICES ASSUME LinkOK, WakeInv, NEW m \in Players,
                      HasPendingEvents(m), queue[m][1].type # "ATTACH"
               PROVE  when[m] <= Max({time[m] + 1, queue[m][1].ts})
    BY DEF WakeCoversQueue, WakeInv, Ordered
  <2>1. when[m] <= time[m] + 1 \/ when[m] <= queue[m][1].ts
    BY DEF WakeInv, InTime, HasPendingEvents
  <2>2. when[m] \in Int /\ time[m] \in Int /\ queue[m] \in Seq(EventRecords)
    BY DEF LinkOK, TypeOK
  <2>3. queue[m][1].ts \in Int
    <3>1. queue[m][1] \in EventRecords
      BY <2>2 DEF HasPendingEvents
    <3> QED BY <3>1 DEF EventRecords
  <2> DEFINE wake == Max({time[m] + 1, queue[m][1].ts})
  <2>4. /\ wake \in {time[m] + 1, queue[m][1].ts}
        /\ wake >= time[m] + 1 /\ wake >= queue[m][1].ts
    <3>1. time[m] + 1 \in Int /\ queue[m][1].ts \in Int
      BY <2>2, <2>3
    <3> QED BY <3>1, MaxOfTwo
  <2> QED BY <2>1, <2>2, <2>3, <2>4
<1> QED BY <1>1, WakeInit, WakeNext, LinkInvariant, PTL DEF Spec
-----------------------------------------------------------------------------
(* The whole session.                                                      *)

\* A machine outside its slice has its timing event in the future.
Ahead ==
  \A m \in Players : (cur = m /\ ctl \in SlicePlaces) \/ when[m] > time[m]

\* Without a link there is no barrier, no clock and no callback.
Unlinked ==
  ~linked => /\ ctl = "idle" /\ ~waiting /\ ~transferActive /\ cycle = 0
             /\ \A m \in Players : ~asleep[m]

\* What DriverSaveState can have written for player m; only player 0's state
\* holds the coordinator, and its mask never names player 0.
CoordinatorStates ==
  [cycle : Int, waiting : {{}, {1}}, nextHardSync : Int,
   multiData : [Players -> Nat], normalData : Nat, transferMode : Modes,
   transferActive : BOOLEAN, syncArmed : BOOLEAN]

DriverStates(m) ==
  [player : {m}, nextEvent : Nat \ {0}, asleep : BOOLEAN,
   dataReceived : BOOLEAN, mode : Modes, other : Modes \cup {NoMode},
   events : {q \in Seq(EventsFor(m)) : Len(q) <= Capacity},
   coordinator : IF m = 0 THEN CoordinatorStates ELSE {NoCoordinator}]

MachineStates == [time : Int, complete : Int, pending : Nat]

SavedKind ==
  saved.linked =>
    \A m \in Players : /\ saved.machines[m] \in MachineStates
                       /\ saved.drivers[m] \in DriverStates(m)

\* A saved link is one that a frame can go on from.
SavedLink ==
  saved.linked =>
    LET own == saved.drivers[0]
        peer == saved.drivers[1]
        up == own.coordinator.waiting # {}
    IN /\ up <=> own.asleep
       /\ up => ~peer.asleep
       /\ up => \E i \in 1..Len(peer.events) : Ackable(peer.events[i])
       /\ own.coordinator.transferActive => up
       /\ own.coordinator.cycle <= saved.machines[0].time
       /\ own.coordinator.transferMode = own.mode

\* The invariant of the session: the link's, and what its operations rely on.
SessionOK ==
  /\ LinkOK
  /\ Unlinked
  /\ Ahead
  /\ transferMode = mode[0]
  /\ SavedKind
  /\ SavedLink

\* Between two frames no machine is in its slice.
LEMMA AllAhead ==
  ASSUME Ahead, ctl \notin SlicePlaces
  PROVE  \A m \in Players : when[m] > time[m]
BY DEF Ahead

\* A delivery moves no timing event of a machine that is ahead into the past.
LEMMA DeliveryAhead ==
  ASSUME LinkOK, NEW qs, NEW m, NEW e, Sends(qs, m, e)
  PROVE  \A p \in Players : when[p] > time[p] => when'[p] > time[p]
<1> USE DEF Sends
<1>1. CASE Lose(qs, m)
  BY <1>1 DEF Lose
<1>2. CASE Deliver(qs, m, e)
  <2>1. QueuesOK(queue') /\ queue'[m] # << >>
    BY <1>2, Delivered DEF LinkOK
  <2>2. when \in [Players -> Int] /\ time[m] \in Int /\ when[m] \in Int
    BY DEF LinkOK, TypeOK
  <2>3. /\ when'[m] = WhenForHead(m, queue'[m])
        /\ \A p \in Players : p # m => when'[p] = when[p]
    BY <1>2, <2>2 DEF Deliver
  <2>4. queue'[m][1].ts \in Int
    <3>1. queue'[m] \in Seq(EventRecords)
      BY <2>1 DEF QueuesOK
    <3>2. queue'[m][1] \in EventRecords
      BY <2>1, <3>1
    <3> QED BY <3>2 DEF EventRecords
  <2> DEFINE first == queue'[m][1].ts
             wake == Max({time[m] + 1, first})
  <2>5. wake \in Int /\ wake > time[m]
    <3>1. time[m] + 1 \in Int /\ first \in Int
      BY <2>2, <2>4
    <3>2. wake \in {time[m] + 1, first} /\ wake >= time[m] + 1
      BY <3>1, MaxOfTwo
    <3> QED BY <2>2, <3>1, <3>2
  <2>6. ASSUME when[m] > time[m] PROVE when'[m] > time[m]
    <3>1. when'[m] = Min({when[m], wake})
      BY <2>2, <2>3, <2>6 DEF WhenForHead
    <3> HIDE DEF wake
    <3>2. when'[m] \in {when[m], wake}
      BY <2>2, <2>5, <3>1, MinOfTwo
    <3> QED BY <2>5, <2>6, <3>2
  <2> QED BY <2>3, <2>6
<1> QED BY <1>1, <1>2

\* A step inside a slice only touches the timing events of the machine that
\* runs, or brings its peer's forward.
LEMMA SliceKeepsAhead ==
  ASSUME LinkOK, Ahead, ctl \in SlicePlaces, ctl' \in SlicePlaces,
         UNCHANGED cur,
         \A p \in Players : p # cur => time'[p] = time[p],
         \/ \A p \in Players : p # cur => when'[p] = when[p]
         \/ \E qs, m, e : Sends(qs, m, e)
  PROVE  Ahead'
<1>1. ASSUME NEW p \in Players, p # cur PROVE when'[p] > time'[p]
  <2>1. when[p] > time[p]
    BY <1>1 DEF Ahead
  <2>2. CASE \A r \in Players : r # cur => when'[r] = when[r]
    BY <1>1, <2>1, <2>2
  <2>3. CASE \E qs, m, e : Sends(qs, m, e)
    BY <1>1, <2>1, <2>3, DeliveryAhead
  <2> QED BY <2>2, <2>3
<1> QED BY <1>1 DEF Ahead

\* The steps of a frame are steps of the linked pair.
LEMMA FrameIsNext ==
  ASSUME Frame
  PROVE  Next
BY DEF Frame, LinkedFrame, Next, Scheduler

\* The steps of a frame.
LEMMA FrameKeepsAhead ==
  ASSUME LinkOK, Ahead, Frame
  PROVE  Ahead'
<1>1. cur \in Players /\ time \in [Players -> Int] /\ when \in [Players -> Int]
  BY DEF LinkOK, TypeOK
<1>2. ctl' \notin {"abort", "blocked"}
  BY FrameIsNext, LinkNext DEF LinkOK, LinkInv, NeverStuck
<1>3. CASE LinkedFrame \/ Round \/ Turn \/ Check
  <2>1. UNCHANGED <<time, when>>
          /\ ctl \in {"idle", "round", "turn", "check"}
    BY <1>3 DEF LinkedFrame, FrameStart, Round, Turn, Check, clockVars
  <2>2. \A m \in Players : when[m] > time[m]
    BY <2>1, AllAhead DEF SlicePlaces
  <2> QED BY <2>1, <2>2 DEF Ahead
<1>4. CASE Cpu
  <2>1. /\ ctl \in SlicePlaces /\ ctl' \in SlicePlaces /\ UNCHANGED <<cur, when>>
        /\ \A p \in Players : p # cur => time'[p] = time[p]
    BY <1>1, <1>4 DEF Cpu, CpuRuns, InstructionEnds, Halted, SlicePlaces
  <2> QED BY <2>1, SliceKeepsAhead
<1>5. CASE SerialWrite
  <2>1. ctl \in SlicePlaces /\ ctl' \in SlicePlaces
    BY <1>2, <1>5 DEF SerialWrite, SetMode, Start, MayStart, WaitOnPlayers,
         SlicePlaces
  <2>2. UNCHANGED <<time, cur>> /\ \E qs, m, e : Sends(qs, m, e)
    BY <1>5, SetModeSends, StartSends DEF SerialWrite
  <2> QED BY <2>1, <2>2, SliceKeepsAhead
<1>6. CASE Finish \/ PrimaryEvent
  <2>1. ctl \in SlicePlaces /\ ctl' \in SlicePlaces
    BY <1>2, <1>6 DEF Finish, PrimaryEvent, HardSync, WaitOnPlayers,
         SlicePlaces
  <2>2. /\ UNCHANGED <<time, cur>>
        /\ UNCHANGED when \/ \E qs, m, e : Sends(qs, m, e)
    BY <1>6, SyncSends
  <2> QED BY <2>1, <2>2, SliceKeepsAhead
<1>7. CASE SecondaryEvent \/ HandleModeSet \/ HandleHardSync
             \/ HandleTransferStart
  <2>1. /\ ctl \in SlicePlaces /\ ctl' \in SlicePlaces
        /\ UNCHANGED <<cur, time, when>>
    BY <1>7 DEF SecondaryEvent, HandleModeSet, HandleHardSync,
         HandleTransferStart, Takes, clockVars, SlicePlaces
  <2> QED BY <2>1, SliceKeepsAhead
<1>8. CASE HandleAttach
  <2>1. ctl \in SlicePlaces
    BY <1>8 DEF HandleAttach, Takes, SlicePlaces
  <2>2. UNCHANGED <<time, cur, ctl>> /\ \E qs, m, e : Sends(qs, m, e)
    BY <1>8, AttachSends
  <2> QED BY <2>1, <2>2, SliceKeepsAhead
<1>9. CASE EventEnds
  <2>1. /\ ctl \in SlicePlaces /\ ctl' \in SlicePlaces /\ UNCHANGED <<cur, time>>
        /\ \A p \in Players : p # cur => when'[p] = when[p]
    BY <1>1, <1>2, <1>9 DEF EventEnds, SlicePlaces
  <2> QED BY <2>1, SliceKeepsAhead
<1> QED BY <1>3, <1>4, <1>5, <1>6, <1>7, <1>8, <1>9
      DEF Frame, LockstepEvent, Handle

\* A slice that ends left no callback due; a crashed machine ends its frame.
LEMMA SliceReturnsStep ==
  ASSUME LinkOK, Ahead, SliceReturns
  PROVE  /\ LinkOK' /\ Ahead'
         /\ UNCHANGED <<waiting, transferActive, asleep, cycle, mode,
                        transferMode>>
<1>1. CASE crashed[cur]
  <2>1. /\ ctl = "tick" /\ ~LockstepDue /\ ctl' = "idle" /\ early' = FALSE
        /\ UNCHANGED <<clockVars, modeVars, wireVars, syncVars, dataVars,
                       runVars, cur>>
    BY <1>1 DEF SliceReturns
  <2>2. TypeOK'
    BY <2>1 DEF LinkOK, TypeOK, clockVars, modeVars, wireVars, syncVars,
         dataVars, runVars, loopVars, Places
  <2>3. LinkInv'
    BY <2>1 DEF LinkOK, LinkInv, BarrierInv, SchedulerInv, SlicePlaces,
         NeverStuck, clockVars, wireVars, syncVars, dataVars
  <2>4. Ahead'
    <3>1. cur \in Players /\ time[cur] \in Int /\ when[cur] \in Int
      BY DEF LinkOK, TypeOK
    <3>2. when[cur] > time[cur]
      BY <2>1, <3>1 DEF LockstepDue
    <3> QED BY <2>1, <3>2 DEF Ahead, clockVars
  <2> QED BY <2>1, <2>2, <2>3, <2>4 DEF LinkOK, syncVars, dataVars, modeVars
<1>2. CASE SliceEnds
  <2>1. LinkOK'
    BY <1>2, SchedulerStep DEF Scheduler
  <2>2. Ahead'
    <3>1. cur \in Players /\ time[cur] \in Int /\ when[cur] \in Int
      BY DEF LinkOK, TypeOK
    <3>2. when[cur] > time[cur]
      BY <1>2, <3>1 DEF SliceEnds, LockstepDue
    <3> QED BY <1>2, <3>2 DEF SliceEnds, Ahead, clockVars
  <2> QED BY <1>2, <2>1, <2>2 DEF SliceEnds, syncVars, dataVars, modeVars
<1> QED BY <1>1, <1>2 DEF SliceReturns

\* Detaching leaves nothing of the link.
LEMMA DetachedStep ==
  ASSUME LinkOK, Detached,
         UNCHANGED <<dropped, transfers, clean, runVars, cur, early>>
  PROVE  LinkOK' /\ Unlinked' /\ Ahead' /\ (transferMode = mode[0])'
<1>1. /\ UNLOCKED_INTERVAL \in Nat \ {0} /\ Capacity \in Nat
  BY IntervalAssumption
<1>2. queue' \in [Players -> Seq(EventRecords)]
        /\ \A m \in Players : /\ queue'[m] \in Seq(EventsFor(m))
                              /\ Len(queue'[m]) <= Capacity
  BY <1>1 DEF Detached
<1>3. TypeOK'
  <2>1. /\ time' \in [Players -> Int] /\ when' \in [Players -> Int]
        /\ complete' \in [Players -> Int] /\ pending' \in [Players -> Nat]
        /\ asleep' \in [Players -> BOOLEAN]
        /\ other' \in [Players -> Modes \cup {NoMode}]
        /\ mode' \in [Players -> Modes] /\ transferMode' \in Modes
        /\ dataReceived' \in [Players -> BOOLEAN]
        /\ multiData' \in [Players -> Nat] /\ normalData' \in Nat
    BY <1>1 DEF Detached, Modes, Nothing
  <2>2. UNCHANGED <<dropped, transfers, clean, runVars, cur, early>>
    OBVIOUS
  <2> QED BY <1>2, <2>1, <2>2 DEF LinkOK, TypeOK, Detached, runVars, loopVars,
        Places
<1>4. /\ time'[0] = 0 /\ ~asleep'[0] /\ ~asleep'[1] /\ mode'[0] = "GPIO"
      /\ \A m \in Players : when'[m] = UNLOCKED_INTERVAL /\ time'[m] = 0
  BY DEF Detached, Players
<1>5. LinkInv'
  BY <1>2, <1>4 DEF Detached, LinkInv, BarrierInv, SchedulerInv, SlicePlaces,
       NeverStuck
<1>6. Ahead'
  BY <1>1, <1>4 DEF Ahead
<1> QED BY <1>3, <1>4, <1>5, <1>6 DEF Detached, LinkOK, Unlinked

\* A fresh link starts with the newcomer's announcement only.
LEMMA RelinkStep ==
  ASSUME LinkOK, Unlinked, Relink
  PROVE  LinkOK' /\ linked' /\ Ahead' /\ (transferMode = mode[0])'
<1> DEFINE hello == [type |-> "ATTACH", from |-> 1, ts |-> 0, mode |-> NoMode,
                     finish |-> 0, txn |-> 0]
<1>1. /\ UNLOCKED_INTERVAL \in Nat \ {0} /\ Capacity \in Nat \ {0}
      /\ HARD_SYNC_INTERVAL \in Nat
  BY IntervalAssumption
<1>2. PICK md \in [Players -> GameModes \cup {"GPIO"}] :
        /\ mode' = md
        /\ transferMode' = md[0]
        /\ other' = [m \in Players |-> IF m = 0 THEN "NORMAL" ELSE md[0]]
  BY DEF Relink, Attach
<1>3. mode' \in [Players -> Modes] /\ transferMode' = mode'[0]
        /\ transferMode' \in Modes
        /\ other' \in [Players -> Modes \cup {NoMode}]
  BY <1>2, IntervalAssumption DEF Modes, Players
<1>4. /\ ~linked /\ cycle = 0 /\ ~waiting /\ ~transferActive
      /\ ~asleep[0] /\ ~asleep[1]
  BY DEF Relink, Unlinked, Players
<1>5. /\ linked' = TRUE /\ ctl' = "reset" /\ cur' = 1
      /\ time' = [m \in Players |-> 0]
      /\ queue' = [m \in Players |-> IF m = 0 THEN <<hello>> ELSE << >>]
      /\ when' = [m \in Players |-> IF m = 0 THEN 1 ELSE UNLOCKED_INTERVAL]
      /\ nextHardSync' = HARD_SYNC_INTERVAL
      /\ UNCHANGED <<complete, pending, asleep, dataReceived, multiData,
                     normalData, cycle, waiting, transferActive, syncArmed>>
      /\ UNCHANGED <<dropped, transfers, clean, runVars, early>>
  BY DEF Relink, Attach
<1>6. queue' \in [Players -> Seq(EventRecords)]
        /\ \A m \in Players : /\ queue'[m] \in Seq(EventsFor(m))
                              /\ Len(queue'[m]) <= Capacity
  <2>1. hello \in EventRecords /\ hello \in EventsFor(0)
    BY DEF EventRecords, EventsFor, Players, Peer
  <2> HIDE DEF hello
  <2>2. <<hello>> \in Seq(EventRecords) /\ <<hello>> \in Seq(EventsFor(0))
          /\ Len(<<hello>>) = 1
    BY <2>1
  <2> QED BY <1>1, <1>5, <2>2 DEF Players
<1> HIDE DEF hello
<1>7. time' \in [Players -> Int] /\ when' \in [Players -> Int]
        /\ \A m \in Players : when'[m] > time'[m]
  BY <1>1, <1>5
<1>8. TypeOK'
  BY <1>1, <1>3, <1>5, <1>6, <1>7 DEF LinkOK, TypeOK, runVars, loopVars,
       Players, Places
<1>9. LinkInv'
  BY <1>4, <1>5, <1>6 DEF LinkInv, BarrierInv, SchedulerInv, SlicePlaces,
       NeverStuck, Players
<1> QED BY <1>3, <1>5, <1>7, <1>8, <1>9 DEF LinkOK, Ahead

\* Measuring from another instant keeps a queue's kind and length.
LEMMA RebasedQueue ==
  ASSUME cycle \in Int, NEW m \in Players, NEW q \in Seq(EventRecords),
         q \in Seq(EventsFor(m))
  PROVE  LET r == [i \in DOMAIN q |-> Rebased(q[i])]
         IN /\ r \in Seq(EventRecords) /\ r \in Seq(EventsFor(m))
            /\ Len(r) = Len(q)
            /\ \A i \in 1..Len(q) : /\ r[i].from = q[i].from
                                    /\ r[i].type = q[i].type
<1> DEFINE r == [i \in DOMAIN q |-> Rebased(q[i])]
<1>1. DOMAIN q = 1..Len(q) /\ Len(q) \in Nat
  BY LenProperties
<1>2. ASSUME NEW i \in 1..Len(q)
      PROVE  /\ r[i] \in EventsFor(m)
             /\ r[i].from = q[i].from /\ r[i].type = q[i].type
  <2>1. q[i] \in EventsFor(m)
    BY <1>2
  <2>2. q[i] \in EventRecords /\ r[i] = Rebased(q[i])
    <3>1. r[i] = Rebased(q[i])
      BY <1>1, <1>2
    <3>2. q[i] \in EventRecords
      BY <2>1 DEF EventsFor
    <3> QED BY <3>1, <3>2
  <2>3. q[i].ts - cycle \in Int /\ q[i].finish - cycle \in Int
    BY <2>2 DEF EventRecords
  <2>4. Rebased(q[i]) \in EventRecords
          /\ Rebased(q[i]).from = q[i].from /\ Rebased(q[i]).type = q[i].type
    BY <2>2, <2>3 DEF EventRecords, Rebased
  <2> QED BY <2>1, <2>2, <2>4 DEF EventsFor
<1>3. r \in [1..Len(q) -> EventsFor(m)]
  <2>1. r = [i \in 1..Len(q) |-> Rebased(q[i])]
    BY <1>1
  <2>2. \A i \in 1..Len(q) : r[i] = Rebased(q[i])
    BY <1>1
  <2> QED BY <1>2, <2>1, <2>2
<1>4. r \in Seq(EventsFor(m)) /\ Len(r) = Len(q)
  BY <1>1, <1>3, SeqDef
<1>5. r \in Seq(EventRecords)
  BY <1>4, SeqMonotonic DEF EventsFor
<1> QED BY <1>2, <1>4, <1>5

\* mgba_reset measures everything from the shared clock.
LEMMA ResetStepOK ==
  ASSUME LinkOK, Ahead, Reset, transferMode = mode[0]
  PROVE  LinkOK' /\ linked' /\ Ahead' /\ (transferMode = mode[0])'
<1>1. /\ linked /\ ctl = "idle" /\ ctl' = "reset" /\ cur' = 1 /\ cycle' = 0
      /\ time' = [m \in Players |-> time[m] - cycle]
      /\ when' = [m \in Players |-> when[m] - cycle]
      /\ queue' = [m \in Players |->
                     [i \in DOMAIN queue[m] |-> Rebased(queue[m][i])]]
      /\ UNCHANGED <<complete, modeVars, dropped, asleep, waiting,
                     nextHardSync, syncArmed, dataVars, runVars, early, linked>>
  BY DEF Reset, Operation
<1>2. /\ cycle \in Int /\ time \in [Players -> Int] /\ when \in [Players -> Int]
      /\ QueuesOK(queue) /\ cycle <= time[0]
  BY QueuesKept DEF LinkOK, LinkInv, TypeOK
<1>3. time' \in [Players -> Int] /\ when' \in [Players -> Int]
        /\ cycle' <= time'[0]
  BY <1>1, <1>2 DEF Players
<1>4. ASSUME NEW m \in Players
      PROVE  /\ queue'[m] \in Seq(EventRecords)
             /\ queue'[m] \in Seq(EventsFor(m)) /\ Len(queue'[m]) <= Capacity
             /\ Len(queue'[m]) = Len(queue[m])
             /\ \A i \in 1..Len(queue[m]) :
                  /\ queue'[m][i].from = queue[m][i].from
                  /\ queue'[m][i].type = queue[m][i].type
  <2>1. queue'[m] = [i \in DOMAIN queue[m] |-> Rebased(queue[m][i])]
    BY <1>1
  <2>2. queue[m] \in Seq(EventRecords) /\ queue[m] \in Seq(EventsFor(m))
          /\ Len(queue[m]) <= Capacity
    BY <1>2 DEF QueuesOK
  <2> DEFINE r == [i \in DOMAIN queue[m] |-> Rebased(queue[m][i])]
  <2>3. /\ r \in Seq(EventRecords) /\ r \in Seq(EventsFor(m))
        /\ Len(r) = Len(queue[m])
        /\ \A i \in 1..Len(queue[m]) : /\ r[i].from = queue[m][i].from
                                       /\ r[i].type = queue[m][i].type
    BY <1>2, <2>2, RebasedQueue
  <2>4. queue'[m] = r
    BY <2>1
  <2> HIDE DEF r
  <2> QED BY <2>2, <2>3, <2>4
<1>5. queue' \in [Players -> Seq(EventRecords)]
  <2>1. queue' = [m \in Players |-> queue'[m]]
    BY <1>1
  <2> QED BY <1>4, <2>1
<1>6. TypeOK'
  BY <1>1, <1>3, <1>4, <1>5 DEF LinkOK, TypeOK, modeVars, dataVars, runVars,
       loopVars, Players, Places
<1>7. BarrierInv'
  <2>1. waiting => \E i \in 1..Len(queue'[1]) : Ackable(queue'[1][i])
    <3>1. 1 \in Players
      BY DEF Players
    <3> QED BY <1>4, <3>1 DEF LinkOK, LinkInv, BarrierInv, Ackable
  <2> QED BY <1>1, <2>1 DEF LinkOK, LinkInv, BarrierInv, dataVars
<1>8. LinkInv'
  BY <1>1, <1>3, <1>4, <1>7 DEF LinkInv, SchedulerInv, SlicePlaces, NeverStuck
<1>9. Ahead'
  <2>1. \A m \in Players : when[m] > time[m]
    BY <1>1, AllAhead DEF SlicePlaces
  <2> QED BY <1>1, <1>2, <2>1 DEF Ahead
<1> QED BY <1>1, <1>6, <1>8, <1>9 DEF LinkOK, modeVars

\* A core's reset takes the shared clock's time.
LEMMA DriverResetStep ==
  ASSUME LinkOK, Ahead, DriverReset, transferMode = mode[0]
  PROVE  LinkOK' /\ Ahead' /\ (transferMode = mode[0])'
<1>1. /\ ctl = "reset" /\ ctl' = "port" /\ UNCHANGED cur
      /\ time' = [time EXCEPT ![cur] = cycle] /\ syncArmed' = FALSE
      /\ when' = [when EXCEPT ![cur] = cycle + UNLOCKED_INTERVAL]
      /\ complete' = [complete EXCEPT ![cur] = Nothing]
      /\ pending' = [pending EXCEPT ![cur] = Nothing]
      /\ other' = [other EXCEPT ![cur] = IF cur = 1 THEN transferMode
                                                   ELSE other[cur]]
      /\ UNCHANGED <<mode, transferMode, wireVars, asleep, cycle, waiting,
                     nextHardSync, dataReceived, transferActive, multiData,
                     normalData, transfers, clean, runVars, early>>
  BY DEF DriverReset
<1>2. /\ UNLOCKED_INTERVAL \in Nat \ {0} /\ cycle \in Int /\ cur \in Players
      /\ time \in [Players -> Int] /\ when \in [Players -> Int]
      /\ other \in [Players -> Modes \cup {NoMode}] /\ transferMode \in Modes
      /\ complete \in [Players -> Int] /\ pending \in [Players -> Nat]
  BY IntervalAssumption DEF LinkOK, TypeOK
<1>3. /\ time' \in [Players -> Int] /\ when' \in [Players -> Int]
      /\ cycle' <= time'[0]
  BY <1>1, <1>2 DEF LinkOK, LinkInv, Players
<1>4. /\ other' \in [Players -> Modes \cup {NoMode}]
      /\ complete' \in [Players -> Int] /\ pending' \in [Players -> Nat]
  BY <1>1, <1>2 DEF Nothing
<1>5. TypeOK'
  BY <1>1, <1>3, <1>4 DEF LinkOK, TypeOK, wireVars, runVars, loopVars, Places
<1>6. LinkInv'
  BY <1>1, <1>3 DEF LinkOK, LinkInv, BarrierInv, SchedulerInv, SlicePlaces,
       NeverStuck, wireVars
<1>7. Ahead'
  <2>1. \A m \in Players : when[m] > time[m]
    BY <1>1, AllAhead DEF SlicePlaces
  <2> QED BY <1>1, <1>2, <2>1 DEF Ahead
<1> QED BY <1>1, <1>5, <1>6, <1>7 DEF LinkOK

\* The port's reset announces the mode; the primary waits only when no
\* barrier is up.
LEMMA PortResetStep ==
  ASSUME LinkOK, Ahead, PortReset, transferMode = mode[0]
  PROVE  LinkOK' /\ Ahead' /\ (transferMode = mode[0])'
<1> DEFINE e == Event("MODE_SET", cur, "GPIO", 0, 0)
<1>1. /\ ctl = "port" /\ cur' = 0
      /\ mode' = [mode EXCEPT ![cur] = "GPIO"]
      /\ transferMode' = IF cur = 0 THEN "GPIO" ELSE transferMode
      /\ UNCHANGED <<time, complete, other, syncArmed, dataVars, runVars>>
  BY DEF PortReset
<1>2. /\ cur \in Players /\ QueuesOK(queue) /\ mode \in [Players -> Modes]
      /\ AfterPort \in {"reset", "audio"} /\ Peer(cur) \in Players
      /\ Peer(cur) = 1 <=> cur = 0
  BY QueuesKept DEF LinkOK, TypeOK, AfterPort, Peer, Players
<1>3. e \in EventsFor(Peer(cur))
  BY <1>2, EventKind DEF LinkOK, Modes
<1> HIDE DEF e
<1>4. \/ UNCHANGED <<queue, dropped, when>> \/ Sends(queue, Peer(cur), e)
  BY <1>2, <1>3 DEF PortReset, Sends, wireVars, e
<1>5. /\ QueuesOK(queue') /\ when' \in [Players -> Int]
      /\ dropped' \in BOOLEAN
      /\ \A p \in Players : p # Peer(cur) => queue'[p] = queue[p]
      /\ queue'[Peer(cur)] # << >> \/ queue' = queue
  <2>1. CASE UNCHANGED <<queue, dropped, when>>
    BY <1>2, <2>1 DEF LinkOK, TypeOK
  <2>2. CASE Lose(queue, Peer(cur))
    BY <1>2, <2>2, Lost DEF LinkOK
  <2>3. CASE Deliver(queue, Peer(cur), e)
    BY <1>2, <1>3, <2>3, Delivered DEF LinkOK, TypeOK
  <2> QED BY <1>4, <2>1, <2>2, <2>3 DEF Sends
<1>6. queue'[1] = queue[1]
        \/ \E i \in 1..Len(queue'[1]) : Ackable(queue'[1][i])
  <2>1. queue'[1] = queue[1] \/ queue'[1] # << >>
    BY <1>2, <1>5 DEF Players
  <2> QED BY <1>5, <2>1, AnyAckable
<1>7. mode' \in [Players -> Modes] /\ transferMode' \in Modes
        /\ transferMode' = mode'[0]
  BY <1>1, <1>2 DEF Modes, Players
<1>8. /\ BarrierInv' /\ ctl' = AfterPort /\ cycle' <= time[0]
      /\ cycle' \in Int /\ nextHardSync' \in Int /\ waiting' \in BOOLEAN
      /\ asleep' \in [Players -> BOOLEAN] /\ early' \in BOOLEAN
  <2>1. CASE /\ ctl' = AfterPort
             /\ UNCHANGED <<asleep, cycle, waiting, nextHardSync, early>>
    BY <1>1, <1>6, <2>1 DEF LinkOK, LinkInv, BarrierInv, TypeOK, dataVars
  <2>2. CASE /\ ~waiting /\ WaitOnPlayers(nextHardSync, AfterPort)
             /\ cur = 0 /\ Deliver(queue, Peer(cur), e)
    <3>1. nextHardSync \in Int
      BY DEF LinkOK, TypeOK
    <3>2. /\ cycle' = time[0] /\ nextHardSync' \in Int /\ waiting' = TRUE
          /\ asleep' \in [Players -> BOOLEAN] /\ asleep'[0] /\ ~asleep'[1]
          /\ early' = TRUE /\ ctl' = AfterPort
      BY <2>2, <3>1, Waited
    <3>3. queue'[1] # << >>
      BY <1>2, <1>3, <2>2, Delivered DEF LinkOK
    <3>4. \E i \in 1..Len(queue'[1]) : Ackable(queue'[1][i])
      BY <1>5, <3>3, AnyAckable
    <3>5. BarrierInv'
      BY <3>2, <3>4 DEF BarrierInv
    <3>6. time[0] \in Int
      BY DEF LinkOK, TypeOK, Players
    <3> QED BY <3>2, <3>5, <3>6
  <2> QED BY <2>1, <2>2 DEF PortReset, WaitsForPeer, e
<1>9. TypeOK'
  BY <1>1, <1>2, <1>5, <1>7, <1>8 DEF LinkOK, TypeOK, QueuesOK, dataVars,
       runVars, loopVars, Players, Places
<1>10. LinkInv'
  BY <1>1, <1>2, <1>5, <1>8 DEF LinkInv, QueuesOK, SchedulerInv, SlicePlaces,
       NeverStuck
<1>11. Ahead'
  <2>1. \A m \in Players : when[m] > time[m]
    BY <1>1, AllAhead DEF SlicePlaces
  <2>2. \A m \in Players : when'[m] > time[m]
    BY <1>4, <2>1, DeliveryAhead
  <2> QED BY <1>1, <2>2 DEF Ahead
<1> QED BY <1>7, <1>9, <1>10, <1>11 DEF LinkOK

\* The audio pipeline is no part of the link.
LEMMA ResetEndsStep ==
  ASSUME LinkOK, Ahead, ResetEnds
  PROVE  LinkOK' /\ Ahead'
<1>1. /\ ctl = "audio" /\ ctl' = "idle" /\ early' = FALSE
      /\ UNCHANGED <<clockVars, modeVars, wireVars, syncVars, dataVars,
                     runVars, cur>>
  BY DEF ResetEnds
<1>2. TypeOK'
  BY <1>1 DEF LinkOK, TypeOK, clockVars, modeVars, wireVars, syncVars,
       dataVars, runVars, loopVars, Places
<1>3. LinkInv'
  BY <1>1 DEF LinkOK, LinkInv, BarrierInv, SchedulerInv, SlicePlaces,
       NeverStuck, clockVars, wireVars, syncVars, dataVars
<1>4. Ahead'
  BY <1>1, AllAhead DEF Ahead, clockVars, SlicePlaces
<1> QED BY <1>2, <1>3, <1>4 DEF LinkOK

\* What serialize_link writes between two frames can be gone on from.
LEMMA SaveStep ==
  ASSUME LinkOK, Ahead, SaveState, transferMode = mode[0]
  PROVE  SavedKind' /\ SavedLink'
<1> SUFFICES ASSUME linked
             PROVE  SavedKind' /\ SavedLink'
  BY DEF SaveState, SavedKind, SavedLink
<1>1. /\ saved'.linked /\ ctl = "idle"
      /\ \A m \in Players : /\ saved'.machines[m] = MachineState(m)
                            /\ saved'.drivers[m] = DriverState(m)
  BY DEF SaveState
<1>2. Coordinator \in CoordinatorStates
  BY DEF Coordinator, CoordinatorStates, LinkOK, TypeOK
<1>3. ASSUME NEW m \in Players
      PROVE  MachineState(m) \in MachineStates
               /\ DriverState(m) \in DriverStates(m)
  <2>1. when[m] > time[m]
    BY <1>1, AllAhead DEF SlicePlaces
  <2>2. /\ when[m] \in Int /\ time[m] \in Int /\ complete[m] \in Int
        /\ pending[m] \in Nat /\ asleep[m] \in BOOLEAN
        /\ dataReceived[m] \in BOOLEAN /\ mode[m] \in Modes
        /\ other[m] \in Modes \cup {NoMode}
    BY DEF LinkOK, TypeOK
  <2>3. when[m] - time[m] \in Nat \ {0}
    BY <2>1, <2>2
  <2>4. queue[m] \in {q \in Seq(EventsFor(m)) : Len(q) <= Capacity}
    BY QueuesKept DEF QueuesOK
  <2>5. (IF m = 0 THEN Coordinator ELSE NoCoordinator)
          \in (IF m = 0 THEN CoordinatorStates ELSE {NoCoordinator})
    BY <1>2
  <2>6. MachineState(m) \in MachineStates
    BY <2>2 DEF MachineState, MachineStates
  <2> HIDE DEF Coordinator, NoCoordinator, CoordinatorStates
  <2>7. DriverState(m) \in DriverStates(m)
    BY <2>2, <2>3, <2>4, <2>5 DEF DriverState, DriverStates
  <2> QED BY <2>6, <2>7
<1>4. SavedKind'
  <2>1. \A m \in Players : /\ saved'.machines[m] \in MachineStates
                           /\ saved'.drivers[m] \in DriverStates(m)
    BY <1>1, <1>3
  <2> QED BY <2>1 DEF SavedKind, DriverStates, MachineStates,
        CoordinatorStates, EventsFor, EventRecords
<1>5. SavedLink'
  <2>1. /\ saved'.drivers[0] = DriverState(0)
        /\ saved'.drivers[1] = DriverState(1)
        /\ saved'.machines[0] = MachineState(0)
    BY <1>1 DEF Players
  <2>2. /\ saved'.drivers[0].coordinator = Coordinator
        /\ saved'.drivers[0].asleep = asleep[0]
        /\ saved'.drivers[0].mode = mode[0]
        /\ saved'.drivers[1].asleep = asleep[1]
        /\ saved'.drivers[1].events = queue[1]
        /\ saved'.machines[0].time = time[0]
    BY <2>1 DEF DriverState, MachineState
  <2>3. /\ Coordinator.waiting # {} <=> waiting
        /\ Coordinator.transferActive = transferActive
        /\ Coordinator.cycle = cycle
        /\ Coordinator.transferMode = transferMode
    BY DEF Coordinator
  <2> HIDE DEF Coordinator
  <2> QED BY <2>2, <2>3 DEF SavedLink, LinkOK, LinkInv, BarrierInv
<1> QED BY <1>4, <1>5

\* DriverLoadState schedules the timing event in the future, no later than it
\* was saved and in time for the head of the queue.
LEMMA LoadedWhenBounds ==
  ASSUME NEW t \in Int, NEW s, s.nextEvent \in Nat \ {0},
         s.events \in Seq(EventRecords)
  PROVE  /\ LoadedWhen(t, s) \in Int /\ LoadedWhen(t, s) > t
         /\ LoadedWhen(t, s) - t <= s.nextEvent
         /\ s.events # << >> =>
              LoadedWhen(t, s) - t <= Max({1, s.events[1].ts - t})
<1> DEFINE delay == Max({1, s.nextEvent})
           head == IF s.events = << >> THEN delay ELSE s.events[1].ts - t
           least == Max({1, head})
<1>1. 1 \in Int /\ s.nextEvent \in Int
  OBVIOUS
<1>2. delay = s.nextEvent
  <2>1. delay \in {1, s.nextEvent} /\ delay >= 1 /\ delay >= s.nextEvent
    BY <1>1, MaxOfTwo
  <2> HIDE DEF delay
  <2> QED BY <1>1, <2>1
<1> HIDE DEF delay
<1>3. head \in Int
  <2>1. ASSUME s.events # << >> PROVE s.events[1].ts \in Int
    <3>1. s.events[1] \in EventRecords
      BY <2>1
    <3> QED BY <3>1 DEF EventRecords
  <2> QED BY <1>1, <1>2, <2>1
<1>4. s.events # << >> => least = Max({1, s.events[1].ts - t})
  OBVIOUS
<1> HIDE DEF head
<1>5. least \in Int /\ least >= 1
  <2>1. least \in {1, head} /\ least >= 1
    BY <1>1, <1>3, MaxOfTwo
  <2> QED BY <1>3, <2>1
<1>6. LoadedWhen(t, s) = t + Min({delay, least})
  BY DEF LoadedWhen, delay, head
<1> HIDE DEF least
<1> DEFINE wait == Min({delay, least})
<1>7. wait \in {delay, least} /\ wait <= delay /\ wait <= least
  BY <1>1, <1>2, <1>5, MinOfTwo
<1> HIDE DEF wait
<1>8. wait \in Int /\ wait >= 1 /\ wait <= s.nextEvent /\ wait <= least
  BY <1>1, <1>2, <1>5, <1>7
<1>9. LoadedWhen(t, s) = t + wait
  BY <1>6 DEF wait
<1> QED BY <1>4, <1>8, <1>9

\* Loading brings back a link that a frame can go on from, player for player
\* what was saved.
LEMMA LoadStep ==
  ASSUME LinkOK, SavedKind, SavedLink, LoadLinked
  PROVE  /\ LinkOK' /\ linked' /\ Ahead' /\ (transferMode = mode[0])'
         /\ \A m \in Players :
              /\ time'[m] = saved.machines[m].time
              /\ when'[m] = LoadedWhen(time'[m], saved.drivers[m])
              /\ DriverState(m)' = [saved.drivers[m] EXCEPT
                                      !.nextEvent = when'[m] - time'[m]]
<1> DEFINE c == saved.drivers[0].coordinator
<1>1. /\ ctl = "idle" /\ saved.linked /\ linked' = TRUE
      /\ LoadDrivers(saved.machines, saved.drivers)
      /\ UNCHANGED <<dropped, transfers, clean, runVars, ctl, cur, early>>
  BY DEF LoadLinked, Operation
<1>2. \A m \in Players : /\ saved.machines[m] \in MachineStates
                         /\ saved.drivers[m] \in DriverStates(m)
  BY <1>1 DEF SavedKind
<1>3. 0 \in Players /\ 1 \in Players
  BY DEF Players
<1>4. c \in CoordinatorStates
  BY <1>2, <1>3 DEF DriverStates
<1>5. /\ c.cycle \in Int /\ c.waiting \in {{}, {1}} /\ c.nextHardSync \in Int
      /\ c.multiData \in [Players -> Nat] /\ c.normalData \in Nat
      /\ c.transferMode \in Modes /\ c.transferActive \in BOOLEAN
      /\ c.syncArmed \in BOOLEAN
      /\ c = [cycle |-> c.cycle, waiting |-> c.waiting,
              nextHardSync |-> c.nextHardSync, multiData |-> c.multiData,
              normalData |-> c.normalData, transferMode |-> c.transferMode,
              transferActive |-> c.transferActive, syncArmed |-> c.syncArmed]
  BY <1>4 DEF CoordinatorStates
<1>6. ASSUME NEW m \in Players
      PROVE  LET d == saved.drivers[m]
                 s == saved.machines[m]
             IN /\ s.time \in Int /\ s.complete \in Int /\ s.pending \in Nat
                /\ d.player = m /\ d.nextEvent \in Nat \ {0}
                /\ d.asleep \in BOOLEAN /\ d.dataReceived \in BOOLEAN
                /\ d.mode \in Modes /\ d.other \in Modes \cup {NoMode}
                /\ d.events \in Seq(EventsFor(m))
                /\ d.events \in Seq(EventRecords) /\ Len(d.events) <= Capacity
                /\ d.coordinator = IF m = 0 THEN c ELSE NoCoordinator
                /\ d = [player |-> d.player, nextEvent |-> d.nextEvent,
                        asleep |-> d.asleep, dataReceived |-> d.dataReceived,
                        mode |-> d.mode, other |-> d.other,
                        events |-> d.events, coordinator |-> d.coordinator]
  <2> DEFINE d == saved.drivers[m]
  <2>1. d \in DriverStates(m) /\ saved.machines[m] \in MachineStates
    BY <1>2
  <2>2. /\ d.player = m /\ d.nextEvent \in Nat \ {0}
        /\ d.asleep \in BOOLEAN /\ d.dataReceived \in BOOLEAN
        /\ d.mode \in Modes /\ d.other \in Modes \cup {NoMode}
        /\ d.events \in {q \in Seq(EventsFor(m)) : Len(q) <= Capacity}
        /\ d.coordinator \in IF m = 0 THEN CoordinatorStates
                                      ELSE {NoCoordinator}
        /\ d = [player |-> d.player, nextEvent |-> d.nextEvent,
                asleep |-> d.asleep, dataReceived |-> d.dataReceived,
                mode |-> d.mode, other |-> d.other,
                events |-> d.events, coordinator |-> d.coordinator]
    BY <2>1 DEF DriverStates
  <2>3. d.events \in Seq(EventRecords)
    BY <2>2, SeqMonotonic DEF EventsFor
  <2>4. d.coordinator = IF m = 0 THEN c ELSE NoCoordinator
    BY <2>2
  <2>5. /\ saved.machines[m].time \in Int /\ saved.machines[m].complete \in Int
        /\ saved.machines[m].pending \in Nat
    BY <2>1 DEF MachineStates
  <2> HIDE DEF d, c
  <2> QED BY <2>2, <2>3, <2>4, <2>5 DEF d
<1>7. ASSUME NEW m \in Players
      PROVE  /\ LoadedWhen(saved.machines[m].time, saved.drivers[m]) \in Int
             /\ LoadedWhen(saved.machines[m].time, saved.drivers[m])
                  > saved.machines[m].time
  BY <1>6, LoadedWhenBounds
<1>8. ASSUME NEW m \in Players
      PROVE  /\ time'[m] = saved.machines[m].time
             /\ complete'[m] = saved.machines[m].complete
             /\ pending'[m] = saved.machines[m].pending
             /\ when'[m] = LoadedWhen(time'[m], saved.drivers[m])
             /\ asleep'[m] = saved.drivers[m].asleep
             /\ dataReceived'[m] = saved.drivers[m].dataReceived
             /\ mode'[m] = saved.drivers[m].mode
             /\ other'[m] = saved.drivers[m].other
             /\ queue'[m] = saved.drivers[m].events
  BY <1>1, Zenon DEF LoadDrivers, LoadedAsleep
<1>9. /\ cycle' = c.cycle /\ waiting' = (c.waiting # {})
      /\ nextHardSync' = c.nextHardSync /\ multiData' = c.multiData
      /\ normalData' = c.normalData /\ transferMode' = c.transferMode
      /\ transferActive' = c.transferActive /\ syncArmed' = c.syncArmed
  BY <1>1 DEF LoadDrivers
<1> HIDE DEF c
<1>10. /\ time' \in [Players -> Int] /\ when' \in [Players -> Int]
       /\ complete' \in [Players -> Int] /\ pending' \in [Players -> Nat]
       /\ asleep' \in [Players -> BOOLEAN]
       /\ dataReceived' \in [Players -> BOOLEAN]
       /\ mode' \in [Players -> Modes]
       /\ other' \in [Players -> Modes \cup {NoMode}]
       /\ queue' \in [Players -> Seq(EventRecords)]
  <2>1. /\ time' = [m \in Players |-> time'[m]]
        /\ when' = [m \in Players |-> when'[m]]
        /\ complete' = [m \in Players |-> complete'[m]]
        /\ pending' = [m \in Players |-> pending'[m]]
        /\ asleep' = [m \in Players |-> asleep'[m]]
        /\ dataReceived' = [m \in Players |-> dataReceived'[m]]
        /\ mode' = [m \in Players |-> mode'[m]]
        /\ other' = [m \in Players |-> other'[m]]
        /\ queue' = [m \in Players |-> queue'[m]]
    BY <1>1, Zenon DEF LoadDrivers
  <2>2. ASSUME NEW m \in Players
        PROVE  /\ time'[m] \in Int /\ when'[m] \in Int /\ complete'[m] \in Int
               /\ pending'[m] \in Nat /\ asleep'[m] \in BOOLEAN
               /\ dataReceived'[m] \in BOOLEAN /\ mode'[m] \in Modes
               /\ other'[m] \in Modes \cup {NoMode}
               /\ queue'[m] \in Seq(EventRecords)
    <3>1. when'[m] \in Int
      BY <1>7, <1>8
    <3>2. /\ saved.machines[m].time \in Int /\ saved.machines[m].complete \in Int
          /\ saved.machines[m].pending \in Nat
          /\ saved.drivers[m].asleep \in BOOLEAN
          /\ saved.drivers[m].dataReceived \in BOOLEAN
          /\ saved.drivers[m].mode \in Modes
          /\ saved.drivers[m].other \in Modes \cup {NoMode}
          /\ saved.drivers[m].events \in Seq(EventRecords)
      BY <1>6
    <3> QED BY <1>8, <3>1, <3>2
  <2> QED BY <2>1, <2>2
<1>11. waiting' \in BOOLEAN
  BY <1>9
<1>12. TypeOK'
  BY <1>1, <1>5, <1>6, <1>8, <1>9, <1>10, <1>11
     DEF LinkOK, TypeOK, runVars, loopVars
<1>13. BarrierInv' /\ cycle' <= time'[0] /\ transferMode' = mode'[0]
  <2>1. /\ c.waiting # {} <=> saved.drivers[0].asleep
        /\ c.waiting # {} => ~saved.drivers[1].asleep
        /\ c.waiting # {} => \E i \in 1..Len(saved.drivers[1].events) :
                               Ackable(saved.drivers[1].events[i])
        /\ c.transferActive => c.waiting # {}
        /\ c.cycle <= saved.machines[0].time
        /\ c.transferMode = saved.drivers[0].mode
    BY <1>1 DEF SavedLink, c
  <2> QED BY <1>3, <1>8, <1>9, <2>1 DEF BarrierInv
<1>14. LinkInv'
  <2>1. \A m \in Players : queue'[m] \in Seq(EventsFor(m))
    BY <1>6, <1>8
  <2> QED BY <1>1, <1>13, <2>1 DEF LinkInv, SchedulerInv, SlicePlaces,
        NeverStuck
<1>15. Ahead'
  BY <1>7, <1>8 DEF Ahead
<1>16. ASSUME NEW m \in Players
       PROVE  DriverState(m)' = [saved.drivers[m] EXCEPT
                                   !.nextEvent = when'[m] - time'[m]]
  <2> DEFINE d == saved.drivers[m]
  <2>1. Coordinator' = c
    <3>1. (IF waiting' THEN {1} ELSE {}) = c.waiting
      BY <1>5, <1>9
    <3> QED BY <1>5, <1>9, <3>1 DEF Coordinator
  <2>2. /\ d.player = m
        /\ d.coordinator = IF m = 0 THEN c ELSE NoCoordinator
        /\ d = [player |-> d.player, nextEvent |-> d.nextEvent,
                asleep |-> d.asleep, dataReceived |-> d.dataReceived,
                mode |-> d.mode, other |-> d.other,
                events |-> d.events, coordinator |-> d.coordinator]
    BY <1>6
  <2>3. /\ asleep'[m] = d.asleep /\ dataReceived'[m] = d.dataReceived
        /\ mode'[m] = d.mode /\ other'[m] = d.other /\ queue'[m] = d.events
    BY <1>8
  <2>4. DriverState(m)' =
          [player |-> m, nextEvent |-> when'[m] - time'[m],
           asleep |-> asleep'[m], dataReceived |-> dataReceived'[m],
           mode |-> mode'[m], other |-> other'[m], events |-> queue'[m],
           coordinator |-> IF m = 0 THEN c ELSE NoCoordinator]
    BY <2>1 DEF DriverState, NoCoordinator
  <2> HIDE DEF d
  <2>5. [d EXCEPT !.nextEvent = when'[m] - time'[m]] =
          [player |-> d.player, nextEvent |-> when'[m] - time'[m],
           asleep |-> d.asleep, dataReceived |-> d.dataReceived,
           mode |-> d.mode, other |-> d.other,
           events |-> d.events, coordinator |-> d.coordinator]
    BY <2>2
  <2> QED BY <2>2, <2>3, <2>4, <2>5 DEF d
<1> QED BY <1>1, <1>8, <1>12, <1>13, <1>14, <1>15, <1>16 DEF LinkOK

\* The invariant holds initially.
LEMMA SessionInitOK == SessionInit => SessionOK
<1> SUFFICES ASSUME SessionInit PROVE SessionOK
  OBVIOUS
<1>1. LinkOK
  BY LinkInit DEF SessionInit
<1>2. Ahead
  <2>1. UNLOCKED_INTERVAL \in Nat \ {0}
    BY IntervalAssumption
  <2> QED BY <2>1 DEF SessionInit, Init, Ahead
<1>3. Unlinked /\ SavedKind /\ SavedLink /\ transferMode = mode[0]
  BY DEF SessionInit, Init, Unlinked, SavedKind, SavedLink, NoState, Players
<1> QED BY <1>1, <1>2, <1>3 DEF SessionOK

\* A frame begins on a linked pair only, and keeps the transfer mode the
\* primary's.
LEMMA FrameStep ==
  ASSUME SessionOK, Frame, UNCHANGED sessionVars
  PROVE  SessionOK'
<1> USE DEF SessionOK
<1>1. LinkOK' /\ Ahead'
  BY FrameIsNext, LinkNext, FrameKeepsAhead
<1>2. linked
  BY DEF Unlinked, Frame, LinkedFrame, Round, Turn, Check, Cpu, CpuRuns,
     InstructionEnds, Halted, SerialWrite, Start, MayStart, SetMode, Finish,
     LockstepEvent, PrimaryEvent, SecondaryEvent, Handle, HandleAttach,
     HandleModeSet, HandleHardSync, HandleTransferStart, Takes, EventEnds
<1>3. (transferMode = mode[0])'
  <2>1. CASE \E md \in GameModes : SetMode(md)
    BY <2>1 DEF SetMode, LinkOK, TypeOK, Players
  <2>2. CASE LinkedFrame \/ Round \/ Turn \/ Check \/ Cpu \/ Start \/ Finish
               \/ LockstepEvent
    <3>1. UNCHANGED <<mode, transferMode>>
      BY <2>2 DEF LinkedFrame, FrameStart, Round, Turn, Check, Cpu, CpuRuns,
           InstructionEnds, Halted, Start, Finish, LockstepEvent,
           PrimaryEvent, SecondaryEvent, Handle, HandleAttach, HandleModeSet,
           HandleHardSync, HandleTransferStart, EventEnds, modeVars
    <3> QED BY <3>1
  <2> QED BY <2>1, <2>2 DEF Frame, SerialWrite
<1>4. Unlinked' /\ SavedKind' /\ SavedLink'
  BY <1>2 DEF sessionVars, Unlinked, SavedKind, SavedLink
<1> QED BY <1>1, <1>3, <1>4

\* Every step of the session keeps the invariant.
LEMMA SessionStep == SessionOK /\ [SessionNext]_allVars => SessionOK'
<1> SUFFICES ASSUME SessionOK, [SessionNext]_allVars PROVE SessionOK'
  OBVIOUS
<1> USE DEF SessionOK
<1>1. CASE Frame /\ UNCHANGED sessionVars
  BY <1>1, FrameStep
<1>2. CASE SliceReturns
  <2>1. ctl = "tick" /\ UNCHANGED <<linked, saved>>
    BY <1>2 DEF SliceReturns, SliceEnds
  <2> QED BY <1>2, <2>1, SliceReturnsStep
        DEF Unlinked, SavedKind, SavedLink
<1>3. CASE Unlink \/ LoadUnlinked
  <2>1. Detached /\ UNCHANGED saved
          /\ UNCHANGED <<dropped, transfers, clean, runVars, cur, early>>
    BY <1>3 DEF Unlink, LoadUnlinked
  <2> QED BY <2>1, DetachedStep DEF SavedKind, SavedLink
<1>4. CASE Relink
  BY <1>4, RelinkStep DEF Relink, Unlinked, SavedKind, SavedLink
<1>5. CASE Reset
  BY <1>5, ResetStepOK DEF Reset, Unlinked, SavedKind, SavedLink
<1>6. CASE DriverReset
  <2>1. linked /\ UNCHANGED <<linked, saved>>
    BY <1>6 DEF DriverReset, Unlinked
  <2> QED BY <1>6, <2>1, DriverResetStep DEF Unlinked, SavedKind, SavedLink
<1>7. CASE PortReset
  <2>1. linked /\ UNCHANGED <<linked, saved>>
    BY <1>7 DEF PortReset, Unlinked, sessionVars
  <2> QED BY <1>7, <2>1, PortResetStep DEF Unlinked, SavedKind, SavedLink
<1>8. CASE ResetEnds
  <2>1. linked /\ UNCHANGED <<linked, saved, mode, transferMode>>
    BY <1>8 DEF ResetEnds, Unlinked, sessionVars, modeVars
  <2> QED BY <1>8, <2>1, ResetEndsStep DEF Unlinked, SavedKind, SavedLink
<1>9. CASE SaveState
  <2>1. UNCHANGED <<lockstepVars, linked>>
    BY <1>9 DEF SaveState
  <2>2. LinkOK'
    BY <2>1, LinkStutter
  <2>3. Ahead' /\ Unlinked' /\ (transferMode = mode[0])'
    BY <2>1 DEF Ahead, Unlinked, lockstepVars, clockVars, syncVars, dataVars,
         modeVars
  <2> QED BY <1>9, <2>2, <2>3, SaveStep
<1>10. CASE LoadLinked
  BY <1>10, LoadStep DEF LoadLinked, Unlinked, SavedKind, SavedLink
<1>11. CASE Crash \/ UNCHANGED allVars
  <2>1. UNCHANGED <<lockstepVars, linked, saved>>
    BY <1>11 DEF Crash, allVars, sessionVars
  <2>2. LinkOK'
    BY <2>1, LinkStutter
  <2>3. Ahead' /\ Unlinked' /\ (transferMode = mode[0])'
    BY <2>1 DEF Ahead, Unlinked, lockstepVars, clockVars, syncVars, dataVars,
         modeVars
  <2> QED BY <2>1, <2>2, <2>3 DEF SavedKind, SavedLink
<1> QED BY <1>1, <1>2, <1>3, <1>4, <1>5, <1>6, <1>7, <1>8, <1>9, <1>10, <1>11
      DEF SessionNext, ResetStep, Between

\* Link changes, resets, restored states and frames that failed half-way
\* leave a link whose next frame can run.
THEOREM SessionInvariant == SessionSpec => []SessionOK
BY SessionInitOK, SessionStep, PTL DEF SessionSpec

\* Over a whole session too, a barrier has an event at the secondary whose
\* handling releases it, and a transfer is in flight only under one.
THEOREM SessionBarriersAreReleased == SessionSpec => []BarrierInv
<1>1. SessionOK => BarrierInv
  BY DEF SessionOK, LinkOK, LinkInv
<1> QED BY <1>1, SessionInvariant, PTL

\* Over a whole session too, run_linked_frame never finds both machines
\* blocked and no mASSERT of the coordinator fails.
THEOREM SessionNeverStuck == SessionSpec => []NeverStuck
<1>1. SessionOK => NeverStuck
  BY DEF SessionOK, LinkOK, LinkInv
<1> QED BY <1>1, SessionInvariant, PTL

\* DriverValidateState accepts every state DriverSaveState wrote, also one
\* saved after a frame that failed with a barrier up.
THEOREM SavedStatesLoad == SessionSpec => []SavedStateLoads
<1>1. SessionOK => SavedStateLoads
  <2> SUFFICES ASSUME SavedKind, saved.linked, NEW m \in Players
               PROVE  ValidateState(m, saved.drivers[m])
    BY DEF SessionOK, SavedStateLoads
  <2> DEFINE d == saved.drivers[m]
  <2>1. d \in DriverStates(m)
    BY DEF SavedKind
  <2> HIDE DEF d
  <2>2. /\ d.player = m /\ d.events \in Seq(EventsFor(m))
        /\ Len(d.events) <= Capacity
        /\ d.coordinator \in IF m = 0 THEN CoordinatorStates
                                      ELSE {NoCoordinator}
    BY <2>1 DEF DriverStates
  <2>3. ASSUME NEW i \in 1..Len(d.events) PROVE EventValid(d.events[i])
    <3>1. d.events[i] \in EventsFor(m)
      BY <2>2
    <3> QED BY <3>1 DEF EventsFor, EventRecords, EventValid, Peer, Players
  <2>4. IF m = 0 THEN d.coordinator.waiting \subseteq Players \ {0}
                 ELSE d.coordinator = NoCoordinator
    <3>1. CASE m = 0
      <4>1. d.coordinator \in CoordinatorStates
        BY <2>2, <3>1
      <4>2. d.coordinator.waiting \in {{}, {1}}
        BY <4>1 DEF CoordinatorStates
      <4> QED BY <3>1, <4>2 DEF Players
    <3>2. CASE m # 0
      BY <2>2, <3>2
    <3> QED BY <3>1, <3>2
  <2> QED BY <2>2, <2>3, <2>4 DEF ValidateState, d
<1> QED BY <1>1, SessionInvariant, PTL

\* DriverLoadState brings back what DriverSaveState wrote, for both players,
\* and reschedules their timing events only to an earlier time in the future.
THEOREM RestoresResume == SessionSpec => RestoreResumes
<1> DEFINE Resumed ==
      \A m \in Players :
         LET s == DriverState(m)'
         IN /\ s = [saved.drivers[m] EXCEPT !.nextEvent = s.nextEvent]
            /\ s.nextEvent <= saved.drivers[m].nextEvent
            /\ s.events # << >> =>
                 s.nextEvent <= Max({1, s.events[1].ts - time'[m]})
<1>1. SessionOK /\ [SessionNext]_allVars => [LoadLinked => Resumed]_allVars
  <2> SUFFICES ASSUME SessionOK, LoadLinked, NEW m \in Players
               PROVE  LET s == DriverState(m)'
                      IN /\ s = [saved.drivers[m] EXCEPT
                                   !.nextEvent = s.nextEvent]
                         /\ s.nextEvent <= saved.drivers[m].nextEvent
                         /\ s.events # << >> =>
                              s.nextEvent <= Max({1, s.events[1].ts - time'[m]})
    OBVIOUS
  <2> DEFINE d == saved.drivers[m]
             s == DriverState(m)'
  <2>1. /\ time'[m] = saved.machines[m].time
        /\ when'[m] = LoadedWhen(time'[m], d)
        /\ s = [d EXCEPT !.nextEvent = when'[m] - time'[m]]
    BY LoadStep DEF SessionOK
  <2>2. d \in DriverStates(m) /\ saved.machines[m] \in MachineStates
    BY DEF SessionOK, SavedKind, LoadLinked
  <2> HIDE DEF d
  <2>3. s.nextEvent = when'[m] - time'[m] /\ s.events = queue'[m]
    BY DEF DriverState
  <2> HIDE DEF s
  <2>4. /\ d.nextEvent \in Nat \ {0} /\ d.events \in Seq(EventsFor(m))
        /\ saved.machines[m].time \in Int
        /\ [d EXCEPT !.nextEvent = when'[m] - time'[m]].events = d.events
    BY <2>2 DEF DriverStates, MachineStates
  <2>5. d.events \in Seq(EventRecords)
    BY <2>4, SeqMonotonic DEF EventsFor
  <2>6. /\ when'[m] - time'[m] <= d.nextEvent
        /\ d.events # << >> =>
             when'[m] - time'[m] <= Max({1, d.events[1].ts - time'[m]})
    BY <2>1, <2>4, <2>5, LoadedWhenBounds
  <2>7. s.events = d.events
    BY <2>1, <2>4
  <2> QED BY <2>1, <2>3, <2>6, <2>7 DEF d, s
<1> QED BY <1>1, SessionInvariant, PTL DEF SessionSpec, RestoreResumes
-----------------------------------------------------------------------------
(* What the players know of each other (SessionModesConverge).             *)

\* The mode changes of the peer that wait in the queue q.
News(q) == {i \in 1..Len(q) : q[i].type = "MODE_SET"}

\* Player m, who takes its peer's mode for o, will have learnt that it is md
\* once it handled its queue q; the announcement makes player 0 forget.
WillKnow(m, q, o, md) ==
  /\ \A i \in News(q) : (\A j \in News(q) : j <= i) => q[i].mode = md
  /\ News(q) = {} =>
       IF \E i \in 1..Len(q) : q[i].type = "ATTACH"
       THEN md = "GPIO"
       ELSE o = md \/ (m = 0 /\ o = NoMode /\ md = "GPIO")

\* No event of q is from after t, and only its first can be the announcement.
Fresh(q, t) ==
  \A i \in 1..Len(q) : q[i].ts <= t /\ (q[i].type = "ATTACH" => i = 1)

\* Both players know, or will know once they handled their queues.
Informed ==
  \A m \in Players : /\ Fresh(queue[m], time[Peer(m)])
                     /\ WillKnow(m, queue[m], other[m], mode[Peer(m)])

\* The inductive form of SessionModesConverge.  While the cores are reset the
\* secondary's queue is empty, and until its port was reset nothing is known
\* of a port it did not leave in general purpose mode.
NewsInv ==
  (linked /\ ~stale /\ ~dropped) =>
    /\ \A m \in Players : Fresh(queue[m], time[Peer(m)])
    /\ ctl \in {"reset", "port"} => /\ queue[1] = << >>
                                    /\ cur = 1 => Fresh(queue[0], cycle)
    /\ WillKnow(1, queue[1], other[1], mode[0])
    /\ \/ WillKnow(0, queue[0], other[0], mode[1])
       \/ ctl \in {"reset", "port"} /\ cur = 1 /\ mode[1] # "GPIO"

\* The same of the saved state.
SavedNews ==
  (saved.linked /\ ~saved.stale /\ ~dropped) =>
    \A m \in Players :
      LET d == saved.drivers[m]
      IN /\ Fresh(d.events, saved.machines[Peer(m)].time)
         /\ WillKnow(m, d.events, d.other, saved.drivers[Peer(m)].mode)

\* Outside a reset NewsInv is Informed.
LEMMA NewsOutsideReset ==
  ASSUME ctl \notin {"reset", "port"}
  PROVE  NewsInv <=> ((linked /\ ~stale /\ ~dropped) => Informed)
BY DEF NewsInv, Informed, Players, Peer

\* An event delivered after all those queued is linked in behind them.
LEMMA DeliveredLast ==
  ASSUME LinkOK, NEW qs, NEW m, NEW e, Sends(qs, m, e), Deliver(qs, m, e),
         Fresh(qs[m], e.ts)
  PROVE  queue' = [qs EXCEPT ![m] = Append(qs[m], e)]
<1>1. /\ m \in Players /\ qs \in [Players -> Seq(EventRecords)]
      /\ e \in EventRecords /\ qs[m] \in Seq(EventRecords)
  BY DEF Sends, QueuesOK, EventsFor
<1>3. PICK i \in InsertPoints(qs[m], e) :
        queue' = [qs EXCEPT ![m] = InsertAt(qs[m], i, e)]
  BY <1>1 DEF Deliver
<1> DEFINE q == qs[m]
<1>4. i = Len(q) + 1
  <2>1. i \in 1..(Len(q) + 1) /\ Len(q) \in Nat
          /\ (i <= Len(q) => e.ts < q[i].ts)
    BY <1>1 DEF InsertPoints
  <2>2. ASSUME i <= Len(q) PROVE FALSE
    <3>1. i \in 1..Len(q) /\ q[i] \in EventRecords
      BY <1>1, <2>1, <2>2
    <3>2. q[i].ts \in Int /\ e.ts \in Int /\ q[i].ts <= e.ts
      BY <1>1, <3>1 DEF EventRecords, Fresh
    <3> QED BY <2>1, <2>2, <3>2
  <2> QED BY <2>1, <2>2
<1> HIDE DEF q
<1>5. InsertAt(q, i, e) = Append(q, e)
  <2>1. q \in Seq(EventRecords) /\ Len(q) \in Nat
    BY <1>1 DEF q
  <2>2. i \in 1..(Len(q) + 1)
    BY <1>4, <2>1
  <2>3. InsertAt(q, i, e) \in Seq(EventRecords)
          /\ Len(InsertAt(q, i, e)) = Len(q) + 1
    BY <1>1, <2>1, <2>2, InsertAtType
  <2>4. \A j \in 1..(Len(q) + 1) :
          InsertAt(q, i, e)[j] = IF j < i THEN q[j]
                                 ELSE IF j = i THEN e ELSE q[j - 1]
    BY <1>1, <2>1, <2>2, InsertedAt
  <2>5. Append(q, e) \in Seq(EventRecords) /\ Len(Append(q, e)) = Len(q) + 1
          /\ \A j \in 1..(Len(q) + 1) :
               Append(q, e)[j] = IF j = Len(q) + 1 THEN e ELSE q[j]
    BY <1>1, <2>1
  <2>6. \A j \in 1..(Len(q) + 1) : InsertAt(q, i, e)[j] = Append(q, e)[j]
    BY <1>4, <2>1, <2>4, <2>5
  <2> HIDE DEF InsertAt
  <2> QED BY <2>3, <2>5, <2>6, SeqEqual
<1> QED BY <1>3, <1>5 DEF q

\* While nothing is dropped, an event sent after all those queued is linked
\* in behind them.
LEMMA SentLast ==
  ASSUME LinkOK, NEW qs, NEW m, NEW e, Sends(qs, m, e), ~dropped',
         Fresh(qs[m], e.ts)
  PROVE  queue' = [qs EXCEPT ![m] = Append(qs[m], e)]
BY DeliveredLast DEF Sends, Lose

\* Time passes.
LEMMA FreshLater ==
  ASSUME NEW q \in Seq(EventRecords), NEW t \in Int, NEW u \in Int, t <= u,
         Fresh(q, t)
  PROVE  Fresh(q, u)
<1>1. ASSUME NEW i \in 1..Len(q) PROVE q[i].ts \in Int
  <2>1. q[i] \in EventRecords
    BY <1>1
  <2> QED BY <2>1 DEF EventRecords
<1> QED BY <1>1 DEF Fresh

\* Appending and taking events keep a queue fresh.
LEMMA FreshAppend ==
  ASSUME NEW q \in Seq(EventRecords), NEW e \in EventRecords,
         Fresh(q, e.ts), e.type # "ATTACH"
  PROVE  Fresh(Append(q, e), e.ts)
<1>1. /\ Len(q) \in Nat /\ Len(Append(q, e)) = Len(q) + 1
      /\ \A j \in 1..(Len(q) + 1) :
           Append(q, e)[j] = IF j = Len(q) + 1 THEN e ELSE q[j]
  OBVIOUS
<1>2. e.ts \in Int
  BY DEF EventRecords
<1> QED BY <1>1, <1>2 DEF Fresh

LEMMA FreshTail ==
  ASSUME NEW q \in Seq(EventRecords), q # << >>, NEW t, Fresh(q, t)
  PROVE  /\ Fresh(Tail(q), t)
         /\ \A i \in 1..Len(Tail(q)) : Tail(q)[i].type # "ATTACH"
<1>1. /\ Len(q) \in Nat /\ Len(Tail(q)) = Len(q) - 1
      /\ \A i \in 1..(Len(q) - 1) : Tail(q)[i] = q[i + 1]
  OBVIOUS
<1>2. \A i \in 1..(Len(q) - 1) : i + 1 \in 1..Len(q) /\ i + 1 # 1
  BY <1>1
<1> QED BY <1>1, <1>2 DEF Fresh

\* The last mode change sent is the one a player will know.
LEMMA KnownByNews ==
  ASSUME NEW m, NEW q \in Seq(EventRecords), NEW e \in EventRecords, NEW o,
         e.type = "MODE_SET"
  PROVE  WillKnow(m, Append(q, e), o, e.mode)
<1>1. /\ Len(q) \in Nat /\ Len(Append(q, e)) = Len(q) + 1
      /\ Append(q, e)[Len(q) + 1] = e
  OBVIOUS
<1>2. Len(q) + 1 \in News(Append(q, e))
  BY <1>1 DEF News
<1>3. ASSUME NEW i \in News(Append(q, e)),
             \A j \in News(Append(q, e)) : j <= i
      PROVE  i = Len(q) + 1
  <2>1. i \in 1..(Len(q) + 1) /\ Len(q) + 1 <= i
    BY <1>1, <1>2, <1>3 DEF News
  <2> QED BY <1>1, <2>1
<1> QED BY <1>1, <1>2, <1>3 DEF WillKnow

\* Other events tell nothing about modes.
LEMMA KnownDespiteOther ==
  ASSUME NEW m, NEW q \in Seq(EventRecords), NEW e \in EventRecords, NEW o,
         NEW md, e.type \notin {"MODE_SET", "ATTACH"}, WillKnow(m, q, o, md)
  PROVE  WillKnow(m, Append(q, e), o, md)
<1>1. /\ Len(q) \in Nat /\ Len(Append(q, e)) = Len(q) + 1
      /\ \A j \in 1..(Len(q) + 1) :
           Append(q, e)[j] = IF j = Len(q) + 1 THEN e ELSE q[j]
  OBVIOUS
<1>2. News(Append(q, e)) = News(q)
  BY <1>1 DEF News
<1>3. (\E i \in 1..Len(Append(q, e)) : Append(q, e)[i].type = "ATTACH")
        <=> \E i \in 1..Len(q) : q[i].type = "ATTACH"
  BY <1>1
<1>4. \A i \in News(q) : Append(q, e)[i] = q[i]
  BY <1>1 DEF News
<1> QED BY <1>2, <1>3, <1>4 DEF WillKnow

\* What a player takes for its peer's mode once it handled the event e.
Learnt(o, e) == IF e.type = "ATTACH" THEN NoMode
                ELSE IF e.type = "MODE_SET" THEN e.mode ELSE o

\* Handling the first event brings a player closer to what it will know.
LEMMA KnownAfterHead ==
  ASSUME NEW m \in Players, NEW q \in Seq(EventsFor(m)), q # << >>, NEW t,
         Fresh(q, t), NEW o, NEW md, WillKnow(m, q, o, md)
  PROVE  WillKnow(m, Tail(q), Learnt(o, Head(q)), md)
<1>1. /\ Len(q) \in Nat /\ Len(Tail(q)) = Len(q) - 1 /\ Len(q) >= 1
      /\ \A i \in 1..(Len(q) - 1) : Tail(q)[i] = q[i + 1]
      /\ Head(q) = q[1] /\ q \in Seq(EventRecords)
  BY SeqMonotonic DEF EventsFor
<1>2. \A i \in 1..Len(Tail(q)) : Tail(q)[i].type # "ATTACH"
  BY <1>1, FreshTail
<1>3. ASSUME NEW i PROVE i \in News(Tail(q)) <=> i \in Nat \ {0}
                                                 /\ i + 1 \in News(q)
  <2>1. i \in 1..(Len(q) - 1) <=> i \in Nat \ {0} /\ i + 1 \in 1..Len(q)
    BY <1>1
  <2> QED BY <1>1, <2>1 DEF News
<1>4. News(q) \subseteq Nat \ {0} /\ (1 \in News(q) <=> q[1].type = "MODE_SET")
  BY <1>1 DEF News
<1>5. ASSUME NEW i \in News(Tail(q)), \A j \in News(Tail(q)) : j <= i
      PROVE  Tail(q)[i].mode = md
  <2>1. i + 1 \in News(q) /\ i \in 1..(Len(q) - 1)
    BY <1>1, <1>3, <1>5 DEF News
  <2>2. ASSUME NEW j \in News(q) PROVE j <= i + 1
    <3>1. j \in Nat /\ j >= 1 /\ i \in Nat
      BY <1>1, <1>4, <2>1, <2>2
    <3>2. CASE j = 1
      BY <3>1, <3>2
    <3>3. CASE j # 1
      <4>1. j - 1 \in Nat \ {0} /\ (j - 1) + 1 = j
        BY <3>1, <3>3
      <4>2. j - 1 \in News(Tail(q))
        BY <1>3, <2>2, <4>1
      <4>3. j - 1 <= i
        BY <1>5, <4>2
      <4> QED BY <3>1, <4>3
    <3> QED BY <3>2, <3>3
  <2>3. q[i + 1].mode = md
    BY <2>1, <2>2 DEF WillKnow
  <2> QED BY <1>1, <2>1, <2>3
<1>6. ASSUME News(Tail(q)) = {}
      PROVE  Learnt(o, q[1]) = md
               \/ (m = 0 /\ Learnt(o, q[1]) = NoMode /\ md = "GPIO")
  <2>1. \A j \in News(q) : j = 1
    <3>1. ASSUME NEW j \in News(q), j # 1 PROVE FALSE
      <4>1. j - 1 \in Nat \ {0} /\ (j - 1) + 1 = j
        BY <1>4, <3>1
      <4> QED BY <1>3, <1>6, <3>1, <4>1
    <3> QED BY <3>1
  <2>2. CASE q[1].type = "MODE_SET"
    <3>1. 1 \in News(q) /\ \A j \in News(q) : j <= 1
      BY <1>4, <2>1, <2>2
    <3>2. q[1].mode = md
      BY <3>1 DEF WillKnow
    <3> QED BY <2>2, <3>2 DEF Learnt
  <2>3. CASE q[1].type # "MODE_SET"
    <3>1. News(q) = {}
      BY <1>4, <2>1, <2>3
    <3>2. CASE q[1].type = "ATTACH"
      <4>1. md = "GPIO"
        BY <1>1, <3>1, <3>2 DEF WillKnow
      <4>2. m = 0
        <5>1. q[1] \in EventsFor(m)
          BY <1>1
        <5> QED BY <3>2, <5>1 DEF EventsFor
      <4> QED BY <3>2, <4>1, <4>2 DEF Learnt
    <3>3. CASE q[1].type # "ATTACH"
      <4>1. ~\E i \in 1..Len(q) : q[i].type = "ATTACH"
        BY <3>3 DEF Fresh
      <4>2. o = md \/ (m = 0 /\ o = NoMode /\ md = "GPIO")
        BY <3>1, <4>1 DEF WillKnow
      <4> QED BY <2>3, <3>3, <4>2 DEF Learnt
    <3> QED BY <3>2, <3>3
  <2> QED BY <2>2, <2>3
<1> QED BY <1>1, <1>2, <1>5, <1>6 DEF WillKnow

\* A mode change, or an event that tells nothing of modes, is sent to m last.
LEMMA SendInforms ==
  ASSUME LinkOK, NEW qs, NEW m, NEW e, Sends(qs, m, e), ~dropped',
         UNCHANGED time, e.ts = time[Peer(m)], e.type # "ATTACH",
         \A p \in Players : Fresh(qs[p], time[Peer(p)]),
         \A p \in Players :
           \/ WillKnow(p, qs[p], other'[p], mode'[Peer(p)])
              /\ (p = m => e.type # "MODE_SET")
           \/ p = m /\ e.type = "MODE_SET" /\ e.mode = mode'[Peer(m)]
  PROVE  Informed'
<1>1. /\ m \in Players /\ qs \in [Players -> Seq(EventRecords)]
      /\ e \in EventRecords
  BY DEF Sends, QueuesOK, EventsFor
<1>2. queue' = [qs EXCEPT ![m] = Append(qs[m], e)]
  BY <1>1, SentLast
<1>3. ASSUME NEW p \in Players, p # m
      PROVE  /\ Fresh(queue'[p], time'[Peer(p)])
             /\ WillKnow(p, queue'[p], other'[p], mode'[Peer(p)])
  <2>1. queue'[p] = qs[p]
    BY <1>1, <1>2, <1>3
  <2> QED BY <1>3, <2>1
<1>4. /\ Fresh(queue'[m], time'[Peer(m)])
      /\ WillKnow(m, queue'[m], other'[m], mode'[Peer(m)])
  <2>1. queue'[m] = Append(qs[m], e) /\ qs[m] \in Seq(EventRecords)
    BY <1>1, <1>2
  <2>2. Fresh(queue'[m], time'[Peer(m)])
    BY <1>1, <2>1, FreshAppend
  <2>3. CASE e.type = "MODE_SET"
    BY <1>1, <2>1, <2>2, <2>3, KnownByNews
  <2>4. CASE e.type # "MODE_SET"
    BY <1>1, <2>1, <2>2, <2>4, KnownDespiteOther
  <2> QED BY <2>3, <2>4
<1> QED BY <1>3, <1>4 DEF Informed

\* Time passes and nothing is told.
LEMMA QuietInforms ==
  ASSUME LinkOK, Informed, UNCHANGED <<queue, other, mode>>,
         \A p \in Players : time'[p] \in Int /\ time'[p] >= time[p]
  PROVE  Informed'
<1> SUFFICES ASSUME NEW m \in Players
             PROVE  Fresh(queue[m], time'[Peer(m)])
  BY DEF Informed
<1>1. /\ queue[m] \in Seq(EventRecords) /\ Peer(m) \in Players
      /\ time[Peer(m)] \in Int /\ Fresh(queue[m], time[Peer(m)])
  BY DEF LinkOK, TypeOK, Informed, Peer, Players
<1> QED BY <1>1, FreshLater

\* The first event of the queue is handled and nothing is sent.
LEMMA HandledInforms ==
  ASSUME LinkOK, Informed, NEW type, Takes(type), queue' = Popped,
         UNCHANGED <<time, mode>>,
         other' = [other EXCEPT ![cur] = Learnt(@, Head(queue[cur]))]
  PROVE  Informed'
<1>1. /\ cur \in Players /\ queue \in [Players -> Seq(EventRecords)]
      /\ queue[cur] # << >> /\ queue[cur] \in Seq(EventsFor(cur))
      /\ other \in [Players -> Modes \cup {NoMode}]
  BY QueuesKept DEF LinkOK, TypeOK, Takes, HasPendingEvents, QueuesOK
<1>2. ASSUME NEW p \in Players, p # cur
      PROVE  /\ Fresh(queue'[p], time'[Peer(p)])
             /\ WillKnow(p, queue'[p], other'[p], mode'[Peer(p)])
  <2>1. queue'[p] = queue[p] /\ other'[p] = other[p]
    BY <1>1, <1>2 DEF Popped
  <2> QED BY <2>1 DEF Informed
<1>3. /\ Fresh(queue'[cur], time'[Peer(cur)])
      /\ WillKnow(cur, queue'[cur], other'[cur], mode'[Peer(cur)])
  <2>1. queue'[cur] = Tail(queue[cur])
          /\ other'[cur] = Learnt(other[cur], Head(queue[cur]))
    BY <1>1 DEF Popped
  <2>2. /\ Fresh(queue[cur], time[Peer(cur)])
        /\ WillKnow(cur, queue[cur], other[cur], mode[Peer(cur)])
    BY <1>1 DEF Informed
  <2>3. Fresh(Tail(queue[cur]), time[Peer(cur)])
    BY <1>1, <2>2, FreshTail
  <2>4. WillKnow(cur, Tail(queue[cur]), Learnt(other[cur], Head(queue[cur])),
                 mode[Peer(cur)])
    BY <1>1, <2>2, KnownAfterHead
  <2> QED BY <2>1, <2>3, <2>4
<1> QED BY <1>2, <1>3 DEF Informed

\* A mode change of the game is told, an announcement is answered.
LEMMA ToldInforms ==
  ASSUME LinkOK, Informed, ~dropped',
         (\E md \in GameModes : SetMode(md)) \/ HandleAttach
  PROVE  Informed'
<1>1. cur \in Players /\ mode \in [Players -> Modes] /\ Peer(Peer(cur)) = cur
        /\ Peer(cur) \in Players /\ Peer(cur) # cur
        /\ (\A p \in Players : p = cur \/ p = Peer(cur))
        /\ other \in [Players -> Modes \cup {NoMode}]
  BY DEF LinkOK, TypeOK, Players, Peer
<1>2. ASSUME NEW md \in GameModes, SetMode(md) PROVE Informed'
  <2> DEFINE e == Event("MODE_SET", cur, md, 0, 0)
  <2>1. Sends(queue, Peer(cur), e) /\ UNCHANGED <<time, other>>
          /\ mode' = [mode EXCEPT ![cur] = md]
    BY <1>2, SetModeSends DEF SetMode
  <2>2. e.ts = time[cur] /\ e.type = "MODE_SET" /\ e.mode = md
    BY DEF Event
  <2> HIDE DEF e
  <2>3. mode'[cur] = md /\ mode'[Peer(cur)] = mode[Peer(cur)]
    BY <1>1, <2>1
  <2>4. ASSUME NEW p \in Players, p # Peer(cur)
        PROVE  WillKnow(p, queue[p], other'[p], mode'[Peer(p)])
    <3>1. p = cur
      BY <1>1, <2>4
    <3> QED BY <2>1, <2>3, <3>1 DEF Informed
  <2>5. \A p \in Players : Fresh(queue[p], time[Peer(p)])
    BY DEF Informed
  <2> QED BY <1>1, <2>1, <2>2, <2>3, <2>4, <2>5, SendInforms
<1>3. CASE HandleAttach
  <2> DEFINE e == Event("MODE_SET", cur, mode[cur], 0, 0)
  <2>1. /\ Sends(Popped, Peer(cur), e) /\ UNCHANGED <<time, mode>>
        /\ cur = 0 /\ Takes("ATTACH")
        /\ other' = [other EXCEPT ![cur] = NoMode]
    BY <1>3, AttachSends DEF HandleAttach
  <2>2. e.ts = time[cur] /\ e.type = "MODE_SET" /\ e.mode = mode[cur]
    BY DEF Event
  <2> HIDE DEF e
  <2>3. /\ queue[cur] \in Seq(EventsFor(cur)) /\ queue[cur] # << >>
        /\ queue[cur] \in Seq(EventRecords)
        /\ queue \in [Players -> Seq(EventRecords)]
        /\ Fresh(queue[cur], time[Peer(cur)])
        /\ WillKnow(cur, queue[cur], other[cur], mode[Peer(cur)])
    BY <1>1, <2>1, QueuesKept DEF QueuesOK, Takes, HasPendingEvents, Informed
  <2>4. Popped[cur] = Tail(queue[cur])
          /\ Popped[Peer(cur)] = queue[Peer(cur)]
    BY <1>1, <2>3 DEF Popped
  <2>5. Learnt(other[cur], Head(queue[cur])) = other'[cur]
    BY <1>1, <2>1 DEF Learnt, Takes
  <2>6. Fresh(Popped[cur], time[Peer(cur)])
          /\ WillKnow(cur, Popped[cur], other'[cur], mode'[Peer(cur)])
    <3>1. WillKnow(cur, Tail(queue[cur]), Learnt(other[cur], Head(queue[cur])),
                   mode[Peer(cur)])
      BY <1>1, <2>3, KnownAfterHead
    <3> QED BY <2>1, <2>3, <2>4, <2>5, <3>1, FreshTail
  <2>7. \A p \in Players : Fresh(Popped[p], time[Peer(p)])
    BY <1>1, <2>4, <2>6 DEF Informed
  <2>8. ASSUME NEW p \in Players, p # Peer(cur)
        PROVE  WillKnow(p, Popped[p], other'[p], mode'[Peer(p)])
    BY <1>1, <2>6, <2>8
  <2> QED BY <1>1, <2>1, <2>2, <2>7, <2>8, SendInforms
<1> QED BY <1>2, <1>3

\* The steps of a frame that loses no event.
LEMMA FrameInforms ==
  ASSUME LinkOK, Informed, Frame, ~dropped'
  PROVE  Informed'
<1>1. cur \in Players /\ time \in [Players -> Int]
        /\ 0 \in Players /\ 1 \in Players /\ Peer(0) = 1 /\ Peer(1) = 0
        /\ other \in [Players -> Modes \cup {NoMode}]
        /\ \A p \in Players : p = 0 \/ p = 1
  BY DEF LinkOK, TypeOK, Players, Peer
<1>2. CASE LinkedFrame \/ Round \/ Turn \/ Check \/ SecondaryEvent
             \/ EventEnds
  <2>1. UNCHANGED <<queue, other, mode, time>>
    BY <1>2 DEF LinkedFrame, FrameStart, Round, Turn, Check, SecondaryEvent,
         EventEnds, clockVars, modeVars, wireVars
  <2> QED BY <1>1, <2>1, QuietInforms
<1>3. CASE Cpu
  <2>1. UNCHANGED <<queue, other, mode>>
    BY <1>3 DEF Cpu, CpuRuns, InstructionEnds, Halted, modeVars, wireVars
  <2>2. \A p \in Players : time'[p] \in Int /\ time'[p] >= time[p]
    BY <1>3, TimeGrows
  <2> QED BY <2>1, <2>2, QuietInforms
<1>4. ASSUME UNCHANGED <<time, other, mode>>, NEW e, Sends(queue, 1, e),
             e.ts = time[0], e.type \notin {"MODE_SET", "ATTACH"}
      PROVE  Informed'
  <2>1. \A p \in Players : /\ Fresh(queue[p], time[Peer(p)])
                           /\ WillKnow(p, queue[p], other'[p], mode'[Peer(p)])
    BY <1>4 DEF Informed
  <2> QED BY <1>1, <1>4, <2>1, SendInforms
<1>5. CASE Start
  <2>1. PICK finish \in Int, txn \in Nat :
          Sends(queue, 1, Event("TRANSFER_START", 0, NoMode, finish, txn))
    BY <1>5, StartSends
  <2>2. UNCHANGED <<time, other, mode>>
    BY <1>5 DEF Start, modeVars
  <2> DEFINE e == Event("TRANSFER_START", 0, NoMode, finish, txn)
  <2>3. e.ts = time[0] /\ e.type = "TRANSFER_START"
    BY DEF Event
  <2> HIDE DEF e
  <2> QED BY <1>4, <2>1, <2>2, <2>3 DEF e
<1>6. CASE Finish \/ PrimaryEvent
  <2>1. UNCHANGED <<time, other, mode>>
    BY <1>6 DEF Finish, PrimaryEvent, modeVars
  <2>2. HardSyncEvent.ts = time[0] /\ HardSyncEvent.type = "HARD_SYNC"
    BY DEF HardSyncEvent, Event
  <2>3. CASE Sends(queue, 1, HardSyncEvent)
    BY <1>4, <2>1, <2>2, <2>3
  <2>4. CASE UNCHANGED <<queue, dropped, when>>
    BY <1>1, <2>1, <2>4, QuietInforms
  <2> QED BY <1>6, <2>3, <2>4, SyncSends
<1>7. CASE HandleModeSet \/ HandleHardSync \/ HandleTransferStart
  <2>1. /\ queue' = Popped /\ UNCHANGED <<time, mode>>
        /\ \E type : Takes(type)
    BY <1>7 DEF HandleModeSet, HandleHardSync, HandleTransferStart, clockVars,
         modeVars
  <2>2. other' = [other EXCEPT ![cur] = Learnt(@, Head(queue[cur]))]
    <3>1. CASE HandleModeSet
      BY <3>1 DEF HandleModeSet, Takes, Learnt
    <3>2. CASE HandleHardSync \/ HandleTransferStart
      <4>1. Learnt(other[cur], Head(queue[cur])) = other[cur]
              /\ other' = other
        BY <3>2 DEF HandleHardSync, HandleTransferStart, Takes, Learnt,
             modeVars
      <4> QED BY <1>1, <4>1
    <3> QED BY <1>7, <3>1, <3>2
  <2> QED BY <2>1, <2>2, HandledInforms
<1>8. CASE SerialWrite \/ Handle
  BY <1>5, <1>7, <1>8, ToldInforms DEF SerialWrite, Handle
<1> QED BY <1>2, <1>3, <1>6, <1>8 DEF Frame, LockstepEvent

\* A lost event is never forgotten.
LEMMA DroppedStays ==
  ASSUME SessionOK, [SessionNext]_allVars, ~dropped'
  PROVE  ~dropped
<1> USE DEF SessionOK
<1>1. CASE Frame
  <2>1. ASSUME NEW qs, NEW m, NEW e, Sends(qs, m, e) PROVE ~dropped
    BY <2>1 DEF Sends, Deliver, Lose
  <2>2. CASE SerialWrite \/ Finish \/ PrimaryEvent \/ HandleAttach
    BY <2>1, <2>2, SetModeSends, StartSends, SyncSends, AttachSends
       DEF SerialWrite
  <2>3. CASE LinkedFrame \/ Round \/ Turn \/ Check \/ Cpu \/ SecondaryEvent
               \/ HandleModeSet \/ HandleHardSync \/ HandleTransferStart
               \/ EventEnds
    BY <2>3 DEF LinkedFrame, FrameStart, Round, Turn, Check, Cpu, CpuRuns,
         InstructionEnds, Halted, SecondaryEvent, HandleModeSet,
         HandleHardSync, HandleTransferStart, EventEnds, wireVars
  <2> QED BY <1>1, <2>2, <2>3 DEF Frame, LockstepEvent, Handle
<1>2. CASE PortReset
  BY <1>2 DEF PortReset, Deliver, Lose, wireVars
<1>3. CASE Crash \/ SliceReturns \/ DriverReset \/ ResetEnds \/ Between
             \/ UNCHANGED allVars
  BY <1>3 DEF Crash, SliceReturns, SliceEnds, DriverReset, ResetEnds, Between,
       Unlink, Relink, Reset, SaveState, LoadUnlinked, LoadLinked,
       lockstepVars, wireVars, allVars
<1> QED BY <1>1, <1>2, <1>3 DEF SessionNext, ResetStep

\* When both players are informed, only a reset asks for more.
LEMMA InformedNews ==
  ASSUME Informed',
         ctl' \in {"reset", "port"} =>
           queue'[1] = << >> /\ (cur' = 1 => Fresh(queue'[0], cycle'))
  PROVE  NewsInv'
BY DEF Informed, NewsInv, Players, Peer

\* A reset of the cores, with no event waiting.
LEMMA ResetInforms ==
  ASSUME SessionOK, NewsInv, Reset, ~dropped, ~stale'
  PROVE  NewsInv'
<1>1. /\ linked /\ ~stale /\ ctl = "idle" /\ ctl' = "reset" /\ LinkOK
      /\ \A m \in Players : queue[m] = << >>
      /\ queue' = [m \in Players |->
                     [i \in DOMAIN queue[m] |-> Rebased(queue[m][i])]]
      /\ UNCHANGED <<other, mode>>
  BY DEF Reset, Operation, HasPendingEvents, modeVars, SessionOK
<1>2. Informed
  BY <1>1, NewsOutsideReset
<1>3. ASSUME NEW m \in Players PROVE queue'[m] = << >>
  <2>1. queue[m] = << >> /\ DOMAIN queue[m] = {}
    BY <1>1
  <2>2. queue'[m] = [i \in DOMAIN queue[m] |-> Rebased(queue[m][i])]
    BY <1>1
  <2>3. queue'[m] = [i \in {} |-> Rebased(queue[m][i])]
    BY <2>1, <2>2
  <2> QED BY <2>3
<1>4. \A t : Fresh(<< >>, t)
  BY DEF Fresh
<1>5. \A m \in Players : WillKnow(m, queue'[m], other'[m], mode'[Peer(m)])
  BY <1>1, <1>2, <1>3 DEF Informed
<1>6. Informed'
  BY <1>3, <1>4, <1>5 DEF Informed
<1> QED BY <1>3, <1>4, <1>6, InformedNews DEF Players

\* The secondary's driver learns the primary's mode from the coordinator.
LEMMA DriverResetInforms ==
  ASSUME SessionOK, NewsInv, DriverReset, linked, ~dropped, ~stale
  PROVE  NewsInv'
<1>1. /\ ctl = "reset" /\ ctl' = "port" /\ transferMode = mode[0]
      /\ time' = [time EXCEPT ![cur] = cycle]
      /\ other' = [other EXCEPT ![cur] = IF cur = 1 THEN transferMode
                                                   ELSE other[cur]]
      /\ UNCHANGED <<mode, queue, cycle, cur>>
      /\ cur \in Players /\ time \in [Players -> Int]
      /\ other \in [Players -> Modes \cup {NoMode}]
  BY DEF DriverReset, SessionOK, LinkOK, TypeOK, wireVars
<1>2. /\ \A m \in Players : Fresh(queue[m], time[Peer(m)])
      /\ queue[1] = << >>
      /\ cur = 1 => Fresh(queue[0], cycle)
      /\ WillKnow(1, queue[1], other[1], mode[0])
      /\ \/ WillKnow(0, queue[0], other[0], mode[1])
         \/ cur = 1 /\ mode[1] # "GPIO"
  BY <1>1 DEF NewsInv
<1>3. Fresh(queue[1], time'[0])
  BY <1>2 DEF Fresh
<1>4. Fresh(queue[0], time'[1])
  BY <1>1, <1>2 DEF Players, Peer
<1>5. WillKnow(1, queue[1], other'[1], mode[0])
  <2>1. CASE cur = 1
    <3>1. other'[1] = mode[0] /\ News(queue[1]) = {} /\ Len(queue[1]) = 0
      BY <1>1, <1>2, <2>1 DEF News
    <3> QED BY <3>1 DEF WillKnow
  <2>2. CASE cur # 1
    BY <1>1, <1>2, <2>2 DEF Players
  <2> QED BY <2>1, <2>2
<1>6. other'[0] = other[0]
  BY <1>1 DEF Players
<1> QED BY <1>1, <1>2, <1>3, <1>4, <1>5, <1>6 DEF NewsInv, Players, Peer

\* The reset of the port tells the peer that it is in general purpose mode.
LEMMA PortResetInforms ==
  ASSUME SessionOK, NewsInv, PortReset, linked, ~dropped', ~dropped, ~stale
  PROVE  NewsInv'
<1> DEFINE e == Event("MODE_SET", cur, "GPIO", 0, 0)
<1>1. /\ ctl = "port" /\ cur' = 0 /\ mode' = [mode EXCEPT ![cur] = "GPIO"]
      /\ UNCHANGED <<time, other>>
      /\ cur \in Players /\ mode \in [Players -> Modes] /\ LinkOK
      /\ QueuesOK(queue)
  BY QueuesKept DEF PortReset, SessionOK, LinkOK, TypeOK
<1>2. /\ \A m \in Players : Fresh(queue[m], time[Peer(m)])
      /\ queue[1] = << >>
      /\ WillKnow(1, queue[1], other[1], mode[0])
      /\ \/ WillKnow(0, queue[0], other[0], mode[1])
         \/ cur = 1 /\ mode[1] # "GPIO"
  BY <1>1 DEF NewsInv
<1>3. ctl' \in {"reset", "port"} => cur = 1
  BY DEF PortReset, AfterPort, WaitsForPeer, WaitOnPlayers
<1>4. CASE mode[cur] = "GPIO" /\ UNCHANGED <<queue, dropped, when>>
  <2>1. mode' = mode
    BY <1>1, <1>4
  <2>2. Informed'
    BY <1>1, <1>2, <1>4, <2>1 DEF Informed, Players, Peer
  <2> QED BY <1>1, <1>2, <1>4, <2>2, InformedNews
<1>5. CASE mode[cur] # "GPIO" /\ Sends(queue, Peer(cur), e)
  <2>1. /\ e.ts = time[cur] /\ e.type = "MODE_SET" /\ e.mode = "GPIO"
        /\ Peer(Peer(cur)) = cur /\ Peer(cur) \in Players
    BY <1>1 DEF Event, Peer, Players
  <2> HIDE DEF e
  <2>2. mode'[cur] = "GPIO"
    BY <1>1
  <2>3. ASSUME NEW p \in Players, p # Peer(cur)
        PROVE  WillKnow(p, queue[p], other'[p], mode'[Peer(p)])
    <3>1. p = cur /\ mode'[Peer(p)] = mode[Peer(p)]
      BY <1>1, <2>3 DEF Players, Peer
    <3> QED BY <1>1, <1>2, <3>1 DEF Players, Peer
  <2>4. Informed'
    BY <1>1, <1>2, <1>5, <2>1, <2>2, <2>3, SendInforms
  <2>5. cur = 1 => queue'[1] = queue[1]
    <3>1. queue' = [queue EXCEPT ![Peer(cur)] = Append(queue[Peer(cur)], e)]
      BY <1>1, <1>2, <1>5, <2>1, SentLast
    <3> QED BY <1>1, <3>1 DEF QueuesOK, Players, Peer
  <2> QED BY <1>1, <1>2, <1>3, <2>4, <2>5, InformedNews
<1>6. e \in EventsFor(Peer(cur)) /\ Peer(cur) \in Players
  <2>1. /\ TypeOK /\ cur \in Players /\ "GPIO" \in Modes \cup {NoMode}
        /\ 0 \in Int /\ 0 \in Nat
    BY <1>1 DEF LinkOK, Modes
  <2>2. e \in EventsFor(Peer(cur))
    BY <2>1, EventKind
  <2> QED BY <1>1, <2>2 DEF Peer, Players
<1> HIDE DEF e
<1>7. \/ mode[cur] = "GPIO" /\ UNCHANGED <<queue, dropped, when>>
      \/ mode[cur] # "GPIO" /\ Sends(queue, Peer(cur), e)
  BY <1>1, <1>6 DEF PortReset, Sends, wireVars, e
<1> QED BY <1>4, <1>5, <1>7

\* Attaching: the announcement waits at the primary, and the secondary takes
\* the coordinator's mode for the primary's.
LEMMA RelinkInforms ==
  ASSUME SessionOK, Relink
  PROVE  NewsInv'
<1> DEFINE hello == [type |-> "ATTACH", from |-> 1, ts |-> 0, mode |-> NoMode,
                     finish |-> 0, txn |-> 0]
<1>1. PICK md \in [Players -> GameModes \cup {"GPIO"}] :
        /\ mode' = md
        /\ other' = [m \in Players |-> IF m = 0 THEN "NORMAL" ELSE md[0]]
  BY DEF Relink, Attach
<1>2. /\ ctl' = "reset" /\ cur' = 1 /\ cycle' = 0
      /\ time' = [m \in Players |-> 0]
      /\ queue' = [m \in Players |-> IF m = 0 THEN <<hello>> ELSE << >>]
  BY DEF Relink, Attach, SessionOK, Unlinked
<1>3. /\ queue'[0] = <<hello>> /\ queue'[1] = << >>
      /\ time'[0] = 0 /\ time'[1] = 0 /\ cycle' = 0 /\ other'[1] = mode'[0]
  BY <1>1, <1>2 DEF Players
<1>4. /\ Len(queue'[0]) = 1 /\ queue'[0][1].type = "ATTACH"
      /\ queue'[0][1].ts = 0 /\ Len(queue'[1]) = 0
  BY <1>3
<1>5. Fresh(queue'[0], 0) /\ Fresh(queue'[1], 0)
  BY <1>4 DEF Fresh
<1>6. WillKnow(1, queue'[1], other'[1], mode'[0])
  BY <1>3, <1>4 DEF WillKnow, News
<1>7. mode'[1] = "GPIO" => WillKnow(0, queue'[0], other'[0], mode'[1])
  BY <1>4 DEF WillKnow, News
<1> QED BY <1>2, <1>3, <1>5, <1>6, <1>7 DEF NewsInv, Players, Peer

\* Saving and loading carry what the players know.
LEMMA SaveInforms ==
  ASSUME SessionOK, NewsInv, SaveState, ~dropped
  PROVE  SavedNews'
<1> SUFFICES ASSUME linked, ~stale, NEW m \in Players
             PROVE  /\ Fresh(queue[m], time[Peer(m)])
                    /\ WillKnow(m, queue[m], other[m], mode[Peer(m)])
  <2>1. ASSUME NEW m \in Players, linked
        PROVE  /\ saved'.drivers[m].events = queue[m]
               /\ saved'.drivers[m].other = other[m]
               /\ saved'.drivers[Peer(m)].mode = mode[Peer(m)]
               /\ saved'.machines[Peer(m)].time = time[Peer(m)]
    <3>1. Peer(m) \in Players
      BY DEF Peer, Players
    <3> QED BY <2>1, <3>1 DEF SaveState, DriverState, MachineState
  <2> QED BY <2>1 DEF SavedNews, SaveState
<1>1. Informed
  BY NewsOutsideReset DEF SaveState
<1> QED BY <1>1 DEF Informed

LEMMA LoadInforms ==
  ASSUME SessionOK, SavedNews, LoadLinked, ~dropped
  PROVE  NewsInv'
<1> SUFFICES ASSUME ~stale' PROVE NewsInv'
  BY DEF NewsInv
<1>1. ctl' = "idle" /\ saved.linked /\ ~saved.stale
  BY DEF LoadLinked, Operation
<1>2. ASSUME NEW m \in Players
      PROVE  /\ queue'[m] = saved.drivers[m].events
             /\ other'[m] = saved.drivers[m].other
             /\ mode'[m] = saved.drivers[m].mode
             /\ time'[m] = saved.machines[m].time
  BY Zenon DEF LoadLinked, LoadDrivers
<1>3. \A m \in Players : Peer(m) \in Players
  BY DEF Peer, Players
<1>4. Informed'
  BY <1>1, <1>2, <1>3 DEF SavedNews, Informed
<1> QED BY <1>1, <1>4, InformedNews

\* Every step of the session keeps both players informed, and the state it
\* saved.
LEMMA NewsStep ==
  ASSUME SessionOK, NewsInv, SavedNews, [SessionNext]_allVars
  PROVE  NewsInv' /\ SavedNews'
<1> SUFFICES ASSUME ~dropped' PROVE NewsInv' /\ SavedNews'
  BY DEF NewsInv, SavedNews
<1>1. ~dropped
  BY DroppedStays
<1>2. SavedNews'
  <2>1. CASE SaveState
    BY <1>1, <2>1, SaveInforms
  <2>2. CASE ~SaveState
    <3>1. UNCHANGED saved
      BY <2>2 DEF SessionNext, Crash, SliceReturns, ResetStep, DriverReset,
           PortReset, ResetEnds, Between, Unlink, Relink, Reset,
           LoadUnlinked, LoadLinked, sessionVars, allVars
    <3> QED BY <1>1, <3>1 DEF SavedNews
  <2> QED BY <2>1, <2>2
<1>3. NewsInv'
  <2> SUFFICES ASSUME linked', ~stale' PROVE NewsInv'
    BY DEF NewsInv
  <2>1. CASE Frame /\ UNCHANGED sessionVars
    <3>1. /\ ctl \notin {"reset", "port"} /\ ctl' \notin {"reset", "port"}
          /\ linked /\ ~stale
      BY <2>1 DEF Frame, LinkedFrame, FrameStart, Round, Turn, NextTurn, Check,
           Cpu, CpuRuns, InstructionEnds, Halted, SerialWrite, Start, MayStart,
           SetMode, WaitOnPlayers, Finish, HardSync, LockstepEvent,
           PrimaryEvent, SecondaryEvent, Handle, HandleAttach, HandleModeSet,
           HandleHardSync, HandleTransferStart, Takes, EventEnds, sessionVars
    <3>2. Informed
      BY <1>1, <3>1, NewsOutsideReset
    <3>3. Informed'
      BY <2>1, <3>2, FrameInforms DEF SessionOK
    <3> QED BY <3>1, <3>3, InformedNews
  <2>2. CASE SliceReturns \/ ResetEnds
    <3>1. /\ ctl \notin {"reset", "port"} /\ ctl' \notin {"reset", "port"}
          /\ UNCHANGED <<queue, other, mode, time, linked, stale>>
      <4>1. CASE SliceReturns
        <5>1. /\ ctl = "tick" /\ ctl' \in {"idle", "turn", "check"}
              /\ UNCHANGED <<clockVars, modeVars, wireVars, linked, stale>>
          BY <4>1 DEF SliceReturns, SliceEnds, NextTurn
        <5> QED BY <5>1 DEF clockVars, modeVars, wireVars
      <4>2. CASE ResetEnds
        BY <4>2 DEF ResetEnds, clockVars, modeVars, wireVars, sessionVars
      <4> QED BY <2>2, <4>1, <4>2
    <3>2. Informed
      BY <1>1, <3>1, NewsOutsideReset
    <3>3. Informed'
      BY <3>1, <3>2 DEF Informed
    <3> QED BY <3>1, <3>3, InformedNews
  <2>3. CASE Crash \/ SaveState \/ UNCHANGED allVars
    <3>1. UNCHANGED <<lockstepVars, linked, stale>>
      BY <2>3 DEF Crash, SaveState, allVars, sessionVars
    <3> QED BY <3>1 DEF NewsInv, lockstepVars, clockVars, modeVars, wireVars,
          syncVars
  <2>4. CASE Unlink \/ LoadUnlinked
    BY <2>4 DEF Unlink, LoadUnlinked, Detached
  <2>5. CASE Relink
    BY <2>5, RelinkInforms
  <2>6. CASE Reset
    BY <1>1, <2>6, ResetInforms
  <2>7. CASE DriverReset
    BY <1>1, <2>7, DriverResetInforms DEF DriverReset
  <2>8. CASE PortReset
    BY <1>1, <2>8, PortResetInforms DEF PortReset, sessionVars
  <2>9. CASE LoadLinked
    BY <1>1, <2>9, LoadInforms
  <2> QED BY <2>1, <2>2, <2>3, <2>4, <2>5, <2>6, <2>7, <2>8, <2>9
        DEF SessionNext, ResetStep, Between
<1> QED BY <1>2, <1>3

\* After a frame that completed with no event lost each player knows the
\* other's mode, whatever links, resets, loads and failed frames came before.
THEOREM SessionModesAgree == SessionSpec => []SessionModesConverge
<1> DEFINE I == SessionOK /\ NewsInv /\ SavedNews
<1>1. SessionInit => I
  <2> SUFFICES ASSUME SessionInit PROVE NewsInv /\ SavedNews
    BY SessionInitOK
  <2>1. /\ Len(queue[0]) = 1 /\ queue[0][1].type = "ATTACH"
        /\ queue[0][1].ts = 0 /\ Len(queue[1]) = 0 /\ ctl = "idle"
        /\ time[0] = 0 /\ time[1] = 0 /\ other[1] = "GPIO"
        /\ mode[0] = "GPIO" /\ mode[1] = "GPIO" /\ ~saved.linked
    BY DEF SessionInit, Init, Players, NoState
  <2>2. Informed
    BY <2>1 DEF Informed, Fresh, WillKnow, News, Players, Peer
  <2> QED BY <2>1, <2>2, NewsOutsideReset DEF SavedNews
<1>2. I /\ [SessionNext]_allVars => I'
  BY SessionStep, NewsStep
<1>3. I => SessionModesConverge
  <2> SUFFICES ASSUME I, linked, ~stale, ctl = "check", FrameComplete, ~dropped
               PROVE  /\ other[1] = mode[0]
                      /\ \/ other[0] = mode[1]
                         \/ other[0] = NoMode /\ mode[1] = "GPIO"
    BY DEF SessionModesConverge
  <2>1. Informed
    BY NewsOutsideReset
  <2>2. \A m \in Players : News(queue[m]) = {} /\ Len(queue[m]) = 0
    BY DEF FrameComplete, HasPendingEvents, News
  <2> QED BY <2>1, <2>2 DEF Informed, WillKnow, Players, Peer
<1> QED BY <1>1, <1>2, <1>3, PTL DEF SessionSpec
-----------------------------------------------------------------------------
(* The words of a transfer (TransferExact).                                *)

\* The thread is in a slice of the primary.
PrimarySlice == cur = 0 /\ ctl \in SlicePlaces

\* A transfer TransferExact is about completes on one of the machines.
InFlight(m) == pending[m] \in clean
Live == \E m \in Players : InFlight(m)

\* What is true of transfers whether one is in flight or not: numbers are
\* those of transfers that were started, an announcement of a clean transfer
\* is the primary's own, and a mode change of the primary forgets them.
PastInv ==
  /\ mode[0] = transferMode
  /\ clean \subseteq 1..transfers
  /\ \A m \in Players : /\ pending[m] <= transfers
                        /\ complete[m] = Nothing => pending[m] = Nothing
                        /\ time[m] >= 0
  /\ \A i \in 1..Len(queue[1]) :
       /\ queue[1][i].txn <= transfers
       /\ queue[1][i].txn \in clean => pending[0] = queue[1][i].txn
  /\ (cur = 0 /\ ctl = "mode") => clean = {}

\* What every transfer in flight relies on.
LiveInv ==
  /\ mode[0] = "MULTI" /\ syncArmed
  /\ multiData[0] = transfers
  /\ \A m \in Players : InFlight(m) => pending[m] = transfers
  /\ \A i \in 1..Len(queue[0]) : queue[0][i].type # "ATTACH"

\* The announcement q is the last event of the secondary and the only one of
\* this transfer.
AnnouncedLast(q) ==
  /\ q # << >>
  /\ q[Len(q)].type = "TRANSFER_START" /\ q[Len(q)].txn = transfers
  /\ q[Len(q)].finish = complete[0]
  /\ \A i \in 1..(Len(q) - 1) : q[i].txn # transfers

\* The secondary has not sampled its word.  The primary waits at its barrier
\* until the secondary takes the events of that moment, all in one callback.
Announced ==
  /\ InFlight(0) /\ ~InFlight(1)
  /\ AnnouncedLast(queue[1])
  /\ time[0] < complete[0]
  /\ (PrimarySlice /\ ctl = "started") => time[0] + MaxLate < complete[0]
  /\ waiting =>
       /\ transferActive
       /\ \A i, j \in 1..Len(queue[1]) : queue[1][i].ts = queue[1][j].ts
       /\ PrimarySlice => early /\ ctl \in {"started", "tick", "callback"}
  /\ ~waiting =>
       /\ cur = 1 /\ ctl = "callback"
       /\ \A m \in Players : dataReceived[m]
       /\ \A i \in 1..Len(queue[1]) : queue[1][i].ts <= time[1]

\* The secondary's completion comes before it does anything else.
Overdue ==
  \/ complete[1] <= time[1]
  \/ /\ complete[1] <= time[1] + 1
     /\ when[1] > time[1] \/ (ctl = "callback" /\ cur = 1 /\ InFlight(0))

\* Both words are sampled.  The secondary completes before it releases the
\* barrier that the primary's completion raises.
Sampled ==
  /\ multiData[1] = transfers
  /\ \A m \in Players : InFlight(m) => dataReceived[m]
  /\ ~waiting => queue[1] = << >>
  /\ waiting => Len(queue[1]) = 1 /\ queue[1][1].type = "HARD_SYNC"
                  /\ queue[1][1].txn = 0
  /\ (waiting /\ PrimarySlice) =>
       early /\ ctl \in {"tick", "callback"} /\ queue[1][1].ts = time[0]
  /\ (InFlight(1) /\ InFlight(0)) => complete[1] <= complete[0] \/ Overdue
  /\ (InFlight(1) /\ ~InFlight(0)) =>
       /\ (waiting /\ complete[1] <= queue[1][1].ts) \/ Overdue
       /\ ~waiting => /\ cur = 1 /\ ctl \in {"tick", "callback"}
                      /\ complete[1] <= time[1]

TransferInv == PastInv /\ (Live => LiveInv /\ (Announced \/ Sampled))
TransferOK == LinkOK /\ WakeInv /\ TransferInv

\* Kinds of the state the invariant speaks of, and what a barrier means.
LEMMA TransferKinds ==
  ASSUME LinkOK
  PROVE  /\ Players = {0, 1} /\ cur \in Players
         /\ time[0] \in Int /\ time[1] \in Int
         /\ when[0] \in Int /\ when[1] \in Int
         /\ complete[0] \in Int /\ complete[1] \in Int
         /\ pending[0] \in Nat /\ pending[1] \in Nat /\ transfers \in Nat
         /\ multiData[0] \in Nat /\ multiData[1] \in Nat
         /\ queue[1] \in Seq(EventRecords) /\ Len(queue[1]) \in Nat
         /\ queue[1] \in Seq(EventsFor(1)) /\ queue[0] \in Seq(EventsFor(0))
         /\ waiting <=> asleep[0]
         /\ waiting => queue[1] # << >>
         /\ (ctl \in {"run", "write"} /\ cur = 0) => ~waiting
         /\ (ctl \in {"mode", "started"} /\ cur = 0 /\ waiting) => early
         /\ \A i \in 1..Len(queue[1]) : /\ queue[1][i] \in EventRecords
                                        /\ queue[1][i].ts \in Int
                                        /\ queue[1][i].finish \in Int
                                        /\ queue[1][i].txn \in Nat
<1>1. Players = {0, 1} /\ cur \in Players /\ queue[1] \in Seq(EventRecords)
  BY DEF LinkOK, TypeOK, Players
<1>2. \A i \in 1..Len(queue[1]) : queue[1][i] \in EventRecords
  BY <1>1
<1>3. /\ time[0] \in Int /\ time[1] \in Int
      /\ when[0] \in Int /\ when[1] \in Int
      /\ complete[0] \in Int /\ complete[1] \in Int
      /\ pending[0] \in Nat /\ pending[1] \in Nat /\ transfers \in Nat
      /\ multiData[0] \in Nat /\ multiData[1] \in Nat
  BY <1>1 DEF LinkOK, TypeOK
<1>4. queue[1] \in Seq(EventsFor(1)) /\ queue[0] \in Seq(EventsFor(0))
  BY <1>1 DEF LinkOK, LinkInv
<1>5. /\ waiting <=> asleep[0]
      /\ waiting => \E i \in 1..Len(queue[1]) : Ackable(queue[1][i])
  BY DEF LinkOK, LinkInv, BarrierInv
<1>6. waiting => queue[1] # << >>
  BY <1>1, <1>5
<1>7. /\ (ctl \in {"run", "write"} /\ cur = 0) => ~waiting
      /\ (ctl \in {"mode", "started"} /\ cur = 0 /\ waiting) => early
  BY <1>5 DEF LinkOK, LinkInv, SchedulerInv
<1>8. \A i \in 1..Len(queue[1]) : /\ queue[1][i].ts \in Int
                                  /\ queue[1][i].finish \in Int
                                  /\ queue[1][i].txn \in Nat
  BY <1>2 DEF EventRecords
<1>9. Len(queue[1]) \in Nat
  BY <1>1
<1> QED BY <1>1, <1>2, <1>3, <1>4, <1>5, <1>6, <1>7, <1>8, <1>9

\* A transfer in flight has a completion on its machine, at a positive time.
LEMMA InFlightScheduled ==
  ASSUME TransferOK, NEW m \in Players, InFlight(m)
  PROVE  complete[m] # Nothing /\ pending[m] # Nothing
<1>1. clean \subseteq 1..transfers /\ transfers \in Nat
        /\ (complete[m] = Nothing => pending[m] = Nothing)
  BY TransferKinds DEF TransferOK, TransferInv, PastInv
<1> QED BY <1>1 DEF InFlight, Nothing

\* No event of the queue p is the announcement of a newcomer, but one of q.
NoNewAttach(p, q) ==
  \A i \in 1..Len(p) : p[i].type = "ATTACH" =>
                         \E j \in 1..Len(q) : q[j].type = "ATTACH"

\* A step that leaves transfers, the secondary's queue and the barrier alone.
LEMMA QuietTransfers ==
  ASSUME TransferOK,
         UNCHANGED <<pending, complete, clean, transfers, multiData,
                     dataReceived, transferMode, syncArmed>>,
         mode'[0] = mode[0], queue'[1] = queue[1],
         NoNewAttach(queue'[0], queue[0]),
         \A m \in Players : time'[m] \in Int /\ time'[m] >= time[m],
         (cur' = 0 /\ ctl' = "mode") => (cur = 0 /\ ctl = "mode"),
         (Live /\ LiveInv /\ Announced) => Announced',
         (Live /\ LiveInv /\ Sampled) => Sampled'
  PROVE  TransferInv'
<1>1. Live' = Live
  BY DEF Live, InFlight
<1>2. PastInv'
  <2>1. \A m \in Players : time[m] >= 0 /\ time[m] \in Int
    BY TransferKinds DEF TransferOK, TransferInv, PastInv
  <2>2. \A m \in Players : time'[m] >= 0
    BY <2>1
  <2> QED BY <2>2 DEF TransferOK, TransferInv, PastInv
<1>3. LiveInv => LiveInv'
  BY DEF LiveInv, InFlight, NoNewAttach
<1> QED BY <1>1, <1>2, <1>3 DEF TransferOK, TransferInv

\* The scheduling loop.
LEMMA SchedulerKeepsTransfers ==
  ASSUME TransferOK, Scheduler
  PROVE  TransferInv'
<1>1. /\ UNCHANGED <<time, when, complete, queue, modeVars, syncVars, dataVars>>
      /\ ctl \in {"idle", "round", "turn", "check", "tick"}
      /\ ctl' \in Places \ {"write", "mode", "started", "tick", "callback"}
      /\ (cur' = 0 /\ ctl' = "run") => ~asleep[0]
      /\ ctl = "tick" => ~CompletionDue
  <2>1. CASE FrameStart
    BY <2>1 DEF FrameStart, clockVars, wireVars, Places, SlicePlaces
  <2>2. CASE Round
    BY <2>2 DEF Round, clockVars, wireVars, Places, SlicePlaces
  <2>3. CASE Turn
    BY <2>3, TransferKinds DEF TransferOK, Turn, NextTurn, SkipTurn, clockVars,
         wireVars, Places, SlicePlaces
  <2>4. CASE Check
    BY <2>4 DEF Check, clockVars, wireVars, Places, SlicePlaces
  <2>5. CASE SliceEnds
    BY <2>5 DEF SliceEnds, NextTurn, clockVars, wireVars, Places, SlicePlaces
  <2> QED BY <2>1, <2>2, <2>3, <2>4, <2>5 DEF Scheduler
<1>2. UNCHANGED <<waiting, transferActive, asleep, pending, clean, transfers,
                  multiData, dataReceived, mode, transferMode, syncArmed>>
  BY <1>1 DEF modeVars, syncVars, dataVars
<1>3. PrimarySlice' => ~waiting
  BY <1>1, <1>2, TransferKinds DEF PrimarySlice, SlicePlaces, TransferOK
<1>4. \A m \in Players : InFlight(m)' = InFlight(m)
  BY <1>2 DEF InFlight
<1>5. Announced => Announced'
  <2> SUFFICES ASSUME Announced PROVE Announced'
    OBVIOUS
  <2>1. waiting
    BY <1>1 DEF Announced
  <2> QED BY <1>1, <1>2, <1>3, <1>4, <2>1 DEF Announced, AnnouncedLast, Players
<1>6. Overdue => Overdue'
  BY <1>1, <1>2, <1>4 DEF Overdue
<1>7. Sampled => Sampled'
  <2> SUFFICES ASSUME Sampled PROVE Sampled'
    OBVIOUS
  <2>1. (InFlight(1) /\ ~InFlight(0)) => waiting
    <3> SUFFICES ASSUME InFlight(1), ~InFlight(0), ~waiting PROVE FALSE
      OBVIOUS
    <3>1. cur = 1 /\ ctl = "tick" /\ complete[1] <= time[1]
      BY <1>1 DEF Sampled
    <3>2. complete[1] # Nothing
      BY InFlightScheduled DEF Players
    <3> QED BY <1>1, <3>1, <3>2 DEF CompletionDue
  <2>2. 0 \in Players /\ 1 \in Players
    BY DEF Players
  <2> QED BY <1>1, <1>2, <1>3, <1>4, <1>6, <2>1, <2>2 DEF Sampled
<1>8. \A m \in Players : time'[m] \in Int /\ time'[m] >= time[m]
  BY <1>1, TransferKinds DEF TransferOK
<1>9. NoNewAttach(queue'[0], queue[0])
  BY <1>1 DEF NoNewAttach
<1> QED BY <1>1, <1>2, <1>5, <1>7, <1>8, <1>9, QuietTransfers

\* The CPU moves its own clock.  A primary at a barrier only finishes its
\* instruction, and a secondary's overdue completion stays so.
LEMMA CpuKeepsTransfers ==
  ASSUME TransferOK, Cpu
  PROVE  TransferInv'
<1>1. /\ UNCHANGED <<when, complete, queue, modeVars, syncVars, dataVars, cur>>
      /\ ctl \in {"run", "mode", "started", "tick"}
      /\ ctl' \in {"run", "write", "tick"}
      /\ ctl = "tick" => ~CompletionDue /\ ~early /\ ctl' = "tick"
      /\ ctl \in {"mode", "started"} => (IF early THEN ctl' = "tick" /\ early'
                                         ELSE ctl' = "run")
  BY DEF Cpu, CpuRuns, InstructionEnds, Halted, wireVars
<1>2. UNCHANGED <<waiting, transferActive, asleep, pending, clean, transfers,
                  multiData, dataReceived, mode, transferMode, syncArmed>>
  BY <1>1 DEF modeVars, syncVars, dataVars
<1>3. \A m \in Players : /\ time'[m] \in Int /\ time'[m] >= time[m]
                         /\ m # cur => time'[m] = time[m]
  <2>1. \A m \in Players : m # cur => time'[m] = time[m]
    BY DEF Cpu, CpuRuns, InstructionEnds, Halted, TransferOK, LinkOK, TypeOK
  <2> QED BY <2>1, TimeGrows DEF TransferOK
<1>4. \A m \in Players : InFlight(m)' = InFlight(m)
  BY <1>2 DEF InFlight
<1>5. (waiting /\ cur = 0 /\ ctl = "started") =>
         time'[0] <= time[0] + MaxLate /\ ctl' = "tick" /\ early'
  <2> SUFFICES ASSUME waiting, cur = 0, ctl = "started"
               PROVE  time'[0] <= time[0] + MaxLate /\ ctl' = "tick" /\ early'
    OBVIOUS
  <2>1. early
    BY TransferKinds DEF TransferOK
  <2>2. PICK late \in 0..MaxLate :
          time' = [time EXCEPT ![cur] = time[cur] + late]
    BY <2>1 DEF Cpu, CpuRuns, InstructionEnds, Halted
  <2>3. time'[0] = time[0] + late /\ MaxLate \in Nat /\ time[0] \in Int
    BY <2>2, IntervalAssumption DEF TransferOK, LinkOK, TypeOK, Players
  <2>4. time'[0] <= time[0] + MaxLate
    BY <2>3
  <2> QED BY <1>1, <2>1, <2>4
<1>6. Announced => Announced'
  <2> SUFFICES ASSUME Announced PROVE Announced'
    OBVIOUS
  <2>1. waiting
    BY <1>1 DEF Announced
  <2>2. cur = 0 => ctl = "started"
    BY <1>1, <2>1 DEF Announced, PrimarySlice, SlicePlaces
  <2>3. time'[0] < complete[0] /\ (cur = 0 => ctl' = "tick" /\ early')
    <3>1. CASE cur = 0
      <4>1. time[0] + MaxLate < complete[0]
        BY <2>2, <3>1 DEF Announced, PrimarySlice, SlicePlaces
      <4>2. time'[0] <= time[0] + MaxLate /\ ctl' = "tick" /\ early'
        BY <1>5, <2>1, <2>2, <3>1
      <4>3. MaxLate \in Nat /\ time[0] \in Int /\ complete[0] \in Int
              /\ time'[0] \in Int
        BY <1>3, TransferKinds, IntervalAssumption DEF TransferOK
      <4> QED BY <3>1, <4>1, <4>2, <4>3
    <3>2. CASE cur # 0
      BY <1>3, <3>2 DEF Announced, Players
    <3> QED BY <3>1, <3>2
  <2>4. /\ InFlight(0)' /\ ~InFlight(1)' /\ AnnouncedLast(queue[1])'
        /\ waiting' /\ transferActive'
        /\ \A i, j \in 1..Len(queue'[1]) : queue'[1][i].ts = queue'[1][j].ts
    BY <1>1, <1>2, <1>4, <2>1 DEF Announced, AnnouncedLast, Players
  <2> QED BY <1>1, <2>3, <2>4 DEF Announced, PrimarySlice
<1>7. Overdue => Overdue'
  <2> SUFFICES ASSUME Overdue PROVE Overdue'
    OBVIOUS
  <2>1. /\ time[1] \in Int /\ time'[1] \in Int /\ time'[1] >= time[1]
        /\ complete[1] \in Int /\ when[1] \in Int
    BY <1>3, TransferKinds DEF TransferOK
  <2>2. complete[1] <= time[1]
          \/ (complete[1] <= time[1] + 1 /\ when[1] > time[1])
    BY <1>1 DEF Overdue
  <2>3. time'[1] = time[1] \/ complete[1] <= time'[1]
    BY <2>1, <2>2
  <2> QED BY <1>1, <2>1, <2>2, <2>3 DEF Overdue
<1>8. Sampled => Sampled'
  <2> SUFFICES ASSUME Sampled PROVE Sampled'
    OBVIOUS
  <2>1. (InFlight(1) /\ ~InFlight(0)) => waiting
    <3> SUFFICES ASSUME InFlight(1), ~InFlight(0), ~waiting PROVE FALSE
      OBVIOUS
    <3>1. cur = 1 /\ ctl = "tick" /\ complete[1] <= time[1]
      BY <1>1 DEF Sampled
    <3>2. complete[1] # Nothing
      BY InFlightScheduled DEF Players
    <3> QED BY <1>1, <3>1, <3>2 DEF CompletionDue
  <2>2. waiting => ~PrimarySlice
    BY <1>1, TransferKinds DEF Sampled, PrimarySlice, SlicePlaces, TransferOK
  <2>3. waiting => ~PrimarySlice'
    BY <1>1, <2>2 DEF PrimarySlice, SlicePlaces
  <2>4. /\ multiData'[1] = transfers'
        /\ \A m \in Players : InFlight(m)' => dataReceived'[m]
        /\ ~waiting' => queue'[1] = << >>
        /\ waiting' => Len(queue'[1]) = 1 /\ queue'[1][1].type = "HARD_SYNC"
                         /\ queue'[1][1].txn = 0
    BY <1>1, <1>2, <1>4 DEF Sampled
  <2>5. 0 \in Players /\ 1 \in Players
    BY DEF Players
  <2>6. /\ (InFlight(1) /\ InFlight(0))' => complete'[1] <= complete'[0]
                                              \/ Overdue'
        /\ (InFlight(1) /\ ~InFlight(0))' =>
             /\ waiting'
             /\ complete'[1] <= queue'[1][1].ts \/ Overdue'
    BY <1>1, <1>2, <1>4, <1>7, <2>1, <2>5 DEF Sampled
  <2> QED BY <1>2, <2>3, <2>4, <2>6 DEF Sampled
<1>9. \A m \in Players : time'[m] \in Int /\ time'[m] >= time[m]
  BY <1>3
<1>10. NoNewAttach(queue'[0], queue[0])
  BY <1>1 DEF NoNewAttach
<1> QED BY <1>1, <1>2, <1>6, <1>8, <1>9, <1>10, QuietTransfers

\* The secondary's lockstep event begins, and ends.
LEMMA SecondaryKeepsTransfers ==
  ASSUME TransferOK, SecondaryEvent
  PROVE  TransferInv'
<1>1. /\ UNCHANGED <<time, when, complete, queue, modeVars, syncVars, dataVars>>
      /\ cur = 1 /\ cur' = 1 /\ ctl = "tick" /\ ctl' = "callback"
      /\ when[1] <= time[1]
  BY DEF SecondaryEvent, clockVars, wireVars, LockstepDue
<1>2. UNCHANGED <<waiting, transferActive, asleep, pending, clean, transfers,
                  multiData, dataReceived, mode, transferMode, syncArmed>>
  BY <1>1 DEF modeVars, syncVars, dataVars
<1>3. \A m \in Players : InFlight(m)' = InFlight(m)
  BY <1>2 DEF InFlight
<1>4. ~PrimarySlice /\ ~PrimarySlice' /\ 0 \in Players /\ 1 \in Players
  BY <1>1 DEF PrimarySlice, Players
<1>5. Announced => Announced'
  BY <1>1, <1>2, <1>3, <1>4 DEF Announced, AnnouncedLast
<1>6. Overdue => Overdue'
  <2>1. when[1] \in Int /\ time[1] \in Int
    BY TransferKinds DEF TransferOK
  <2> QED BY <1>1, <2>1 DEF Overdue
<1>7. Sampled => Sampled'
  BY <1>1, <1>2, <1>3, <1>4, <1>6 DEF Sampled
<1>8. \A m \in Players : time'[m] \in Int /\ time'[m] >= time[m]
  BY <1>1, TransferKinds DEF TransferOK
<1>9. NoNewAttach(queue'[0], queue[0])
  BY <1>1 DEF NoNewAttach
<1> QED BY <1>1, <1>2, <1>5, <1>7, <1>8, <1>9, QuietTransfers

\* A lockstep event ends: it schedules the next one later.
LEMMA EventEndsKeepsTransfers ==
  ASSUME TransferOK, EventEnds
  PROVE  TransferInv'
<1>1. /\ UNCHANGED <<time, complete, queue, modeVars, dataVars, waiting,
                     syncArmed, cur>>
      /\ ctl = "callback" /\ ctl' \in {"abort", "tick"}
      /\ HasPendingEvents(cur) => Head(queue[cur]).ts > time[cur]
      /\ early => early'
      /\ ~asleep[0] => ctl' = "tick"
      /\ cur = 0 => ctl' = "tick"
  <2>1. PICK n : /\ early' = (early \/ Sleeps(n))
                 /\ ctl' = IF Sleeps(n) /\ asleep[0] THEN "abort" ELSE "tick"
    BY DEF EventEnds
  <2>2. cur = 0 => ~Sleeps(n)
    BY DEF Sleeps
  <2>3. early => early'
    BY <2>1, Zenon
  <2>4. ctl' \in {"abort", "tick"} /\ (~asleep[0] => ctl' = "tick")
          /\ (cur = 0 => ctl' = "tick")
    BY <2>1, <2>2
  <2> QED BY <2>3, <2>4 DEF EventEnds, wireVars
<1>2. UNCHANGED <<transferActive, pending, clean, transfers, multiData,
                  dataReceived, mode, transferMode>>
  BY <1>1 DEF modeVars, dataVars
<1>3. when'[cur] > time[cur] /\ (cur = 0 => when'[1] = when[1])
  <2> DEFINE n == IF HasPendingEvents(cur)
                  THEN Min({next, Head(queue[cur]).ts - time[cur]}) ELSE next
             sleeps == Sleeps(n)
             least == IF sleeps THEN MIN_SLEEP ELSE 1
             delay == Max({n, least})
  <2>1. when' = [when EXCEPT ![cur] = time[cur] + delay]
    BY DEF EventEnds
  <2>2. n \in Int
    <3>1. next \in Int /\ time[cur] \in Int
      BY DEF TransferOK, LinkOK, TypeOK
    <3>2. CASE HasPendingEvents(cur)
      <4>1. queue[cur] \in Seq(EventRecords) /\ queue[cur] # << >>
        BY <3>2 DEF TransferOK, LinkOK, TypeOK, HasPendingEvents
      <4>2. Head(queue[cur]) \in EventRecords
        BY <4>1
      <4> DEFINE d == Head(queue[cur]).ts - time[cur]
      <4>3. d \in Int
        BY <3>1, <4>2 DEF EventRecords
      <4> HIDE DEF d
      <4>4. Min({next, d}) \in {next, d}
        BY <3>1, <4>3, MinOfTwo
      <4>5. n = Min({next, d})
        BY <3>2 DEF d
      <4> QED BY <3>1, <4>3, <4>4, <4>5
    <3> QED BY <3>1, <3>2
  <2>3. least \in Int /\ least >= 1
    BY IntervalAssumption
  <2> HIDE DEF n, sleeps, least
  <2>4. delay \in Int /\ delay >= 1
    <3>1. Max({n, least}) >= least /\ Max({n, least}) \in {n, least}
      BY <2>2, <2>3, MaxOfTwo
    <3> QED BY <2>2, <2>3, <3>1
  <2> HIDE DEF delay
  <2>5. when \in [Players -> Int] /\ cur \in Players /\ time[cur] \in Int
    BY DEF TransferOK, LinkOK, TypeOK
  <2> QED BY <2>1, <2>4, <2>5 DEF Players
<1>4. \A m \in Players : InFlight(m)' = InFlight(m)
  BY <1>2 DEF InFlight
<1>5. 0 \in Players /\ 1 \in Players /\ cur \in Players
  BY TransferKinds DEF Players, TransferOK
<1>6. (cur = 0 => PrimarySlice /\ PrimarySlice') /\ (cur = 1 => ~PrimarySlice')
  BY <1>1 DEF PrimarySlice, SlicePlaces
<1>7. Announced => Announced'
  <2> SUFFICES ASSUME Announced PROVE Announced'
    OBVIOUS
  <2>1. waiting
    <3> SUFFICES ASSUME ~waiting PROVE FALSE
      OBVIOUS
    <3>1. /\ cur = 1 /\ queue[1] # << >>
          /\ \A i \in 1..Len(queue[1]) : queue[1][i].ts <= time[1]
      BY DEF Announced, AnnouncedLast
    <3>2. queue[1] \in Seq(EventRecords) /\ time[1] \in Int
            /\ \A i \in 1..Len(queue[1]) : queue[1][i].ts \in Int
      BY TransferKinds DEF TransferOK
    <3>3. Head(queue[1]) = queue[1][1] /\ 1 \in 1..Len(queue[1])
      BY <3>1, <3>2
    <3> QED BY <1>1, <3>1, <3>2, <3>3 DEF HasPendingEvents
  <2> QED BY <1>1, <1>2, <1>4, <1>5, <1>6, <2>1
          DEF Announced, AnnouncedLast, Players
<1>8. Overdue => Overdue'
  <2>1. time[1] \in Int /\ when[1] \in Int /\ complete[1] \in Int
    BY TransferKinds DEF TransferOK
  <2> QED BY <1>1, <1>3, <1>4, <1>5, <2>1 DEF Overdue, Players
<1>9. Sampled => Sampled'
  <2> SUFFICES ASSUME Sampled PROVE Sampled'
    OBVIOUS
  <2>1. ~waiting => ctl' = "tick"
    BY <1>1, TransferKinds DEF TransferOK
  <2>2. /\ multiData'[1] = transfers'
        /\ \A m \in Players : InFlight(m)' => dataReceived'[m]
        /\ ~waiting' => queue'[1] = << >>
        /\ waiting' => Len(queue'[1]) = 1 /\ queue'[1][1].type = "HARD_SYNC"
                         /\ queue'[1][1].txn = 0
    BY <1>1, <1>2, <1>4 DEF Sampled
  <2>3. (waiting' /\ PrimarySlice') =>
          early' /\ ctl' \in {"tick", "callback"} /\ queue'[1][1].ts = time'[0]
    BY <1>1, <1>5, <1>6, TransferKinds DEF Sampled, TransferOK
  <2>4. /\ (InFlight(1) /\ InFlight(0))' => complete'[1] <= complete'[0]
                                              \/ Overdue'
        /\ (InFlight(1) /\ ~InFlight(0))' =>
             /\ (waiting' /\ complete'[1] <= queue'[1][1].ts) \/ Overdue'
             /\ ~waiting' => /\ cur' = 1 /\ ctl' \in {"tick", "callback"}
                             /\ complete'[1] <= time'[1]
    BY <1>1, <1>4, <1>5, <1>8, <2>1 DEF Sampled
  <2> QED BY <2>2, <2>3, <2>4 DEF Sampled
<1>10. \A m \in Players : time'[m] \in Int /\ time'[m] >= time[m]
  BY <1>1, TransferKinds DEF TransferOK
<1>11. NoNewAttach(queue'[0], queue[0])
  BY <1>1 DEF NoNewAttach
<1> QED BY <1>1, <1>2, <1>7, <1>9, <1>10, <1>11, QuietTransfers

\* The entries of a queue to which e was sent.
LEMMA SentEntries ==
  ASSUME LinkOK, NEW qs, NEW m, NEW e, Sends(qs, m, e)
  PROVE  /\ \A k \in 1..Len(queue'[m]) :
              queue'[m][k] = e \/ \E j \in 1..Len(qs[m]) : queue'[m][k] = qs[m][j]
         /\ \A p \in Players : p # m => queue'[p] = qs[p] /\ when'[p] = when[p]
<1>1. m \in Players /\ qs \in [Players -> Seq(EventRecords)]
        /\ e \in EventRecords /\ qs[m] \in Seq(EventRecords)
        /\ when \in [Players -> Int]
  BY DEF Sends, QueuesOK, EventsFor, LinkOK, TypeOK
<1>2. CASE Lose(qs, m)
  BY <1>2 DEF Lose
<1>3. CASE Deliver(qs, m, e)
  <2>1. PICK i \in InsertPoints(qs[m], e) :
          queue' = [qs EXCEPT ![m] = InsertAt(qs[m], i, e)]
    BY <1>1, <1>3 DEF Deliver
  <2>2. i \in 1..(Len(qs[m]) + 1) /\ Len(qs[m]) \in Nat
    BY <1>1, <2>1 DEF InsertPoints
  <2> DEFINE q == InsertAt(qs[m], i, e)
  <2>3. Len(q) = Len(qs[m]) + 1
    BY <1>1, <2>2, InsertAtType
  <2>4. \A k \in 1..(Len(qs[m]) + 1) :
          q[k] = IF k < i THEN qs[m][k] ELSE IF k = i THEN e ELSE qs[m][k - 1]
    BY <1>1, <2>2, InsertedAt
  <2> HIDE DEF q
  <2>5. queue'[m] = q /\ \A p \in Players : p # m => queue'[p] = qs[p]
    BY <1>1, <2>1 DEF q
  <2>6. ASSUME NEW k \in 1..Len(q)
        PROVE  q[k] = e \/ \E j \in 1..Len(qs[m]) : q[k] = qs[m][j]
    <3>1. CASE k < i
      BY <2>2, <2>3, <2>4, <3>1
    <3>2. CASE k = i
      BY <2>2, <2>3, <2>4, <3>2
    <3>3. CASE k > i
      <4>1. k - 1 \in 1..Len(qs[m]) /\ q[k] = qs[m][k - 1]
        BY <2>2, <2>3, <2>4, <3>3
      <4> QED BY <4>1
    <3> QED BY <2>2, <3>1, <3>2, <3>3
  <2>7. \A p \in Players : p # m => when'[p] = when[p]
    BY <1>1, <1>3 DEF Deliver
  <2> QED BY <2>5, <2>6, <2>7
<1> QED BY <1>2, <1>3 DEF Sends

\* A mode change.  That of the primary ends what TransferExact says of the
\* transfers under way.
LEMMA SetModeKeepsTransfers ==
  ASSUME TransferOK, NEW md \in GameModes, SetMode(md)
  PROVE  TransferInv'
<1> DEFINE e == Event("MODE_SET", cur, md, 0, 0)
<1>1. /\ UNCHANGED <<time, cur, complete, syncArmed, dataReceived,
                     transferActive, multiData, transfers, pending>>
      /\ mode' = [mode EXCEPT ![cur] = md]
      /\ transferMode' = IF cur = 0 THEN md ELSE transferMode
      /\ clean' = IF cur = 0 THEN {} ELSE clean
      /\ ctl = "write"
      /\ cur # 0 => UNCHANGED waiting
  BY DEF SetMode
<1>2. Sends(queue, Peer(cur), e)
  BY SetModeSends DEF TransferOK
<1>3. e.type = "MODE_SET" /\ e.txn = 0
  BY DEF Event
<1>4. \A k \in 1..Len(queue'[Peer(cur)]) :
        \/ queue'[Peer(cur)][k] = e
        \/ \E j \in 1..Len(queue[Peer(cur)]) :
             queue'[Peer(cur)][k] = queue[Peer(cur)][j]
  BY <1>2, SentEntries DEF TransferOK
<1>5. \A p \in Players : p # Peer(cur) => queue'[p] = queue[p] /\ when'[p] = when[p]
  BY <1>2, SentEntries DEF TransferOK
<1> HIDE DEF e
<1>6. Players = {0, 1} /\ cur \in Players /\ mode \in [Players -> Modes]
  BY TransferKinds DEF TransferOK, LinkOK, TypeOK
<1>7. CASE cur = 0
  <2>1. clean' = {} /\ mode'[0] = transferMode' /\ Peer(cur) = 1
    BY <1>1, <1>6, <1>7 DEF Peer
  <2>2. ~Live'
    BY <2>1 DEF Live, InFlight
  <2>3. \A k \in 1..Len(queue'[1]) : queue'[1][k].txn <= transfers
    <3>1. e.txn <= transfers
      BY <1>3, TransferKinds DEF TransferOK
    <3>2. \A j \in 1..Len(queue[1]) : queue[1][j].txn <= transfers
      BY DEF TransferOK, TransferInv, PastInv
    <3> QED BY <1>4, <2>1, <3>1, <3>2
  <2>4. PastInv'
    BY <1>1, <2>1, <2>3 DEF PastInv, TransferOK, TransferInv
  <2> QED BY <2>2, <2>4 DEF TransferInv
<1>8. CASE cur = 1
  <2>1. Peer(cur) = 0 /\ mode'[0] = mode[0] /\ queue'[1] = queue[1]
          /\ when'[1] = when[1] /\ clean' = clean /\ transferMode' = transferMode
          /\ waiting' = waiting
    BY <1>1, <1>5, <1>6, <1>8 DEF Peer
  <2>2. NoNewAttach(queue'[0], queue[0])
    BY <1>3, <1>4, <2>1 DEF NoNewAttach
  <2>3. \A m \in Players : time'[m] \in Int /\ time'[m] >= time[m]
    BY <1>1, TransferKinds DEF TransferOK
  <2>4. ~PrimarySlice /\ ~PrimarySlice'
    BY <1>1, <1>8 DEF PrimarySlice
  <2>5. \A m \in Players : InFlight(m)' = InFlight(m)
    BY <1>1, <2>1 DEF InFlight
  <2>6. Announced => Announced'
    BY <1>1, <1>6, <2>1, <2>4, <2>5 DEF Announced, AnnouncedLast
  <2>7. Overdue => Overdue'
    BY <1>1, <2>1 DEF Overdue
  <2>8. Sampled => Sampled'
    BY <1>1, <1>6, <2>1, <2>4, <2>5, <2>7 DEF Sampled
  <2> QED BY <1>1, <1>8, <2>1, <2>2, <2>3, <2>6, <2>8, QuietTransfers
<1> QED BY <1>6, <1>7, <1>8

\* When the primary starts a transfer, no earlier one is in flight.
LEMMA StartsAlone ==
  ASSUME TransferOK, Start
  PROVE  ~Live
<1>1. cur = 0 /\ MayStart
  BY DEF Start
<1>2. CASE ctl = "mode"
  BY <1>1, <1>2 DEF TransferOK, TransferInv, PastInv, Live, InFlight
<1>3. CASE ctl = "write" /\ complete[0] = Nothing
  <2>1. 0 \in Players /\ 1 \in Players /\ Players = {0, 1}
    BY DEF Players
  <2>2. ~InFlight(0)
    BY <1>3, <2>1, InFlightScheduled
  <2>3. ~waiting
    BY <1>1, <1>3, TransferKinds DEF TransferOK
  <2>4. ~InFlight(1)
    <3> SUFFICES ASSUME InFlight(1) PROVE FALSE
      OBVIOUS
    <3>1. Announced \/ Sampled
      BY <2>1 DEF TransferOK, TransferInv, Live
    <3>2. Sampled
      BY <2>2, <3>1 DEF Announced
    <3> QED BY <1>1, <2>2, <2>3, <3>2 DEF Sampled
  <2> QED BY <2>1, <2>2, <2>4 DEF Live
<1> QED BY <1>1, <1>2, <1>3 DEF MayStart

\* A transfer starts.
LEMMA StartKeepsTransfers ==
  ASSUME TransferOK, Start
  PROVE  TransferInv'
<1> DEFINE finish == time[0] + TransferCycles(mode[0])
           arm == mode[0] = "MULTI" /\ ~syncArmed
           hs == IF arm THEN HARD_SYNC_INTERVAL ELSE nextHardSync
           e == Event("TRANSFER_START", 0, NoMode, finish, transfers')
<1>1. /\ UNCHANGED <<time, mode, transferMode, dataReceived, cur>>
      /\ cur = 0 /\ mode[0] \in TransferModes /\ MayStart
      /\ transfers' = transfers + 1
      /\ clean' = IF Settled /\ mode[0] = "MULTI" THEN clean \cup {transfers'}
                                                 ELSE clean
      /\ multiData' = [m \in Players |-> IF m = 0 /\ transferMode = "MULTI"
                                         THEN transfers' ELSE Nothing]
  BY DEF Start, modeVars
<1> HIDE DEF arm, hs
<1>2. ~Live
  BY StartsAlone
<1>3. /\ Players = {0, 1} /\ transfers \in Nat /\ transfers' \in Nat
      /\ pending[0] \in Nat /\ pending[1] \in Nat
      /\ pending \in [Players -> Nat] /\ complete \in [Players -> Int]
      /\ time[0] \in Int /\ MultiCycles \in Nat \ {0}
      /\ NormalCycles \in Nat \ {0} /\ MaxLate \in Nat
  <2>1. /\ Players = {0, 1} /\ transfers \in Nat /\ time[0] \in Int
        /\ pending[0] \in Nat /\ pending[1] \in Nat
    BY TransferKinds DEF TransferOK
  <2>2. pending \in [Players -> Nat] /\ complete \in [Players -> Int]
    BY DEF TransferOK, LinkOK, TypeOK
  <2> QED BY <1>1, <2>1, <2>2, IntervalAssumption
<1>4. /\ mode[0] = transferMode /\ clean \subseteq 1..transfers
      /\ pending[0] <= transfers /\ pending[1] <= transfers
      /\ time[0] >= 0 /\ time[1] >= 0
      /\ \A m \in Players : complete[m] = Nothing => pending[m] = Nothing
      /\ \A i \in 1..Len(queue[1]) :
           /\ queue[1][i].txn <= transfers
           /\ queue[1][i].txn \in clean => pending[0] = queue[1][i].txn
  BY <1>3 DEF TransferOK, TransferInv, PastInv
<1>5. pending[0] \notin clean /\ pending[1] \notin clean
        /\ \A i \in 1..Len(queue[1]) : queue[1][i].txn \notin clean
  BY <1>2, <1>3, <1>4 DEF Live, InFlight
<1>6. /\ clean' \subseteq 1..transfers'
      /\ \A n \in Nat : (n <= transfers /\ n \in clean') => n \in clean
  BY <1>1, <1>3, <1>4
<1>7. \A i \in 1..Len(queue[1]) : queue[1][i].txn \in Nat
  BY TransferKinds DEF TransferOK
<1>8. CASE Lose(queue, 1) /\ UNCHANGED <<complete, pending>> /\ ctl' = "started"
  <2>1. queue'[1] = queue[1]
    BY <1>8 DEF Lose
  <2>2. pending[0] \notin clean' /\ pending[1] \notin clean'
          /\ \A i \in 1..Len(queue[1]) : queue[1][i].txn \notin clean'
    BY <1>3, <1>4, <1>5, <1>6, <1>7
  <2>3. ~Live'
    BY <1>3, <1>8, <2>2 DEF Live, InFlight
  <2>4. PastInv'
    BY <1>1, <1>3, <1>4, <1>6, <1>7, <1>8, <2>1, <2>2 DEF PastInv
  <2> QED BY <2>3, <2>4 DEF TransferInv
<1>9. ASSUME Deliver(queue, 1, e), transferActive',
             mode[0] = "MULTI" => syncArmed',
             complete' = [complete EXCEPT ![0] = finish],
             pending' = [pending EXCEPT ![0] = transfers'],
             waiting', early', ctl' = "started"
      PROVE  TransferInv'
  <2>1. finish \in Int /\ finish > 0 /\ finish > time[0]
          /\ (mode[0] = "MULTI" => time[0] + MaxLate < finish)
    <3>1. mode[0] = "MULTI" => TransferCycles(mode[0]) = MultiCycles
      BY DEF TransferCycles
    <3>2. TransferCycles(mode[0]) \in {MultiCycles, NormalCycles}
      BY DEF TransferCycles
    <3> QED BY SMTT(30), <1>3, <1>4, <3>1, <3>2, LatenessAssumption
  <2>2. Sends(queue, 1, e)
    <3>1. QueuesOK(queue) /\ 0 \in Players /\ 1 \in Players /\ Peer(0) = 1
            /\ NoMode \in Modes \cup {NoMode} /\ TypeOK
      BY QueuesKept DEF TransferOK, LinkOK, Players, Peer
    <3> HIDE DEF finish
    <3>2. e \in EventsFor(1)
      BY <1>3, <2>1, <3>1, EventKind
    <3> QED BY <1>9, <3>1, <3>2 DEF Sends
  <2>3. e.type = "TRANSFER_START" /\ e.txn = transfers' /\ e.finish = finish
          /\ e.ts = time[0]
    BY DEF Event
  <2>4. \A k \in 1..Len(queue'[1]) :
          queue'[1][k] = e \/ \E j \in 1..Len(queue[1]) : queue'[1][k] = queue[1][j]
    BY <2>2, SentEntries DEF TransferOK
  <2>5. queue'[0] = queue[0]
    BY <1>3, <2>2, SentEntries DEF TransferOK
  <2> HIDE DEF e, finish
  <2>6. pending'[0] = transfers' /\ pending'[1] = pending[1]
          /\ complete'[0] = finish /\ complete'[1] = complete[1]
    BY <1>3, <1>9
  <2>7. pending'[1] \notin clean'
    BY <1>3, <1>4, <1>5, <1>6, <2>6
  <2>8. \A k \in 1..Len(queue'[1]) :
          /\ queue'[1][k].txn <= transfers'
          /\ queue'[1][k].txn \in clean' => queue'[1][k].txn = transfers'
    <3>1. \A i \in 1..Len(queue[1]) : /\ queue[1][i].txn <= transfers'
                                      /\ queue[1][i].txn \notin clean'
      BY <1>1, <1>3, <1>4, <1>5, <1>6, <1>7
    <3>2. e.txn <= transfers'
      BY <1>3, <2>3
    <3> SUFFICES ASSUME NEW k \in 1..Len(queue'[1])
                 PROVE  /\ queue'[1][k].txn <= transfers'
                        /\ queue'[1][k].txn \in clean' =>
                             queue'[1][k].txn = transfers'
      OBVIOUS
    <3>3. CASE queue'[1][k] = e
      BY <2>3, <3>2, <3>3
    <3>4. CASE \E j \in 1..Len(queue[1]) : queue'[1][k] = queue[1][j]
      BY <3>1, <3>4
    <3> QED BY <2>4, <3>3, <3>4
  <2>9. PastInv'
    <3>1. \A m \in Players : /\ pending'[m] <= transfers'
                             /\ complete'[m] = Nothing => pending'[m] = Nothing
                             /\ time'[m] >= 0
      BY <1>1, <1>3, <1>4, <2>1, <2>6 DEF Nothing
    <3> QED BY <1>1, <1>4, <1>6, <1>9, <2>6, <2>8, <3>1 DEF PastInv
  <2>10. ASSUME Live' PROVE LiveInv' /\ Announced'
    <3>1. transfers' \in clean'
      BY <1>3, <2>6, <2>7, <2>10 DEF Live, InFlight
    <3>2. Settled /\ mode[0] = "MULTI"
      BY <1>1, <1>3, <1>4, <3>1
    <3>3. LiveInv'
      BY <1>1, <1>3, <1>4, <1>9, <2>5, <2>6, <2>7, <3>2
         DEF LiveInv, InFlight, Settled
    <3>4. queue'[1] = Append(queue[1], e)
      <4>1. queue[1] \in Seq(EventsFor(1)) /\ queue \in [Players -> Seq(EventRecords)]
        BY TransferKinds DEF TransferOK, LinkOK, TypeOK
      <4>2. \A i \in 1..Len(queue[1]) : queue[1][i] \in EventsFor(1)
        BY <4>1
      <4>3. \A i \in 1..Len(queue[1]) : queue[1][i].type # "ATTACH"
        BY <4>2 DEF EventsFor
      <4>4. Fresh(queue[1], e.ts)
        BY <1>3, <2>3, <3>2, <4>3 DEF Settled, Fresh
      <4>5. queue' = [queue EXCEPT ![1] = Append(queue[1], e)]
        BY <1>9, <2>2, <4>4, DeliveredLast DEF TransferOK
      <4> QED BY <1>3, <4>1, <4>5
    <3>5. queue[1] \in Seq(EventRecords) /\ Len(queue[1]) \in Nat
      BY TransferKinds DEF TransferOK
    <3>6. e \in EventRecords
      BY <2>2 DEF Sends, EventsFor
    <3>7. /\ queue'[1] # << >> /\ Len(queue'[1]) = Len(queue[1]) + 1
          /\ \A k \in 1..Len(queue'[1]) :
               queue'[1][k] = IF k <= Len(queue[1]) THEN queue[1][k] ELSE e
      BY <3>4, <3>5, <3>6
    <3>8. AnnouncedLast(queue[1])'
      <4>1. queue'[1][Len(queue'[1])] = e
        BY <3>5, <3>7
      <4>2. \A i \in 1..(Len(queue'[1]) - 1) : queue'[1][i].txn # transfers'
        <5> SUFFICES ASSUME NEW i \in 1..(Len(queue'[1]) - 1)
                     PROVE  queue'[1][i].txn # transfers'
          OBVIOUS
        <5>1. i \in 1..Len(queue[1]) /\ queue'[1][i] = queue[1][i]
          BY <3>5, <3>7
        <5>2. queue[1][i].txn <= transfers /\ queue[1][i].txn \in Nat
          BY <1>4, <1>7, <5>1
        <5> QED BY <1>1, <1>3, <5>1, <5>2
      <4> QED BY <2>3, <2>6, <3>7, <4>1, <4>2 DEF AnnouncedLast
    <3>9. \A k \in 1..Len(queue'[1]) : queue'[1][k].ts = time[0]
      BY <2>3, <3>2, <3>5, <3>7 DEF Settled
    <3>10. InFlight(0)' /\ ~InFlight(1)'
      BY <2>6, <2>7, <3>1 DEF InFlight
    <3>11. /\ time'[0] < complete'[0]
           /\ time'[0] + MaxLate < complete'[0]
      BY <1>1, <2>1, <2>6, <3>2
    <3>12. Announced'
      BY <1>9, <3>8, <3>9, <3>10, <3>11 DEF Announced
    <3> QED BY <3>3, <3>12
  <2> QED BY <2>9, <2>10 DEF TransferInv
<1> HIDE DEF finish, arm, hs, e
<1>10. CASE /\ Deliver(queue, 1, e)
            /\ transferActive' = TRUE
            /\ syncArmed' = (syncArmed \/ arm)
            /\ complete' = [complete EXCEPT ![0] = finish]
            /\ pending' = [pending EXCEPT ![0] = transfers']
            /\ IF waiting
               THEN /\ nextHardSync' = hs
                    /\ ctl' = "started"
                    /\ UNCHANGED <<cycle, waiting, asleep, early>>
               ELSE WaitOnPlayers(hs, "started")
  <2>1. waiting' /\ early' /\ ctl' = "started"
    <3>1. CASE waiting
      <4>1. ctl \in {"mode", "write"}
        BY <1>1 DEF MayStart
      <4>2. early
        BY <1>1, <3>1, <4>1, TransferKinds DEF TransferOK
      <4> QED BY <1>10, <3>1, <4>2
    <3>2. CASE ~waiting
      <4>1. hs \in Int
        BY IntervalAssumption DEF hs, TransferOK, LinkOK, TypeOK
      <4> QED BY <1>10, <3>2, <4>1, Waited DEF TransferOK
    <3> QED BY <3>1, <3>2
  <2>2. mode[0] = "MULTI" => syncArmed'
    BY <1>10, Zenon DEF arm
  <2> QED BY <1>9, <1>10, <2>1, <2>2
<1> QED BY <1>8, <1>10 DEF Start, finish, arm, hs, e

\* The primary synchronises with a secondary that has nothing to handle.
LEMMA HardSyncAlone ==
  ASSUME LinkOK, ~waiting, queue[1] = << >>, NEW hs \in Int, NEW place,
         HardSync(hs, place)
  PROVE  /\ queue'[1] = <<HardSyncEvent>> /\ queue'[0] = queue[0]
         /\ waiting' /\ early' /\ ctl' = place
         /\ when[1] > time[1] => when'[1] > time[1]
<1>1. Deliver(queue, 1, HardSyncEvent) /\ WaitOnPlayers(hs, place)
  BY DEF HardSync, HardSyncEvent
<1>2. Sends(queue, 1, HardSyncEvent)
  BY <1>1, HardSyncSends
<1>3. Fresh(queue[1], HardSyncEvent.ts)
  BY DEF Fresh
<1>4. queue' = [queue EXCEPT ![1] = Append(queue[1], HardSyncEvent)]
  BY <1>1, <1>2, <1>3, DeliveredLast
<1>5. 0 \in Players /\ 1 \in Players /\ queue \in [Players -> Seq(EventRecords)]
  BY DEF LinkOK, TypeOK, Players
<1>6. queue'[0] = queue[0] /\ queue'[1] = Append(<< >>, HardSyncEvent)
  BY <1>4, <1>5
<1>7. waiting' /\ early' /\ ctl' = place
  BY <1>1, Waited
<1>8. when[1] > time[1] => when'[1] > time[1]
  BY <1>2, <1>5, DeliveryAhead
<1> QED BY <1>6, <1>7, <1>8

\* What the secondary still has to complete stays overdue outside a callback.
LEMMA OverdueKept ==
  ASSUME LinkOK, Overdue, ctl # "callback", UNCHANGED <<time, complete>>,
         when[1] > time[1] => when'[1] > time[1]
  PROVE  Overdue'
BY DEF Overdue

\* The primary's lockstep event begins.
LEMMA PrimaryEventKeepsTransfers ==
  ASSUME TransferOK, PrimaryEvent
  PROVE  TransferInv'
<1>1. /\ UNCHANGED <<time, complete, modeVars, syncArmed, dataVars, cur>>
      /\ ctl = "tick" /\ cur = 0
  BY DEF PrimaryEvent
<1>2. UNCHANGED <<transferActive, pending, clean, transfers, multiData,
                  dataReceived, mode, transferMode>>
  BY <1>1 DEF modeVars, dataVars
<1>3. \A m \in Players : InFlight(m)' = InFlight(m)
  BY <1>2 DEF InFlight
<1>4. 0 \in Players /\ 1 \in Players
  BY DEF Players
<1>5. \A m \in Players : time'[m] \in Int /\ time'[m] >= time[m]
  BY <1>1, TransferKinds DEF TransferOK
<1>6. PrimarySlice
  BY <1>1 DEF PrimarySlice, SlicePlaces
<1>7. CASE UNCHANGED <<queue, when, waiting, early>> /\ ctl' = "callback"
  <2>1. PrimarySlice'
    BY <1>1, <1>7 DEF PrimarySlice, SlicePlaces
  <2>2. Announced => Announced'
    BY <1>1, <1>2, <1>3, <1>4, <1>6, <1>7 DEF Announced, AnnouncedLast
  <2>3. Overdue => Overdue'
    BY <1>1, <1>7, OverdueKept DEF TransferOK
  <2>4. Sampled => Sampled'
    BY <1>1, <1>2, <1>3, <1>4, <1>6, <1>7, <2>3 DEF Sampled
  <2>5. NoNewAttach(queue'[0], queue[0])
    BY <1>7 DEF NoNewAttach
  <2> QED BY <1>1, <1>2, <1>5, <1>7, <2>2, <2>4, <2>5, QuietTransfers
<1>8. ASSUME ~waiting, NEW hs \in Int, HardSync(hs, "callback")
      PROVE  TransferInv'
  <2>1. Sends(queue, 1, HardSyncEvent)
    BY <1>8, HardSyncSends DEF HardSync, HardSyncEvent, TransferOK
  <2>2. queue'[0] = queue[0] /\
        \A k \in 1..Len(queue'[1]) :
          \/ queue'[1][k] = HardSyncEvent
          \/ \E j \in 1..Len(queue[1]) : queue'[1][k] = queue[1][j]
    BY <1>4, <2>1, SentEntries DEF TransferOK
  <2>3. HardSyncEvent.txn = 0 /\ HardSyncEvent.type = "HARD_SYNC"
          /\ HardSyncEvent.ts = time[0]
    BY DEF HardSyncEvent, Event
  <2>4. ctl' = "callback"
    BY <1>8, Waited DEF HardSync, TransferOK
  <2>5. PastInv'
    <3>1. transfers \in Nat /\ clean \subseteq 1..transfers
      BY TransferKinds DEF TransferOK, TransferInv, PastInv
    <3>2. \A k \in 1..Len(queue'[1]) :
            /\ queue'[1][k].txn <= transfers
            /\ queue'[1][k].txn \in clean => pending[0] = queue'[1][k].txn
      BY <2>2, <2>3, <3>1 DEF TransferOK, TransferInv, PastInv
    <3> QED BY <1>1, <1>2, <2>4, <3>2 DEF TransferOK, TransferInv, PastInv
  <2>6. ASSUME Live' PROVE LiveInv' /\ Sampled'
    <3>1. Live
      BY <1>3, <2>6 DEF Live
    <3>2. LiveInv'
      BY <1>1, <1>2, <1>3, <2>2, <3>1 DEF LiveInv, TransferOK, TransferInv
    <3>3. Sampled /\ ~(InFlight(1) /\ ~InFlight(0))
      BY <1>1, <1>8, <3>1 DEF TransferOK, TransferInv, Announced, Sampled
    <3>4. queue[1] = << >>
      BY <1>8, <3>3 DEF Sampled
    <3>5. /\ queue'[1] = <<HardSyncEvent>>
          /\ waiting' /\ early'
          /\ when[1] > time[1] => when'[1] > time[1]
      BY <1>8, <3>4, HardSyncAlone DEF TransferOK
    <3>6. Overdue => Overdue'
      BY <1>1, <3>5, OverdueKept DEF TransferOK
    <3>7. Len(queue'[1]) = 1 /\ queue'[1][1] = HardSyncEvent
      BY <3>5
    <3>8. Sampled'
      BY <1>1, <1>2, <1>3, <1>4, <2>3, <2>4, <3>3, <3>5, <3>6, <3>7 DEF Sampled
    <3> QED BY <3>2, <3>8
  <2> QED BY <2>5, <2>6 DEF TransferInv
<1>9. CASE ~waiting /\ HardSync(nextHardSync + HARD_SYNC_INTERVAL, "callback")
  <2>1. nextHardSync + HARD_SYNC_INTERVAL \in Int
    BY SMTT(30), IntervalAssumption DEF TransferOK, LinkOK, TypeOK
  <2> QED BY <1>8, <1>9, <2>1
<1>10. CASE /\ Lose(queue, 1) \/ UNCHANGED <<queue, dropped, when>>
            /\ ctl' = "callback" /\ UNCHANGED <<waiting, early>>
  <2>1. UNCHANGED <<queue, when>>
    BY <1>10 DEF Lose
  <2> QED BY <1>7, <1>10, <2>1
<1>11. \/ ~waiting /\ HardSync(nextHardSync + HARD_SYNC_INTERVAL, "callback")
       \/ /\ Lose(queue, 1) \/ UNCHANGED <<queue, dropped, when>>
          /\ ctl' = "callback" /\ UNCHANGED <<waiting, early>>
  BY DEF PrimaryEvent
<1> QED BY <1>9, <1>10, <1>11

\* The secondary's transfer completes.
LEMMA SecondaryFinishKeepsTransfers ==
  ASSUME TransferOK, Finish, cur = 1
  PROVE  TransferInv'
<1>1. /\ UNCHANGED <<time, modeVars, syncArmed, transferActive, multiData,
                     transfers, clean, cur, queue, when, waiting, early, ctl>>
      /\ ctl = "tick"
      /\ complete' = [complete EXCEPT ![1] = Nothing]
      /\ pending' = [pending EXCEPT ![1] = Nothing]
  BY DEF Finish, SyncAfter
<1>2. dataReceived'[0] = dataReceived[0]
  BY DEF Finish, TransferOK, LinkOK, TypeOK, Players
<1>3. 0 \in Players /\ 1 \in Players /\ Players = {0, 1}
  BY DEF Players
<1>4. /\ complete'[0] = complete[0] /\ complete'[1] = Nothing
      /\ pending'[0] = pending[0] /\ pending'[1] = Nothing
  BY <1>1, <1>3 DEF TransferOK, LinkOK, TypeOK
<1>5. clean \subseteq 1..transfers /\ transfers \in Nat
  BY TransferKinds DEF TransferOK, TransferInv, PastInv
<1>6. ~InFlight(1)' /\ InFlight(0)' = InFlight(0)
  BY <1>1, <1>4, <1>5 DEF InFlight, Nothing
<1>7. PastInv'
  <2>1. \A m \in Players : pending'[m] <= transfers
    BY <1>3, <1>4, <1>5 DEF TransferOK, TransferInv, PastInv, Nothing
  <2>2. \A m \in Players : complete'[m] = Nothing => pending'[m] = Nothing
    BY <1>3, <1>4 DEF TransferOK, TransferInv, PastInv
  <2> QED BY <1>1, <1>4, <2>1, <2>2
          DEF TransferOK, TransferInv, PastInv, modeVars
<1>8. ASSUME Live' PROVE LiveInv' /\ (Announced' \/ Sampled')
  <2>1. Live /\ InFlight(0)
    BY <1>3, <1>6, <1>8 DEF Live
  <2>2. LiveInv'
    BY <1>1, <1>3, <1>4, <1>6, <2>1
       DEF LiveInv, TransferOK, TransferInv, modeVars
  <2>3. ~PrimarySlice /\ ~PrimarySlice'
    BY <1>1 DEF PrimarySlice
  <2>4. Announced => Announced'
    BY <1>1, <1>4, <1>6, <2>1, <2>3 DEF Announced, AnnouncedLast
  <2>5. Sampled => Sampled'
    BY <1>1, <1>2, <1>3, <1>6, <2>1, <2>3 DEF Sampled
  <2> QED BY <2>1, <2>2, <2>4, <2>5 DEF TransferOK, TransferInv
<1> QED BY <1>7, <1>8 DEF TransferInv

\* The primary's transfer completes: it raises a barrier, if none is up, that
\* the secondary releases only once it has completed too.
LEMMA PrimaryFinishKeepsTransfers ==
  ASSUME TransferOK, Finish, cur = 0
  PROVE  TransferInv'
<1> DEFINE handled == mode[cur] \in TransferModes /\ transferMode = mode[cur]
           sync == handled /\ SyncAfter(cur)
<1>1. /\ UNCHANGED <<time, modeVars, syncArmed, transferActive, multiData,
                     transfers, clean, cur>>
      /\ ctl = "tick" /\ complete[0] <= time[0]
      /\ complete' = [complete EXCEPT ![0] = Nothing]
      /\ pending' = [pending EXCEPT ![0] = Nothing]
  BY DEF Finish, CompletionDue
<1>2. \/ sync /\ ~waiting /\ HardSync(nextHardSync, "tick")
      \/ /\ IF sync /\ ~waiting THEN Lose(queue, 1)
                                ELSE UNCHANGED <<queue, dropped, when>>
         /\ UNCHANGED <<waiting, early, ctl>>
  BY DEF Finish
<1> HIDE DEF sync, handled
<1>3. dataReceived'[1] = dataReceived[1]
  BY DEF Finish, TransferOK, LinkOK, TypeOK, Players
<1>4. 0 \in Players /\ 1 \in Players /\ Players = {0, 1}
  BY DEF Players
<1>5. /\ complete'[0] = Nothing /\ complete'[1] = complete[1]
      /\ pending'[0] = Nothing /\ pending'[1] = pending[1]
  BY <1>1, <1>4 DEF TransferOK, LinkOK, TypeOK
<1>6. clean \subseteq 1..transfers /\ transfers \in Nat
  BY TransferKinds DEF TransferOK, TransferInv, PastInv
<1>7. ~InFlight(0)' /\ InFlight(1)' = InFlight(1)
  BY <1>1, <1>5, <1>6 DEF InFlight, Nothing
<1>8. /\ complete[0] \in Int /\ complete[1] \in Int /\ time[0] \in Int
      /\ time[1] \in Int /\ nextHardSync \in Int
      /\ waiting => queue[1] # << >>
  BY TransferKinds DEF TransferOK, LinkOK, TypeOK
<1>9. Live => Sampled
  BY <1>1, <1>8 DEF TransferOK, TransferInv, Announced
<1>10. \A i \in 1..Len(queue[1]) : queue[1][i].txn \notin clean
  <2> SUFFICES ASSUME NEW i \in 1..Len(queue[1]), queue[1][i].txn \in clean
               PROVE  FALSE
    OBVIOUS
  <2>1. InFlight(0)
    BY DEF TransferOK, TransferInv, PastInv, InFlight
  <2>2. Sampled
    BY <1>4, <1>9, <2>1 DEF Live
  <2>3. queue[1] # << >>
    OBVIOUS
  <2>4. i = 1 /\ queue[1][1].txn = 0
    BY <2>2, <2>3 DEF Sampled
  <2> QED BY <1>6, <2>4
<1>11. /\ queue'[0] = queue[0]
       /\ \A k \in 1..Len(queue'[1]) :
            \/ queue'[1][k] = HardSyncEvent
            \/ \E j \in 1..Len(queue[1]) : queue'[1][k] = queue[1][j]
  <2>1. CASE UNCHANGED queue
    BY <2>1
  <2>2. CASE Sends(queue, 1, HardSyncEvent)
    BY <1>4, <2>2, SentEntries DEF TransferOK
  <2> QED BY <2>1, <2>2, SyncSends DEF TransferOK
<1>12. HardSyncEvent.txn = 0 /\ HardSyncEvent.type = "HARD_SYNC"
         /\ HardSyncEvent.ts = time[0]
  BY DEF HardSyncEvent, Event
<1>13. ctl' = "tick"
  BY <1>1, <1>2, <1>8, Waited DEF HardSync, TransferOK
<1>14. PastInv'
  <2>1. \A m \in Players : pending'[m] <= transfers
    BY <1>4, <1>5, <1>6 DEF TransferOK, TransferInv, PastInv, Nothing
  <2>2. \A m \in Players : complete'[m] = Nothing => pending'[m] = Nothing
    BY <1>4, <1>5 DEF TransferOK, TransferInv, PastInv
  <2>3. \A k \in 1..Len(queue'[1]) : /\ queue'[1][k].txn <= transfers
                                     /\ queue'[1][k].txn \notin clean
    BY <1>6, <1>10, <1>11, <1>12 DEF TransferOK, TransferInv, PastInv
  <2> QED BY <1>1, <1>13, <2>1, <2>2, <2>3
          DEF TransferOK, TransferInv, PastInv, modeVars
<1>15. ASSUME Live' PROVE LiveInv' /\ Sampled'
  <2>1. InFlight(1) /\ Live /\ Sampled
    BY <1>4, <1>7, <1>9, <1>15 DEF Live
  <2>2. LiveInv /\ LiveInv'
    BY <1>1, <1>4, <1>5, <1>7, <1>11, <2>1
       DEF LiveInv, TransferOK, TransferInv, modeVars
  <2>3. PrimarySlice
    BY <1>1 DEF PrimarySlice, SlicePlaces
  <2>4. CASE waiting
    <3>1. UNCHANGED <<queue, when, waiting, early, ctl>>
      BY <1>2, <2>4
    <3>2. Overdue => Overdue'
      BY <1>1, <1>5, <3>1 DEF Overdue
    <3>3. complete[1] <= queue[1][1].ts \/ Overdue
      <4>1. queue[1][1].ts = time[0]
        BY <2>1, <2>3, <2>4 DEF Sampled
      <4> QED BY <1>1, <1>8, <2>1, <4>1 DEF Sampled
    <3> QED BY <1>1, <1>3, <1>4, <1>5, <1>7, <2>1, <2>2, <2>3, <2>4, <3>1,
               <3>2, <3>3 DEF Sampled
  <2>5. CASE ~waiting
    <3>1. InFlight(0) /\ queue[1] = << >>
      BY <1>1, <2>1, <2>5 DEF Sampled
    <3>2. sync
      BY <2>2 DEF sync, handled, SyncAfter, LiveInv, TransferModes,
                  TransferOK, TransferInv, PastInv
    <3>3. Room(queue[1])
      BY <3>1, IntervalAssumption DEF Room
    <3>4. HardSync(nextHardSync, "tick")
      BY <1>2, <2>5, <3>2, <3>3 DEF Lose
    <3>5. /\ queue'[1] = <<HardSyncEvent>> /\ waiting' /\ early'
          /\ when[1] > time[1] => when'[1] > time[1]
      BY <1>8, <2>5, <3>1, <3>4, HardSyncAlone DEF TransferOK
    <3>6. Len(queue'[1]) = 1 /\ queue'[1][1] = HardSyncEvent
      BY <3>5
    <3>7. Overdue => Overdue'
      BY <1>1, <1>5, <3>5 DEF Overdue
    <3>8. complete'[1] <= queue'[1][1].ts \/ Overdue'
      BY <1>1, <1>5, <1>8, <1>12, <2>1, <3>1, <3>6, <3>7 DEF Sampled
    <3> QED BY <1>1, <1>3, <1>4, <1>5, <1>7, <1>12, <1>13, <2>1, <2>2, <3>5,
               <3>6, <3>8 DEF Sampled
  <2> QED BY <2>4, <2>5
<1> QED BY <1>14, <1>15 DEF TransferInv

\* The primary handles an event: only the announcement of a newcomer, and
\* then nothing is in flight, makes it send one.
LEMMA PrimaryHandlesTransfers ==
  ASSUME TransferOK, HandleAttach \/ (HandleModeSet /\ cur = 0)
  PROVE  TransferInv'
<1>1. 0 \in Players /\ 1 \in Players /\ Players = {0, 1}
  BY DEF Players
<1>2. \A m \in Players : time[m] \in Int
  BY TransferKinds DEF TransferOK
<1>3. CASE HandleAttach
  <2> DEFINE e == Event("MODE_SET", cur, mode[cur], 0, 0)
  <2>1. /\ Sends(Popped, Peer(cur), e) /\ cur = 0 /\ Peer(cur) = 1
        /\ UNCHANGED <<time, cur, ctl>>
    BY <1>3, AttachSends DEF TransferOK, Peer
  <2>2. Popped[1] = queue[1] /\ ctl = "callback"
    BY <1>3, <2>1, Taken DEF HandleAttach, TransferOK
  <2>3. \A k \in 1..Len(queue'[1]) :
          queue'[1][k] = e \/ \E j \in 1..Len(queue[1]) : queue'[1][k] = queue[1][j]
    BY <2>1, <2>2, SentEntries DEF TransferOK
  <2>4. e.txn = 0
    BY DEF Event
  <2> HIDE DEF e
  <2>5. /\ UNCHANGED <<complete, mode, transferMode, pending, clean, transfers>>
    BY <1>3 DEF HandleAttach, dataVars
  <2>6. ~Live
    <3>1. queue[0] \in Seq(EventsFor(0)) /\ queue[0] # << >>
            /\ Head(queue[0]).type = "ATTACH"
      BY <1>3, <2>1, TransferKinds DEF HandleAttach, Takes, HasPendingEvents,
         TransferOK
    <3>2. 1 \in 1..Len(queue[0]) /\ queue[0][1].type = "ATTACH"
      BY <3>1
    <3> QED BY <3>2 DEF TransferOK, TransferInv, LiveInv
  <2>7. ~Live'
    BY <2>5, <2>6 DEF Live, InFlight
  <2>8. clean \subseteq 1..transfers /\ transfers \in Nat
    BY TransferKinds DEF TransferOK, TransferInv, PastInv
  <2>9. \A k \in 1..Len(queue'[1]) :
          /\ queue'[1][k].txn <= transfers
          /\ queue'[1][k].txn \in clean => pending[0] = queue'[1][k].txn
    BY <2>3, <2>4, <2>8 DEF TransferOK, TransferInv, PastInv
  <2>10. PastInv'
    BY <2>1, <2>2, <2>5, <2>9 DEF TransferOK, TransferInv, PastInv
  <2> QED BY <2>7, <2>10 DEF TransferInv
<1>4. CASE HandleModeSet /\ cur = 0
  <2>1. Head(queue[0]) \in EventsFor(0) /\ Popped[1] = queue[1]
          /\ ctl = "callback"
    BY <1>4, Taken DEF HandleModeSet, TransferOK
  <2>2. Head(queue[0]).from # 0
    BY <2>1 DEF EventsFor, Peer
  <2>3. /\ UNCHANGED <<waiting, dataReceived, transferActive, asleep, early>>
        /\ UNCHANGED <<time, when, complete, mode, transferMode, syncArmed,
                       multiData, transfers, pending, clean, ctl, cur>>
        /\ queue' = Popped
    BY <1>4, <2>2 DEF HandleModeSet, clockVars
  <2>4. NoNewAttach(queue'[0], queue[0])
    <3>1. queue[0] \in Seq(EventsFor(0)) /\ queue[0] # << >>
            /\ queue \in [Players -> Seq(EventRecords)]
      BY <1>4, TransferKinds DEF HandleModeSet, Takes, HasPendingEvents,
         TransferOK, LinkOK, TypeOK
    <3>2. queue'[0] = Tail(queue[0])
      BY <1>1, <1>4, <2>3, <3>1 DEF Popped
    <3>3. \A i \in 1..Len(Tail(queue[0])) :
            i + 1 \in 1..Len(queue[0]) /\ Tail(queue[0])[i] = queue[0][i + 1]
      BY <3>1
    <3> QED BY <3>2, <3>3 DEF NoNewAttach
  <2>5. \A m \in Players : InFlight(m)' = InFlight(m)
    BY <2>3 DEF InFlight
  <2>6. PrimarySlice' = PrimarySlice /\ queue'[1] = queue[1]
    BY <2>1, <2>3 DEF PrimarySlice
  <2>7. Announced => Announced'
    BY <1>1, <2>3, <2>5, <2>6 DEF Announced, AnnouncedLast
  <2>8. Overdue => Overdue'
    BY <1>1, <2>3, <2>5 DEF Overdue
  <2>9. Sampled => Sampled'
    BY <1>1, <2>3, <2>5, <2>6, <2>8 DEF Sampled
  <2>10. \A m \in Players : time'[m] \in Int /\ time'[m] >= time[m]
    BY <1>2, <2>3
  <2>11. mode'[0] = mode[0]
    BY <2>3
  <2> QED BY <2>3, <2>4, <2>6, <2>7, <2>9, <2>10, <2>11, QuietTransfers
<1> QED BY <1>3, <1>4

\* The secondary took the head of its queue and acknowledged it.
SecondaryTakes ==
  /\ ctl = "callback" /\ cur = 1 /\ queue[1] # << >>
  /\ Head(queue[1]).ts <= time[1]
  /\ AckPlayer /\ queue' = Popped
  /\ UNCHANGED <<time, when, mode, transferMode, syncArmed, transfers, clean,
                 ctl, cur>>

\* The queue of the secondary once its head was taken.
LEMMA SecondaryTail ==
  ASSUME TransferOK, SecondaryTakes
  PROVE  /\ queue'[1] = Tail(queue[1]) /\ queue'[0] = queue[0]
         /\ Head(queue[1]) = queue[1][1] /\ Len(queue[1]) >= 1
         /\ Len(queue'[1]) = Len(queue[1]) - 1
         /\ \A i \in 1..Len(queue'[1]) : /\ i + 1 \in 1..Len(queue[1])
                                         /\ queue'[1][i] = queue[1][i + 1]
<1>1. queue[1] \in Seq(EventRecords) /\ queue[1] # << >>
        /\ queue \in [Players -> Seq(EventRecords)]
  BY TransferKinds DEF TransferOK, LinkOK, TypeOK, SecondaryTakes
<1>2. queue'[1] = Tail(queue[1]) /\ queue'[0] = queue[0]
  BY <1>1 DEF SecondaryTakes, Popped, Players
<1>3. /\ Head(queue[1]) = queue[1][1] /\ Len(queue[1]) >= 1
      /\ Len(Tail(queue[1])) = Len(queue[1]) - 1
      /\ \A i \in 1..Len(Tail(queue[1])) :
           i + 1 \in 1..Len(queue[1]) /\ Tail(queue[1])[i] = queue[1][i + 1]
  BY <1>1
<1> QED BY <1>2, <1>3

\* Taking one event of an announced transfer releases the barrier, marks the
\* data as received and leaves no event for later than this callback.
LEMMA AnnouncedTaken ==
  ASSUME TransferOK, SecondaryTakes, Announced
  PROVE  /\ waiting' = FALSE
         /\ \A m \in Players : dataReceived'[m]
         /\ \A i \in 1..Len(queue'[1]) : queue'[1][i].ts <= time[1]
<1>1. waiting' = FALSE
  BY Acked DEF SecondaryTakes, TransferOK
<1>2. \A m \in Players : dataReceived'[m]
  <2>1. CASE waiting
    <3>1. dataReceived' = [m \in Players |-> dataReceived[m] \/ transferActive]
            /\ transferActive
      BY <2>1 DEF SecondaryTakes, AckPlayer, Announced
    <3> QED BY <3>1, Zenon
  <2>2. CASE ~waiting
    BY <2>2 DEF SecondaryTakes, AckPlayer, Announced
  <2> QED BY <2>1, <2>2
<1>3. \A i \in 1..Len(queue[1]) : queue[1][i].ts <= time[1]
  <2>1. CASE waiting
    <3>1. queue[1][1].ts <= time[1] /\ 1 \in 1..Len(queue[1])
      BY SecondaryTail, TransferKinds DEF SecondaryTakes, TransferOK
    <3> QED BY <2>1, <3>1 DEF Announced
  <2>2. CASE ~waiting
    BY <2>2 DEF Announced
  <2> QED BY <2>1, <2>2
<1>4. \A i \in 1..Len(queue'[1]) : queue'[1][i].ts <= time[1]
  BY <1>3, SecondaryTail
<1> QED BY <1>1, <1>2, <1>4

\* The announcement stays last when an earlier event is taken.
LEMMA AnnouncedStaysLast ==
  ASSUME TransferOK, SecondaryTakes, Announced, complete'[0] = complete[0],
         \/ queue[1][1].type # "TRANSFER_START"
         \/ queue[1][1].txn # transfers
  PROVE  AnnouncedLast(queue[1])'
<1>1. /\ Len(queue'[1]) = Len(queue[1]) - 1 /\ Len(queue[1]) \in Nat
      /\ Len(queue[1]) >= 1 /\ queue'[1] = Tail(queue[1])
      /\ \A i \in 1..Len(queue'[1]) : /\ i + 1 \in 1..Len(queue[1])
                                      /\ queue'[1][i] = queue[1][i + 1]
  BY SecondaryTail, TransferKinds DEF TransferOK
<1>2. Len(queue[1]) # 1
  BY DEF Announced, AnnouncedLast
<1>3. queue'[1][Len(queue'[1])] = queue[1][Len(queue[1])] /\ Len(queue'[1]) >= 1
  <2> DEFINE n == Len(queue'[1])
  <2>1. n = Len(queue[1]) - 1 /\ Len(queue[1]) >= 2
    <3> DEFINE k == Len(queue[1])
    <3>1. k \in Nat /\ k >= 1 /\ k # 1 /\ n = k - 1
      BY <1>1, <1>2
    <3> HIDE DEF k, n
    <3>2. n = k - 1 /\ k >= 2
      BY <3>1
    <3> QED BY <3>2 DEF k
  <2>2. n \in 1..n /\ n + 1 = Len(queue[1]) /\ n >= 1
    <3>1. Len(queue[1]) \in Nat
      BY <1>1
    <3> HIDE DEF n
    <3> QED BY <2>1, <3>1
  <2> HIDE DEF n
  <2>3. queue'[1][n] = queue[1][n + 1]
    BY <1>1, <2>2 DEF n
  <2> QED BY <2>2, <2>3 DEF n
<1>4. queue'[1] # << >>
  BY <1>3
<1>5. \A i \in 1..(Len(queue'[1]) - 1) : queue'[1][i].txn # transfers
  <2> SUFFICES ASSUME NEW i \in 1..(Len(queue'[1]) - 1)
               PROVE  queue'[1][i].txn # transfers
    OBVIOUS
  <2>1. i \in 1..Len(queue'[1]) /\ i + 1 \in 1..(Len(queue[1]) - 1)
    BY <1>1
  <2> QED BY <1>1, <2>1 DEF Announced, AnnouncedLast
<1> QED BY <1>3, <1>4, <1>5 DEF Announced, AnnouncedLast, SecondaryTakes

\* The secondary learns of a mode, or answers a hard synchronisation.
LEMMA SecondaryHandlesTransfers ==
  ASSUME TransferOK, SecondaryTakes,
         queue[1][1].type # "TRANSFER_START",
         UNCHANGED <<complete, pending, multiData>>
  PROVE  TransferInv'
<1>1. /\ UNCHANGED <<time, when, mode, transferMode, syncArmed, transfers,
                     clean, ctl, cur>>
      /\ cur = 1 /\ ctl = "callback" /\ AckPlayer
      /\ when[1] <= time[1]
  BY DEF SecondaryTakes, TransferOK, WakeInv
<1>2. 0 \in Players /\ 1 \in Players /\ Players = {0, 1}
  BY DEF Players
<1>3. \A m \in Players : InFlight(m)' = InFlight(m)
  BY <1>1 DEF InFlight
<1>4. Live' = Live
  BY <1>3 DEF Live
<1>5. PastInv'
  <2>1. \A i \in 1..Len(queue'[1]) :
          /\ queue'[1][i].txn <= transfers
          /\ queue'[1][i].txn \in clean => pending[0] = queue'[1][i].txn
    BY SecondaryTail DEF TransferOK, TransferInv, PastInv
  <2> QED BY <1>1, <2>1 DEF TransferOK, TransferInv, PastInv
<1>6. LiveInv => LiveInv'
  BY <1>1, <1>3, SecondaryTail DEF LiveInv
<1>7. ~PrimarySlice /\ ~PrimarySlice'
  BY <1>1 DEF PrimarySlice
<1>8. Announced => Announced'
  <2> SUFFICES ASSUME Announced PROVE Announced'
    OBVIOUS
  <2>1. AnnouncedLast(queue[1])'
    BY AnnouncedStaysLast
  <2>2. /\ waiting' = FALSE
        /\ \A m \in Players : dataReceived'[m]
        /\ \A i \in 1..Len(queue'[1]) : queue'[1][i].ts <= time[1]
    BY AnnouncedTaken
  <2> QED BY <1>1, <1>2, <1>3, <1>7, <2>1, <2>2 DEF Announced
<1>9. Sampled => Sampled'
  <2> SUFFICES ASSUME Sampled PROVE Sampled'
    OBVIOUS
  <2>1. waiting /\ Len(queue[1]) = 1 /\ queue[1][1].ts <= time[1]
    BY SecondaryTail DEF Sampled, SecondaryTakes
  <2>2. waiting' = FALSE /\ queue'[1] = << >>
    <3>1. Len(queue'[1]) = 0 /\ queue'[1] = Tail(queue[1])
      BY <2>1, SecondaryTail
    <3>2. queue[1] \in Seq(EventRecords) /\ queue[1] # << >>
      BY TransferKinds DEF TransferOK, SecondaryTakes
    <3>3. Tail(queue[1]) \in Seq(EventRecords)
      BY <3>2
    <3>4. Tail(queue[1]) = << >>
      BY <3>1, <3>3, EmptySeq
    <3>5. waiting' = FALSE
      BY <1>1, Acked DEF TransferOK
    <3> QED BY <3>1, <3>4, <3>5
  <2>3. \A m \in Players : InFlight(m) => dataReceived'[m]
    <3>1. dataReceived' = [m \in Players |-> dataReceived[m] \/ transferActive]
      BY <1>1, <2>1 DEF AckPlayer
    <3>2. \A m \in Players : dataReceived[m] => dataReceived'[m]
      BY <3>1, Zenon
    <3> QED BY <3>2 DEF Sampled
  <2>4. Overdue => Overdue'
    BY <1>1, <1>2, <1>3 DEF Overdue
  <2>5. (InFlight(1) /\ ~InFlight(0)) => complete[1] <= time[1]
    <3>1. /\ complete[1] \in Int /\ time[1] \in Int /\ queue[1][1].ts \in Int
          /\ when[1] \in Int
      BY <2>1, TransferKinds DEF TransferOK
    <3> QED BY <1>1, <2>1, <3>1 DEF Sampled, Overdue
  <2>6. complete[1] <= time[1] => Overdue'
    BY <1>1 DEF Overdue
  <2> QED BY <1>1, <1>2, <1>3, <2>2, <2>3, <2>4, <2>5, <2>6 DEF Sampled
<1> QED BY <1>4, <1>5, <1>6, <1>8, <1>9 DEF TransferOK, TransferInv

\* The secondary samples its word.
LEMMA TransferStartKeepsTransfers ==
  ASSUME TransferOK, HandleTransferStart
  PROVE  TransferInv'
<1> DEFINE e == Head(queue[1])
           late == time[1] - when[1]
           delay == Max({1, e.finish - time[1] - late})
<1>1. cur = 1
  <2>1. Head(queue[cur]) \in EventsFor(cur) /\ cur \in Players
          /\ Head(queue[cur]).type = "TRANSFER_START"
    BY Taken DEF HandleTransferStart, Takes, TransferOK
  <2> QED BY <2>1 DEF EventsFor, Players
<1>2. /\ SecondaryTakes /\ e.type = "TRANSFER_START"
      /\ multiData' = IF transferMode = "MULTI"
                      THEN [multiData EXCEPT ![1] = e.txn] ELSE multiData
      /\ complete' = [complete EXCEPT ![1] = time[1] + delay]
      /\ pending' = [pending EXCEPT ![1] = e.txn]
  BY <1>1 DEF HandleTransferStart, Takes, HasPendingEvents, SecondaryTakes,
     modeVars
<1>3. /\ queue'[1] = Tail(queue[1]) /\ queue'[0] = queue[0] /\ e = queue[1][1]
      /\ Len(queue'[1]) = Len(queue[1]) - 1 /\ 1 \in 1..Len(queue[1])
      /\ Len(queue[1]) \in Nat /\ Tail(queue[1]) \in Seq(EventRecords)
      /\ \A i \in 1..Len(queue'[1]) : /\ i + 1 \in 1..Len(queue[1])
                                      /\ queue'[1][i] = queue[1][i + 1]
  <2>1. queue[1] \in Seq(EventRecords) /\ queue[1] # << >>
    BY <1>2, TransferKinds DEF TransferOK, SecondaryTakes
  <2>2. Len(queue[1]) \in Nat /\ Len(queue[1]) >= 1
          /\ Tail(queue[1]) \in Seq(EventRecords)
    BY <2>1
  <2> QED BY <1>2, <2>2, SecondaryTail
<1>4. e.finish \in Int /\ e.txn \in Nat
  BY <1>3, TransferKinds DEF TransferOK
<1>5. /\ UNCHANGED <<time, when, mode, transferMode, syncArmed, transfers,
                     clean, ctl, cur>>
      /\ ctl = "callback" /\ when[1] <= time[1]
  BY <1>2 DEF SecondaryTakes, TransferOK, WakeInv
<1>6. /\ time[1] \in Int /\ when[1] \in Int /\ time[1] >= 0
      /\ clean \subseteq 1..transfers /\ transfers \in Nat
      /\ Players = {0, 1} /\ complete[0] \in Int
      /\ complete \in [Players -> Int] /\ pending \in [Players -> Nat]
      /\ multiData \in [Players -> Nat]
  <2>1. time[1] >= 0 /\ clean \subseteq 1..transfers
    BY DEF TransferOK, TransferInv, PastInv, Players
  <2> QED BY <2>1, TransferKinds DEF TransferOK, LinkOK, TypeOK
<1> HIDE DEF e
<1>7. delay \in Int /\ delay >= 1
        /\ (time[1] + delay <= e.finish \/ delay = 1)
  <2> DEFINE d == e.finish - time[1] - late
  <2>1. d \in Int /\ time[1] + d <= e.finish
    BY <1>4, <1>5, <1>6
  <2> HIDE DEF d
  <2>2. Max({1, d}) \in {1, d} /\ Max({1, d}) >= 1
    <3>1. 1 \in Int
      OBVIOUS
    <3> QED BY <2>1, <3>1, MaxOfTwo
  <2>3. delay = Max({1, d})
    BY DEF d
  <2> QED BY <2>1, <2>2, <2>3
<1> HIDE DEF delay, late
<1>8. /\ complete'[0] = complete[0] /\ complete'[1] = time[1] + delay
      /\ pending'[0] = pending[0] /\ pending'[1] = e.txn
      /\ multiData'[0] = multiData[0]
      /\ transferMode = "MULTI" => multiData'[1] = e.txn
  BY <1>2, <1>6
<1>9. /\ e.txn <= transfers
      /\ e.txn \in clean => pending[0] = e.txn
      /\ pending[0] <= transfers
      /\ complete[0] = Nothing => pending[0] = Nothing
      /\ mode[0] = transferMode
  BY <1>3, <1>6 DEF TransferOK, TransferInv, PastInv
<1>10. PastInv'
  <2>1. \A m \in Players : /\ pending'[m] <= transfers
                           /\ complete'[m] = Nothing => pending'[m] = Nothing
    BY <1>6, <1>7, <1>8, <1>9 DEF Nothing
  <2>2. \A i \in 1..Len(queue'[1]) :
          /\ queue'[1][i].txn <= transfers
          /\ queue'[1][i].txn \in clean => pending'[0] = queue'[1][i].txn
    BY <1>3, <1>8 DEF TransferOK, TransferInv, PastInv
  <2> QED BY <1>1, <1>5, <2>1, <2>2 DEF TransferOK, TransferInv, PastInv
<1>11. InFlight(0)' = InFlight(0) /\ (InFlight(1)' => pending[0] = e.txn)
         /\ (InFlight(1)' => InFlight(0))
  BY <1>5, <1>8, <1>9 DEF InFlight
<1>12. ASSUME Live' PROVE LiveInv' /\ (Announced' \/ Sampled')
  <2>1. InFlight(0) /\ Live
    BY <1>6, <1>11, <1>12 DEF Live
  <2>2. LiveInv /\ (Announced \/ Sampled)
    BY <2>1 DEF TransferOK, TransferInv
  <2>3. Announced
    BY <1>2, <1>3, <2>2 DEF Sampled, SecondaryTakes
  <2>4. pending[0] = transfers
    BY <1>6, <2>1, <2>2 DEF LiveInv
  <2>5. LiveInv'
    <3>1. \A m \in Players : InFlight(m)' => pending'[m] = transfers
      BY <1>6, <1>8, <1>11, <2>4
    <3> QED BY <1>3, <1>5, <1>8, <2>2, <3>1 DEF LiveInv
  <2>6. /\ waiting' = FALSE
        /\ \A m \in Players : dataReceived'[m]
        /\ \A i \in 1..Len(queue'[1]) : queue'[1][i].ts <= time[1]
    BY <1>2, <2>3, AnnouncedTaken
  <2>7. ~PrimarySlice /\ ~PrimarySlice'
    BY <1>1, <1>5 DEF PrimarySlice
  <2>8. CASE e.txn = transfers
    <3>1. Len(queue[1]) = 1
      <4>1. ASSUME Len(queue[1]) # 1 PROVE FALSE
        <5>1. 1 \in 1..(Len(queue[1]) - 1)
          <6> DEFINE k == Len(queue[1])
          <6>1. k \in Nat /\ k >= 1 /\ k # 1
            BY <1>3, <4>1
          <6> HIDE DEF k
          <6>2. 1 \in 1..(k - 1)
            BY <6>1
          <6> QED BY <6>2 DEF k
        <5> QED BY <1>3, <2>3, <2>8, <5>1 DEF Announced, AnnouncedLast
      <4> QED BY <4>1
    <3>2. queue'[1] = << >>
      <4>1. Len(queue'[1]) = 0 /\ queue'[1] \in Seq(EventRecords)
        BY <1>3, <3>1
      <4> QED BY <4>1, EmptySeq
    <3>3. e.finish = complete[0]
      BY <1>3, <2>3, <3>1 DEF Announced, AnnouncedLast
    <3>4. multiData'[1] = transfers
      BY <1>8, <1>9, <2>2, <2>8 DEF LiveInv
    <3>5. complete'[1] <= complete'[0] \/ complete'[1] <= time[1] + 1
      BY <1>4, <1>6, <1>7, <1>8, <3>3
    <3>6. complete'[1] <= complete'[0] \/ Overdue'
      BY <1>1, <1>5, <1>11, <2>1, <3>5 DEF Overdue
    <3>7. Sampled'
      BY <1>5, <1>11, <2>1, <2>6, <2>7, <3>2, <3>4, <3>6 DEF Sampled
    <3> QED BY <2>5, <3>7
  <2>9. CASE e.txn # transfers
    <3>1. ~InFlight(1)'
      BY <1>11, <2>4, <2>9
    <3>2. AnnouncedLast(queue[1])'
      BY <1>2, <1>3, <1>8, <2>3, <2>9, AnnouncedStaysLast
    <3>3. Announced'
      BY <1>1, <1>5, <1>8, <1>11, <2>1, <2>3, <2>6, <2>7, <3>1, <3>2
         DEF Announced
    <3> QED BY <2>5, <3>3
  <2> QED BY <2>8, <2>9
<1> QED BY <1>10, <1>12 DEF TransferInv

\* An event is handled.
LEMMA HandleKeepsTransfers ==
  ASSUME TransferOK, Handle
  PROVE  TransferInv'
<1>1. CASE HandleAttach \/ (HandleModeSet /\ cur = 0)
  BY <1>1, PrimaryHandlesTransfers
<1>2. CASE HandleTransferStart
  BY <1>2, TransferStartKeepsTransfers
<1>3. CASE HandleHardSync \/ (HandleModeSet /\ cur # 0)
  <2>1. PICK type \in {"HARD_SYNC", "MODE_SET"} : Takes(type)
    BY <1>3 DEF HandleHardSync, HandleModeSet
  <2>2. Head(queue[cur]) \in EventsFor(cur) /\ cur \in Players
          /\ Head(queue[cur]).type = type /\ ctl = "callback"
    BY <2>1, Taken DEF Takes, TransferOK
  <2>3. cur = 1
    <3>1. CASE HandleHardSync
      <4>1. Head(queue[cur]).type = "HARD_SYNC"
        BY <3>1 DEF HandleHardSync, Takes
      <4> QED BY <2>2, <4>1 DEF EventsFor, Players
    <3>2. CASE HandleModeSet /\ cur # 0
      BY <2>2, <3>2 DEF Players
    <3> QED BY <1>3, <3>1, <3>2
  <2>4. Head(queue[1]).from = 0
    BY <2>2, <2>3 DEF EventsFor, Peer
  <2>5. SecondaryTakes /\ UNCHANGED <<complete, pending, multiData>>
    BY <1>3, <2>1, <2>3, <2>4
       DEF HandleHardSync, HandleModeSet, Takes, HasPendingEvents,
           SecondaryTakes, clockVars, modeVars
  <2>6. queue[1][1].type # "TRANSFER_START"
    BY <2>2, <2>3, <2>5, SecondaryTail
  <2> QED BY <2>5, <2>6, SecondaryHandlesTransfers
<1> QED BY <1>1, <1>2, <1>3 DEF Handle

\* The invariant is inductive.
LEMMA TransferStep == TransferOK /\ [Next]_lockstepVars => TransferInv'
<1> SUFFICES ASSUME TransferOK, [Next]_lockstepVars PROVE TransferInv'
  OBVIOUS
<1>1. CASE Scheduler
  BY <1>1, SchedulerKeepsTransfers
<1>2. CASE Cpu
  BY <1>2, CpuKeepsTransfers
<1>3. CASE SerialWrite
  BY <1>3, StartKeepsTransfers, SetModeKeepsTransfers DEF SerialWrite
<1>4. CASE Finish
  <2>1. cur = 0 \/ cur = 1
    BY TransferKinds DEF TransferOK
  <2> QED BY <1>4, <2>1, PrimaryFinishKeepsTransfers,
             SecondaryFinishKeepsTransfers
<1>5. CASE LockstepEvent
  BY <1>5, PrimaryEventKeepsTransfers, SecondaryKeepsTransfers,
     HandleKeepsTransfers, EventEndsKeepsTransfers DEF LockstepEvent
<1>6. CASE UNCHANGED lockstepVars
  BY <1>6 DEF TransferOK, TransferInv, PastInv, Live, LiveInv, InFlight,
     Announced, AnnouncedLast, Sampled, Overdue, PrimarySlice, lockstepVars,
     clockVars, modeVars, wireVars, syncVars, dataVars
<1> QED BY <1>1, <1>2, <1>3, <1>4, <1>5, <1>6 DEF Next

\* A completing transfer that TransferExact is about was sampled by both.
LEMMA FinishIsExact ==
  ASSUME TransferOK, Finish, mode[cur] = "MULTI", pending[cur] \in clean
  PROVE  Received(cur) = <<pending[cur], pending[cur]>>
<1>1. cur \in Players /\ Players = {0, 1} /\ InFlight(cur) /\ Live
  BY TransferKinds DEF TransferOK, InFlight, Live
<1>2. LiveInv /\ (Announced \/ Sampled)
  BY <1>1 DEF TransferOK, TransferInv
<1>3. Sampled
  <2> SUFFICES ASSUME Announced PROVE FALSE
    BY <1>2
  <2>1. cur = 0
    BY <1>1 DEF Announced
  <2>2. complete[0] <= time[0]
    BY <2>1 DEF Finish, CompletionDue
  <2>3. complete[0] \in Int /\ time[0] \in Int
    BY TransferKinds DEF TransferOK
  <2> QED BY <2>2, <2>3 DEF Announced
<1>4. multiData[0] = transfers /\ multiData[1] = transfers
        /\ pending[cur] = transfers /\ dataReceived[cur]
  BY <1>1, <1>2, <1>3 DEF LiveInv, Sampled
<1> QED BY <1>4 DEF Received

\* A completed MULTI transfer hands both machines the words both sampled for
\* that very transfer: FinishMultiplayer never mixes the words of two.
THEOREM TransfersAreExact == Spec => TransferExact
<1>1. Init => WakeInv /\ TransferInv
  <2> SUFFICES ASSUME Init PROVE WakeInv /\ TransferInv
    OBVIOUS
  <2>1. PastInv /\ ~Live
    BY DEF Init, PastInv, Live, InFlight, Players, Nothing
  <2> QED BY <2>1, WakeInit DEF TransferInv
<1>2. TransferOK /\ [Next]_lockstepVars => WakeInv' /\ TransferInv'
  BY TransferStep, WakeNext DEF TransferOK
<1>3. ASSUME TransferOK, [Next]_lockstepVars
      PROVE  [(Finish /\ mode[cur] = "MULTI" /\ pending[cur] \in clean) =>
                Received(cur) = <<pending[cur], pending[cur]>>]_lockstepVars
  BY <1>3, FinishIsExact
<1> QED BY <1>1, <1>2, <1>3, LinkInvariant, PTL
        DEF TransferOK, Spec, TransferExact
=============================================================================
