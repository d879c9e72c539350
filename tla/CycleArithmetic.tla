-------------------------- MODULE CycleArithmetic ---------------------------
(***************************************************************************)
(* The 32-bit cycle arithmetic of the lockstep driver                      *)
(* (src/src/engines/mgba/mgba_lockstep.c) and the queue and timing event   *)
(* of one player built on it.  Lockstep uses unbounded times; this module  *)
(* keeps the stored bits beside the times they stand for and shows that    *)
(* they agree through every wrap, provided no two times that are compared  *)
(* are half the range apart.                                               *)
(***************************************************************************)
EXTENDS Integers, Sequences, SequencesExt

CONSTANTS
  Half,       \* 2^31: INT32_MIN is -Half, INT32_MAX is Half - 1
  Interval,   \* LOCKSTEP_INTERVAL and UNLOCKED_INTERVAL
  Capacity,   \* DUALBOY_MAX_LOCKSTEP_EVENTS
  TransferCycles,   \* length of a transfer
  PeerSkew,    \* bound: how far the peer's clock is from this one
  MaxLate,    \* bound: cycles an instruction overshoots a timing event
  MaxNow,     \* bound: lockstep time
  Offsets     \* machine times at which the player may have attached

ASSUME RangeAssumption ==
  /\ {Half, Interval, Capacity, TransferCycles} \subseteq Nat \ {0}
  /\ {PeerSkew, MaxLate, MaxNow} \subseteq Nat
  /\ Interval + PeerSkew + MaxLate < Half
  /\ 2 * PeerSkew + MaxLate + 1 < Half
  /\ TransferCycles + PeerSkew + MaxLate < Half
  /\ Offsets \subseteq -Half..(Half - 1)

Range32 == 2 * Half

\* (uint32_t) v
Unsigned(v) == v % Range32

\* _cycleFromBits: the two's complement value of 32 bits.
CycleFromBits(value) ==
  IF value <= Half - 1 THEN value ELSE -1 - (Range32 - 1 - value)

\* Mutant: a plain signed difference, which wraps at the sign boundary.
CycleDelta_Signed(later, earlier) == later - earlier

\* _cycleDelta
CycleDelta(later, earlier) ==
  CycleFromBits((Unsigned(later) - Unsigned(earlier)) % Range32)

\* _cycleAdd
CycleAdd(c, offset) == CycleFromBits((Unsigned(c) + Unsigned(offset)) % Range32)

\* _delayAfterLateness
DelayAfterLateness(delay, cyclesLate) ==
  IF delay <= 0 \/ cyclesLate >= delay THEN 0 ELSE delay - cyclesLate

\* _sanitizeDelay
SanitizeDelay(delay) == IF delay > 0 THEN delay ELSE 1
-----------------------------------------------------------------------------
VARIABLES
  offset,      \* cycleOffset of the player, a machine time
  timing,      \* mTimingCurrentTime, 32 bits read as signed
  queue,       \* timestamps of the queued events, as stored
  when,        \* event.when, unsigned machine time
  complete,    \* completeEvent.when, unsigned machine time, or NotScheduled
  now,         \* history: lockstep time, unbounded
  stamps,      \* history: the same queue in unbounded times
  due,         \* history: lockstep time at which the event is due
  finishAt     \* history: lockstep time at which the transfer completes

NotScheduled == -1

cycleVars == <<offset, timing, queue, when, complete, now, stamps, due,
               finishAt>>

\* DualBoyGBASIOLockstepTime
LockstepTime == CycleDelta(timing, offset)

\* Cycles until a scheduled machine time, as mGBA and the driver compute it.
DelayUntil(bits) == CycleFromBits((bits - Unsigned(timing)) % Range32)

\* The player attached at machine time offset, when the shared clock was 0.
CycleInit ==
  /\ offset \in Offsets
  /\ timing = offset
  /\ queue = << >>
  /\ when = Unsigned(offset + Interval)
  /\ complete = NotScheduled
  /\ now = 0
  /\ stamps = << >>
  /\ due = Interval
  /\ finishAt = 0

\* The timing events mGBA knows of.
Scheduled == {when} \cup ({complete} \ {NotScheduled})

\* The CPU runs, at most until it overshoots the first timing event.
Run ==
  /\ \A bits \in Scheduled : DelayUntil(bits) > 0
  /\ \E n \in 1..(Min({DelayUntil(bits) : bits \in Scheduled}) + MaxLate) :
       /\ now + n <= MaxNow
       /\ timing' = CycleAdd(timing, n)
       /\ now' = now + n
  /\ UNCHANGED <<offset, queue, when, complete, stamps, due, finishAt>>

\* The transfer completes.
Complete ==
  /\ complete # NotScheduled
  /\ DelayUntil(complete) <= 0
  /\ complete' = NotScheduled
  /\ finishAt' = 0
  /\ UNCHANGED <<offset, timing, queue, when, now, stamps, due>>

\* Where the loop of _enqueueEvent stops: before the first stored event for
\* which the new one has a negative distance.
LinkPoints(ts) ==
  {i \in 1..(Len(queue) + 1) :
     /\ \A j \in 1..(i - 1) : CycleDelta(ts, queue[j]) >= 0
     /\ i <= Len(queue) => CycleDelta(ts, queue[i]) < 0}

\* Where an event of the unbounded time t belongs.
TruePoints(t) ==
  {i \in 1..(Len(stamps) + 1) :
     /\ \A j \in 1..(i - 1) : stamps[j] <= t
     /\ i <= Len(stamps) => t < stamps[i]}

\* Does the head of the queue come before the timing event?
Earlier(queued, scheduled) == queued < scheduled

\* _rescheduleForQueueHead, for a queue whose head is stored as head; a wake
\* that moves is recorded in unbounded time from the delay handed to mGBA.
RescheduleForQueueHead(head) ==
  LET scheduledDelay == DelayUntil(when)
      queuedDelay == SanitizeDelay(CycleDelta(head, LockstepTime))
  IN IF scheduledDelay > 0 /\ Earlier(queuedDelay, scheduledDelay)
     THEN when' = Unsigned(timing + queuedDelay) /\ due' = now + queuedDelay
     ELSE UNCHANGED <<when, due>>

\* The peer, whose clock shows skew cycles more, sends an event.
EnqueueEvent ==
  /\ Len(queue) < Capacity
  /\ \E skew \in -PeerSkew..PeerSkew :
       LET ts == CycleAdd(LockstepTime, skew)
       IN /\ \E i \in LinkPoints(ts) : queue' = InsertAt(queue, i, ts)
          /\ \E i \in TruePoints(now + skew) :
               stamps' = InsertAt(stamps, i, now + skew)
          /\ RescheduleForQueueHead(queue'[1])
  /\ UNCHANGED <<offset, timing, complete, now, finishAt>>

\* How many events _lockstepEvent takes from the queue: it stops at the first
\* one that is not due.
Handled ==
  CHOOSE n \in 0..Len(queue) :
    /\ \A i \in 1..n : CycleDelta(queue[i], LockstepTime) <= 0
    /\ n < Len(queue) => CycleDelta(queue[n + 1], LockstepTime) > 0
Left == SubSeq(queue, Handled + 1, Len(queue))

\* How many are due in unbounded time.
TrulyDue ==
  CHOOSE n \in 0..Len(stamps) :
    /\ \A i \in 1..n : stamps[i] <= now
    /\ n < Len(stamps) => stamps[n + 1] > now

\* The delay of the completion of a transfer announced with timestamp ts.
CompletionDelay(ts) ==
  SanitizeDelay(DelayAfterLateness(
    CycleDelta(CycleAdd(ts, TransferCycles), LockstepTime),
    -DelayUntil(when)))

\* _lockstepEvent: handle what is due, each event announcing a transfer, and
\* schedule the next call.
LockstepEvent ==
  /\ DelayUntil(when) <= 0
  /\ queue' = Left
  /\ stamps' = SubSeq(stamps, TrulyDue + 1, Len(stamps))
  /\ IF Handled = 0
     THEN UNCHANGED <<complete, finishAt>>
     ELSE /\ complete' = Unsigned(timing + CompletionDelay(queue[Handled]))
          /\ finishAt' = Max({now + 1, stamps[TrulyDue] + TransferCycles
                                         - (now - due)})
  /\ LET sync == IF Handled = 0 THEN Interval
                 ELSE CompletionDelay(queue[Handled])
         delay == SanitizeDelay(
                    IF Left = << >> THEN sync
                    ELSE Min({sync, CycleDelta(Left[1], LockstepTime)}))
     IN when' = Unsigned(timing + delay) /\ due' = now + delay
  /\ UNCHANGED <<offset, timing, now>>

CycleNext == Run \/ EnqueueEvent \/ LockstepEvent \/ Complete

CycleSpec == CycleInit /\ [][CycleNext]_cycleVars
-----------------------------------------------------------------------------
\* Types of the state.
CycleTypeOK ==
  /\ offset \in -Half..(Half - 1) /\ timing \in -Half..(Half - 1)
  /\ queue \in Seq(-Half..(Half - 1)) /\ Len(queue) <= Capacity
  /\ when \in 0..(Range32 - 1)
  /\ complete \in 0..(Range32 - 1) \cup {NotScheduled} /\ finishAt \in Int
  /\ now \in Nat /\ stamps \in Seq(Int) /\ due \in Int

\* The 32-bit value that stands for the unbounded time t.
Signed(t) == CHOOSE v \in -Half..(Half - 1) : (v - t) % Range32 = 0

\* No event is handled late: the wake-up is never after the head of the
\* queue, or after the next cycle when that has passed.
WakeCoversHead ==
  stamps # << >> => due <= Max({now + 1, stamps[1]})

\* The stored clock, queue, wake-up and completion are the unbounded ones read
\* modulo 2^32, in the same order: a wrap of the counter never reorders events
\* and never moves a wake-up, which covers the head of the queue, or the end
\* of a transfer.
StoredExact ==
  /\ CycleTypeOK
  /\ WakeCoversHead
  /\ LockstepTime = Signed(now)
  /\ Len(queue) = Len(stamps)
  /\ \A i \in 1..Len(queue) : queue[i] = Signed(stamps[i])
  /\ DelayUntil(when) = due - now
  /\ complete # NotScheduled => DelayUntil(complete) = finishAt - now
=============================================================================
