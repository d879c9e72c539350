----------------------------- MODULE SerialLink -----------------------------
(***************************************************************************)
(* Two Game Boys on one thread (src/src/engines/sameboy/sameboy_adapter.c):*)
(* the scheduler of sameboy_run_frame, which always runs the machine that  *)
(* is behind, the serial and infrared callbacks that connect the machines, *)
(* set_link, reset, and the link part of a state.                          *)
(*                                                                         *)
(* A bit on the cable is the machine whose byte it belongs to and its      *)
(* place in it, so that no two bits of an exchange look alike.             *)
(***************************************************************************)
EXTENDS Integers, Sequences

CONSTANTS
  Slices,       \* what one GB_run may take, in ticks
  MaxSlice,     \* the longest of them
  MaxSkew,      \* SAMEBOY_MAX_SERIALIZED_SKEW
  Modulus,      \* 2^64
  TickWatchdog, \* SAMEBOY_FRAME_TICK_WATCHDOG
  CallWatchdog, \* SAMEBOY_FRAME_CALL_WATCHDOG
  Bits,         \* the length of a byte
  MaxEvents     \* bound on what games do to their ports

ASSUME SliceAssumption ==
  /\ Slices \subseteq 1..MaxSlice /\ MaxSlice \in Nat \ {0}
  /\ MaxSkew \in Nat /\ MaxSlice <= MaxSkew
  /\ Modulus \in Nat /\ 2 * MaxSkew < Modulus
ASSUME LimitAssumption ==
  /\ {TickWatchdog, CallWatchdog, MaxEvents} \subseteq Nat
  /\ Bits \in Nat \ {0}

Machines == {0, 1}
Peer(m) == 1 - m

High == <<2, 0>>                    \* a cable that nobody drives
Byte(m) == [i \in 1..Bits |-> <<m, i>>]
Clocks == {"off", "internal", "external"}

VARIABLES
  core,             \* per machine: shift register, clock, bits shifted, and
                    \* whether a bit has been started and not ended
  input,            \* per machine, the light it sees
  link_enabled, serial_output, infrared_output, tick_skew,  \* of the pair
  vblank_seen,
  pc, index,        \* place in sameboy_run_frame, the machine that runs
  machine_ticks, calls, \* locals of sameboy_run_frame
  slot,             \* a saved state, or NoState
  lead,             \* history: ticks machine 1 has run more than machine 0
  exchange,         \* history: machine that clocks an undisturbed exchange
  events

frame == <<pc, index, machine_ticks, calls, vblank_seen>>
link == <<link_enabled, serial_output, infrared_output>>
vars == <<core, input, link, tick_skew, frame, slot, lead, exchange, events>>

NoState == [saved |-> FALSE]
Fresh == [reg |-> Byte(0), clock |-> "off", count |-> 0, half |-> FALSE]
Both(value) == [m \in Machines |-> value]

Init ==
  /\ core = Both(Fresh) /\ input = Both(FALSE)
  /\ link_enabled = FALSE
  /\ serial_output = Both(High) /\ infrared_output = Both(FALSE)
  /\ tick_skew = 0 /\ vblank_seen = Both(FALSE)
  /\ pc = "idle" /\ index = 0 /\ machine_ticks = Both(0) /\ calls = 0
  /\ slot = NoState /\ lead = 0 /\ exchange = {} /\ events = 0

\* apply_link_callbacks: the machines see each other's light, or nothing.
Applied(enabled, lights) == [m \in Machines |-> enabled /\ lights[Peer(m)]]

----------------------------------------------------------------------------
(* sameboy_run_frame                                                       *)

RunFrame ==
  /\ pc = "idle" /\ pc' = "loop"
  /\ vblank_seen' = Both(FALSE) /\ machine_ticks' = Both(0) /\ calls' = 0
  /\ UNCHANGED <<core, input, link, tick_skew, index, slot, lead, exchange,
                 events>>

\* The call returns.  Its locals are gone; vblank_seen, which only this call
\* reads, is cleared here as well as at its start.
Returns ==
  /\ pc' = "idle" /\ index' = 0 /\ machine_ticks' = Both(0) /\ calls' = 0
  /\ vblank_seen' = Both(FALSE)

\* A bug: the machine that is ahead.
Behind_Ahead == IF tick_skew <= 0 THEN 0 ELSE 1

\* The machine that is behind.
Behind == IF tick_skew >= 0 THEN 0 ELSE 1

\* Until both machines have finished a frame.
Schedule ==
  /\ pc = "loop"
  /\ IF vblank_seen = Both(TRUE)
     THEN Returns
     ELSE /\ pc' = "core" /\ index' = Behind
          /\ UNCHANGED <<machine_ticks, calls, vblank_seen>>
  /\ UNCHANGED <<core, input, link, tick_skew, slot, lead, exchange, events>>

Expired(ticks, n) == n > CallWatchdog \/ ticks > TickWatchdog

\* GB_run returns, with no progress or some, and perhaps a finished frame.
CoreReturns ==
  /\ pc = "core"
  /\ \E elapsed \in Slices \cup {0}, vblank \in BOOLEAN :
       /\ tick_skew' = IF index = 0 THEN tick_skew - elapsed
                       ELSE tick_skew + elapsed
       /\ lead' = IF index = 0 THEN lead - elapsed ELSE lead + elapsed
       /\ LET ticks == machine_ticks[index] + elapsed
              n == calls + 1
          IN IF elapsed = 0 \/ Expired(ticks, n) THEN Returns
             ELSE /\ pc' = "loop" /\ index' = index
                  /\ vblank_seen' = [vblank_seen EXCEPT ![index] = @ \/ vblank]
                  /\ machine_ticks' = [machine_ticks EXCEPT ![index] = ticks]
                  /\ calls' = n
  /\ UNCHANGED <<core, input, link, slot, exchange, events>>

----------------------------------------------------------------------------
(* What a machine does inside GB_run, and the callbacks it makes           *)

InCore(m) == pc = "core" /\ index = m

\* A game fills its register and waits for the clock of the other, or clocks
\* itself.
Transfer(m) ==
  /\ InCore(m) /\ events < MaxEvents
  /\ \E clock \in Clocks \ {"off"} :
       /\ core' = [core EXCEPT ![m] = [reg |-> Byte(m), clock |-> clock,
                                       count |-> 0, half |-> FALSE]]
       /\ exchange' =
            IF /\ link_enabled /\ clock = "internal"
               /\ core[Peer(m)].clock = "external"
               /\ core[Peer(m)].count = 0
            THEN {m} ELSE {}
  /\ events' = events + 1
  /\ UNCHANGED <<input, link, tick_skew, frame, slot, lead>>

\* sameboy_serial_start; without a link there is no callback.
SerialStart(m) ==
  /\ InCore(m) /\ core[m].clock = "internal" /\ ~core[m].half
  /\ core' = [core EXCEPT ![m].half = TRUE]
  /\ serial_output' = IF link_enabled
                      THEN [serial_output EXCEPT ![m] = Head(core[m].reg)]
                      ELSE serial_output
  /\ UNCHANGED <<input, link_enabled, infrared_output, tick_skew, frame, slot,
                 lead, exchange, events>>

\* GB_serial_get_data_bit.
DataBit(c) == IF c.clock = "external" THEN Head(c.reg) ELSE High

\* A bit is shifted in; the last one ends the transfer.
Shifted(c, bit) ==
  [reg |-> Append(Tail(c.reg), bit),
   clock |-> IF c.count + 1 = Bits THEN "off" ELSE c.clock,
   count |-> c.count + 1, half |-> FALSE]

\* GB_serial_set_data_bit.
WithDataBit(c, bit) == IF c.clock = "external" THEN Shifted(c, bit) ELSE c

\* sameboy_serial_end.
SerialEnd(m) ==
  /\ InCore(m) /\ core[m].half
  /\ LET p == Peer(m)
     IN core' = IF link_enabled
                THEN [core EXCEPT ![m] = Shifted(@, DataBit(core[p])),
                                  ![p] = WithDataBit(@, serial_output[m])]
                ELSE [core EXCEPT ![m] = Shifted(@, High)]
  /\ UNCHANGED <<input, link, tick_skew, frame, slot, lead, exchange, events>>

\* sameboy_infrared_output.
InfraredOutput(m) ==
  /\ InCore(m) /\ link_enabled /\ events < MaxEvents
  /\ \E output \in BOOLEAN :
       /\ infrared_output' = [infrared_output EXCEPT ![m] = output]
       /\ input' = [input EXCEPT ![Peer(m)] = output]
  /\ events' = events + 1
  /\ UNCHANGED <<core, link_enabled, serial_output, tick_skew, frame, slot,
                 lead, exchange>>

----------------------------------------------------------------------------
(* Between frames                                                          *)

SetLink ==
  /\ pc = "idle"
  /\ \E enabled \in BOOLEAN :
       /\ IF enabled /\ ~link_enabled
          THEN serial_output' = Both(High) /\ infrared_output' = Both(FALSE)
          ELSE UNCHANGED <<serial_output, infrared_output>>
       /\ link_enabled' = enabled
       /\ input' = Applied(enabled, infrared_output')
       /\ exchange' = IF enabled = link_enabled THEN exchange ELSE {}
  /\ UNCHANGED <<core, tick_skew, frame, slot, lead, events>>

\* sameboy_reset, which applies the link again at its end.
Reset ==
  /\ pc = "idle"
  /\ core' = Both(Fresh) /\ vblank_seen' = Both(FALSE)
  /\ serial_output' = Both(High) /\ infrared_output' = Both(FALSE)
  /\ tick_skew' = 0 /\ input' = Applied(link_enabled, infrared_output')
  /\ lead' = 0 /\ exchange' = {}
  /\ UNCHANGED <<link_enabled, pc, index, machine_ticks, calls, slot,
                 events>>

\* The cast of a signed number to 64 bits.
Encode(skew) == IF skew < 0 THEN skew + Modulus ELSE skew

\* decode_serialized_skew: the skew, or nothing when it is refused.
Decode(encoded) ==
  IF encoded <= MaxSkew THEN {encoded}
  ELSE IF encoded >= Modulus - MaxSkew THEN {encoded - Modulus}
  ELSE {}

Serialize ==
  /\ pc = "idle" /\ ~slot.saved
  /\ slot' = [saved |-> TRUE, core |-> core, link_enabled |-> link_enabled,
              serial_output |-> serial_output,
              infrared_output |-> infrared_output, skew |-> Encode(tick_skew),
              lead |-> lead, exchange |-> exchange]
  /\ UNCHANGED <<core, input, link, tick_skew, frame, lead, exchange, events>>

\* A bug: the bit on its way is forgotten.
UnserializeLink_NoOutput ==
  /\ tick_skew' \in Decode(slot.skew)
  /\ UNCHANGED serial_output
  /\ infrared_output' = slot.infrared_output
  /\ link_enabled' = slot.link_enabled
  /\ input' = Applied(link_enabled', infrared_output')

\* sameboy_unserialize_link.
UnserializeLink ==
  /\ tick_skew' \in Decode(slot.skew)
  /\ serial_output' = slot.serial_output
  /\ infrared_output' = slot.infrared_output
  /\ link_enabled' = slot.link_enabled
  /\ input' = Applied(link_enabled', infrared_output')

\* A restore: the machines and then their link.
Unserialize ==
  /\ pc = "idle" /\ slot.saved
  /\ core' = slot.core /\ vblank_seen' = Both(FALSE)
  /\ UnserializeLink
  /\ lead' = slot.lead /\ exchange' = slot.exchange
  /\ UNCHANGED <<pc, index, machine_ticks, calls, slot, events>>

Callback(m) ==
  Transfer(m) \/ SerialStart(m) \/ SerialEnd(m) \/ InfraredOutput(m)

Next ==
  \/ RunFrame \/ Schedule \/ CoreReturns
  \/ \E m \in Machines : Callback(m)
  \/ SetLink \/ Reset \/ Serialize \/ Unserialize

Spec == Init /\ [][Next]_vars

----------------------------------------------------------------------------
(* Properties                                                              *)

Bit == {High} \cup (Machines \X (1..Bits))

\* A machine, as far as its serial port goes.
Core == [reg : [1..Bits -> Bit], clock : Clocks, count : 0..Bits,
         half : BOOLEAN]

\* The machines stay together: tick_skew is how much further one has run than
\* the other, also after failed frames, resets and restored states, and never
\* more than one call of GB_run takes.  So every state of the pair can be
\* restored: the bound of decode_serialized_skew never refuses it.
ClocksAgree ==
  /\ tick_skew = lead
  /\ tick_skew \in -MaxSlice..(MaxSlice - 1)
  /\ Decode(Encode(tick_skew)) = {lead}
  /\ slot.saved => Decode(slot.skew) = {slot.lead}

\* Values have their types: in particular bits come from one of the machines
\* or from an idle cable, and registers keep their length.
TypeOK ==
  /\ core \in [Machines -> Core] /\ input \in [Machines -> BOOLEAN]
  /\ link_enabled \in BOOLEAN /\ serial_output \in [Machines -> Bit]
  /\ infrared_output \in [Machines -> BOOLEAN]
  /\ vblank_seen \in [Machines -> BOOLEAN]
  /\ pc \in {"idle", "loop", "core"} /\ index \in Machines
  /\ exchange \subseteq Machines

\* What is left of m's byte, and what came from its peer, after k bits.
Exchanged(m, k) ==
  SubSeq(Byte(m), k + 1, Bits) \o SubSeq(Byte(Peer(m)), 1, k)

\* run_frame comes to an end, also when a machine never finishes a frame: a
\* call that goes on has taken at least a tick, and the watchdogs bound the
\* calls and the ticks of each machine that the frame may go on with.
FrameBounded ==
  /\ calls <= machine_ticks[0] + machine_ticks[1] /\ calls <= CallWatchdog
  /\ \A m \in Machines : machine_ticks[m] <= TickWatchdog

\* The cable is symmetric: while two games exchange a byte, each register
\* holds exactly the other's bits in the place of its own, although the start
\* and the end of a bit may lie in different frames, with a restored state in
\* between; and a linked machine sees the light of the other, an unlinked one
\* none.  However the bits are timed, the frame they are in comes to an end.
PeersAgree ==
  /\ TypeOK
  /\ FrameBounded
  /\ \A m \in exchange :
       \A k \in {core[m].count} :
         /\ core[Peer(m)].count = k
         /\ core[m].reg = Exchanged(m, k)
         /\ core[Peer(m)].reg = Exchanged(Peer(m), k)
  /\ input = Applied(link_enabled, infrared_output)
=============================================================================
