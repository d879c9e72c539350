-------------------------- MODULE LinkCableProofs ---------------------------
(***************************************************************************)
(* Proofs about the two link cables.  Of two Game Boys: for any lengths of *)
(* the calls of GB_run and any watchdogs, the machines stay within one     *)
(* call of each other and every state of the pair can be restored; for any *)
(* length of a serial byte, both ends of the cable and of the infrared     *)
(* port agree.  Of a Game Boy Advance on the lockstep link: for any range  *)
(* of the cycle counter and any attach time, the stored times are the      *)
(* unbounded ones through every wrap.                                      *)
(***************************************************************************)
EXTENDS SerialLink, CycleArithmetic, SequenceTheorems, WellFoundedInduction,
        TLAPS

-----------------------------------------------------------------------------
(* Two Game Boys.                                                          *)

InRange(skew) == skew \in -MaxSlice..(MaxSlice - 1)

\* The inductive form of ClocksAgree: inside GB_run it is the machine that is
\* behind that runs, and a saved state holds a skew of this kind.
ClockInv ==
  /\ tick_skew = lead
  /\ InRange(tick_skew)
  /\ pc = "core" => index = Behind
  /\ slot.saved => slot.skew = Encode(slot.lead) /\ InRange(slot.lead)

\* What is saved is accepted, and is the same number again: the bound of
\* decode_serialized_skew is not reached and signs survive the 64-bit cast.
LEMMA DecodeEncode ==
  ASSUME NEW skew \in Int, InRange(skew)
  PROVE  Decode(Encode(skew)) = {skew}
  <1>1. CASE skew < 0
    <2>1. /\ Encode(skew) = skew + Modulus
          /\ ~(skew + Modulus <= MaxSkew)
          /\ skew + Modulus >= Modulus - MaxSkew
          /\ (skew + Modulus) - Modulus = skew
      BY <1>1, SliceAssumption DEF Encode, InRange
    <2> QED BY <2>1 DEF Decode
  <1>2. CASE skew >= 0
    <2>1. Encode(skew) = skew /\ skew <= MaxSkew
      BY <1>2, SliceAssumption DEF Encode, InRange
    <2> QED BY <2>1 DEF Decode
  <1> QED BY <1>1, <1>2

\* The invariant holds of a fresh pair.
LEMMA InitClock == Init => ClockInv
  <1> SUFFICES ASSUME Init PROVE ClockInv
    OBVIOUS
  <1>1. tick_skew = lead /\ InRange(tick_skew)
    BY SliceAssumption DEF Init, InRange
  <1>2. pc # "core" /\ ~slot.saved
    BY DEF Init, NoState
  <1> QED BY <1>1, <1>2 DEF ClockInv

\* A call of GB_run keeps the machines together: the one that is behind
\* passes the other by less than the length of the call.
LEMMA ReturnKeepsClock == ClockInv /\ CoreReturns => ClockInv'
  <1> SUFFICES ASSUME ClockInv, CoreReturns PROVE ClockInv'
    OBVIOUS
  <1> PICK elapsed \in Slices \cup {0} :
        /\ tick_skew' = IF index = 0 THEN tick_skew - elapsed
                        ELSE tick_skew + elapsed
        /\ lead' = IF index = 0 THEN lead - elapsed ELSE lead + elapsed
    BY DEF CoreReturns
  <1>1. elapsed \in 0..MaxSlice
    BY SliceAssumption
  <1>2. tick_skew \in Int /\ tick_skew = lead /\ index = Behind
    BY SliceAssumption DEF ClockInv, InRange, CoreReturns
  <1>3. tick_skew' = lead' /\ InRange(tick_skew')
    <2>1. CASE tick_skew >= 0
      <3>1. tick_skew' = tick_skew - elapsed /\ lead' = lead - elapsed
        BY <2>1, <1>2 DEF Behind
      <3> QED BY <3>1, <2>1, <1>1, <1>2, SliceAssumption DEF ClockInv, InRange
    <2>2. CASE tick_skew < 0
      <3>1. tick_skew' = tick_skew + elapsed /\ lead' = lead + elapsed
        BY <2>2, <1>2 DEF Behind
      <3> QED BY <3>1, <2>2, <1>1, <1>2, SliceAssumption DEF ClockInv, InRange
    <2> QED BY <2>1, <2>2, <1>2
  <1>4. pc' # "core"
    BY DEF CoreReturns, Returns
  <1>5. UNCHANGED slot
    BY DEF CoreReturns
  <1> QED BY <1>3, <1>4, <1>5 DEF ClockInv

\* A state is saved with its skew and restored with it.
LEMMA StatesKeepClock == ClockInv /\ (Serialize \/ Unserialize) => ClockInv'
  <1> SUFFICES ASSUME ClockInv, Serialize \/ Unserialize PROVE ClockInv'
    OBVIOUS
  <1>1. CASE Serialize
    <2>1. UNCHANGED <<tick_skew, lead, pc, index>>
      BY <1>1 DEF Serialize, frame
    <2>2. slot'.skew = Encode(tick_skew) /\ slot'.lead = lead
      BY <1>1 DEF Serialize
    <2> QED BY <2>1, <2>2 DEF ClockInv, Behind
  <1>2. CASE Unserialize
    <2>1. /\ slot.skew = Encode(slot.lead) /\ InRange(slot.lead)
          /\ pc' = "idle" /\ lead' = slot.lead /\ slot' = slot
          /\ tick_skew' \in Decode(slot.skew)
      BY <1>2 DEF Unserialize, UnserializeLink, ClockInv
    <2>2. slot.lead \in Int
      BY <2>1, SliceAssumption DEF InRange
    <2>3. tick_skew' = slot.lead
      BY <2>1, <2>2, DecodeEncode
    <2> QED BY <2>1, <2>3 DEF ClockInv
  <1> QED BY <1>1, <1>2

\* No other step touches the clocks of one machine alone.
LEMMA NextKeepsClock == ClockInv /\ [Next]_vars => ClockInv'
  <1> SUFFICES ASSUME ClockInv, [Next]_vars PROVE ClockInv'
    OBVIOUS
  <1>1. CASE RunFrame
    BY <1>1 DEF RunFrame, ClockInv
  <1>2. CASE Schedule
    <2>1. UNCHANGED <<tick_skew, lead, slot>>
      BY <1>2 DEF Schedule
    <2>2. pc' = "core" => index' = Behind
      BY <1>2 DEF Schedule, Returns
    <2> QED BY <2>1, <2>2 DEF ClockInv, Behind
  <1>3. CASE CoreReturns
    BY <1>3, ReturnKeepsClock
  <1>4. ASSUME NEW m \in Machines, Callback(m) PROVE ClockInv'
    <2>1. UNCHANGED <<tick_skew, lead, slot, pc, index>>
      BY <1>4 DEF Callback, Transfer, SerialStart, SerialEnd, InfraredOutput,
                  frame
    <2> QED BY <2>1 DEF ClockInv, Behind
  <1>5. CASE SetLink
    BY <1>5 DEF SetLink, frame, ClockInv, Behind
  <1>6. CASE Reset
    <2>1. InRange(0)
      BY SliceAssumption DEF InRange
    <2> QED BY <1>6, <2>1 DEF Reset, ClockInv
  <1>7. CASE Serialize \/ Unserialize
    BY <1>7, StatesKeepClock
  <1>8. CASE UNCHANGED vars
    BY <1>8 DEF vars, frame, ClockInv, Behind
  <1> QED BY <1>1, <1>2, <1>3, <1>4, <1>5, <1>6, <1>7, <1>8 DEF Next

\* The machines of a pair stay within one call of GB_run of each other, after
\* failed frames, resets and restores, and every saved state is accepted.
THEOREM MachinesStayTogether == Spec => []ClocksAgree
  <1>1. ClockInv => ClocksAgree
    <2> SUFFICES ASSUME ClockInv PROVE ClocksAgree
      OBVIOUS
    <2>1. tick_skew \in Int /\ (slot.saved => slot.lead \in Int)
      BY SliceAssumption DEF ClockInv, InRange
    <2>2. Decode(Encode(tick_skew)) = {tick_skew}
      BY <2>1, DecodeEncode DEF ClockInv
    <2>3. slot.saved => Decode(Encode(slot.lead)) = {slot.lead}
      BY <2>1, DecodeEncode DEF ClockInv
    <2> QED BY <2>2, <2>3 DEF ClockInv, ClocksAgree, InRange
  <1> QED BY <1>1, InitClock, NextKeepsClock, PTL DEF Spec

----------------------------------------------------------------------------
(* The serial cable.                                                       *)

\* A shift register holds one byte.
Register == [1..Bits -> Bit]

\* Registers that agree in every place are equal.
LEMMA SameRegister ==
  ASSUME NEW r \in Register, NEW s \in Register, \A i \in 1..Bits : r[i] = s[i]
  PROVE  r = s
  <1>1. r = [i \in 1..Bits |-> r[i]] /\ s = [i \in 1..Bits |-> s[i]]
    BY DEF Register
  <1> QED BY <1>1

\* A register is a sequence of its length.
LEMMA RegisterIsSequence ==
  ASSUME NEW r \in Register
  PROVE  r \in Seq(Bit) /\ Len(r) = Bits /\ r # << >>
  <1>1. r \in Seq(Bit)
    BY LimitAssumption DEF Register
  <1>2. Len(r) = Bits
    BY <1>1, LenProperties, LimitAssumption DEF Register
  <1> QED BY <1>1, <1>2, LimitAssumption

\* Shifting moves every bit one place forward and takes one in at the end.
LEMMA ShiftedRegister ==
  ASSUME NEW r \in Register, NEW bit \in Bit
  PROVE  /\ Append(Tail(r), bit) \in Register
         /\ \A i \in 1..Bits : Append(Tail(r), bit)[i] =
                                 IF i < Bits THEN r[i + 1] ELSE bit
         /\ Head(r) = r[1]
  <1>1. r \in Seq(Bit) /\ Len(r) = Bits /\ r # << >>
    BY RegisterIsSequence
  <1>2. /\ Tail(r) \in Seq(Bit) /\ Len(Tail(r)) = Bits - 1
        /\ \A i \in 1..(Bits - 1) : Tail(r)[i] = r[i + 1]
    BY <1>1, HeadTailProperties
  <1>3. /\ Append(Tail(r), bit) \in Seq(Bit)
        /\ Len(Append(Tail(r), bit)) = Bits
        /\ \A i \in 1..(Bits - 1) : Append(Tail(r), bit)[i] = Tail(r)[i]
        /\ Append(Tail(r), bit)[Bits] = bit
    BY <1>2, AppendProperties, LimitAssumption
  <1>4. Append(Tail(r), bit) \in Register
    BY <1>3, LenProperties DEF Register
  <1>5. Head(r) = r[1]
    BY <1>1
  <1> QED BY <1>2, <1>3, <1>4, <1>5, LimitAssumption

\* A byte is a register, and so is any mixture of two bytes.
LEMMA ByteIsRegister ==
  ASSUME NEW m \in Machines
  PROVE  /\ Peer(m) \in Machines /\ Peer(Peer(m)) = m /\ Peer(m) # m
         /\ Byte(m) \in Register
  BY DEF Machines, Peer, Byte, Register, Bit

\* What a register holds after k bits of an exchange, place by place.
LEMMA ExchangedPlaces ==
  ASSUME NEW m \in Machines, NEW k \in 0..Bits
  PROVE  /\ Exchanged(m, k) \in Register
         /\ \A i \in 1..Bits : Exchanged(m, k)[i] =
              IF i <= Bits - k THEN <<m, k + i>> ELSE <<Peer(m), i - (Bits - k)>>
  <1> DEFINE mine == SubSeq(Byte(m), k + 1, Bits)
             theirs == SubSeq(Byte(Peer(m)), 1, k)
  <1>1. \A i \in 1..Bits : /\ Byte(m)[i] = <<m, i>> /\ Byte(m)[i] \in Bit
                           /\ Byte(Peer(m))[i] = <<Peer(m), i>>
                           /\ Byte(Peer(m))[i] \in Bit
    BY ByteIsRegister DEF Byte, Register
  <1>2. /\ mine \in Seq(Bit) /\ Len(mine) = Bits - k
        /\ \A i \in 1..(Bits - k) : mine[i] = Byte(m)[k + i]
    <2>1. \A i \in (k + 1)..Bits : Byte(m)[i] \in Bit
      BY <1>1, LimitAssumption
    <2>2. /\ mine \in Seq(Bit)
          /\ Len(mine) = IF k + 1 <= Bits THEN Bits - (k + 1) + 1 ELSE 0
          /\ \A i \in 1..(Bits - (k + 1) + 1) :
               mine[i] = Byte(m)[(k + 1) + i - 1]
      BY <2>1, SubSeqProperties, LimitAssumption
    <2> QED BY <2>2, LimitAssumption
  <1>3. /\ theirs \in Seq(Bit) /\ Len(theirs) = k
        /\ \A i \in 1..k : theirs[i] = Byte(Peer(m))[i]
    <2>1. \A i \in 1..k : Byte(Peer(m))[i] \in Bit
      BY <1>1, LimitAssumption
    <2>2. /\ theirs \in Seq(Bit)
          /\ Len(theirs) = IF 1 <= k THEN k - 1 + 1 ELSE 0
          /\ \A i \in 1..(k - 1 + 1) : theirs[i] = Byte(Peer(m))[1 + i - 1]
      BY <2>1, SubSeqProperties, LimitAssumption
    <2> QED BY <2>2, LimitAssumption
  <1> HIDE DEF mine, theirs
  <1>4. /\ mine \o theirs \in Seq(Bit) /\ Len(mine \o theirs) = Bits
        /\ \A i \in 1..Bits : (mine \o theirs)[i] =
             IF i <= Bits - k THEN mine[i] ELSE theirs[i - (Bits - k)]
    <2>1. /\ mine \o theirs \in Seq(Bit)
          /\ Len(mine \o theirs) = Len(mine) + Len(theirs)
          /\ \A i \in 1..(Len(mine) + Len(theirs)) : (mine \o theirs)[i] =
               IF i <= Len(mine) THEN mine[i] ELSE theirs[i - Len(mine)]
      BY <1>2, <1>3, ConcatProperties
    <2>2. Len(mine) + Len(theirs) = Bits /\ Len(mine) = Bits - k
      BY <1>2, <1>3, LimitAssumption
    <2> QED BY <2>1, <2>2
  <1>5. Exchanged(m, k) = mine \o theirs
    BY DEF Exchanged, mine, theirs
  <1>6. Exchanged(m, k) \in Register
    BY <1>4, <1>5, LenProperties DEF Register
  <1>7. ASSUME NEW i \in 1..Bits
        PROVE  Exchanged(m, k)[i] = IF i <= Bits - k THEN <<m, k + i>>
                                    ELSE <<Peer(m), i - (Bits - k)>>
    <2>1. CASE i <= Bits - k
      <3>1. i \in 1..(Bits - k) /\ k + i \in 1..Bits
        BY <2>1, LimitAssumption
      <3> QED BY <3>1, <2>1, <1>1, <1>2, <1>4, <1>5
    <2>2. CASE i > Bits - k
      <3>1. i - (Bits - k) \in 1..k /\ i - (Bits - k) \in 1..Bits
            /\ ~(i <= Bits - k)
        BY <2>2, LimitAssumption
      <3> QED BY <3>1, <1>1, <1>3, <1>4, <1>5
    <2> QED BY <2>1, <2>2, LimitAssumption
  <1> QED BY <1>6, <1>7

\* At the start of an exchange a register is the machine's own byte.
LEMMA ExchangeStarts ==
  ASSUME NEW m \in Machines
  PROVE  Exchanged(m, 0) = Byte(m)
  <1>1. ASSUME NEW i \in 1..Bits PROVE Exchanged(m, 0)[i] = Byte(m)[i]
    <2>1. 0 \in 0..Bits /\ i <= Bits - 0 /\ 0 + i = i
      BY LimitAssumption
    <2>2. Exchanged(m, 0)[i] = IF i <= Bits - 0 THEN <<m, 0 + i>>
                               ELSE <<Peer(m), i - (Bits - 0)>>
      BY <2>1, ExchangedPlaces
    <2> QED BY <2>1, <2>2 DEF Byte
  <1>2. Exchanged(m, 0) \in Register /\ Byte(m) \in Register
    BY ExchangedPlaces, ByteIsRegister, LimitAssumption
  <1> QED BY <1>1, <1>2, SameRegister

\* A machine that takes in the next bit of its peer has exchanged one more.
LEMMA ExchangeGoesOn ==
  ASSUME NEW m \in Machines, NEW k \in 0..(Bits - 1)
  PROVE  /\ Head(Exchanged(m, k)) = <<m, k + 1>>
         /\ Append(Tail(Exchanged(m, k)), <<Peer(m), k + 1>>)
              = Exchanged(m, k + 1)
  <1> DEFINE bit == <<Peer(m), k + 1>>
             shifted == Append(Tail(Exchanged(m, k)), bit)
  <1>1. k \in 0..Bits /\ k + 1 \in 0..Bits /\ k + 1 \in 1..Bits
    BY LimitAssumption
  <1>2. bit \in Bit
    BY <1>1, ByteIsRegister DEF Bit
  <1>3. /\ shifted \in Register
        /\ \A i \in 1..Bits : shifted[i] =
             IF i < Bits THEN Exchanged(m, k)[i + 1] ELSE bit
        /\ Head(Exchanged(m, k)) = Exchanged(m, k)[1]
    BY <1>1, <1>2, ShiftedRegister, ExchangedPlaces
  <1> HIDE DEF shifted, bit
  <1>4. ASSUME NEW i \in 1..Bits PROVE shifted[i] = Exchanged(m, k + 1)[i]
    <2>1. Exchanged(m, k + 1)[i] =
            IF i <= Bits - (k + 1) THEN <<m, (k + 1) + i>>
            ELSE <<Peer(m), i - (Bits - (k + 1))>>
      BY <1>1, ExchangedPlaces
    <2>2. CASE i < Bits
      <3>1. i + 1 \in 1..Bits
        BY <2>2, LimitAssumption
      <3>2. Exchanged(m, k)[i + 1] =
              IF i + 1 <= Bits - k THEN <<m, k + (i + 1)>>
              ELSE <<Peer(m), (i + 1) - (Bits - k)>>
        BY <3>1, <1>1, ExchangedPlaces
      <3>3. /\ (i + 1 <= Bits - k) = (i <= Bits - (k + 1))
            /\ k + (i + 1) = (k + 1) + i
            /\ (i + 1) - (Bits - k) = i - (Bits - (k + 1))
        BY LimitAssumption
      <3> QED BY <3>2, <3>3, <2>1, <2>2, <1>3
    <2>3. CASE i = Bits
      <3>1. ~(i <= Bits - (k + 1)) /\ i - (Bits - (k + 1)) = k + 1
        BY <2>3, LimitAssumption
      <3> QED BY <3>1, <2>1, <2>3, <1>3, LimitAssumption DEF bit
    <2> QED BY <2>2, <2>3, LimitAssumption
  <1>5. shifted = Exchanged(m, k + 1)
    <2>1. Exchanged(m, k + 1) \in Register
      BY <1>1, ExchangedPlaces
    <2> QED BY <1>3, <1>4, <2>1, SameRegister
  <1>6. Exchanged(m, k)[1] = <<m, k + 1>>
    <2>1. 1 \in 1..Bits /\ 1 <= Bits - k
      BY LimitAssumption
    <2>2. Exchanged(m, k)[1] = IF 1 <= Bits - k THEN <<m, k + 1>>
                               ELSE <<Peer(m), 1 - (Bits - k)>>
      BY <2>1, <1>1, ExchangedPlaces
    <2> QED BY <2>1, <2>2
  <1> QED BY <1>3, <1>5, <1>6 DEF shifted, bit

----------------------------------------------------------------------------
(* The ports of both machines, now or in a saved state: machines c, bits   *)
(* out on the cable, lamps light, link linked and the exchange ex.         *)

PortTypes(c, out, light, linked, ex) ==
  /\ c \in [Machines -> Core] /\ out \in [Machines -> Bit]
  /\ light \in [Machines -> BOOLEAN] /\ linked \in BOOLEAN
  /\ ex \subseteq Machines

\* A started bit belongs to a machine that clocks itself; a machine with a
\* clock has bits left; one that has just been filled holds its own byte.
ClocksAndBits(c) ==
  \A m \in Machines :
    /\ c[m].half => c[m].clock = "internal"
    /\ c[m].clock # "off" => c[m].count < Bits
    /\ c[m].clock = "external" /\ c[m].count = 0 => c[m].reg = Byte(m)

\* m's transfer to its peer after k bits: the registers, the clocks, and the
\* bit that is on its way.
InExchange(c, out, m, k) ==
  /\ c[m].count = k /\ c[Peer(m)].count = k
  /\ c[m].reg = Exchanged(m, k)
  /\ c[Peer(m)].reg = Exchanged(Peer(m), k)
  /\ k < Bits => c[m].clock = "internal" /\ c[Peer(m)].clock = "external"
  /\ k = Bits => c[m].clock = "off" /\ c[Peer(m)].clock = "off"
  /\ c[m].half => out[m] = Head(c[m].reg)

Ports(c, out, light, linked, ex) ==
  /\ PortTypes(c, out, light, linked, ex)
  /\ ClocksAndBits(c)
  /\ \A m \in ex : linked /\ InExchange(c, out, m, c[m].count)

\* The inductive form of PeersAgree.
PortInv ==
  /\ Ports(core, serial_output, infrared_output, link_enabled, exchange)
  /\ slot.saved => Ports(slot.core, slot.serial_output, slot.infrared_output,
                         slot.link_enabled, slot.exchange)
  /\ input = Applied(link_enabled, infrared_output)

\* What run_frame counts.
FrameInv ==
  /\ vblank_seen \in [Machines -> BOOLEAN]
  /\ pc \in {"idle", "loop", "core"} /\ index \in Machines
  /\ machine_ticks \in [Machines -> Nat] /\ calls \in Nat
  /\ FrameBounded

\* What is called the ports does not change with the rest of the pair.
portVars == <<core, serial_output, infrared_output, link_enabled, exchange>>

\* The invariant holds of a fresh pair, as after a reset.
LEMMA FreshPorts ==
  ASSUME NEW light, light \in [Machines -> BOOLEAN], NEW linked \in BOOLEAN
  PROVE  Ports(Both(Fresh), Both(High), light, linked, {})
  <1>1. 0 \in Machines /\ Byte(0) \in Register
    BY ByteIsRegister DEF Machines
  <1>2. Fresh \in Core
    BY <1>1, LimitAssumption DEF Fresh, Core, Clocks, Register
  <1>3. PortTypes(Both(Fresh), Both(High), light, linked, {})
    BY <1>2 DEF PortTypes, Both, Bit
  <1>4. ClocksAndBits(Both(Fresh))
    BY DEF ClocksAndBits, Both, Fresh
  <1> QED BY <1>3, <1>4 DEF Ports

\* Two fresh machines with dark lamps and no link.
LEMMA InitPorts == Init => PortInv /\ FrameInv
  <1> SUFFICES ASSUME Init PROVE PortInv /\ FrameInv
    OBVIOUS
  <1>1. infrared_output \in [Machines -> BOOLEAN] /\ link_enabled \in BOOLEAN
    BY DEF Init, Both
  <1>2. Ports(core, serial_output, infrared_output, link_enabled, exchange)
    BY <1>1, FreshPorts DEF Init
  <1>3. ~slot.saved
    BY DEF Init, NoState
  <1>4. input = Applied(link_enabled, infrared_output)
    BY DEF Init, Applied, Both, Machines, Peer
  <1>5. FrameInv
    BY LimitAssumption DEF Init, FrameInv, FrameBounded, Both, Machines
  <1> QED BY <1>2, <1>3, <1>4, <1>5 DEF PortInv

\* A call of GB_run that goes on has taken at least one tick, and less than
\* the watchdogs allow.
LEMMA NextFrame == FrameInv /\ [Next]_vars => FrameInv'
  <1> SUFFICES ASSUME FrameInv, [Next]_vars PROVE FrameInv'
    OBVIOUS
  <1>1. ASSUME Returns PROVE FrameInv'
    BY <1>1, LimitAssumption
    DEF Returns, FrameInv, FrameBounded, Both, Machines
  <1>2. CASE RunFrame
    BY <1>2, LimitAssumption
    DEF RunFrame, FrameInv, FrameBounded, Both, Machines
  <1>3. CASE Schedule
    <2>1. CASE vblank_seen = Both(TRUE)
      BY <2>1, <1>1, <1>3 DEF Schedule
    <2>2. CASE vblank_seen # Both(TRUE)
      BY <2>2, <1>3 DEF Schedule, FrameInv, FrameBounded, Behind, Machines
    <2> QED BY <2>1, <2>2
  <1>4. CASE CoreReturns
    <2> PICK elapsed \in Slices \cup {0}, vblank \in BOOLEAN :
          LET ticks == machine_ticks[index] + elapsed
              n == calls + 1
          IN IF elapsed = 0 \/ Expired(ticks, n) THEN Returns
             ELSE /\ pc' = "loop" /\ index' = index
                  /\ vblank_seen' = [vblank_seen EXCEPT ![index] = @ \/ vblank]
                  /\ machine_ticks' = [machine_ticks EXCEPT ![index] = ticks]
                  /\ calls' = n
      BY <1>4 DEF CoreReturns
    <2> DEFINE ticks == machine_ticks[index] + elapsed
               n == calls + 1
    <2>1. CASE elapsed = 0 \/ Expired(ticks, n)
      BY <2>1, <1>1
    <2>2. CASE ~(elapsed = 0 \/ Expired(ticks, n))
      <3>1. /\ pc' = "loop" /\ index' = index
            /\ vblank_seen' = [vblank_seen EXCEPT ![index] = @ \/ vblank]
            /\ machine_ticks' = [machine_ticks EXCEPT ![index] = ticks]
            /\ calls' = n
        BY <2>2
      <3>2. elapsed \in Nat /\ elapsed >= 1
        BY <2>2, SliceAssumption
      <3>3. ticks <= TickWatchdog /\ n <= CallWatchdog
        <4>1. ticks \in Nat /\ n \in Nat
          BY <3>2 DEF FrameInv
        <4> QED BY <4>1, <2>2, LimitAssumption DEF Expired
      <3> HIDE DEF n
      <3>4. /\ machine_ticks' \in [Machines -> Nat]
            /\ machine_ticks'[0] + machine_ticks'[1]
                 = machine_ticks[0] + machine_ticks[1] + elapsed
            /\ \A m \in Machines : machine_ticks'[m] <= TickWatchdog
        BY <3>1, <3>2, <3>3 DEF FrameInv, FrameBounded, Machines
      <3>5. calls' \in Nat /\ calls' <= machine_ticks'[0] + machine_ticks'[1]
            /\ calls' <= CallWatchdog
        BY <3>1, <3>2, <3>3, <3>4
        DEF FrameInv, FrameBounded, Machines, n
      <3>6. vblank_seen' \in [Machines -> BOOLEAN] /\ index' \in Machines
        BY <3>1 DEF FrameInv
      <3> QED BY <3>1, <3>4, <3>5, <3>6 DEF FrameInv, FrameBounded
    <2> QED BY <2>1, <2>2
  <1>5. CASE Reset \/ Unserialize
    BY <1>5 DEF Reset, Unserialize, FrameInv, FrameBounded, Both
  <1>6. ASSUME UNCHANGED frame PROVE FrameInv'
    BY <1>6 DEF frame, FrameInv, FrameBounded
  <1>7. ASSUME NEW m \in Machines, Callback(m) PROVE FrameInv'
    BY <1>6, <1>7
    DEF Callback, Transfer, SerialStart, SerialEnd, InfraredOutput
  <1>8. CASE SetLink \/ Serialize \/ UNCHANGED vars
    BY <1>6, <1>8 DEF SetLink, Serialize, vars
  <1> QED BY <1>2, <1>3, <1>4, <1>5, <1>7, <1>8 DEF Next

\* What the steps that leave the ports alone need.
LEMMA QuietPorts ==
  ASSUME PortInv, UNCHANGED <<portVars, input, slot>>
  PROVE  PortInv'
  BY DEF PortInv, portVars

\* A game fills its register.  An exchange begins when the other machine
\* waits, and then both hold their own bytes; any other one is over.
LEMMA TransferPorts ==
  ASSUME NEW m \in Machines, PortInv, Transfer(m)
  PROVE  PortInv'
  <1> PICK clock \in Clocks \ {"off"} :
        /\ core' = [core EXCEPT ![m] = [reg |-> Byte(m), clock |-> clock,
                                        count |-> 0, half |-> FALSE]]
        /\ exchange' =
             IF /\ link_enabled /\ clock = "internal"
                /\ core[Peer(m)].clock = "external"
                /\ core[Peer(m)].count = 0
             THEN {m} ELSE {}
    BY DEF Transfer
  <1> DEFINE filled == [reg |-> Byte(m), clock |-> clock, count |-> 0,
                        half |-> FALSE]
  <1>1. UNCHANGED <<serial_output, infrared_output, link_enabled, input, slot>>
    BY DEF Transfer, link
  <1>2. PortTypes(core, serial_output, infrared_output, link_enabled, exchange)
    BY DEF PortInv, Ports
  <1>3. filled \in Core
    BY ByteIsRegister, LimitAssumption DEF Core, Register, Clocks
  <1>4. PortTypes(core', serial_output', infrared_output', link_enabled',
                  exchange')
    BY <1>1, <1>2, <1>3 DEF PortTypes
  <1>5. core'[m] = filled /\ \A p \in Machines \ {m} : core'[p] = core[p]
    BY <1>2 DEF PortTypes
  <1>6. ClocksAndBits(core')
    BY <1>5, LimitAssumption DEF PortInv, Ports, ClocksAndBits
  <1>7. ASSUME NEW p \in exchange'
        PROVE  link_enabled' /\ InExchange(core', serial_output', p,
                                           core'[p].count)
    <2>1. /\ p = m /\ link_enabled /\ clock = "internal"
          /\ core[Peer(m)].clock = "external" /\ core[Peer(m)].count = 0
      BY <1>7
    <2>2. Peer(m) \in Machines /\ Peer(m) # m /\ core'[Peer(m)] = core[Peer(m)]
      BY <1>5, ByteIsRegister
    <2>3. core[Peer(m)].reg = Byte(Peer(m))
      BY <2>1, <2>2 DEF PortInv, Ports, ClocksAndBits
    <2>4. Exchanged(m, 0) = Byte(m) /\ Exchanged(Peer(m), 0) = Byte(Peer(m))
      BY <2>2, ExchangeStarts
    <2> QED BY <2>1, <2>2, <2>3, <2>4, <1>1, <1>5, LimitAssumption
            DEF InExchange
  <1> QED BY <1>1, <1>4, <1>6, <1>7 DEF PortInv, Ports

\* The first half of a bit: it is put on the cable.
LEMMA StartPorts ==
  ASSUME NEW m \in Machines, PortInv, SerialStart(m)
  PROVE  PortInv'
  <1>1. /\ core[m].clock = "internal" /\ ~core[m].half
        /\ core' = [core EXCEPT ![m].half = TRUE]
        /\ serial_output' = IF link_enabled
                            THEN [serial_output EXCEPT ![m] = Head(core[m].reg)]
                            ELSE serial_output
        /\ UNCHANGED <<infrared_output, link_enabled, exchange, input, slot>>
    BY DEF SerialStart
  <1>2. PortTypes(core, serial_output, infrared_output, link_enabled, exchange)
    BY DEF PortInv, Ports
  <1>3. core[m] \in Core /\ core[m].reg \in Register
    BY <1>2 DEF PortTypes, Core, Register
  <1>4. Head(core[m].reg) \in Bit
    BY <1>3, RegisterIsSequence, HeadTailProperties
  <1>5. PortTypes(core', serial_output', infrared_output', link_enabled',
                  exchange')
    <2>1. core' \in [Machines -> Core]
      BY <1>1, <1>2, <1>3 DEF PortTypes, Core
    <2>2. serial_output' \in [Machines -> Bit]
      BY <1>1, <1>2, <1>4 DEF PortTypes
    <2> QED BY <1>1, <1>2, <2>1, <2>2 DEF PortTypes
  <1>6. /\ core'[m].half /\ core'[m].clock = "internal"
        /\ core'[m].reg = core[m].reg /\ core'[m].count = core[m].count
        /\ \A p \in Machines \ {m} : core'[p] = core[p]
    BY <1>1, <1>2, <1>3 DEF PortTypes, Core
  <1>7. ClocksAndBits(core')
    BY <1>1, <1>6 DEF PortInv, Ports, ClocksAndBits
  <1>8. ASSUME NEW p \in exchange'
        PROVE  link_enabled' /\ InExchange(core', serial_output', p,
                                           core'[p].count)
    <2>1. /\ p \in Machines /\ link_enabled
          /\ InExchange(core, serial_output, p, core[p].count)
      BY <1>1, <1>2, <1>8 DEF PortInv, Ports, PortTypes
    <2>2. Peer(p) \in Machines /\ Peer(p) # p /\ Peer(Peer(p)) = p
      BY <2>1, ByteIsRegister
    <2>3. p = m
      <3>1. core[p].count \in 0..Bits
        BY <1>2, <2>1 DEF PortTypes, Core
      <3>2. core[Peer(p)].clock # "internal"
        BY <3>1, <2>1, LimitAssumption DEF InExchange
      <3>3. p # m => Peer(p) = m
        BY <2>1 DEF Machines, Peer
      <3> QED BY <3>2, <3>3, <1>1
    <2>4. serial_output'[m] = Head(core[m].reg)
      BY <1>1, <1>2, <2>1 DEF PortTypes
    <2>5. core'[Peer(m)] = core[Peer(m)]
      BY <1>6, <2>2, <2>3
    <2> QED BY <2>1, <2>3, <2>4, <2>5, <1>1, <1>6 DEF InExchange
  <1> QED BY <1>1, <1>5, <1>7, <1>8 DEF PortInv, Ports

\* One shift keeps the type of a machine, and its clock has bits left or is
\* off afterwards.
LEMMA ShiftedCore ==
  ASSUME NEW c \in Core, NEW bit \in Bit, c.count < Bits
  PROVE  /\ Shifted(c, bit) \in Core
         /\ Shifted(c, bit).count = c.count + 1
         /\ Shifted(c, bit).reg = Append(Tail(c.reg), bit)
         /\ Shifted(c, bit).clock = IF c.count + 1 = Bits THEN "off"
                                    ELSE c.clock
         /\ ~Shifted(c, bit).half
  <1>1. c.reg \in Register /\ c.count \in 0..Bits /\ c.clock \in Clocks
    BY DEF Core, Register
  <1>2. Append(Tail(c.reg), bit) \in Register
    BY <1>1, ShiftedRegister
  <1>3. c.count + 1 \in 0..Bits
    BY <1>1, LimitAssumption
  <1> QED BY <1>1, <1>2, <1>3 DEF Shifted, Core, Register, Clocks

\* The second half of a bit: each machine takes in the other's, and both
\* have exchanged one more.
LEMMA EndPorts ==
  ASSUME NEW m \in Machines, PortInv, SerialEnd(m)
  PROVE  PortInv'
  <1> DEFINE p == Peer(m)
             mine == IF link_enabled THEN DataBit(core[p]) ELSE High
             peer == IF link_enabled THEN WithDataBit(core[p], serial_output[m])
                     ELSE core[p]
  <1>1. p \in Machines /\ p # m /\ Peer(p) = m /\ Machines = {m, p}
    BY ByteIsRegister DEF Machines, Peer
  <1>2. PortTypes(core, serial_output, infrared_output, link_enabled, exchange)
    BY DEF PortInv, Ports
  <1>3. /\ core[m].half
        /\ UNCHANGED <<serial_output, infrared_output, link_enabled, exchange,
                       input, slot>>
    BY DEF SerialEnd, link
  <1>4. /\ core'[m] = Shifted(core[m], mine) /\ core'[p] = peer
        /\ DOMAIN core' = Machines /\ core' = [q \in Machines |-> core'[q]]
    BY <1>1, <1>2 DEF SerialEnd, PortTypes
  <1> HIDE DEF p
  <1>5. /\ core[m] \in Core /\ core[p] \in Core /\ core[p].reg \in Register
        /\ core[m].reg \in Register /\ serial_output[m] \in Bit
    BY <1>1, <1>2 DEF PortTypes, Core, Register
  <1>6. /\ core[m].clock = "internal" /\ core[m].count < Bits
        /\ core[p].clock # "off" => core[p].count < Bits
        /\ core[p].half => core[p].clock = "internal"
    BY <1>1, <1>3 DEF PortInv, Ports, ClocksAndBits
  <1>7. mine \in Bit
    <2>1. Head(core[p].reg) \in Bit
      BY <1>5, RegisterIsSequence, HeadTailProperties
    <2> QED BY <2>1 DEF DataBit, Bit
  <1> HIDE DEF mine
  <1>8. /\ core'[m] \in Core /\ core'[m].count = core[m].count + 1
        /\ core'[m].reg = Append(Tail(core[m].reg), mine)
        /\ core'[m].clock = IF core[m].count + 1 = Bits THEN "off"
                            ELSE core[m].clock
        /\ ~core'[m].half
    BY <1>4, <1>5, <1>6, <1>7, ShiftedCore
  <1>9. CASE link_enabled /\ core[p].clock = "external"
    <2>1. core'[p] = Shifted(core[p], serial_output[m])
      BY <1>4, <1>9 DEF WithDataBit
    <2>2. /\ core'[p] \in Core /\ core'[p].count = core[p].count + 1
          /\ core'[p].reg = Append(Tail(core[p].reg), serial_output[m])
          /\ core'[p].clock = IF core[p].count + 1 = Bits THEN "off"
                              ELSE core[p].clock
          /\ ~core'[p].half
      BY <2>1, <1>5, <1>6, <1>9, ShiftedCore
    <2>3. PortTypes(core', serial_output', infrared_output', link_enabled',
                    exchange')
      <3>1. core' \in [Machines -> Core]
        BY <1>1, <1>4, <1>8, <2>2
      <3> QED BY <3>1, <1>2, <1>3 DEF PortTypes
    <2>4. core[m].count \in 0..Bits /\ core[p].count \in 0..Bits
      BY <1>5 DEF Core
    <2>5. ClocksAndBits(core')
      <3>1. core'[m].clock # "off" => core'[m].clock = "internal"
                                      /\ core'[m].count < Bits
        BY <1>6, <1>8, <2>4, LimitAssumption
      <3>2. /\ core'[p].clock # "off" => core'[p].count < Bits
            /\ core'[p].count # 0
        BY <1>6, <1>9, <2>2, <2>4, LimitAssumption
      <3> QED BY <1>1, <1>8, <2>2, <3>1, <3>2 DEF ClocksAndBits
    <2>6. ASSUME NEW q \in exchange'
          PROVE  link_enabled' /\ InExchange(core', serial_output', q,
                                             core'[q].count)
      <3> DEFINE k == core[m].count
      <3>1. /\ q \in Machines /\ link_enabled
            /\ InExchange(core, serial_output, q, core[q].count)
        BY <1>2, <1>3, <2>6 DEF PortInv, Ports, PortTypes
      <3>2. q = m
        <4>1. CASE q = p
          BY <4>1, <3>1, <1>1, <1>6, <2>4 DEF InExchange
        <4> QED BY <4>1, <3>1, <1>1
      <3>3. /\ core[p].count = k /\ core[m].reg = Exchanged(m, k)
            /\ core[p].reg = Exchanged(p, k)
            /\ serial_output[m] = Head(core[m].reg)
        BY <3>1, <3>2, <1>1, <1>3 DEF InExchange, p
      <3>4. k \in 0..(Bits - 1) /\ k + 1 \in 0..Bits
        BY <2>4, <1>6, LimitAssumption
      <3> HIDE DEF k
      <3>5. /\ Head(core[m].reg) = <<m, k + 1>>
            /\ Head(core[p].reg) = <<p, k + 1>>
            /\ Append(Tail(core[m].reg), <<p, k + 1>>) = Exchanged(m, k + 1)
            /\ Append(Tail(core[p].reg), <<m, k + 1>>) = Exchanged(p, k + 1)
        <4>1. Peer(m) = p
          BY DEF p
        <4> QED BY <4>1, <3>3, <3>4, <1>1, ExchangeGoesOn
      <3>6. mine = <<p, k + 1>>
        BY <3>5, <1>9 DEF mine, DataBit
      <3>7. /\ core'[m].reg = Exchanged(m, k + 1)
            /\ core'[p].reg = Exchanged(p, k + 1)
        BY <3>3, <3>5, <3>6, <1>8, <2>2
      <3>8. core'[m].count = k + 1 /\ core'[p].count = k + 1
        BY <3>3, <1>8, <2>2 DEF k
      <3>9. /\ core'[m].clock = IF k + 1 = Bits THEN "off" ELSE "internal"
            /\ core'[p].clock = IF k + 1 = Bits THEN "off" ELSE "external"
        BY <3>3, <1>6, <1>8, <1>9, <2>2 DEF k
      <3> QED BY <3>1, <3>2, <3>4, <3>7, <3>8, <3>9, <1>3, <1>8
              DEF InExchange, p
    <2> QED BY <2>3, <2>5, <2>6, <1>3 DEF PortInv, Ports
  <1>10. CASE ~(link_enabled /\ core[p].clock = "external")
    <2>1. core'[p] = core[p]
      BY <1>4, <1>10 DEF WithDataBit
    <2>2. PortTypes(core', serial_output', infrared_output', link_enabled',
                    exchange')
      <3>1. core' \in [Machines -> Core]
        BY <1>1, <1>4, <1>5, <1>8, <2>1
      <3> QED BY <3>1, <1>2, <1>3 DEF PortTypes
    <2>3. core[m].count \in 0..Bits /\ core[p].count \in 0..Bits
      BY <1>5 DEF Core
    <2>4. ClocksAndBits(core')
      <3>1. core'[m].clock # "off" => core'[m].clock = "internal"
                                      /\ core'[m].count < Bits
        BY <1>6, <1>8, <2>3, LimitAssumption
      <3> QED BY <1>1, <1>8, <2>1, <3>1 DEF PortInv, Ports, ClocksAndBits
    <2>5. exchange' = {}
      <3> SUFFICES ASSUME NEW q \in exchange PROVE FALSE
        BY <1>3
      <3>1. /\ q \in Machines /\ link_enabled
            /\ InExchange(core, serial_output, q, core[q].count)
        BY <1>2 DEF PortInv, Ports, PortTypes
      <3>2. CASE q = m
        BY <3>1, <3>2, <1>6, <1>10, <2>3 DEF InExchange, p
      <3>3. CASE q = p
        BY <3>1, <3>3, <1>1, <1>6, <2>3 DEF InExchange
      <3> QED BY <3>1, <3>2, <3>3, <1>1
    <2> QED BY <2>2, <2>4, <2>5, <1>3 DEF PortInv, Ports
  <1> QED BY <1>9, <1>10

\* A lamp changes, and the light on the other side with it.
LEMMA InfraredPorts ==
  ASSUME NEW m \in Machines, PortInv, InfraredOutput(m)
  PROVE  PortInv'
  <1> PICK output \in BOOLEAN :
        /\ infrared_output' = [infrared_output EXCEPT ![m] = output]
        /\ input' = [input EXCEPT ![Peer(m)] = output]
    BY DEF InfraredOutput
  <1>1. /\ link_enabled
        /\ UNCHANGED <<core, link_enabled, serial_output, slot, exchange>>
    BY DEF InfraredOutput
  <1>2. PortTypes(core, serial_output, infrared_output, link_enabled, exchange)
    BY DEF PortInv, Ports
  <1>3. infrared_output' \in [Machines -> BOOLEAN]
    BY <1>2 DEF PortTypes
  <1>4. Ports(core', serial_output', infrared_output', link_enabled', exchange')
    BY <1>1, <1>2, <1>3 DEF PortInv, Ports, PortTypes
  <1>5. input' = Applied(link_enabled', infrared_output')
    <2>1. input = [p \in Machines |-> infrared_output[Peer(p)]]
      <3>1. \A p \in Machines :
              (link_enabled /\ infrared_output[Peer(p)]) = infrared_output[Peer(p)]
        BY <1>1, <1>2, ByteIsRegister DEF PortTypes
      <3> QED BY <3>1 DEF PortInv, Applied
    <2>2. input' = [p \in Machines |-> infrared_output'[Peer(p)]]
      <3>1. \A p \in Machines : (p = Peer(m)) = (Peer(p) = m)
        BY DEF Machines, Peer
      <3>2. \A p \in Machines : input'[p] = infrared_output'[Peer(p)]
        BY <2>1, <3>1, <1>2, ByteIsRegister DEF PortTypes
      <3> QED BY <3>2, <2>1
    <2>3. \A p \in Machines :
            (link_enabled' /\ infrared_output'[Peer(p)])
               = infrared_output'[Peer(p)]
      BY <1>1, <1>3, ByteIsRegister
    <2> QED BY <2>2, <2>3 DEF Applied
  <1> QED BY <1>1, <1>4, <1>5 DEF PortInv

\* A link that is switched starts from an idle cable, with no exchange.
LEMMA SetLinkPorts ==
  ASSUME PortInv, SetLink
  PROVE  PortInv'
  <1> PICK enabled \in BOOLEAN :
        /\ IF enabled /\ ~link_enabled
           THEN serial_output' = Both(High) /\ infrared_output' = Both(FALSE)
           ELSE UNCHANGED <<serial_output, infrared_output>>
        /\ link_enabled' = enabled
        /\ input' = Applied(enabled, infrared_output')
        /\ exchange' = IF enabled = link_enabled THEN exchange ELSE {}
    BY DEF SetLink
  <1>1. UNCHANGED <<core, slot>>
    BY DEF SetLink
  <1>2. PortTypes(core, serial_output, infrared_output, link_enabled, exchange)
    BY DEF PortInv, Ports
  <1>3. PortTypes(core', serial_output', infrared_output', link_enabled',
                  exchange')
    BY <1>1, <1>2 DEF PortTypes, Both, Bit
  <1>4. ASSUME NEW m \in exchange'
        PROVE  link_enabled' /\ InExchange(core', serial_output', m,
                                           core'[m].count)
    <2>1. enabled = link_enabled /\ m \in exchange
      BY <1>4
    <2> QED BY <2>1, <1>1 DEF PortInv, Ports
  <1> QED BY <1>1, <1>3, <1>4 DEF PortInv, Ports

\* Both machines, their cable and their link are saved and come back
\* together, in the middle of a bit as well.
LEMMA NextPorts == PortInv /\ [Next]_vars => PortInv'
  <1> SUFFICES ASSUME PortInv, [Next]_vars PROVE PortInv'
    OBVIOUS
  <1>1. CASE RunFrame \/ Schedule \/ CoreReturns \/ UNCHANGED vars
    <2>1. UNCHANGED <<portVars, input, slot>>
      BY <1>1 DEF RunFrame, Schedule, CoreReturns, vars, link, portVars
    <2> QED BY <2>1, QuietPorts
  <1>2. ASSUME NEW m \in Machines, Callback(m) PROVE PortInv'
    BY <1>2, TransferPorts, StartPorts, EndPorts, InfraredPorts DEF Callback
  <1>3. CASE SetLink
    BY <1>3, SetLinkPorts
  <1>4. CASE Reset
    <2>1. Ports(core', serial_output', infrared_output', link_enabled',
                exchange')
      <3>1. /\ Both(FALSE) \in [Machines -> BOOLEAN]
            /\ link_enabled \in BOOLEAN
        BY DEF Both, PortInv, Ports, PortTypes
      <3> QED BY <3>1, <1>4, FreshPorts DEF Reset
    <2> QED BY <1>4, <2>1 DEF Reset, PortInv
  <1>5. CASE Serialize
    <2>1. UNCHANGED <<portVars, input>>
      BY <1>5 DEF Serialize, link, portVars
    <2>2. /\ slot'.core = core /\ slot'.serial_output = serial_output
          /\ slot'.infrared_output = infrared_output
          /\ slot'.link_enabled = link_enabled /\ slot'.exchange = exchange
      BY <1>5 DEF Serialize
    <2> QED BY <2>1, <2>2 DEF PortInv, portVars
  <1>6. CASE Unserialize
    <2>1. Ports(core', serial_output', infrared_output', link_enabled',
                exchange')
      BY <1>6 DEF Unserialize, UnserializeLink, PortInv
    <2> QED BY <1>6, <2>1 DEF Unserialize, UnserializeLink, PortInv
  <1> QED BY <1>1, <1>2, <1>3, <1>4, <1>5, <1>6 DEF Next

\* Bytes on the cable and light over infrared agree on both sides, however
\* bits, frames, resets, link changes and restored states are interleaved,
\* and every frame is bounded; for bytes of any length and any watchdogs.
THEOREM CableIsSymmetric == Spec => []PeersAgree
  <1>1. PortInv /\ FrameInv => PeersAgree
    <2> SUFFICES ASSUME PortInv, FrameInv PROVE PeersAgree
      OBVIOUS
    <2>1. PortTypes(core, serial_output, infrared_output, link_enabled,
                    exchange)
      BY DEF PortInv, Ports
    <2>2. input \in [Machines -> BOOLEAN]
      BY <2>1, ByteIsRegister DEF PortInv, Applied, PortTypes
    <2>3. TypeOK
      BY <2>1, <2>2 DEF TypeOK, FrameInv, PortTypes
    <2>4. ASSUME NEW m \in exchange
          PROVE  /\ core[Peer(m)].count = core[m].count
                 /\ core[m].reg = Exchanged(m, core[m].count)
                 /\ core[Peer(m)].reg = Exchanged(Peer(m), core[m].count)
      BY <2>4 DEF PortInv, Ports, InExchange
    <2> QED BY <2>3, <2>4 DEF PeersAgree, FrameInv, PortInv
  <1> QED BY <1>1, InitPorts, NextPorts, NextFrame, PTL DEF Spec

-----------------------------------------------------------------------------
(* The 32-bit values.                                                      *)

\* a and b have the same 32 bits.
Cong(a, b) == \E k \in Int : a = b + k * Range32

LEMMA RangeFacts == Half \in Nat /\ Half > 0 /\ Range32 \in Nat /\ Range32 = 2 * Half
  BY RangeAssumption DEF Range32

LEMMA CongTo == ASSUME NEW a \in Int, NEW b \in Int, NEW k \in Int, a = b + k * Range32
                PROVE Cong(a, b)
  BY DEF Cong

LEMMA CongSum ==
  ASSUME NEW a \in Int, NEW b \in Int, NEW c \in Int, NEW d \in Int,
         Cong(a, b), Cong(c, d)
  PROVE  Cong(a + c, b + d) /\ Cong(a - c, b - d)
  <1>1. PICK j \in Int : a = b + j * Range32
    BY DEF Cong
  <1>2. PICK k \in Int : c = d + k * Range32
    BY DEF Cong
  <1>3. /\ (j + k) * Range32 = j * Range32 + k * Range32
        /\ (j - k) * Range32 = j * Range32 - k * Range32
        /\ j * Range32 \in Int /\ k * Range32 \in Int
    <2> HIDE DEF Range32
    <2> QED BY SMTT(20), RangeFacts
  <1>4. a + c = b + d + (j + k) * Range32 /\ a - c = b - d + (j - k) * Range32
    BY <1>1, <1>2, <1>3
  <1> QED BY <1>4 DEF Cong

LEMMA CongRefl == ASSUME NEW a \in Int PROVE Cong(a, a)
  <1>1. a = a + 0 * Range32
    BY RangeFacts
  <1> QED BY <1>1 DEF Cong

LEMMA CongSym ==
  ASSUME NEW a \in Int, NEW b \in Int, Cong(a, b) PROVE Cong(b, a)
  <1>1. PICK k \in Int : a = b + k * Range32
    BY DEF Cong
  <1>2. b = a + (-k) * Range32
    BY <1>1, RangeFacts
  <1> QED BY <1>2 DEF Cong

LEMMA CongTrans ==
  ASSUME NEW a \in Int, NEW b \in Int, NEW c \in Int, Cong(a, b), Cong(b, c)
  PROVE  Cong(a, c)
  <1>1. PICK j \in Int : a = b + j * Range32
    BY DEF Cong
  <1>2. PICK k \in Int : b = c + k * Range32
    BY DEF Cong
  <1>3. a = c + (j + k) * Range32
    BY <1>1, <1>2, RangeFacts
  <1> QED BY <1>3 DEF Cong

\* Two values less than the range apart that have the same bits are equal.
LEMMA CongEqual ==
  ASSUME NEW a \in Int, NEW b \in Int, Cong(a, b),
         a - b < Range32, b - a < Range32
  PROVE  a = b
  <1>1. PICK k \in Int : a = b + k * Range32
    BY DEF Cong
  <1>2. k >= 1 => k * Range32 >= Range32
    BY RangeFacts
  <1>3. k <= -1 => k * Range32 <= -Range32
    BY RangeFacts
  <1>4. k = 0
    BY <1>1, <1>2, <1>3, RangeFacts
  <1> QED BY <1>1, <1>4, RangeFacts

LEMMA Remainder ==
  ASSUME NEW n \in Int, NEW d \in Nat, d > 0
  PROVE  n % d \in 0..(d - 1) /\ \E k \in Int : n % d = n + k * d
  <1>1. n = d * (n \div d) + (n % d) /\ n \div d \in Int /\ n % d \in 0..(d - 1)
    OBVIOUS
  <1> DEFINE q == n \div d
             r == n % d
  <1>2. n = d * q + r /\ q \in Int /\ r \in Int
    BY <1>1
  <1> HIDE DEF q, r
  <1>3. r = n + (-q) * d /\ -q \in Int
    BY <1>2
  <1> QED BY <1>1, <1>3 DEF r

\* The bits of a value are that value taken modulo the range.
LEMMA ModFacts ==
  ASSUME NEW a \in Int
  PROVE  /\ a % Range32 \in 0..(Range32 - 1)
         /\ Cong(a % Range32, a)
  <1>1. Range32 \in Nat /\ Range32 > 0
    BY RangeFacts
  <1> QED BY <1>1, Remainder DEF Cong

\* A remainder of zero.
LEMMA ModZero ==
  ASSUME NEW a \in Int, NEW b \in Int
  PROVE  (a - b) % Range32 = 0 <=> Cong(a, b)
  <1> DEFINE d == a - b
             r == d % Range32
  <1>1. d \in Int /\ r \in 0..(Range32 - 1) /\ Cong(r, d)
    BY ModFacts
  <1> HIDE DEF d
  <1>2. d = a - b /\ a = d + b /\ b = 0 + b
    BY <1>1 DEF d
  <1> HIDE DEF r
  <1>3. ASSUME r = 0 PROVE Cong(a, b)
    <2>1. Cong(d, 0)
      BY <1>1, <1>3, CongSym
    <2>2. Cong(d + b, 0 + b)
      BY <1>1, <2>1, CongRefl, CongSum
    <2> QED BY <1>2, <2>2
  <1>4. ASSUME Cong(a, b) PROVE r = 0
    <2>1. Cong(a - b, b - b)
      BY <1>4, CongRefl, CongSum
    <2>2. Cong(d, 0)
      BY <2>1, <1>2
    <2>3. Cong(r, 0)
      BY <1>1, <2>2, CongTrans
    <2> QED BY <1>1, <2>3, CongEqual, RangeFacts
  <1> QED BY <1>3, <1>4 DEF r, d

\* The value of 32 bits as a signed number.
SignedRange == -Half..(Half - 1)

LEMMA FromBits ==
  ASSUME NEW x \in 0..(Range32 - 1)
  PROVE  CycleFromBits(x) \in SignedRange /\ Cong(CycleFromBits(x), x)
  <1>1. CASE x <= Half - 1
    BY <1>1, RangeFacts, CongRefl DEF CycleFromBits, SignedRange
  <1>2. CASE ~(x <= Half - 1)
    <2>1. CycleFromBits(x) = x - Range32
      BY <1>2, RangeFacts DEF CycleFromBits
    <2>2. x - Range32 = x + (-1) * Range32
      BY RangeFacts
    <2> QED BY <1>2, <2>1, <2>2, RangeFacts DEF Cong, SignedRange
  <1> QED BY <1>1, <1>2

LEMMA SignedFacts ==
  ASSUME NEW t \in Int
  PROVE  Signed(t) \in SignedRange /\ Cong(Signed(t), t)
  <1> DEFINE v == CycleFromBits(t % Range32)
  <1>1. t % Range32 \in 0..(Range32 - 1) /\ Cong(t % Range32, t)
    BY ModFacts
  <1>2. v \in SignedRange /\ Cong(v, t)
    BY <1>1, FromBits, CongTrans, RangeFacts DEF SignedRange
  <1>3. \E w \in -Half..(Half - 1) : (w - t) % Range32 = 0
    <2> HIDE DEF v
    <2>1. v \in Int /\ (v - t) % Range32 = 0
      BY <1>2, ModZero, RangeFacts DEF SignedRange
    <2> QED BY <1>2, <2>1 DEF SignedRange
  <1>4. Signed(t) \in -Half..(Half - 1) /\ (Signed(t) - t) % Range32 = 0
    BY <1>3 DEF Signed
  <1> QED BY <1>4, ModZero, RangeFacts DEF SignedRange

LEMMA SignedIs ==
  ASSUME NEW v \in SignedRange, NEW t \in Int, Cong(v, t)
  PROVE  Signed(t) = v
  <1>1. Signed(t) \in SignedRange /\ Cong(Signed(t), t)
    BY SignedFacts
  <1>2. v \in Int /\ Signed(t) \in Int
    BY <1>1, RangeFacts DEF SignedRange
  <1>3. Cong(Signed(t), v)
    BY <1>1, <1>2, CongSym, CongTrans
  <1> QED BY <1>1, <1>2, <1>3, CongEqual, RangeFacts DEF SignedRange

\* A time near enough stands for itself.
LEMMA SignedNear ==
  ASSUME NEW t \in SignedRange PROVE Signed(t) = t
  BY SignedIs, CongRefl, RangeFacts DEF SignedRange

LEMMA SignedCong ==
  ASSUME NEW a \in Int, NEW b \in Int, Cong(a, b)
  PROVE  Signed(a) = Signed(b)
  <1>1. Signed(a) \in SignedRange /\ Signed(a) \in Int /\ Cong(Signed(a), a)
    BY SignedFacts, RangeFacts DEF SignedRange
  <1> QED BY <1>1, CongTrans, SignedIs

\* The arithmetic of the driver computes the signed value of the result.
LEMMA FromDifference ==
  ASSUME NEW a \in Int, NEW b \in Int, NEW x \in Int, NEW y \in Int,
         Cong(x, a), Cong(y, b)
  PROVE  /\ CycleFromBits((x - y) % Range32) = Signed(a - b)
         /\ CycleFromBits((x + y) % Range32) = Signed(a + b)
  <1>1. ASSUME NEW t \in Int, NEW z \in Int, Cong(z, t)
        PROVE  CycleFromBits(z % Range32) = Signed(t)
    <2>1. z % Range32 \in 0..(Range32 - 1) /\ Cong(z % Range32, z)
      BY ModFacts
    <2> HIDE DEF Range32
    <2> DEFINE r == z % Range32
               v == CycleFromBits(r)
    <2>2. r \in Int /\ v \in SignedRange /\ v \in Int /\ Cong(v, r)
            /\ Cong(r, z)
      BY <2>1, FromBits, RangeFacts DEF SignedRange
    <2> HIDE DEF v, r
    <2>3. Cong(v, t)
      BY <1>1, <2>2, CongTrans
    <2> QED BY <2>2, <2>3, SignedIs DEF v, r
  <1>2. Cong(x - y, a - b) /\ Cong(x + y, a + b)
    BY CongSum
  <1> QED BY <1>1, <1>2

LEMMA BitsCong ==
  ASSUME NEW a \in Int
  PROVE  Unsigned(a) \in 0..(Range32 - 1) /\ Cong(Unsigned(a), a)
  BY ModFacts DEF Unsigned

LEMMA DeltaAndAdd ==
  ASSUME NEW a \in Int, NEW b \in Int
  PROVE  CycleDelta(a, b) = Signed(a - b) /\ CycleAdd(a, b) = Signed(a + b)
  <1>1. Unsigned(a) \in Int /\ Unsigned(b) \in Int /\ Cong(Unsigned(a), a) /\ Cong(Unsigned(b), b)
    BY BitsCong, RangeFacts
  <1> QED BY <1>1, FromDifference DEF CycleDelta, CycleAdd
-----------------------------------------------------------------------------
(* Sequences.                                                              *)

\* The smaller of two integers.
LEMMA MinOfTwo ==
  ASSUME NEW a \in Int, NEW b \in Int
  PROVE  Min({a, b}) \in Int /\ Min({a, b}) = IF a <= b THEN a ELSE b
  <1>1. \E x \in {a, b} : \A y \in {a, b} : x =< y
    OBVIOUS
  <1> QED BY <1>1 DEF Min

LEMMA MaxOfTwo ==
  ASSUME NEW a \in Int, NEW b \in Int
  PROVE  Max({a, b}) \in Int /\ Max({a, b}) = IF a >= b THEN a ELSE b
  <1>1. \E x \in {a, b} : \A y \in {a, b} : x >= y
    OBVIOUS
  <1> QED BY <1>1 DEF Max

\* A sequence with a new element at i.
LEMMA Inserted ==
  ASSUME NEW S, NEW q \in Seq(S), NEW i \in 1..(Len(q) + 1), NEW e \in S
  PROVE  /\ InsertAt(q, i, e) \in Seq(S) /\ Len(InsertAt(q, i, e)) = Len(q) + 1
         /\ \A j \in 1..(Len(q) + 1) :
              InsertAt(q, i, e)[j] = IF j < i THEN q[j]
                                     ELSE IF j = i THEN e ELSE q[j - 1]
  <1> DEFINE a == SubSeq(q, 1, i - 1)
             b == SubSeq(q, i, Len(q))
             c == a \o <<e>>
  <1>1. a \in Seq(S) /\ Len(a) = i - 1 /\ \A j \in 1..(i - 1) : a[j] = q[j]
    OBVIOUS
  <1>2. b \in Seq(S) /\ Len(b) = Len(q) - i + 1
          /\ \A j \in 1..(Len(q) - i + 1) : b[j] = q[i + j - 1]
    OBVIOUS
  <1>3. InsertAt(q, i, e) = c \o b
    BY DEF InsertAt
  <1> HIDE DEF a, b
  <1>4. i \in Nat /\ i >= 1 /\ i <= Len(q) + 1 /\ Len(q) \in Nat
    OBVIOUS
  <1>5. c \in Seq(S) /\ Len(c) = i /\ c[i] = e
          /\ \A j \in 1..(i - 1) : c[j] = q[j]
    BY <1>1, <1>4
  <1> HIDE DEF c
  <1>6. c \o b \in Seq(S) /\ Len(c \o b) = Len(q) + 1
    BY <1>2, <1>4, <1>5
  <1>7. ASSUME NEW j \in 1..(Len(q) + 1)
        PROVE  (c \o b)[j] = IF j < i THEN q[j]
                             ELSE IF j = i THEN e ELSE q[j - 1]
    <2>1. CASE j <= i
      <3>1. (c \o b)[j] = c[j]
        BY <1>2, <1>4, <1>5, <2>1
      <3>2. CASE j = i
        BY <1>4, <1>5, <3>1, <3>2
      <3>3. CASE j < i
        <4>1. j \in 1..(i - 1)
          BY <1>4, <3>3
        <4> QED BY <1>5, <3>1, <3>3, <4>1
      <3>4. j = i \/ j < i
        BY <1>4, <2>1
      <3> QED BY <3>2, <3>3, <3>4
    <2>2. CASE j > i
      <3>1. (c \o b)[j] = b[j - i]
        BY <1>2, <1>4, <1>5, <2>2
      <3>2. j - i \in 1..(Len(q) - i + 1) /\ i + (j - i) - 1 = j - 1
        BY <1>4, <2>2
      <3>3. b[j - i] = q[i + (j - i) - 1]
        BY <1>2, <3>2
      <3>4. b[j - i] = q[j - 1]
        BY <3>2, <3>3
      <3> QED BY <1>4, <2>2, <3>1, <3>4
    <2>3. j <= i \/ j > i
      BY <1>4
    <2> QED BY <2>1, <2>2, <2>3
  <1> QED BY <1>3, <1>6, <1>7

\* The order of the numbers, as a relation.
LessNat == OpToRel(<, Nat)

LEMMA LessNatFacts ==
  /\ IsWellFoundedOn(LessNat, Nat)
  /\ \A a, b \in Nat : a < b => <<a, b>> \in LessNat
  <1>1. IsWellFoundedOn(LessNat, Nat)
    BY NatLessThanWellFounded DEF LessNat
  <1>2. \A a, b \in Nat : a < b => <<a, b>> \in LessNat
    BY DEF LessNat, OpToRel
  <1> QED BY <1>1, <1>2

\* A set of numbers that is not empty has a smallest one.
LEMMA Smallest ==
  ASSUME NEW T, T \subseteq Nat, T # {}
  PROVE  \E m \in T : \A k \in T : m <= k
  <1>1. IsWellFoundedOn(LessNat, Nat)
    BY LessNatFacts
  <1> PICK x \in T : \A y \in T : <<y, x>> \notin LessNat
    BY <1>1, WFMin
  <1>2. \A y \in T : y \in Nat /\ x \in Nat /\ ~(y < x)
    BY LessNatFacts
  <1>3. \A y \in T : x <= y
    BY <1>2
  <1> QED BY <1>3

\* How many of the first of n numbers are at most bound.
PrefixUpTo(f, n, bound, k) ==
  /\ \A i \in 1..k : f[i] <= bound
  /\ k < n => f[k + 1] > bound

LEMMA PrefixExists ==
  ASSUME NEW f, NEW n \in Nat, NEW bound \in Int,
         \A i \in 1..n : f[i] \in Int
  PROVE  \E k \in 0..n : PrefixUpTo(f, n, bound, k)
  <1> DEFINE T == {k \in 0..n : k < n => f[k + 1] > bound}
  <1>1. n \in T /\ T \subseteq Nat
    OBVIOUS
  <1> PICK k \in T : \A m \in T : k <= m
    BY <1>1, Smallest
  <1>2. k \in 0..n /\ (k < n => f[k + 1] > bound)
    OBVIOUS
  <1>3. ASSUME NEW i \in 1..k PROVE f[i] <= bound
    <2>1. i - 1 \in 0..n /\ i - 1 < k /\ i - 1 < n /\ (i - 1) + 1 = i
            /\ f[i] \in Int
      BY <1>2
    <2>2. i - 1 \notin T
      BY <1>2, <2>1
    <2>3. ~(f[(i - 1) + 1] > bound)
      BY <2>1, <2>2
    <2> QED BY <2>1, <2>3
  <1> QED BY <1>2, <1>3 DEF PrefixUpTo

LEMMA PrefixUnique ==
  ASSUME NEW f, NEW n \in Nat, NEW bound \in Int,
         \A i \in 1..n : f[i] \in Int, NEW j \in 0..n, NEW k \in 0..n,
         PrefixUpTo(f, n, bound, j), PrefixUpTo(f, n, bound, k)
  PROVE  j = k
  <1>1. ASSUME NEW a \in 0..n, NEW b \in 0..n, a < b,
               PrefixUpTo(f, n, bound, a), PrefixUpTo(f, n, bound, b)
        PROVE  FALSE
    <2>1. a + 1 \in 1..b /\ a + 1 \in 1..n /\ a < n
      BY <1>1
    <2> QED BY <1>1, <2>1 DEF PrefixUpTo
  <1> QED BY <1>1

-----------------------------------------------------------------------------
(* The inductive invariant.                                                *)

\* Each stored value has the bits of the unbounded time it stands for.
StoredInv ==
  /\ Cong(timing, offset + now)
  /\ Cong(when, offset + due)
  /\ complete # NotScheduled => Cong(complete, offset + finishAt)
  /\ Len(queue) = Len(stamps)
  /\ \A i \in 1..Len(queue) : queue[i] = Signed(stamps[i])

\* The unbounded times are less than half the range from the clock: a timing
\* event is served at most MaxLate after it was due, and an event is at most
\* PeerSkew ahead of the clock, and behind the wake-up no more than it was
\* when it came.
NearInv ==
  /\ \A i, j \in 1..Len(stamps) : i < j => stamps[i] <= stamps[j]
  /\ \A i \in 1..Len(stamps) :
       due - PeerSkew - 1 <= stamps[i] /\ stamps[i] <= now + PeerSkew
  /\ now - MaxLate <= due /\ due < now + Half
  /\ complete # NotScheduled =>
       now - MaxLate <= finishAt /\ finishAt < now + Half

CycleInv == CycleTypeOK /\ StoredInv /\ NearInv /\ WakeCoversHead

\* Types of the constants, and the distances that fit half the range.
LEMMA Constants32 ==
  /\ Half \in Int /\ Half >= 1 /\ Interval \in Int /\ Interval >= 1
  /\ Capacity \in Int /\ TransferCycles \in Int /\ TransferCycles >= 1
  /\ PeerSkew \in Int /\ PeerSkew >= 0 /\ MaxLate \in Int /\ MaxLate >= 0
  /\ Interval + PeerSkew + MaxLate < Half
  /\ 2 * PeerSkew + MaxLate + 1 < Half
  /\ TransferCycles + PeerSkew + MaxLate < Half
  BY RangeAssumption

\* The difference of the values of two times is the one of the times.
LEMMA DeltaIs ==
  ASSUME NEW a \in Int, NEW b \in Int, a - b \in SignedRange
  PROVE  CycleDelta(Signed(a), Signed(b)) = a - b
  <1>1. /\ Signed(a) \in Int /\ Signed(b) \in Int
        /\ Cong(Signed(a), a) /\ Cong(Signed(b), b)
    BY SignedFacts, RangeFacts DEF SignedRange
  <1>2. CycleDelta(Signed(a), Signed(b)) = Signed(Signed(a) - Signed(b))
    BY <1>1, DeltaAndAdd
  <1>3. Cong(Signed(a) - Signed(b), a - b)
    BY <1>1, CongSum
  <1>4. Signed(Signed(a) - Signed(b)) = Signed(a - b)
    BY <1>1, <1>3, SignedCong
  <1>5. Signed(a - b) = a - b
    BY SignedNear
  <1> QED BY <1>2, <1>4, <1>5

LEMMA AddIs ==
  ASSUME NEW a \in Int, NEW b \in Int
  PROVE  CycleAdd(Signed(a), b) = Signed(a + b)
  <1>1. Signed(a) \in Int /\ Cong(Signed(a), a) /\ Cong(b, b)
    BY SignedFacts, CongRefl, RangeFacts DEF SignedRange
  <1>2. Cong(Signed(a) + b, a + b)
    BY <1>1, CongSum
  <1>3. CycleAdd(Signed(a), b) = Signed(Signed(a) + b)
    BY <1>1, DeltaAndAdd
  <1>4. Signed(Signed(a) + b) = Signed(a + b)
    BY <1>1, <1>2, SignedCong
  <1> QED BY <1>3, <1>4

\* What the driver reads: its clock, and how far its timing events are.
LEMMA ClockReads ==
  ASSUME CycleInv
  PROVE  /\ LockstepTime = Signed(now) /\ now \in Int /\ due \in Int
         /\ DelayUntil(when) = due - now
         /\ complete # NotScheduled =>
              complete \in Int /\ finishAt \in Int
                /\ DelayUntil(complete) = finishAt - now
  <1>1. /\ offset \in Int /\ timing \in Int /\ now \in Int /\ due \in Int
        /\ finishAt \in Int /\ when \in Int
        /\ complete # NotScheduled => complete \in Int
    BY Constants32, RangeFacts DEF CycleInv, CycleTypeOK
  <1>2. Cong(timing, offset + now)
    BY DEF CycleInv, StoredInv
  <1>3. LockstepTime = Signed(now)
    <2>1. Cong(timing - offset, (offset + now) - offset)
      BY <1>1, <1>2, CongRefl, CongSum
    <2>2. (offset + now) - offset = now
      BY <1>1
    <2> QED BY <1>1, <2>1, <2>2, SignedCong, DeltaAndAdd DEF LockstepTime
  <1>4. ASSUME NEW bits \in Int, NEW t \in Int, Cong(bits, offset + t),
               t - now \in SignedRange
        PROVE  DelayUntil(bits) = t - now
    <2>1. Unsigned(timing) \in Int /\ Cong(Unsigned(timing), timing)
      BY <1>1, BitsCong, RangeFacts
    <2>2. Cong(Unsigned(timing), offset + now)
      BY <1>1, <1>2, <2>1, CongTrans
    <2>3. CycleFromBits((bits - Unsigned(timing)) % Range32)
            = Signed((offset + t) - (offset + now))
      BY <1>1, <1>4, <2>1, <2>2, FromDifference
    <2>4. (offset + t) - (offset + now) = t - now
      BY <1>1
    <2> QED BY <1>4, <2>3, <2>4, SignedNear DEF DelayUntil
  <1>5. due - now \in SignedRange
    BY <1>1, Constants32 DEF CycleInv, NearInv, SignedRange
  <1>6. complete # NotScheduled => finishAt - now \in SignedRange
    BY <1>1, Constants32 DEF CycleInv, NearInv, SignedRange
  <1>7. Cong(when, offset + due)
          /\ (complete # NotScheduled => Cong(complete, offset + finishAt))
    BY DEF CycleInv, StoredInv
  <1> QED BY <1>1, <1>3, <1>4, <1>5, <1>6, <1>7

\* The moment d cycles from now, as bits of the machine's own clock.
LEMMA Schedules ==
  ASSUME CycleInv, NEW d \in Int
  PROVE  /\ Unsigned(timing + d) \in 0..(Range32 - 1)
         /\ Cong(Unsigned(timing + d), offset + (now + d))
  <1>1. offset \in Int /\ timing \in Int /\ now \in Int
    BY Constants32 DEF CycleInv, CycleTypeOK
  <1>2. Cong(timing + d, (offset + now) + d)
    BY <1>1, CongRefl, CongSum DEF CycleInv, StoredInv
  <1>3. (offset + now) + d = offset + (now + d)
    BY <1>1
  <1>4. Unsigned(timing + d) \in Int /\ Unsigned(timing + d) \in 0..(Range32 - 1)
          /\ Cong(Unsigned(timing + d), timing + d)
    BY <1>1, BitsCong, RangeFacts
  <1> QED BY <1>1, <1>2, <1>3, <1>4, CongTrans

\* An event of the queue is less than half the range from the clock, and from
\* an event that may come.
LEMMA EventIsNear ==
  ASSUME CycleInv, NEW i \in 1..Len(queue)
  PROVE  /\ queue[i] = Signed(stamps[i]) /\ stamps[i] \in Int
         /\ now - MaxLate - PeerSkew - 1 <= stamps[i]
         /\ stamps[i] <= now + PeerSkew
         /\ stamps[i] - now \in SignedRange
         /\ CycleDelta(queue[i], LockstepTime) = stamps[i] - now
  <1>1. i \in 1..Len(stamps) /\ queue[i] = Signed(stamps[i]) /\ stamps[i] \in Int
    BY DEF CycleInv, StoredInv, CycleTypeOK
  <1>2. now \in Int /\ due \in Int /\ LockstepTime = Signed(now)
    BY ClockReads
  <1>3. now - MaxLate - PeerSkew - 1 <= stamps[i] /\ stamps[i] <= now + PeerSkew
    BY <1>1, <1>2, Constants32 DEF CycleInv, NearInv
  <1>4. stamps[i] - now \in SignedRange
    BY <1>1, <1>2, <1>3, Constants32 DEF SignedRange
  <1> QED BY <1>1, <1>2, <1>3, <1>4, DeltaIs

-----------------------------------------------------------------------------
(* Every step keeps it.                                                    *)

LEMMA InitCycle == CycleInit => CycleInv
  <1> SUFFICES ASSUME CycleInit PROVE CycleInv
    OBVIOUS
  <1>1. offset \in -Half..(Half - 1) /\ offset \in Int
    BY RangeAssumption DEF CycleInit
  <1>2. Unsigned(offset + Interval) \in 0..(Range32 - 1)
          /\ Cong(Unsigned(offset + Interval), offset + Interval)
    BY <1>1, Constants32, BitsCong
  <1>3. CycleTypeOK
    BY <1>1, <1>2, Constants32, RangeAssumption DEF CycleInit, CycleTypeOK
  <1>4. StoredInv
    <2>1. Cong(timing, offset + now)
      BY <1>1, CongRefl DEF CycleInit
    <2> QED BY <1>2, <2>1 DEF CycleInit, StoredInv
  <1>5. NearInv /\ WakeCoversHead
    BY Constants32 DEF CycleInit, NearInv, WakeCoversHead
  <1> QED BY <1>3, <1>4, <1>5 DEF CycleInv

\* The CPU stops at most MaxLate after the first timing event.
LEMMA RunKeeps == CycleInv /\ Run => CycleInv'
  <1> SUFFICES ASSUME CycleInv, Run PROVE CycleInv'
    OBVIOUS
  <1>1. /\ now \in Int /\ due \in Int /\ DelayUntil(when) = due - now
        /\ complete # NotScheduled =>
             complete \in Int /\ finishAt \in Int
               /\ DelayUntil(complete) = finishAt - now
        /\ timing \in Int /\ offset \in Int /\ now \in Nat
    BY ClockReads, Constants32 DEF CycleInv, CycleTypeOK
  <1>2. /\ \A bits \in Scheduled : DelayUntil(bits) > 0
        /\ UNCHANGED <<offset, queue, when, complete, stamps, due, finishAt>>
    BY DEF Run
  <1> DEFINE first == Min({DelayUntil(bits) : bits \in Scheduled})
  <1>3. PICK n \in 1..(first + MaxLate) :
          now + n <= MaxNow /\ timing' = CycleAdd(timing, n) /\ now' = now + n
    BY DEF Run
  <1>4. /\ first \in Int /\ first <= due - now
        /\ complete # NotScheduled => first <= finishAt - now
        /\ due > now /\ (complete # NotScheduled => finishAt > now)
    <2>1. CASE complete = NotScheduled
      <3>1. {DelayUntil(bits) : bits \in Scheduled} = {due - now, due - now}
        BY <1>1, <2>1 DEF Scheduled
      <3>2. due - now > 0
        BY <1>1, <1>2 DEF Scheduled
      <3> HIDE DEF first
      <3>3. first = Min({due - now, due - now})
        BY <3>1 DEF first
      <3> QED BY <1>1, <2>1, <3>2, <3>3, MinOfTwo
    <2>2. CASE complete # NotScheduled
      <3>1. Scheduled = {when, complete}
        BY <2>2 DEF Scheduled
      <3>2. {DelayUntil(bits) : bits \in Scheduled} = {due - now, finishAt - now}
        BY <1>1, <2>2, <3>1
      <3>3. due - now > 0 /\ finishAt - now > 0
        BY <1>1, <1>2, <2>2, <3>1
      <3> HIDE DEF first
      <3>4. first = Min({due - now, finishAt - now})
        BY <3>2 DEF first
      <3> QED BY <1>1, <2>2, <3>3, <3>4, MinOfTwo
    <2> QED BY <2>1, <2>2
  <1> HIDE DEF first
  <1>5. n \in Int /\ n >= 1 /\ n <= first + MaxLate
    BY <1>4, Constants32
  <1>6. timing' \in SignedRange /\ Cong(timing', offset' + now')
    <2>1. timing' = Signed(timing + n)
      BY <1>1, <1>3, <1>5, DeltaAndAdd
    <2>2. timing' \in SignedRange /\ timing' \in Int /\ Cong(timing', timing + n)
      BY <1>1, <1>5, <2>1, SignedFacts, RangeFacts DEF SignedRange
    <2>3. Cong(timing + n, (offset + now) + n)
      BY <1>1, <1>5, CongRefl, CongSum DEF CycleInv, StoredInv
    <2>4. (offset + now) + n = offset' + now'
      BY <1>1, <1>2, <1>3, <1>5
    <2> QED BY <1>1, <1>5, <2>2, <2>3, <2>4, CongTrans
  <1>7. CycleTypeOK'
    BY <1>1, <1>2, <1>3, <1>5, <1>6 DEF CycleInv, CycleTypeOK, SignedRange
  <1>8. StoredInv'
    BY <1>2, <1>6 DEF CycleInv, StoredInv
  <1>9. NearInv'
    BY SMTT(30), <1>1, <1>2, <1>3, <1>4, <1>5, Constants32
      DEF CycleInv, NearInv, CycleTypeOK
  <1>10. WakeCoversHead'
    <2> SUFFICES ASSUME stamps # << >> PROVE due <= Max({now' + 1, stamps[1]})
      BY <1>2 DEF WakeCoversHead
    <2>1. stamps[1] \in Int
      BY DEF CycleInv, CycleTypeOK
    <2>2. due <= Max({now + 1, stamps[1]})
      BY DEF CycleInv, WakeCoversHead
    <2> QED BY <1>1, <1>3, <1>5, <2>1, <2>2, MaxOfTwo
  <1> QED BY <1>7, <1>8, <1>9, <1>10 DEF CycleInv

LEMMA CompleteKeeps == CycleInv /\ Complete => CycleInv'
  <1> SUFFICES ASSUME CycleInv, Complete PROVE CycleInv'
    OBVIOUS
  <1>1. /\ complete' = NotScheduled /\ finishAt' = 0
        /\ UNCHANGED <<offset, timing, queue, when, now, stamps, due>>
    BY DEF Complete
  <1>2. CycleTypeOK'
    BY <1>1 DEF CycleInv, CycleTypeOK
  <1>3. StoredInv'
    BY <1>1 DEF CycleInv, StoredInv
  <1>4. NearInv' /\ WakeCoversHead'
    BY <1>1 DEF CycleInv, NearInv, WakeCoversHead
  <1> QED BY <1>2, <1>3, <1>4 DEF CycleInv

\* _rescheduleForQueueHead for a head that stands for the time t: the wake-up
\* is moved to it when it comes before.
LEMMA Rescheduled ==
  ASSUME CycleInv, NEW head, NEW t \in Int, head = Signed(t),
         t - now \in SignedRange, RescheduleForQueueHead(head)
  PROVE  /\ when' \in 0..(Range32 - 1) /\ due' \in Int
         /\ Cong(when', offset + due')
         /\ due' <= due /\ now - MaxLate <= due'
         /\ due' <= now + 1 \/ due' <= t
  <1> DEFINE d == SanitizeDelay(CycleDelta(head, LockstepTime))
  <1>1. /\ now \in Int /\ due \in Int /\ LockstepTime = Signed(now)
        /\ DelayUntil(when) = due - now
    BY ClockReads
  <1>2. CycleDelta(head, LockstepTime) = t - now
    BY <1>1, DeltaIs
  <1>3. d \in Int /\ d >= 1 /\ (d = 1 \/ d = t - now) /\ d >= t - now
    BY <1>1, <1>2 DEF SanitizeDelay
  <1>4. \/ /\ due - now > 0 /\ d < due - now
           /\ when' = Unsigned(timing + d) /\ due' = now + d
        \/ /\ ~(due - now > 0 /\ d < due - now)
           /\ UNCHANGED <<when, due>>
    BY <1>1 DEF RescheduleForQueueHead, Earlier
  <1> HIDE DEF d
  <1>5. CASE /\ due - now > 0 /\ d < due - now
             /\ when' = Unsigned(timing + d) /\ due' = now + d
    <2>1. Unsigned(timing + d) \in 0..(Range32 - 1)
            /\ Cong(Unsigned(timing + d), offset + (now + d))
      BY <1>3, Schedules
    <2> QED BY <1>1, <1>3, <1>5, <2>1, Constants32
  <1>6. CASE /\ ~(due - now > 0 /\ d < due - now)
             /\ UNCHANGED <<when, due>>
    <2>1. when \in 0..(Range32 - 1) /\ Cong(when, offset + due)
            /\ now - MaxLate <= due
      BY DEF CycleInv, CycleTypeOK, StoredInv, NearInv
    <2>2. due <= now + 1 \/ due <= t
      BY <1>1, <1>3, <1>6
    <2> QED BY <1>1, <1>6, <2>1, <2>2
  <1> QED BY <1>4, <1>5, <1>6

\* An event is linked in where it belongs: stored and unbounded times have the
\* same order.
LEMMA EnqueueKeeps == CycleInv /\ EnqueueEvent => CycleInv'
  <1> SUFFICES ASSUME CycleInv, EnqueueEvent PROVE CycleInv'
    OBVIOUS
  <1>1. /\ Len(queue) < Capacity
        /\ UNCHANGED <<offset, timing, complete, now, finishAt>>
    BY DEF EnqueueEvent
  <1>2. PICK skew \in -PeerSkew..PeerSkew :
          /\ \E i \in LinkPoints(CycleAdd(LockstepTime, skew)) :
               queue' = InsertAt(queue, i, CycleAdd(LockstepTime, skew))
          /\ \E i \in TruePoints(now + skew) :
               stamps' = InsertAt(stamps, i, now + skew)
          /\ RescheduleForQueueHead(queue'[1])
    BY DEF EnqueueEvent
  <1> DEFINE ts == CycleAdd(LockstepTime, skew)
             t == now + skew
  <1>3. PICK i \in LinkPoints(ts) : queue' = InsertAt(queue, i, ts)
    BY <1>2
  <1>4. PICK j \in TruePoints(t) : stamps' = InsertAt(stamps, j, t)
    BY <1>2
  <1>5. /\ LockstepTime = Signed(now) /\ now \in Int /\ due \in Int
        /\ skew \in Int /\ -PeerSkew <= skew /\ skew <= PeerSkew
    BY ClockReads, Constants32
  <1>6. ts = Signed(t) /\ t \in Int /\ ts \in SignedRange /\ ts \in Int
        /\ now - PeerSkew <= t /\ t <= now + PeerSkew
    BY <1>5, AddIs, SignedFacts, Constants32 DEF SignedRange
  <1> HIDE DEF ts, t
  <1>7. /\ queue \in Seq(SignedRange) /\ stamps \in Seq(Int)
        /\ Len(queue) = Len(stamps) /\ Len(queue) \in Nat
    BY DEF CycleInv, CycleTypeOK, StoredInv, SignedRange
  <1>8. ASSUME NEW k \in 1..Len(queue)
        PROVE  CycleDelta(ts, queue[k]) = t - stamps[k] /\ stamps[k] \in Int
    <2>1. /\ queue[k] = Signed(stamps[k]) /\ stamps[k] \in Int
          /\ now - MaxLate - PeerSkew - 1 <= stamps[k] /\ stamps[k] <= now + PeerSkew
      BY EventIsNear
    <2>2. t - stamps[k] \in SignedRange
      BY <1>5, <1>6, <2>1, Constants32 DEF SignedRange
    <2> QED BY <1>6, <2>1, <2>2, DeltaIs
  <1>9. /\ i \in 1..(Len(queue) + 1)
        /\ \A k \in 1..(i - 1) : t - stamps[k] >= 0
        /\ i <= Len(queue) => t - stamps[i] < 0
    <2>1. /\ i \in 1..(Len(queue) + 1)
          /\ \A k \in 1..(i - 1) : CycleDelta(ts, queue[k]) >= 0
          /\ i <= Len(queue) => CycleDelta(ts, queue[i]) < 0
      BY DEF LinkPoints
    <2>2. \A k \in 1..(i - 1) : k \in 1..Len(queue)
      BY <1>7, <2>1
    <2>3. i <= Len(queue) => i \in 1..Len(queue)
      BY <1>7, <2>1
    <2> QED BY <1>8, <2>1, <2>2, <2>3
  <1>10. /\ j \in 1..(Len(stamps) + 1)
         /\ \A k \in 1..(j - 1) : stamps[k] <= t
         /\ j <= Len(stamps) => t < stamps[j]
    BY DEF TruePoints
  <1>11. \A k \in 1..Len(stamps) : stamps[k] \in Int
    BY <1>7
  <1>12. i = j
    <2>1. ASSUME i < j PROVE FALSE
      <3>1. i \in 1..(j - 1) /\ i <= Len(queue) /\ i \in 1..Len(stamps)
        BY <1>7, <1>9, <1>10, <2>1
      <3> QED BY <1>6, <1>9, <1>10, <1>11, <3>1
    <2>2. ASSUME j < i PROVE FALSE
      <3>1. j \in 1..(i - 1) /\ j <= Len(stamps) /\ j \in 1..Len(stamps)
        BY <1>7, <1>9, <1>10, <2>2
      <3> QED BY <1>6, <1>9, <1>10, <1>11, <3>1
    <2> QED BY <1>9, <1>10, <2>1, <2>2
  <1>13. /\ queue' \in Seq(SignedRange) /\ Len(queue') = Len(queue) + 1
         /\ \A k \in 1..(Len(queue) + 1) :
              queue'[k] = IF k < i THEN queue[k]
                          ELSE IF k = i THEN ts ELSE queue[k - 1]
    <2>1. ts \in SignedRange /\ i \in 1..(Len(queue) + 1) /\ queue \in Seq(SignedRange)
      BY <1>6, <1>7, <1>9
    <2> HIDE DEF SignedRange
    <2>2. queue' = InsertAt(queue, i, ts)
      BY <1>3
    <2>3. /\ InsertAt(queue, i, ts) \in Seq(SignedRange)
          /\ Len(InsertAt(queue, i, ts)) = Len(queue) + 1
          /\ \A k \in 1..(Len(queue) + 1) :
               InsertAt(queue, i, ts)[k] = IF k < i THEN queue[k]
                                           ELSE IF k = i THEN ts ELSE queue[k - 1]
      BY <2>1, Inserted
    <2> QED BY <2>2, <2>3
  <1>14. /\ stamps' \in Seq(Int) /\ Len(stamps') = Len(stamps) + 1
         /\ \A k \in 1..(Len(stamps) + 1) :
              stamps'[k] = IF k < i THEN stamps[k]
                           ELSE IF k = i THEN t ELSE stamps[k - 1]
    <2>1. t \in Int /\ j \in 1..(Len(stamps) + 1) /\ stamps \in Seq(Int) /\ i = j
      BY <1>6, <1>7, <1>10, <1>12
    <2> DEFINE Times == Int
    <2>2. stamps' = InsertAt(stamps, i, t) /\ i \in 1..(Len(stamps) + 1)
            /\ t \in Times /\ stamps \in Seq(Times)
      BY <1>4, <2>1
    <2> HIDE DEF Times
    <2>3. /\ InsertAt(stamps, i, t) \in Seq(Times)
          /\ Len(InsertAt(stamps, i, t)) = Len(stamps) + 1
          /\ \A k \in 1..(Len(stamps) + 1) :
               InsertAt(stamps, i, t)[k] =
                 IF k < i THEN stamps[k]
                 ELSE IF k = i THEN t ELSE stamps[k - 1]
      BY SMTT(30), <2>2, Inserted
    <2> QED BY <2>2, <2>3 DEF Times
  <1>15. ASSUME NEW k \in 1..Len(stamps')
         PROVE  /\ stamps'[k] \in Int /\ queue'[k] = Signed(stamps'[k])
                /\ stamps'[k] \in {t} \cup {stamps[m] : m \in 1..Len(stamps)}
    <2>1. /\ k \in 1..(Len(queue) + 1) /\ k \in Int /\ i \in Int
          /\ k < i => k \in 1..Len(queue)
          /\ k > i => k - 1 \in 1..Len(queue)
      BY <1>7, <1>9, <1>14
    <2>2. \A m \in 1..Len(queue) : queue[m] = Signed(stamps[m])
      BY EventIsNear
    <2>3. CASE k < i
      BY <1>7, <1>11, <1>13, <1>14, <2>1, <2>2, <2>3
    <2>4. CASE k = i
      BY <1>6, <1>7, <1>13, <1>14, <2>1, <2>4
    <2>5. CASE k > i
      BY <1>7, <1>11, <1>13, <1>14, <2>1, <2>2, <2>5
    <2> QED BY <2>1, <2>3, <2>4, <2>5
  <1>16. 1 \in 1..Len(stamps') /\ Len(stamps') = Len(queue')
    BY <1>7, <1>13, <1>14
  <1>17. /\ when' \in 0..(Range32 - 1) /\ due' \in Int
         /\ Cong(when', offset + due')
         /\ due' <= due /\ now - MaxLate <= due'
         /\ due' <= now + 1 \/ due' <= stamps'[1]
    <2>1. queue'[1] = Signed(stamps'[1]) /\ stamps'[1] \in Int
      BY <1>15, <1>16
    <2>2. stamps'[1] - now \in SignedRange
      <3>1. t - now \in SignedRange
        BY <1>5, <1>6, Constants32 DEF SignedRange
      <3>2. \A m \in 1..Len(stamps) : stamps[m] - now \in SignedRange
        BY <1>7, EventIsNear
      <3> QED BY <1>15, <1>16, <3>1, <3>2
    <2> QED BY <1>2, <2>1, <2>2, Rescheduled
  <1>18. \A k, m \in 1..Len(stamps') : k < m => stamps'[k] <= stamps'[m]
    <2> SUFFICES ASSUME NEW k \in 1..Len(stamps'), NEW m \in 1..Len(stamps'),
                        k < m
                 PROVE  stamps'[k] <= stamps'[m]
      OBVIOUS
    <2>1. \A a, b \in 1..Len(stamps) : a < b => stamps[a] <= stamps[b]
      BY DEF CycleInv, NearInv
    <2>2. /\ k \in 1..(Len(stamps) + 1) /\ m \in 1..(Len(stamps) + 1)
          /\ k \in Int /\ m \in Int /\ i \in Int /\ Len(stamps) \in Int
          /\ i \in 1..(Len(stamps) + 1)
      BY <1>7, <1>9, <1>14
    <2>3. CASE m < i
      <3>1. k \in 1..Len(stamps) /\ m \in 1..Len(stamps) /\ k < i
        BY <2>2, <2>3
      <3> QED BY <1>14, <2>1, <2>2, <2>3, <3>1
    <2>4. CASE m = i
      <3>1. k \in 1..(i - 1) /\ k < i
        BY <2>2, <2>4
      <3>2. stamps[k] <= t
        BY <1>10, <1>12, <3>1
      <3> QED BY <1>14, <2>2, <2>4, <3>1, <3>2
    <2>5. CASE m > i /\ k < i
      <3>1. k \in 1..Len(stamps) /\ m - 1 \in 1..Len(stamps) /\ k < m - 1
        BY <2>2, <2>5
      <3>2. stamps'[k] = stamps[k] /\ stamps'[m] = stamps[m - 1]
        BY <1>14, <2>2, <2>5
      <3> QED BY <2>1, <3>1, <3>2
    <2>6. CASE m > i /\ k = i
      <3>1. m - 1 \in 1..Len(stamps) /\ i \in 1..Len(stamps)
              /\ (i = m - 1 \/ i < m - 1)
        BY <2>2, <2>6
      <3>2. t < stamps[i] /\ stamps[i] <= stamps[m - 1]
        BY <1>10, <1>11, <1>12, <2>1, <2>2, <3>1
      <3>3. stamps'[k] = t /\ stamps'[m] = stamps[m - 1]
        BY <1>14, <2>2, <2>6
      <3> QED BY SMTT(30), <1>6, <1>11, <3>1, <3>2, <3>3
    <2>7. CASE m > i /\ k > i
      <3>1. k - 1 \in 1..Len(stamps) /\ m - 1 \in 1..Len(stamps) /\ k - 1 < m - 1
        BY <2>2, <2>7
      <3>2. stamps'[k] = stamps[k - 1] /\ stamps'[m] = stamps[m - 1]
        BY <1>14, <2>2, <2>7
      <3> QED BY <2>1, <3>1, <3>2
    <2> QED BY <2>2, <2>3, <2>4, <2>5, <2>6, <2>7
  <1>19. \A k \in 1..Len(stamps') :
           due' - PeerSkew - 1 <= stamps'[k] /\ stamps'[k] <= now + PeerSkew
    <2> SUFFICES ASSUME NEW k \in 1..Len(stamps')
                 PROVE  due' - PeerSkew - 1 <= stamps'[k]
                          /\ stamps'[k] <= now + PeerSkew
      OBVIOUS
    <2>1. CASE stamps'[k] = t
      <3>1. stamps'[1] <= stamps'[k]
        <4>1. k = 1 \/ 1 < k
          BY <1>14, <1>7
        <4> QED BY <1>15, <1>16, <1>18, <4>1
      <3>2. stamps'[1] \in Int
        BY <1>15, <1>16
      <3> DEFINE u == due'
                 first == stamps'[1]
      <3>3. /\ u \in Int /\ first \in Int /\ t \in Int /\ now \in Int
            /\ PeerSkew \in Int /\ PeerSkew >= 0 /\ first <= t
            /\ now - PeerSkew <= t /\ t <= now + PeerSkew
            /\ u <= now + 1 \/ u <= first
        BY <1>5, <1>6, <1>17, <2>1, <3>1, <3>2, Constants32
      <3> HIDE DEF u, first
      <3>4. u - PeerSkew - 1 <= t
        BY <3>3
      <3> QED BY <2>1, <3>3, <3>4 DEF u
    <2>2. CASE \E m \in 1..Len(stamps) : stamps'[k] = stamps[m]
      <3>1. PICK m \in 1..Len(stamps) : stamps'[k] = stamps[m]
        BY <2>2
      <3>2. due - PeerSkew - 1 <= stamps[m] /\ stamps[m] <= now + PeerSkew
        BY DEF CycleInv, NearInv
      <3> QED BY SMTT(30), <1>5, <1>11, <1>17, <3>1, <3>2, Constants32
    <2> QED BY <1>15, <2>1, <2>2
  <1>20. CycleTypeOK'
    <2>1. Len(queue') <= Capacity
      BY <1>1, <1>7, <1>13, Constants32
    <2> QED BY <1>1, <1>13, <1>14, <1>17, <2>1 DEF CycleInv, CycleTypeOK, SignedRange
  <1>21. StoredInv'
    BY <1>1, <1>15, <1>16, <1>17 DEF CycleInv, StoredInv
  <1>22. NearInv'
    <2>1. due' < now + Half
      BY <1>5, <1>17, Constants32 DEF CycleInv, NearInv
    <2>2. complete # NotScheduled =>
            now - MaxLate <= finishAt /\ finishAt < now + Half
      BY DEF CycleInv, NearInv
    <2> QED BY <1>1, <1>17, <1>18, <1>19, <2>1, <2>2 DEF NearInv
  <1>23. WakeCoversHead'
    <2>1. stamps'[1] \in Int /\ now + 1 \in Int
      BY <1>5, <1>15, <1>16
    <2>2. due' <= Max({now + 1, stamps'[1]})
      BY <1>17, <2>1, MaxOfTwo
    <2> QED BY <1>1, <2>2 DEF WakeCoversHead
  <1> QED BY <1>20, <1>21, <1>22, <1>23 DEF CycleInv

\* The driver takes from the queue the events that are due.
LEMMA TakesTheDue ==
  ASSUME CycleInv
  PROVE  /\ Handled = TrulyDue /\ Handled \in 0..Len(queue)
         /\ \A i \in 1..Handled : stamps[i] <= now
         /\ Handled < Len(queue) => stamps[Handled + 1] > now
  <1>1. /\ Len(queue) \in Nat /\ Len(stamps) = Len(queue) /\ now \in Int
        /\ \A i \in 1..Len(queue) : stamps[i] \in Int
    BY DEF CycleInv, CycleTypeOK, StoredInv
  <1> DEFINE n == Len(queue)
  <1>2. \A i \in 1..n : CycleDelta(queue[i], LockstepTime) = stamps[i] - now
    BY EventIsNear
  <1>3. \E k \in 0..n : PrefixUpTo(stamps, n, now, k)
    BY <1>1, PrefixExists
  <1>4. TrulyDue \in 0..n /\ PrefixUpTo(stamps, n, now, TrulyDue)
    <2>1. TrulyDue = CHOOSE k \in 0..n : PrefixUpTo(stamps, n, now, k)
      BY <1>1 DEF TrulyDue, PrefixUpTo
    <2> HIDE DEF n
    <2> QED BY <1>3, <2>1
  <1>5. Handled \in 0..n /\ PrefixUpTo(stamps, n, now, Handled)
    <2> DEFINE Stops(k) ==
          /\ \A i \in 1..k : CycleDelta(queue[i], LockstepTime) <= 0
          /\ k < n => CycleDelta(queue[k + 1], LockstepTime) > 0
    <2>1. ASSUME NEW k \in 0..n
          PROVE  Stops(k) <=> PrefixUpTo(stamps, n, now, k)
      <3>1. /\ \A i \in 1..k : i \in 1..n
            /\ k < n => k + 1 \in 1..n
        BY <1>1
      <3>2. \A i \in 1..n : (stamps[i] - now <= 0 <=> stamps[i] <= now)
                              /\ (stamps[i] - now > 0 <=> stamps[i] > now)
        BY <1>1
      <3> QED BY <1>2, <3>1, <3>2 DEF PrefixUpTo
    <2>2. Handled = CHOOSE k \in 0..n : Stops(k)
      BY DEF Handled
    <2> HIDE DEF Stops, n
    <2>3. \E k \in 0..n : Stops(k)
      BY <1>3, <2>1
    <2>4. Handled \in 0..n /\ Stops(Handled)
      BY <2>2, <2>3
    <2> QED BY <2>1, <2>4
  <1>6. Handled = TrulyDue
    BY <1>1, <1>4, <1>5, PrefixUnique
  <1> QED BY <1>5, <1>6 DEF PrefixUpTo

\* The delay of a completion is the one the unbounded times call for.
LEMMA CompletionIs ==
  ASSUME CycleInv, DelayUntil(when) <= 0, NEW s \in Int,
         now - MaxLate - PeerSkew - 1 <= s, s <= now
  PROVE  LET c == CompletionDelay(Signed(s))
         IN /\ c \in Int /\ c >= 1 /\ c <= TransferCycles
            /\ now + c = Max({now + 1, s + TransferCycles - (now - due)})
  <1>1. /\ now \in Int /\ due \in Int /\ LockstepTime = Signed(now)
        /\ DelayUntil(when) = due - now
    BY ClockReads
  <1> DEFINE d == s + TransferCycles - now
             late == now - due
             c == CompletionDelay(Signed(s))
  <1>2. CycleDelta(CycleAdd(Signed(s), TransferCycles), LockstepTime) = d
    <2>1. CycleAdd(Signed(s), TransferCycles) = Signed(s + TransferCycles)
      BY AddIs, Constants32
    <2> DEFINE end == s + TransferCycles
    <2>2. end \in Int /\ end - now \in SignedRange
      BY <1>1, Constants32 DEF SignedRange
    <2> HIDE DEF end
    <2>3. CycleDelta(Signed(end), Signed(now)) = end - now
      BY <1>1, <2>2, DeltaIs
    <2>4. CycleDelta(CycleAdd(Signed(s), TransferCycles), LockstepTime)
            = CycleDelta(Signed(end), Signed(now))
      BY <1>1, <2>1 DEF end
    <2>5. end - now = d
      BY <1>1, Constants32 DEF end
    <2> QED BY <2>3, <2>4, <2>5
  <1>3. c = SanitizeDelay(DelayAfterLateness(d, -(due - now)))
    BY <1>1, <1>2 DEF CompletionDelay
  <1>4. d \in Int /\ late \in Int /\ late >= 0 /\ -(due - now) = late
          /\ d <= TransferCycles
    BY <1>1, Constants32
  <1> HIDE DEF d, late
  <1>5. c = IF d - late >= 1 THEN d - late ELSE 1
    BY <1>3, <1>4 DEF SanitizeDelay, DelayAfterLateness
  <1>6. c \in Int /\ c >= 1 /\ c <= TransferCycles
    BY <1>4, <1>5, Constants32
  <1>7. s + TransferCycles - (now - due) = now + (d - late)
    BY <1>1, Constants32 DEF d, late
  <1>8. now + c = Max({now + 1, now + (d - late)})
    <2>1. now + 1 \in Int /\ now + (d - late) \in Int
      BY <1>1, <1>4
    <2>2. now + c = IF now + 1 >= now + (d - late) THEN now + 1
                    ELSE now + (d - late)
      BY <1>1, <1>4, <1>5
    <2> QED BY <2>1, <2>2, MaxOfTwo
  <1> QED BY <1>6, <1>7, <1>8

\* A call of the driver leaves the wake-up at or before the head of what is
\* left, and no further than the completion it schedules.
LEMMA EventKeeps == CycleInv /\ LockstepEvent => CycleInv'
  <1> SUFFICES ASSUME CycleInv, LockstepEvent PROVE CycleInv'
    OBVIOUS
  <1> DEFINE n == Handled
             len == Len(queue)
             sync == IF n = 0 THEN Interval ELSE CompletionDelay(queue[n])
             delay == SanitizeDelay(
                        IF Left = << >> THEN sync
                        ELSE Min({sync, CycleDelta(Left[1], LockstepTime)}))
  <1>1. /\ now \in Int /\ due \in Int /\ DelayUntil(when) = due - now
        /\ len \in Nat /\ Len(stamps) = len
        /\ queue \in Seq(SignedRange) /\ stamps \in Seq(Int)
        /\ finishAt \in Int /\ now - MaxLate <= due /\ len <= Capacity
        /\ complete \in 0..(Range32 - 1) \cup {NotScheduled}
    BY ClockReads DEF CycleInv, CycleTypeOK, StoredInv, NearInv, SignedRange
  <1>2. /\ DelayUntil(when) <= 0
        /\ queue' = SubSeq(queue, n + 1, len)
        /\ stamps' = SubSeq(stamps, TrulyDue + 1, Len(stamps))
        /\ IF n = 0 THEN UNCHANGED <<complete, finishAt>>
           ELSE /\ complete' = Unsigned(timing + CompletionDelay(queue[n]))
                /\ finishAt' = Max({now + 1, stamps[TrulyDue] + TransferCycles
                                               - (now - due)})
        /\ when' = Unsigned(timing + delay) /\ due' = now + delay
        /\ UNCHANGED <<offset, timing, now>>
    BY DEF LockstepEvent, Left
  <1>3. /\ n = TrulyDue /\ n \in 0..len
        /\ \A i \in 1..n : stamps[i] <= now
        /\ n < len => stamps[n + 1] > now
    BY TakesTheDue
  <1>4. Left = SubSeq(queue, n + 1, len)
    BY DEF Left
  <1> HIDE DEF n, len
  <1>5. /\ queue' \in Seq(SignedRange) /\ Len(queue') = len - n
        /\ \A i \in 1..(len - n) : queue'[i] = queue[n + i]
    <2> HIDE DEF SignedRange
    <2>1. /\ SubSeq(queue, n + 1, len) \in Seq(SignedRange)
          /\ Len(SubSeq(queue, n + 1, len)) = len - n
          /\ \A i \in 1..(len - n) :
               SubSeq(queue, n + 1, len)[i] = queue[n + i]
      BY <1>1, <1>3 DEF len
    <2> QED BY <1>2, <2>1
  <1>6. /\ stamps' \in Seq(Int) /\ Len(stamps') = len - n
        /\ \A i \in 1..(len - n) : stamps'[i] = stamps[n + i]
    <2>1. stamps' = SubSeq(stamps, n + 1, len)
      BY <1>1, <1>2, <1>3
    <2>2. /\ SubSeq(stamps, n + 1, len) \in Seq(Int)
          /\ Len(SubSeq(stamps, n + 1, len)) = len - n
          /\ \A i \in 1..(len - n) :
               SubSeq(stamps, n + 1, len)[i] = stamps[n + i]
      BY <1>1, <1>3
    <2> QED BY <2>1, <2>2
  <1>7. \A i \in 1..len :
          /\ queue[i] = Signed(stamps[i]) /\ stamps[i] \in Int
          /\ now - MaxLate - PeerSkew - 1 <= stamps[i]
          /\ stamps[i] <= now + PeerSkew
          /\ CycleDelta(queue[i], LockstepTime) = stamps[i] - now
    BY EventIsNear DEF len
  <1>8. \A i \in 1..(len - n) : n + i \in 1..len
    BY <1>1, <1>3
  <1>9. ASSUME n # 0
        PROVE  LET c == CompletionDelay(queue[n])
               IN /\ c \in Int /\ c >= 1 /\ c <= TransferCycles
                  /\ now + c = finishAt'
    <2>1. n \in 1..len /\ n \in 1..n
      BY <1>1, <1>3, <1>9
    <2>2. stamps[n] <= now /\ stamps[n] \in Int /\ queue[n] = Signed(stamps[n])
            /\ now - MaxLate - PeerSkew - 1 <= stamps[n]
      BY <1>3, <1>7, <2>1
    <2>3. finishAt' = Max({now + 1, stamps[n] + TransferCycles - (now - due)})
      BY <1>2, <1>3, <1>9
    <2> QED BY <1>2, <2>2, <2>3, CompletionIs
  <1>10. sync \in Int /\ sync >= 1 /\ (sync = Interval \/ sync <= TransferCycles)
    BY <1>9, Constants32
  <1> HIDE DEF sync
  <1>11. /\ delay \in Int /\ delay >= 1 /\ delay <= sync
         /\ n < len => delay <= stamps[n + 1] - now
    <2>1. CASE n = len
      <3>1. Left = << >>
        <4>1. Len(Left) = 0 /\ Left \in Seq(SignedRange)
          BY <1>1, <1>2, <1>4, <1>5, <2>1
        <4> QED BY <4>1
      <3> QED BY <1>1, <1>10, <2>1, <3>1 DEF SanitizeDelay
    <2>2. CASE n # len
      <3>1. n < len /\ n + 1 \in 1..len /\ 1 \in 1..(len - n)
        BY <1>1, <1>3, <2>2
      <3>2. Left # << >> /\ Left[1] = queue[n + 1]
        <4>1. Left = queue' /\ Len(queue') # 0
          BY <1>2, <1>4, <1>5, <3>1
        <4> QED BY <1>5, <3>1, <4>1
      <3> DEFINE head == stamps[n + 1] - now
      <3>3. head \in Int /\ head >= 1
              /\ CycleDelta(Left[1], LockstepTime) = head
        BY <1>1, <1>3, <1>7, <3>1, <3>2
      <3> HIDE DEF head
      <3>4. delay = SanitizeDelay(IF sync <= head THEN sync ELSE head)
        BY <1>10, <3>2, <3>3, MinOfTwo
      <3>5. delay = IF sync <= head THEN sync ELSE head
        BY <1>10, <3>3, <3>4 DEF SanitizeDelay
      <3> HIDE DEF delay
      <3> QED BY <1>10, <3>3, <3>5 DEF head
    <2> QED BY <2>1, <2>2
  <1> HIDE DEF delay
  <1>12. /\ when' \in 0..(Range32 - 1) /\ Cong(when', offset' + due')
         /\ due' \in Int /\ due' > now /\ due' < now + Half
    <2>1. due' = now + delay /\ when' = Unsigned(timing + delay) /\ offset' = offset
      BY <1>2
    <2>2. when' \in 0..(Range32 - 1) /\ Cong(when', offset' + due')
      BY <1>11, <2>1, Schedules
    <2>3. delay >= 1 /\ delay \in Int /\ delay < Half
      BY <1>10, <1>11, Constants32
    <2>4. now + delay \in Int /\ now + delay > now /\ now + delay < now + Half
      BY <1>1, <2>3, Constants32
    <2> QED BY <2>1, <2>2, <2>4
  <1>13. /\ complete' \in 0..(Range32 - 1) \cup {NotScheduled}
         /\ finishAt' \in Int
         /\ complete' # NotScheduled =>
              /\ Cong(complete', offset' + finishAt')
              /\ now' - MaxLate <= finishAt' /\ finishAt' < now' + Half
    <2>1. CASE n = 0
      <3>1. UNCHANGED <<complete, finishAt, now, offset>>
        BY <1>2, <2>1
      <3>2. complete # NotScheduled =>
              /\ Cong(complete, offset + finishAt)
              /\ now - MaxLate <= finishAt /\ finishAt < now + Half
        BY DEF CycleInv, StoredInv, NearInv
      <3> QED BY <1>1, <3>1, <3>2
    <2>2. CASE n # 0
      <3> DEFINE c == CompletionDelay(queue[n])
      <3>1. c \in Int /\ c >= 1 /\ c <= TransferCycles
              /\ now + c = finishAt'
        BY <1>9, <2>2
      <3>2. complete' = Unsigned(timing + c)
        BY <1>2, <2>2
      <3> HIDE DEF c
      <3>3. complete' \in 0..(Range32 - 1)
              /\ Cong(complete', offset + finishAt')
        BY <3>1, <3>2, Schedules
      <3> QED BY <1>1, <1>2, <3>1, <3>3, Constants32
    <2> QED BY <2>1, <2>2
  <1>14. CycleTypeOK'
    <2>1. Len(queue') <= Capacity
      <3>1. Len(queue') = len - n /\ n \in Int /\ n >= 0
        BY <1>3, <1>5
      <3>2. len \in Int /\ len <= Capacity /\ Capacity \in Int
        BY <1>1, Constants32
      <3> QED BY <3>1, <3>2
    <2>2. offset' \in -Half..(Half - 1) /\ timing' \in -Half..(Half - 1)
            /\ now' \in Nat
      BY <1>2 DEF CycleInv, CycleTypeOK
    <2> QED BY <1>5, <1>6, <1>12, <1>13, <2>1, <2>2 DEF CycleTypeOK, SignedRange
  <1>15. StoredInv'
    <2>1. Cong(timing', offset' + now')
      BY <1>2 DEF CycleInv, StoredInv
    <2>2. \A i \in 1..Len(queue') : queue'[i] = Signed(stamps'[i])
      BY <1>5, <1>6, <1>7, <1>8
    <2> QED BY <1>5, <1>6, <1>12, <1>13, <2>1, <2>2 DEF StoredInv
  <1>16. \A i, j \in 1..Len(stamps') : i < j => stamps'[i] <= stamps'[j]
    <2> SUFFICES ASSUME NEW i \in 1..(len - n), NEW j \in 1..(len - n), i < j
                 PROVE  stamps'[i] <= stamps'[j]
      BY <1>6
    <2>1. \A a, b \in 1..len : a < b => stamps[a] <= stamps[b]
      BY <1>1 DEF CycleInv, NearInv
    <2>2. n + i \in 1..len /\ n + j \in 1..len /\ n + i < n + j
      BY <1>1, <1>3, <1>8
    <2>3. stamps'[i] = stamps[n + i] /\ stamps'[j] = stamps[n + j]
      BY <1>6
    <2> QED BY <2>1, <2>2, <2>3
  <1>17. ASSUME NEW i \in 1..Len(stamps')
         PROVE  due' <= stamps'[i] /\ stamps'[i] <= now' + PeerSkew
                  /\ stamps'[i] \in Int
    <2>1. /\ i \in 1..(len - n) /\ 1 \in 1..(len - n) /\ n < len
          /\ n + 1 \in 1..len /\ n + i \in 1..len /\ (i = 1 \/ 1 < i)
      BY <1>1, <1>3, <1>6, <1>8
    <2>2. stamps'[1] = stamps[n + 1] /\ stamps'[i] = stamps[n + i]
      BY <1>6, <2>1
    <2>3. stamps[n + 1] \in Int /\ stamps[n + i] \in Int
            /\ stamps[n + i] <= now + PeerSkew
      BY <1>7, <2>1
    <2>4. stamps'[1] <= stamps'[i]
      BY <1>6, <1>16, <2>1, <2>2, <2>3
    <2>5. now + delay <= stamps[n + 1]
      BY <1>1, <1>11, <2>1, <2>3
    <2>6. due' = now + delay /\ now' = now
      BY <1>2
    <2>7. due' <= stamps'[i]
      <3>1. /\ now + delay \in Int /\ stamps[n + 1] <= stamps[n + i]
        BY <1>1, <1>11, <2>2, <2>4
      <3>2. now + delay <= stamps[n + i]
        BY <2>3, <2>5, <3>1
      <3> QED BY <2>2, <2>6, <3>2
    <2> QED BY <2>2, <2>3, <2>6, <2>7
  <1>18. NearInv'
    <2>1. \A i \in 1..Len(stamps') : due' - PeerSkew - 1 <= stamps'[i]
      BY <1>12, <1>17, Constants32
    <2>2. now' - MaxLate <= due' /\ due' < now' + Half
      BY <1>1, <1>2, <1>12, Constants32
    <2> QED BY <1>13, <1>16, <1>17, <2>1, <2>2 DEF NearInv
  <1>19. WakeCoversHead'
    <2> SUFFICES ASSUME stamps' # << >>
                 PROVE  due' <= Max({now' + 1, stamps'[1]})
      BY DEF WakeCoversHead
    <2>1. 1 \in 1..Len(stamps')
      BY <1>1, <1>3, <1>6
    <2>2. due' <= stamps'[1] /\ stamps'[1] \in Int /\ due' \in Int
            /\ now' + 1 \in Int
      <3>1. now' = now
        BY <1>2
      <3>2. now' + 1 \in Int
        BY <1>1, <3>1
      <3> QED BY <1>12, <1>17, <2>1, <3>2
    <2> DEFINE u == due'
               a == now' + 1
               b == stamps'[1]
    <2>3. u <= b /\ u \in Int /\ a \in Int /\ b \in Int
      BY <2>2
    <2> HIDE DEF u, a, b
    <2>4. u <= Max({a, b})
      BY <2>3, MaxOfTwo
    <2> QED BY <2>4 DEF u, a, b
  <1> QED BY <1>14, <1>15, <1>18, <1>19 DEF CycleInv

LEMMA CycleKept == CycleInv /\ [CycleNext]_cycleVars => CycleInv'
  <1>1. CycleInv /\ UNCHANGED cycleVars => CycleInv'
    BY DEF CycleInv, CycleTypeOK, StoredInv, NearInv, WakeCoversHead, cycleVars
  <1> QED BY <1>1, RunKeeps, CompleteKeeps, EnqueueKeeps, EventKeeps DEF CycleNext

\* The stored clock, queue, wake-up and completion agree with the unbounded
\* times through every wrap of the counter.
THEOREM StoredTimesAreExact == CycleSpec => []StoredExact
  <1>1. CycleInv => StoredExact
    <2> SUFFICES ASSUME CycleInv PROVE StoredExact
      OBVIOUS
    <2> QED BY ClockReads DEF CycleInv, StoredInv, StoredExact
  <1>2. CycleSpec => []CycleInv
    BY InitCycle, CycleKept, PTL DEF CycleSpec
  <1> QED BY <1>1, <1>2, PTL
=============================================================================
