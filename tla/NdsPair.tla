------------------------------ MODULE NdsPair -------------------------------
(***************************************************************************)
(* The melonDS pair with its local wireless transport                      *)
(* (src/src/engines/melonds/nds_adapter.cpp): NdsFrame, and what the       *)
(* emulated consoles do inside NDS::RunFrame() through the multiplayer     *)
(* callbacks of dualboy_melonds_platform.                                  *)
(*                                                                         *)
(* Membership in melonDS's LocalMP is changed under mp_control_mutex, but  *)
(* the flags that say so are atomics every callback reads without it, so   *)
(* each load and store is a step.  LocalMP itself is external: it is known *)
(* by its members and by the number of packets waiting for each; replies,  *)
(* which it keeps in a queue of their own, are left out.                   *)
(***************************************************************************)
EXTENDS NdsFrame

CONSTANTS MaxCalls,     \* per machine: bound on callbacks in a frame
          MaxPackets,   \* bound on packets waiting for a machine
          MaxRelinks    \* bound on set_link and reset calls

\* A console's peer is the other one: kMachineCount is two.
ASSUME PairAssumption == \E a, b \in Machines : a # b /\ Machines = {a, b}
ASSUME BoundsAssumption == /\ MaxCalls \in [Machines -> Nat]
                           /\ {MaxPackets, MaxRelinks} \subseteq Nat

VARIABLES
  link_enabled,   \* atomic: the user's Local Link setting
  mp_requested,   \* atomic, per machine: its WiFi wants the transport
  mp_registered,  \* atomic, per machine: it may use LocalMP
  host_receive_wait_available, \* atomic, per machine: the wait is not spent
  mp_control,     \* the holder of mp_control_mutex, as a set
  call,           \* the callback each machine is in, and how far
  calls,          \* callbacks made in this frame (bounded by MaxCalls)
  joined,         \* LocalMP: the connected instances
  inbox,          \* LocalMP: packets waiting for each instance
  relinks,        \* set_link and reset calls so far (bounded by MaxRelinks)
  waits,          \* history: blocking waits of each machine in this frame
  drained         \* history: last generation in which a machine was told
                  \* that its peer has finished and sent nothing more

mpVars   == <<link_enabled, mp_requested, mp_registered>>
hostVars == <<host_receive_wait_available, calls, waits>>
netVars  == <<joined, inbox, drained>>
pairVars == <<frameVars, mpVars, hostVars, netVars, mp_control, call, relinks>>

CallPlaces == {"none", "joined", "end", "leave", "send", "poll", "host",
               "probe", "active", "final", "budget", "wait"}

Peer(m) == CHOOSE p \in Machines : p # m

PairInit ==
  /\ FrameInit
  /\ link_enabled \in BOOLEAN
  /\ mp_requested = [m \in Machines |-> FALSE]
  /\ mp_registered = [m \in Machines |-> FALSE]
  /\ host_receive_wait_available = [m \in Machines |-> FALSE]
  /\ mp_control = {}
  /\ call = [m \in Machines |-> "none"]
  /\ calls = [m \in Machines |-> 0]
  /\ joined = {}
  /\ inbox = [m \in Machines |-> 0]
  /\ relinks = 0
  /\ waits = [m \in Machines |-> 0]
  /\ drained = [m \in Machines |-> 0]

Proceed(m, place) == call' = [call EXCEPT ![m] = place]

\* Machine code is inside NDS::RunFrame() and enters a callback.
Enter(m) == /\ pc[m] = "run"
            /\ call[m] = "none"
            /\ calls[m] < MaxCalls[m]
            /\ calls' = [calls EXCEPT ![m] = @ + 1]

\* Every send and receive starts with this check, outside any lock.
MayTransport(m) == mp_registered[m] /\ ~abort_requested
-----------------------------------------------------------------------------
(* Joining and leaving.                                                    *)

\* MPBegin, under mp_control_mutex: ask for the transport and, if the link is
\* on, join LocalMP.  Joining forgets what was sent before.
MPBegin(m) ==
  /\ Enter(m)
  /\ mp_control = {}
  /\ IF abort_requested
     THEN UNCHANGED <<mp_requested, mp_control, call, joined, inbox>>
     ELSE /\ mp_requested' = [mp_requested EXCEPT ![m] = TRUE]
          /\ IF link_enabled /\ ~mp_registered[m]
             THEN /\ joined' = joined \cup {m}
                  /\ inbox' = [inbox EXCEPT ![m] = 0]
                  /\ mp_control' = {m}
                  /\ Proceed(m, "joined")
             ELSE UNCHANGED <<mp_control, call, joined, inbox>>
  /\ UNCHANGED <<frameVars, link_enabled, mp_registered,
                 host_receive_wait_available, waits, drained, relinks>>

\* ... then announce it, and unlock.
MPBeginStore(m) ==
  /\ call[m] = "joined"
  /\ mp_registered' = [mp_registered EXCEPT ![m] = TRUE]
  /\ mp_control' = {}
  /\ Proceed(m, "none")
  /\ UNCHANGED <<frameVars, link_enabled, mp_requested, hostVars, netVars,
                 relinks>>

\* MPEnd from machine code, from SignalStop, or because the frame failed:
\* the request is withdrawn before the mutex is taken.
MPEnd(m) ==
  /\ \/ Enter(m)
     \/ pc[m] = "mpend" /\ call[m] = "none" /\ UNCHANGED calls
  /\ mp_requested' = [mp_requested EXCEPT ![m] = FALSE]
  /\ Proceed(m, "end")
  /\ UNCHANGED <<frameVars, link_enabled, mp_registered, waits, netVars,
                 host_receive_wait_available, mp_control, relinks>>

\* The last step of MPEnd; a failed frame goes on to its boundary.
EndDone(m) ==
  /\ Proceed(m, "none")
  /\ IF pc[m] = "mpend" THEN FailedLeaves(m) ELSE UNCHANGED frameVars

\* Mutant: the machine leaves without withdrawing its registration.
MPEndExchange_KeepsFlag(m) ==
  /\ call[m] = "end"
  /\ mp_control = {}
  /\ mp_control' = {m}
  /\ Proceed(m, "leave")
  /\ UNCHANGED <<frameVars, mpVars, hostVars, netVars, relinks>>

\* Under mp_control_mutex: withdraw the registration first ...
MPEndExchange(m) ==
  /\ call[m] = "end"
  /\ mp_control = {}
  /\ mp_registered' = [mp_registered EXCEPT ![m] = FALSE]
  /\ IF mp_registered[m]
     THEN /\ mp_control' = {m}
          /\ Proceed(m, "leave")
          /\ UNCHANGED frameVars
     ELSE EndDone(m) /\ UNCHANGED mp_control
  /\ UNCHANGED <<link_enabled, mp_requested, hostVars, netVars, relinks>>

\* ... then leave LocalMP, and unlock.
MPEndLeave(m) ==
  /\ call[m] = "leave"
  /\ joined' = joined \ {m}
  /\ mp_control' = {}
  /\ EndDone(m)
  /\ UNCHANGED <<mpVars, hostVars, inbox, drained, relinks>>
-----------------------------------------------------------------------------
(* Sending and receiving.                                                  *)

\* MPSendPacket, MPSendCmd and MPSendAck: the check ...
MPSend(m) ==
  /\ Enter(m)
  /\ Proceed(m, IF MayTransport(m) THEN "send" ELSE "none")
  /\ UNCHANGED <<frameVars, mpVars, host_receive_wait_available, waits,
                 netVars, mp_control, relinks>>

\* ... and LocalMP's delivery to the connected peer.
MPDeliver(m) ==
  /\ call[m] = "send"
  /\ inbox' = [inbox EXCEPT ![Peer(m)] =
                 IF Peer(m) \in joined /\ @ < MaxPackets THEN @ + 1 ELSE @]
  /\ Proceed(m, "none")
  /\ UNCHANGED <<frameVars, mpVars, hostVars, joined, drained, mp_control,
                 relinks>>

\* MPRecvPacket: the same check, then what is waiting.
MPRecvPacket(m) ==
  /\ Enter(m)
  /\ Proceed(m, IF MayTransport(m) THEN "poll" ELSE "none")
  /\ UNCHANGED <<frameVars, mpVars, host_receive_wait_available, waits,
                 netVars, mp_control, relinks>>

\* MPRecvHostPacket: the check, ...
MPRecvHostPacket(m) ==
  /\ Enter(m)
  /\ Proceed(m, IF MayTransport(m) THEN "host" ELSE "none")
  /\ UNCHANGED <<frameVars, mpVars, host_receive_wait_available, waits,
                 netVars, mp_control, relinks>>

\* ... -1 if the peer is not registered, ...
HostPeer(m) ==
  /\ call[m] = "host"
  /\ Proceed(m, IF mp_registered[Peer(m)] THEN "probe" ELSE "none")
  /\ UNCHANGED <<frameVars, mpVars, hostVars, netVars, mp_control, relinks>>

\* LocalMP.RecvPacket does not block: it takes a packet or finds none.
Probe(m, place, empty) ==
  /\ call[m] = place
  /\ IF inbox[m] > 0
     THEN inbox' = [inbox EXCEPT ![m] = @ - 1] /\ Proceed(m, "none")
     ELSE Proceed(m, empty) /\ UNCHANGED inbox
  /\ UNCHANGED <<frameVars, mpVars, hostVars, joined, mp_control, relinks>>

Poll(m) == Probe(m, "poll", "none") /\ UNCHANGED drained

\* ... whatever is queued already, ...
HostProbe(m) == Probe(m, "probe", "active") /\ UNCHANGED drained

\* Mutant: a finished peer is taken to have nothing queued.
HostActive_NoFinalProbe(m) ==
  /\ call[m] = "active"
  /\ Proceed(m, IF worker_frame_active[Peer(m)] THEN "budget" ELSE "none")
  /\ drained' = [drained EXCEPT ![m] =
                   IF worker_frame_active[Peer(m)] THEN @ ELSE generation]
  /\ UNCHANGED <<frameVars, mpVars, hostVars, joined, inbox, mp_control,
                 relinks>>

\* ... a second probe if the peer's frame is over, ...
HostActive(m) ==
  /\ call[m] = "active"
  /\ Proceed(m, IF worker_frame_active[Peer(m)] THEN "budget" ELSE "final")
  /\ UNCHANGED <<frameVars, mpVars, hostVars, netVars, mp_control, relinks>>

HostFinal(m) ==
  /\ Probe(m, "final", "none")
  /\ drained' = [drained EXCEPT ![m] = IF inbox[m] = 0 THEN generation ELSE @]

\* Mutant: an empty receive polls again until the peer's frame is over.
HostBudget_Retry(m) ==
  /\ call[m] = "budget"
  /\ Proceed(m, "probe")
  /\ UNCHANGED <<frameVars, mpVars, hostVars, netVars, mp_control, relinks>>

\* ... and otherwise one blocking wait per frame.
HostBudget(m) ==
  /\ call[m] = "budget"
  /\ host_receive_wait_available' =
       [host_receive_wait_available EXCEPT ![m] = FALSE]
  /\ IF host_receive_wait_available[m]
     THEN waits' = [waits EXCEPT ![m] = @ + 1] /\ Proceed(m, "wait")
     ELSE Proceed(m, "none") /\ UNCHANGED waits
  /\ UNCHANGED <<frameVars, mpVars, calls, netVars, mp_control, relinks>>

\* LocalMP.RecvHostPacket returns with a packet, or empty after 25 ms.
HostWait(m) ==
  /\ call[m] = "wait"
  /\ Proceed(m, "none")
  /\ inbox' \in {inbox, [inbox EXCEPT ![m] = IF @ > 0 THEN @ - 1 ELSE @]}
  /\ UNCHANGED <<frameVars, mpVars, hostVars, joined, drained, mp_control,
                 relinks>>
-----------------------------------------------------------------------------
(* The frontend thread.                                                    *)

\* Mutant: turning the link on registers also who did not ask for it.
LinkAfter_Everyone(enabled) == IF enabled THEN Machines ELSE {}

\* Who is registered after SetLink: it adds the machines that asked for the
\* transport, or removes all.
LinkAfter(enabled) ==
  IF enabled
  THEN {m \in Machines : mp_requested[m] \/ mp_registered[m]}
  ELSE {}

\* SetLink, under mp_control_mutex.  Newly joined machines start empty.
SetLink(enabled) ==
  LET after == LinkAfter(enabled) IN
  /\ mp_control = {}
  /\ link_enabled' = enabled
  /\ mp_registered' = [m \in Machines |-> m \in after]
  /\ joined' = (joined \ {m \in Machines : mp_registered[m]}) \cup after
  /\ inbox' = [m \in Machines |->
                 IF m \in after /\ ~mp_registered[m] THEN 0 ELSE inbox[m]]
  /\ UNCHANGED <<mp_requested, drained, mp_control>>

\* The set_link operation, between frames; it does not look at frame_state.
SetLinkOp(enabled) ==
  /\ main = "idle"
  /\ relinks < MaxRelinks
  /\ relinks' = relinks + 1
  /\ SetLink(enabled)
  /\ UNCHANGED <<frameVars, hostVars, call>>

\* Reset: ignored unless Idle; both machines leave the transport.
Reset ==
  /\ main = "idle"
  /\ frame_state = "Idle"
  /\ mp_control = {}
  /\ relinks < MaxRelinks
  /\ relinks' = relinks + 1
  /\ mp_requested' = [m \in Machines |-> FALSE]
  /\ mp_registered' = [m \in Machines |-> FALSE]
  /\ joined' = joined \ {m \in Machines : mp_registered[m]}
  /\ UNCHANGED <<frameVars, link_enabled, hostVars, inbox, drained,
                 mp_control, call>>

PairDispatch ==
  /\ Dispatch
  /\ host_receive_wait_available' = [m \in Machines |-> TRUE]
  /\ calls' = [m \in Machines |-> 0]
  /\ waits' = [m \in Machines |-> 0]
  /\ UNCHANGED <<mpVars, netVars, mp_control, call, relinks>>

\* A timed-out frame and the destructor end with SetLink(false).
PairUnlink == /\ Unlink \/ Release
              /\ SetLink(FALSE)
              /\ UNCHANGED <<hostVars, call, relinks>>

\* Everything else the frontend does leaves the transport alone: the rest of
\* a call, and entering one or being woken.
TransportRests ==
  UNCHANGED <<mpVars, hostVars, netVars, mp_control, call, relinks>>

PairCallStep ==
  /\ NotifyStart \/ WaitDone \/ AwaitQuiescence \/ NotifyStop \/ Join
  /\ TransportRests

PairMain ==
  \/ PairCallStep
  \/ /\ MainCall \/ DeadlineExpires \/ SpuriousDone \/ Gone
     /\ TransportRests
-----------------------------------------------------------------------------
\* A callback in progress.
CallStep(m) ==
  \/ MPBeginStore(m) \/ MPEndExchange(m) \/ MPEndLeave(m) \/ MPDeliver(m)
  \/ Poll(m) \/ HostPeer(m) \/ HostProbe(m) \/ HostActive(m) \/ HostFinal(m)
  \/ HostBudget(m) \/ HostWait(m)

\* A new callback.
MPCall(m) == \/ MPBegin(m) \/ MPEnd(m) \/ MPSend(m) \/ MPRecvPacket(m)
             \/ MPRecvHostPacket(m)

\* A step of the worker outside the callbacks.
OutsideCalls(m) ==
  /\ call[m] = "none"
  /\ pc[m] # "mpend"
  /\ TransportRests

WorkerOnly(m) == OutsideCalls(m) /\ (Worker(m) \/ SpuriousStart(m))

PairWorker(m) == CallStep(m) \/ MPCall(m) \/ WorkerOnly(m)

PairNext == \/ \E m \in Machines : PairWorker(m)
            \/ PairMain \/ PairDispatch \/ PairUnlink
            \/ \E enabled \in BOOLEAN : SetLinkOp(enabled)
            \/ Reset

PairSpec == PairInit /\ [][PairNext]_pairVars

\* What threads do on their own: the frontend inside a call, and a worker in
\* a callback or outside.  A callback is entered at machine code's choice,
\* but a failed frame does leave the transport.
MainGoesOn == PairDispatch \/ PairUnlink \/ PairCallStep

WorkerGoesOn(m) == \/ CallStep(m)
                   \/ pc[m] = "mpend" /\ MPEnd(m)
                   \/ OutsideCalls(m) /\ Worker(m)

\* Threads run, NDS::RunFrame() makes finitely many callbacks and returns
\* once they have, and LocalMP's wait ends after 25 ms.
FairPairSpec == /\ PairSpec
                /\ WF_pairVars(MainGoesOn)
                /\ \A m \in Machines : WF_pairVars(WorkerGoesOn(m))
-----------------------------------------------------------------------------
(* Properties.                                                             *)

\* Types; the mutex is held exactly by a machine inside one of the two
\* locked sections.
PairTypeOK ==
  /\ link_enabled \in BOOLEAN
  /\ mp_requested \in [Machines -> BOOLEAN]
  /\ mp_registered \in [Machines -> BOOLEAN]
  /\ host_receive_wait_available \in [Machines -> BOOLEAN]
  /\ mp_control \in {{}} \cup {{m} : m \in Machines}
  /\ call \in [Machines -> CallPlaces]
  /\ joined \subseteq Machines
  /\ inbox \in [Machines -> 0 .. MaxPackets]
  /\ \A m \in Machines : call[m] \in {"joined", "leave"} <=> m \in mp_control

\* A machine that other code may take for registered is connected to LocalMP
\* at every moment, also in the middle of MPBegin and MPEnd.
RegisteredIsJoined == \A m \in Machines : mp_registered[m] => m \in joined

\* Between frames registration is what the user's setting and the console's
\* WiFi ask for, and LocalMP agrees: set_link, reset, failed frames and
\* aborted ones in any order leave no ghost and lose no member.  In
\* particular a timed-out and a destroyed pair are disconnected.
RegistrationAgrees ==
  main \in {"idle", "gone"} =>
    \A m \in Machines :
      /\ mp_registered[m] = (link_enabled /\ mp_requested[m])
      /\ (m \in joined) = mp_registered[m]

\* The inductive form of the two: what is true of one machine at each place
\* of MPBegin and MPEnd.  Callbacks run only inside a frame.
MembershipOf(m) ==
  /\ call[m] # "none" => pc[m] \in {"run", "mpend"}
  /\ call[m] = "joined" => /\ link_enabled /\ mp_requested[m]
                           /\ ~mp_registered[m] /\ m \in joined
  /\ call[m] = "leave" => /\ ~mp_requested[m] /\ ~mp_registered[m]
                          /\ m \in joined
  /\ call[m] = "end" => ~mp_requested[m]
  /\ call[m] \notin {"joined", "leave"} => (m \in joined <=> mp_registered[m])
  /\ call[m] \notin {"joined", "leave", "end"} =>
       (mp_registered[m] <=> link_enabled /\ mp_requested[m])

\* Once a console has been told that its peer's frame is over and nothing is
\* queued, nothing arrives for it until the frame ends: the peer's last send
\* is never put off to the next frame by the race with its boundary.  Nor do
\* the 25 ms waits of the host receive add up to a late frame, however often
\* the WiFi tick polls: a console makes at most one in a frame.
LastSendSeen ==
  \A m \in Machines :
    /\ pc[m] = "run" /\ drained[m] = generation => inbox[m] = 0
    /\ waits[m] <= 1

\* No console is kept by its transport.  The mutex may be held by the other
\* console, and the peer a console listens to may be listening to it; yet
\* every frame returns, in time or after the drain of an abandoned one, and
\* so does the destructor: the frontend always has the pair back, with no
\* console in a callback.
LinkedFramesReturn ==
  []<>(main \in {"idle", "gone"} /\ \A m \in Machines : call[m] = "none")
=============================================================================
