# Verification of DualBoy

DualBoy is a libretro core that runs two handheld consoles side by side and
links them: two Nintendo DS consoles (melonDS), two Game Boy Advance consoles
(mGBA) or two Game Boys (SameBoy).  This directory holds TLA+ models of the
parts of its own code that are hard to test, the TLC configurations that check
them on small instances, and TLAPS proofs for every size of instance.

All source paths below are relative to the repository's `src/` directory.
`PROJECT.json` maps each definition to the lines it translates.

## The system: inventory

| Part | State it keeps | Operations | Talks to |
|---|---|---|---|
| libretro core (`libretro/libretro_core.c`, `options.c`) | the loaded session, the save manager, option values, the renderer that is active | retro_run, load, unload, discard, serialize, unserialize, update_options | session, save manager, state, compositor |
| session (`frontend/session.c`) | owned ROMs, the engine pair, link setting, state capacities | load, reset, set_link, run, unload | engine operations of `frontend/engine.h` |
| paired states (`frontend/state.c`) | a snapshot of both machines and the link, batteries kept aside | serialize, unserialize with rollback | session, engine |
| save manager (`frontend/save_manager.c`) | ownership, lock descriptors, per-region tracking (size, hash, baseline) | init, flush, tick, deinit | persistence, engine memory |
| persistence (`frontend/persistence.c`) | none; files | build paths, choose an import, read a file, atomic write | the file system |
| melonDS adapter (`engines/melonds/nds_adapter.cpp`) | two consoles, worker threads, frame state, wireless membership, outputs | run_frame, set_link, reset, renderer changes, destroy, MP callbacks | melonDS, LocalMP, platform layer |
| melonDS platform and EGL (`nds_platform.cpp`, `egl_context.c`) | semaphores, files, GL context | callbacks of melonDS | adapter |
| mGBA adapter (`engines/mgba/mgba_adapter.c`) | two cores, storage, dirty flags, link | run_frame (linked or not), storage import, states | mGBA, lockstep |
| GBA lockstep (`engines/mgba/mgba_lockstep.c`) | coordinator, two drivers with event queues, cycle clocks | setMode, start, finish, timing event, hard sync, reset, states | mGBA timing, scheduler of the adapter |
| SameBoy adapter (`engines/sameboy/sameboy_adapter.c`) | two Game Boys, the bits and the light between them, how far one is ahead | run_frame, serial and infrared callbacks, set_link, reset, states | SameBoy |
| content, playlist (`frontend/content.c`, `playlist.c`) | none | detect a cartridge, resolve the entries of a playlist | libretro core |
| compositor, cursor (`frontend/compositor.c`, `touch_cursor.c`) | when each cursor was last active | compose, map a point and back, update a cursor | libretro core |

The engines (mGBA, melonDS, SameBoy) are submodules and not part of the
repository.  Where a model needs them (mCore.runLoop, LocalMP) their behaviour
is taken from how this code calls them and is marked external in the map.

What is hard in this code, and where:

* **Threads.**  The melonDS pair runs each console on its own thread, against a
  deadline, with a shared wireless medium in between.  A missed wake-up, a late
  worker or a stale report shows up once in millions of frames.
* **A distributed protocol in one thread.**  The GBA link is a message protocol
  between two machines with separate clocks, bounded queues that drop, and
  barriers, run by a cooperative scheduler that must never find both blocked.
* **Wrapping time.**  The link compares 32-bit cycle counts that wrap every
  256 seconds of play.
* **Files under failure.**  Save files are shared with other running copies of
  the core, written through temporary files, and must survive a kill or a loss
  of power between any two steps.
* **All or nothing.**  Restoring a paired state, and importing a legacy save,
  touch several things of which any may fail; so does loading a pair.
* **Failed frames go on.**  A frame that fails leaves the link, the consoles and
  the picture where they were, and the frontend simply calls again: with the next
  frame, a reset, a saved state or a new layout.

Correctness, part by part: run_frame is a synchronous ownership boundary and
always returns (melonDS); wireless membership agrees with the setting and no
packet is missed at a frame boundary (wireless); barriers are always released
and a transfer hands both machines the words of that transfer (lockstep); files
are never torn, updates never lost, flushes complete (saves); a restore is exact
or leaves everything as it was (states), also when it was taken in the middle of a
failed frame; what is saved of a DS game is what the game completed, and consoles
never share an address (console memory); a load is whole or leaves nothing, each
game has its own files, and picture, touch and sound agree (frontend).

## Modules

### EngineContract, NdsFrame, NdsPair: the melonDS pair

`EngineContract` is the abstract specification of `run_frame` in
`frontend/engine.h`: the engine owns the machines between call and return, hands
each to one worker, returns when all have let go, and never starts a frame on a
retired pair.

`NdsFrame` is the barrier of `nds_adapter.cpp`: `WorkerMain`, `ExecuteMachine`,
`RunFrame` and the destructor.  A critical section of `frame_mutex` is one step;
every access to an atomic outside it is a step of its own; a thread that waits
on a condition variable moves only when notified, spuriously woken, or at its
deadline, so a lost wake-up is visible.  Video and audio are the number of the
generation that wrote them.

`NdsPair` extends it with what the consoles do inside their frame: MPBegin and
MPEnd with the registration flag and LocalMP membership as separate steps,
sends, polls, the host receive with its peer-active test, final probe and
one-wait budget (without it two consoles that listen to each other would wait
for ever, which is `LinkedFramesReturn`), and `set_link`, `reset` and the unlinking of a timed-out pair
between frames.

### Lockstep, CycleArithmetic: the GBA link

`Lockstep` has the coordinator and both drivers of `mgba_lockstep.c` and the
scheduler `run_linked_frame` of `mgba_adapter.c`.  Its variable `ctl` says where
the one thread is (scheduling, inside a CPU slice, inside the timing event
handler), `cur` which machine it runs.  Queues have their fixed capacity and drop
when full, as the code does; the handler loop, the acknowledgement and the wake-up
rules are actions.  Times are unbounded there, and a reset makes its instant time 0.

`LockstepSession` extends it with the rest of a session: a machine that crashes in
the middle of a frame, so that `run_linked_frame` returns with barriers up and
events queued; `set_link`, with the attach of fresh drivers; `reset`, one core at a
time, through the driver's reset and the mode change that the reset of the serial
port makes; and `DriverSaveState`, `DriverValidateState` and `DriverLoadState`.

`CycleArithmetic` justifies unbounded times: it runs the helpers `_cycleFromBits`,
`_cycleDelta`, `_cycleAdd`, `_delayAfterLateness`, `_sanitizeDelay` and the queue
code that uses them on a small wrapping counter next to an unbounded clock.

### SaveOwnership: shared save files

Several copies of the core, their advisory locks taken in sorted order, the
loading loop, the periodic and the final flush, and `dualboy_write_file_atomic`
as write, fsync, rename and a best-effort fsync of the directory.  Each copy may
be killed, and power may be lost, between any two steps; `durable` is what
survives.  Contents is the number of the game write that produced it, so contents
of different copies never look alike.

### SaveRegion: one battery, byte by byte

The stable buffer of a GBA machine and its `.srm` file.  The save type, and with
it the extent that belongs in the file, is unknown until the game touches its
save, may be promoted when a state is loaded (`merge_savedata_type`), and may be
smaller than the file found on disk.  `ExtentTracking`, `Tracked`, `Deferred` and
`Current` are the tests of `initialize_extent_tracking` and
`dualboy_save_manager_flush`, in the code's order; a hash stands for the bytes it
was made of.  The import of a legacy `.sav` writes the clock at its end and then
the save, one step each, and may fail or be interrupted at each.  The session is
taken to own its files, which is what SaveOwnership is about.

### StateContract, PairedState: saving and restoring a pair

`StateContract` is what `frontend/state.h` promises: a restore takes effect on
both machines, their link protocol and the link setting, or on nothing, or ends
the session, and battery progress is never touched by it.

`PairedState` is `dualboy_state_serialize` and `dualboy_state_unserialize_ex` with
one step per engine call (set_link, each machine, the link drivers), the same
calls on the way back in `rollback_state`, which goes on after a failure and
remembers it, and `retro_unserialize`, which discards the session when the
rollback was incomplete.  Around it are the operations a session mixes with
restores: frames, flushes, link changes, resets, the first import of the battery
into the emulated cartridge, unload.  Each engine call may fail, at once or half
way.  A machine, a link driver and a battery are the number of the frame that
produced them, so an older battery is a smaller number.  The engine is mGBA,
whose `loadState` overwrites the battery and has it put back by
`restore_persistent_storage`.

### RendererLink: the Local Link and the OpenGL renderer

The two options exclude each other.  `RendererLink` follows them from the values
the frontend stores, through load and `update_options` of `libretro_core.c`, to
`SetVideoRenderer` and `set_link` of the melonDS adapter.  The renderer transaction
is one step per task of the context thread: make the context current, build a
renderer for each console, and on the first failure take the installed ones back,
each of which may fail in turn.  A frontend that ignores `SET_VARIABLE` is covered:
what it stores and what the core has decided then differ.

### EglWorker, NdsMemory: the context thread and what consoles remember

`EglWorker` is `egl_context.c`: start, synchronous tasks, destruction and the loop
of the context thread.  A critical section is one step, and a waiting thread moves
only after a broadcast or a spurious wake-up, so that a lost one is visible.

`NdsMemory` extends it with the persistent memory of both DS consoles.  Frames and
resets run with software renderers in one piece (NdsFrame has their threads) or,
with OpenGL, as one task of the context thread per console, where the second may
fail after the first has run.  A game writes its save in SPI transactions that wrap
at the end of the memory and last over several frames; melonDS reports one when it
ends, with its length masked, and `WriteNDSSave` copies it to the shadow that is
flushed and that a reset loads back.  Firmware images are their MAC address, which
`PersistentMemoryLoaded` repairs.  Sessions are flushed in part, closed and opened
again with the games in other seats.

### SerialLink: two Game Boys

`sameboy_run_frame` with its scheduler, which runs the machine that is behind,
and its watchdogs; the serial and infrared callbacks that a machine makes inside
`GB_run`; `set_link`, `reset` and the link part of a state.  A bit on the cable is
the machine it comes from and its place in the byte, so no two bits look alike.
`lead` and `exchange` are history: how far one machine has really run ahead, and
which machine clocks an exchange nothing has disturbed.

### PlaylistPath, SavePath, ContentLoad, FrameOutput, Frontend: the frontend side

`PlaylistPath` and `SavePath` are pure: playlist lines and the files they mean, and
the names of the save files of a pair.  A path is a form and a sequence of
components, a component the sequence of the parts between its dots.  `Reached` is
the reference for the first: where a system call ends up.

`ContentLoad` follows `retro_load_game`, `retro_load_game_special` and a playlist
through detection, `dualboy_session_load`, the save manager and the renderer, with
an explicit heap: every live block, who frees it, and the copy of a ROM that both
machines share.  Every step may fail.

`FrameOutput` has what a frame takes and gives: sticks, contacts, the layout,
composition, the announced geometry, the cursors and the queue of sound of a Game
Boy pair.  A pixel is named by its machine and place, so that a picture shows where
everything came from; a sample is its number.

`Frontend` composes the two under the entry points of `libretro_core.c`.

## Runs

| Run | Question | Bounds, and why they suffice | States |
|---|---|---|---|
| `nds_frame` | Does the barrier implement the contract of run_frame, is a successful frame fresh, does a timeout retire the pair, do calls and the destructor return? | two machines, two frames: a report or notification can be late by one frame, and more frames only repeat that | 36 thousand |
| `nds_pair` | Is a registered machine joined, is the last send seen, do registrations agree with the setting after frames, link changes, resets and timeouts; does every frame return, also when both consoles listen to each other? | one frame with two callbacks of each machine, one waiting packet, one reset or link change: each console joins and then sends, receives, listens as a host or leaves, which is the shortest way to every race of the last send and to waiting for one another; the invariants are proved for any number | 0.9 million |
| `nds_memory` | Is what is saved what games completed, do consoles keep different addresses, is tracking true; does every task stay inside its call and every call return? | saves of four bytes and one, two bytes written: a transaction that wraps in part, one that covers its memory, one cut off; two calls of the context thread: both consoles of a frame or reset; files of earlier sessions with foreign, equal, missing and rejected addresses | 1.0 million |
| `lockstep_transfer` | Do wake-ups cover the queue, does a transfer deliver its own words? | MULTI mode, four register writes, the real queue capacity 8, one frame; intervals 3/3/9 keep the order lockstep < transfer < hard sync | 2 million |
| `lockstep_session` | Are barriers releasable, can the scheduler get stuck, does every frame return, do modes converge; does every saved state load and resume, also when frames fail? | three modes, two writes, a queue of two entries so that events are dropped, one crash, two operations (a reset or link change, then a load) and one saved state | 0.7 million |
| `cycle_arithmetic` | Do wrapped times order and wake as unbounded ones? | a 4-bit counter that wraps more than twice, three queue entries, every attach offset that matters | 91 thousand |
| `save_ownership` | Is a file ever torn, an update lost, a flush incomplete, can everybody end up read-only? | two copies that list the same two paths in opposite orders, three game writes, one fault (failed call, kill or power loss) | 1.0 million |
| `save_region` | Does the file always stand for the last flushed buffer, whatever was loaded and whenever the size is learnt; does a session without game writes leave files alone; does an import keep the clock; is a failed flush tried again? | a buffer of four cells, save types of 0, 2 and 4 cells (a promotion and an oversized file need three sizes), a one-cell clock, two cell values, one failed write; files that are empty, short, padded, with a foreign tail, with a clock and too large | 0.6 million |
| `paired_state` | Is a restore complete, without effect, or the end of the session, whatever fails in it and in its rollback; can an older battery reach a file? | two frames (a state saved after the first, a battery written after it, in the second); two failures, one in the restore and one in the rollback | 0.9 million |
| `renderer_link` | Are link and OpenGL ever on together, is a renderer change complete or undone, do options, session and adapter agree? | two consoles, three failures: one install and the recovery of each console | 18 thousand |
| `frontend` | Is a load whole or without effect, does each game have files of its own, do picture, geometry and touch agree, does sound keep its order, does an idle cursor disappear? | seven cartridges, with and without paths, empty, of two families and unknown; four playlists through `.`, `..`, repeated slashes, comments, an unsafe entry and a third entry; three layouts with swapped screens; a stick at rest, moved and pressed, two fingers, a clock that moves, goes back and disappears; a queue of two samples and five made | 50 thousand |
| `serial_link` | Do the machines stay together and is a saved skew always accepted; do exchanged bytes and light agree on both sides, also when a state is restored within a bit? | calls of one and two ticks and watchdogs at which frames end in success, by a watchdog and for lack of progress; the skew limit is the longest call, the tightest the assumption allows; bytes of two bits, two register writes or light changes: one machine waits and the other clocks | 3.6 million |

Each property has a mutant: a plausible bug in the code's translation (a dropped
guard, an off-by-one, a missing notification) under which TLC finds the property
violated with the same configuration.

Deadlock is checked except in the runs whose cfg says otherwise, where a bound ends
the behaviours; in the lockstep runs `NeverStuck` and `FrameReturns` take its place.

### Fairness

`nds_frame` assumes weak fairness of the frontend thread inside a call and of
each worker: the operating system schedules runnable threads, and NDS::RunFrame
returns.  Nothing forces a new frame, a spurious wake-up, a failure or the
deadline.  `nds_pair` assumes the same of the steps inside a callback, where
the only wait, LocalMP's host receive, ends after 25 ms (`SetRecvTimeout(25)`);
`MaxCalls` stands for NDS::RunFrame making finitely many callbacks in a frame, and
nothing forces a callback except the MPEnd of a failed frame.  `lockstep_session` assumes weak fairness of the next-state relation: it
is one thread that keeps running inside a call.  `save_region` assumes that the
frontend keeps calling retro_run and that a tick completes; a session may still end
at any time, and `FlushRecurs` is void then.  `nds_memory` assumes that the caller and
the context thread are scheduled and that tasks and EGL calls return; nothing forces
a frame, a write or a spurious wake-up.  `frontend` states its one assumption in the
property: `FramesGoOn`, retro_run is called again and again.  `SerialLink` has no
fairness; a vertical blank is never assumed.

## Proofs

Each proof module holds an inductive invariant, one lemma or case per action,
and the theorems that follow.

* `NdsPairProofs`.  About NdsFrame: `BarrierInv` says where the frontend thread is
  determines the frame state (`StateAgrees`), that `completed_workers` counts exactly
  the machines no worker touches (`ReportsCounted`), and that a worker that still
  counts its frame a success has stored the output it is past
  (`OutputFollowsProgress`).  The counting part is what `RunFrame`'s equality test
  rests on, and is where the finiteness of `Machines` is used.  From it: types,
  freshness, retirement after a timeout, stability of outputs, and that the
  barrier implements `EngineContract`.  For any finite set of machines and any
  number of frames.  About NdsPair, which is
  built from steps of `NdsFrame` so that all of that holds for it too:
  `MembershipOf`, what is true of a machine at each place of MPBegin and MPEnd, gives
  `RegisteredIsJoined` and `RegistrationAgrees`; and `LastSendInv`, which follows a
  sent frame through its delivery and the early exits of the receivers, gives
  `LastSendSeen` (for two machines, `PairAssumption`).
* `LockstepProofs`.  A raised barrier always has an event queued at the secondary that
  releases it; a barrier is raised only after its event was accepted by the queue,
  so dropping cannot strand it.  From this `SchedulerNeverStuck`: whatever is
  dropped, `run_linked_frame` never finds both machines blocked.  `WakeInv` adds that
  a callback runs only when its timing event was due, and gives `WakeCoversQueue`.
  For any queue capacity and any interval constants.

  `TransferInv` follows one transfer from its announcement to both completions.
  While it is *announced* the primary waits, every event of the secondary is of that
  moment, the announcement is the last of them and the primary's completion is
  still ahead; so the acknowledgement, whichever event gives it, comes in the
  callback that also samples the secondary's word.  Once *sampled*, the barrier that
  the primary's completion raises has one event, and the secondary completes before
  it takes that event (`Overdue` is the one cycle by which a late callback may round
  up).  From it `TransferExact`.  It rests on `LatenessAssumption`: an instruction is
  shorter than a transfer.  TLC shows that it is needed.

  `SessionOK` is the invariant of a whole session: the same, and what a saved state
  holds is what its machines could hold (`SavedKind`, `SavedLink`), a machine outside
  its slice has its timing event ahead (`Ahead`), and detached machines have nothing
  queued (`Unlinked`).  A reset makes its instant time 0, so times are integers.  From
  it the barrier, the scheduler and `SavedStateLoads` for sessions, and the action
  property `RestoreResumes`.  `NewsInv` says that handling its queue will teach each
  machine the mode of the other; with `SavedNews` for the saved state it gives
  `SessionModesConverge`.  Proving it showed that the history `stale` has to be saved
  and restored with a state; TLC confirmed that on a longer run.
* `SaveOwnershipProofs`.  `SaveInv`: a write owner holds the lock of every path it
  manages; a temporary file belongs to a flush of an owner and holds memory
  contents; regions a flush has passed are tracked as they are in memory; no
  contents anywhere is torn; owners are current.  The step that needs the locks is
  Rename: it changes a path whose lock the renaming copy holds, so no other owner
  has loaded it.  From it: `NeverTorn`, `OwnerIsCurrent`, `NoLostUpdate`,
  `FlushIsComplete`, for any number of copies, paths, writes and faults.  `RaceInv`
  follows the sorted acquisition: a copy that failed was refused by one that holds a
  later path, so the copies that release cannot have refused each other in a circle,
  and one of them owns (`SomeoneOwns`, for any finite nonempty set of copies).
* `SaveRegionProofs`.  `RegionInv`: `TracksFile`, the baseline is what the file stands
  for and a valid hash is its hash, what lies beyond the kept extent is blank; `BufferInv`,
  the buffer differs from the baseline only where the game has written, and the game
  writes only within the extent of its save type; `ImportKeepsClock`, for each step of
  an import.  From it `SavedImage` and `NoSpontaneousWrite`, for any capacity, any
  extents and clock, and any file found on disk.
* `PairedStateProofs`.  `RestoreInv` follows the restore through its calls: what has
  been applied so far is what the state being applied holds (`ProgressInv`,
  `DriverInv`), the battery copies are what the session had (`CopiesInv`), a loss
  of battery storage has been noticed by the rollback (`LossInv`), and no stamp is
  newer than the current frame nor a file newer than its battery (`StampInv`).  The
  step that needs all of it is UnserializeEnds, which must be one step of the
  contract.  For any number of frames and failures.
* `LinkCableProofs`. About SerialLink: `ClocksAgree` is nearly inductive; `ClockInv`
  adds that the machine inside GB_run is the one that was behind, which holds across the
  callbacks because none of them touches the skew, and that a saved skew was in range.
  `DecodeEncode` is the fact about the two 64-bit conversions. For any lengths of calls
  up to the limit of a saved skew and any watchdogs. `PortInv` and `InExchange` say
  where the bits of a serial exchange are on the two sides, and `FrameInv` what either
  machine has reported: from them `PeersAgree`, for any positive number of bits.

  About CycleArithmetic: two times are the same 32 bits when they differ by a multiple
  of the range (`Cong`), and `DeltaIs` says that the difference the code computes of two
  stored times is the difference of the times, provided that is within half the range.
  `NearInv` provides it: every queued event, the wake-up and the completion stay near
  the clock, because `RunKeeps` shows that the CPU overshoots no timing event by more
  than one instruction and `WakeCoversHead` that a timing event covers the queue.  With
  it the loop of `_enqueueEvent` stops where the event belongs, the handler takes exactly
  what is due (`TakesTheDue`), and every delay handed to mGBA is the true one.  From
  `CycleInv`, these and the types, follows `StoredExact`, for any width of the counter and
  any attach time.
* `MelonDSProofs`.  About RendererLink: `SessionInv` goes by the place of a renderer
  change: `Transaction` says which consoles are on which renderer there, so that a change
  that fails half way leaves all of them on one renderer or retires the pair; the link
  of a pair is off during a change and under OpenGL (`LinkOfPair`); `Decisions` and
  `OptionsOfPair` relate the options, the session and what the frontend was told,
  `LinkOfOther` the same for the other engines with a pending request.  From it
  `Exclusive`, `RendererTransaction`, `OptionsAgree` and `LinkOwner`, for any frontend,
  any sequence of option changes and any failures.

  About EglWorker, `ThreadInv`: where the caller is determines where the context thread
  may be (`Places`), only a thread that waits is on the condition (`Waiters`), and a
  task is pending until it is reported, with its own result (`TaskLife`). From it
  `WorkerInv`, for any number of tasks, failures and wake-ups without a cause. About
  NdsMemory, `MemoryInv`: cartridge and shadow differ only in cells of the transaction
  that is open, addresses of a session differ, and tracking agrees with the files.
  `WholeTransaction` is the fact about `WriteNDSSave`: the cells it copies are those the
  transaction has written, also when it wraps and when its masked length is zero. Frames
  and resets under OpenGL are steps of `EglWorker`, so `WorkerInv` holds for them too.
  For any save size, files, writes and sessions.
* `FrontendProofs`.  About the sound of a Game Boy pair: `SoundInv` places every sample
  in the ring buffer by its number, so that pushing onto a full queue drops the oldest
  one, and from it `SoundInOrder`, for a queue of any size and any number of samples per
  frame (by least counterexample, since `Pushes` is recursive).

  About the screen: `ScreenInv` has, for every picture, that its pixels are the
  composition of the layout of its frame (`PictureInv`), that a finger's contact is what
  `MapPoint` of that layout gives (`FingerInv`), and that a drawn cursor is where
  `ProjectPoint` puts the touch of its stick (`StickInv`, `CursorInv`).  The lemmas that
  carry it say that the two mappings are the inverse of what `Compose` does, for every
  layout and any screen size.  From it `ScreenAgrees`.

  About loading: `LoadInv` has the types of session and load (`LoadTypes`); that live
  blocks are exactly those the session owns and those lent for the call (`HeapInv`); and
  for each stage what the two cartridges are by then (`StageInv`): what the caller lent
  (`Cart`), what will be read (`Awaited`, `Promised`), which ROM has been copied and
  whether both machines share it (`Taking`), and at the end the session a caller is left
  with (`Whole`).  A playlist enters through `PlaylistPromises`: the path that
  the parser makes of an entry reaches the file the line means from the directory of the
  playlist, for paths of any length, through `.`, `..` and repeated separators; the
  normalisation is a fold over the components, and the proof follows it prefix by prefix
  on both sides.  From it `LoadWhole`.  The names of save files come from stems:
  `PlaceStem`, a path and what it reaches have the same stem, and `NamesDiffer`, the two
  sets of names differ in every case of the collision suffix, since names with different
  endings cannot be equal.  From it `SavesHaveOneOwner`.

Assumptions are the named ASSUMEs of the modules: finite nonempty sets, positive
intervals, distinct marker values, two machines in NdsPair, at least one copy in
SaveOwnership, an instruction shorter than a transfer in Lockstep; screens, a pointer range and a
sound queue that are not empty (`ScreenAssumption`, `SoundAssumption`); playlists of two
entries that lie in a file with a name (`ContentAssumption`).  `CycleArithmetic` assumes that times that are compared are less than half the range apart
(`RangeAssumption`), which the constants of the code satisfy by five orders of
magnitude.

Every invariant that a run checks is proved.  Only model-checked: liveness (the prover
has no fairness: `FrameReturns`, `CallReturns`, `CallsReturn`, `LinkedFramesReturn`,
`FlushRecurs`, `CursorHides`).  What a fold computes is proved through the sets of its prefixes and a
least counterexample, since induction over data is out of the prover's reach.
`OwnersAreCurrent`, the type theorems and some others are proved without a run of their
own: the invariants that runs check contain or imply them.

## Observations

None of these contradicts what the repository says of itself; they explain how
properties are stated.

* Lockstep acknowledgements are not tied to the event they acknowledge, so after
  a handshake in flight the primary may be released by an earlier event.
  `TransferExact` is stated for transfers started once the handshake has settled.
  With a hard-sync interval close to the lockstep interval the slip could persist;
  the code's ratio is 128 to 1.
* A full event queue drops events; docs/status.md lists it.  `SessionModesConverge`
  holds for runs without drops.
* A reset keeps the events that a failed frame left in the queues.  One of them may be
  handled after the mode change of the reset and announce a mode of before it, until
  the game next changes its mode; `stale` excludes that from `SessionModesConverge`.
  A debug build would stop at the assertion in `DriverSetMode` when the crash came
  within a transfer.
* Contacts are mapped with the layout that the options ask for, while after a failed
  frame the picture is still the old one: `ScreenAgrees` asks for contacts only while
  both are the same.
* The firmware is recorded as it was read, before addresses are repaired, so a repair
  is written by the next flush like any other change.
* A flush stops at the first region whose write fails and is retried on the next
  frame, so a path that cannot be written holds back later regions.
* A cartridge with a clock marks its machine dirty on every frame, so
  `NoSpontaneousWrite` is stated for cartridges without one.
* A restore that is rejected after the first machine has been loaded may still have
  promoted the save type of a cartridge: the merge is not undone.  The file is not
  affected, since growth without a game write is deferred (`NoSpontaneousWrite`).
* The fsync of the directory is best effort: after a successful flush a loss of
  power may bring back the previous contents, whole.
* With a frontend that ignores `SET_VARIABLE`, a conflict that OpenGL has won stays in
  the stored options; the next update of any option decides it again, the Local Link
  wins, and the renderer falls back to software.
* The core keeps link and OpenGL apart before it calls the adapter, so the adapter's
  own refusal is never needed.
* SameBoy reports light when it changes, and relinking forgets what was reported: a
  lamp that was already on is not seen until it is switched.

## Not modelled

* melonDS platform layer (`nds_platform.cpp`): one library call per function, called
  only from melonDS, which is not in the repository.
* Option tables and the comparison of option strings (`options.c`), buttons, and the
  descriptions the frontend asks for: pure I/O.  Embedded boot ROMs: a lookup in
  generated data.
* melonDS: debug hold hooks, thread creation failing in the constructor, LocalMP
  internals and the reply queue, save transactions longer than the memory, direct boot.
* mGBA link: the data words beyond their identity, and more than two players; the
  watchdog of the scheduler (`MGBA_COOPERATIVE_WATCHDOG`), which ends a frame that makes
  no progress.  Without it `FrameReturns` says more, and a frame that it ends leaves what
  a crashed frame leaves, which is modelled.
* Saves: memory allocation failure in the save manager, the clock region's own flush (a
  fixed extent through the same code), memory the frontend persists by itself.
* States: the fields of the header and its checksums (a state is accepted or rejected),
  the crash flag and audio of a machine; the save type is SaveRegion's.
* SameBoy: retained video frames, loading and destruction of the pair.
* Frontend side: bytes of paths (capacities count components), symbolic links, the
  checksums of cartridge headers, the pixels of a drawn cursor; file names with a
  backslash in them, which the code takes for a separator; the cursor that is forgotten
  when an option gives its machine another controller port (`FrameOutput` keeps the
  assignment for a session).

## Plan

Done: the modules above, in the order melonDS barrier, wireless transport, lockstep,
cycle arithmetic, save ownership, save regions, paired states, renderer and link,
context thread, serial link, lockstep session, frontend side, console memory, and the proofs of all of their invariants.  Left:

1. The wireless reply queue, a bounded queue that drops.
2. Transactions of a DS save that are longer than its memory.

A new property replaces a shallower one rather than adding to the list.
