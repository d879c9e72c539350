---------------------------- MODULE ContentLoad -----------------------------
(***************************************************************************)
(* How a pair of cartridges becomes a session and how a session ends       *)
(* (src/src/libretro/libretro_core.c, src/src/frontend/session.c and       *)
(* content.c).                                                             *)
(*                                                                         *)
(* What the calls allocate is explicit: heap maps every live address to    *)
(* what it holds.  The frontend owns the cartridge data it passes only for *)
(* the duration of the call, and load_playlist owns what it read from the  *)
(* files; whatever the session keeps must be its own.  Every allocation,   *)
(* file operation and engine call may fail.                                *)
(***************************************************************************)
EXTENDS SavePath

CONSTANTS
  Games,        \* what the frontend may pass: [rom, path]
  Playlists,    \* playlist files: [path, large, lines]
  Files,        \* the directory tree: places -> cartridges
  Cwd,          \* the working directory, a place
  RomLimit,     \* DUALBOY_ROM_FILE_LIMIT
  GBAHeader, GBHeader, NDSHeader   \* sizes that hold the three headers

Machines == {0, 1}
Nil == <<"nil">>

Places == Seq(Seq(STRING))   \* the names of directories and of a file
Paths == [form : STRING, parts : Places]
Lines == [kind : {"comment", "zero", "entry"}, path : Paths]

\* A playlist is a file, so that its path ends in a name.
ASSUME ContentAssumption ==
  /\ Cwd \in Places /\ EntryCount = 2
  /\ \A g \in Games : g.path \in Paths /\ g.rom.hash \in STRING
  /\ \A place \in DOMAIN Files : Files[place].hash \in STRING
  /\ \A p \in Playlists :
       /\ p.path \in Paths /\ p.path.parts # << >>
       /\ Last(p.path.parts) \notin {Empty, Dot, DotDot}
       /\ p.lines \in Seq(Lines)

VARIABLES
  heap,      \* live addresses and what they hold
  corrupt,   \* an address was freed that was not live
  session,   \* struct dualboy_session
  saves,     \* the files of the save manager, NoFiles when not initialized
  load,      \* the load in progress: its place and its two cartridges
  given      \* what the player of each machine asked for

loadVars == <<heap, corrupt, session, saves, load, given>>

NoSession ==
  [engine |-> "none", pair |-> Nil, pixels |-> Nil, loaded |-> FALSE,
   platform |-> [m \in Machines |-> "none"],
   data |-> [m \in Machines |-> Nil],
   owned |-> [m \in Machines |-> Nil],
   path |-> [m \in Machines |-> Nil]]

NoRom == [data |-> Nil, path |-> NoPath]
Idle == [at |-> "idle", roms |-> [m \in Machines |-> NoRom]]
NotGiven == [m \in Machines |-> [rom |-> {}, place |-> {}]]
InCall == load.at # "idle"

LoadInit ==
  /\ heap = << >> /\ corrupt = FALSE /\ session = NoSession
  /\ saves = NoFiles /\ load = Idle /\ given = NotGiven

\* Allocating and freeing.  Freeing a null pointer is allowed.
Live == DOMAIN heap
Block(a, content) == [b \in {a} |-> content]
With(h, blocks) == [a \in DOMAIN h \cup DOMAIN blocks |->
                      IF a \in DOMAIN blocks THEN blocks[a] ELSE h[a]]
Without(h, dead) == [a \in DOMAIN h \ dead |-> h[a]]
BadFree(list, live) ==
  \E i \in 1 .. Len(list) : /\ list[i] # Nil
                            /\ \/ list[i] \notin live
                               \/ \E j \in 1 .. i - 1 : list[j] = list[i]
-----------------------------------------------------------------------------
\* dualboy_detect_content: the first of the three headers that is whole.
Detect(rom) ==
  IF rom.size < GBAHeader THEN "none"
  ELSE IF "gba" \in rom.headers THEN "gba"
  ELSE IF "nds" \in rom.headers /\ rom.size >= NDSHeader THEN "nds"
  ELSE IF "gb" \in rom.headers /\ rom.size >= GBHeader
  THEN IF rom.cgb THEN "gbc" ELSE "gb"
  ELSE "none"

\* dualboy_engine_family_for_platform.
Family(platform) ==
  CASE platform \in {"gb", "gbc"} -> "sameboy"
    [] platform = "gba" -> "mgba"
    [] platform = "nds" -> "melonds"
    [] OTHER -> "none"

\* fallback_content_path: a name made from a hash of the content.
FallbackPath(rom) == Path("relative", <<<<rom.hash, Detect(rom)>>>>)

SharedPath(roms, m) ==
  IF roms[m].path = NoPath /\ heap[roms[0].data] = heap[roms[1].data]
  THEN roms[1 - m].path ELSE roms[m].path

\* The path that stands for a cartridge: its own, that of the same cartridge
\* in the other machine, or the fallback.
IdentityPath(roms, m) ==
  IF SharedPath(roms, m) # NoPath THEN SharedPath(roms, m)
  ELSE FallbackPath(heap[roms[m].data])
-----------------------------------------------------------------------------
\* What dualboy_session_unload frees, in its order.
Freed(s) ==
  <<s.pair, s.owned[0], s.path[0], s.owned[1], s.path[1], s.pixels>>

\* dualboy_session_unload and dualboy_save_manager_deinit, from the blocks h.
Unloaded(h) ==
  /\ heap' = Without(h, Range(Freed(session)))
  /\ corrupt' = (corrupt \/ BadFree(Freed(session), DOMAIN h))
  /\ session' = NoSession /\ saves' = NoFiles

\* unload_current, then the beginning of a load with the blocks of the caller.
Begin(blocks, roms, at, asked) ==
  /\ ~InCall
  /\ heap' = With(Without(heap, Range(Freed(session))), blocks)
  /\ corrupt' = (corrupt \/ BadFree(Freed(session), Live))
  /\ session' = NoSession /\ saves' = NoFiles
  /\ load' = [at |-> at, roms |-> roms]
  /\ given' = asked

Asked(game) ==
  [rom |-> {game.rom},
   place |-> IF game.path = NoPath THEN {} ELSE {Reached(Cwd, game.path)}]

\* retro_load_game: one cartridge for both machines.
LoadGame ==
  \E g \in Games :
    Begin(Block(<<"caller", 0>>, g.rom),
          [m \in Machines |-> [data |-> <<"caller", 0>>, path |-> g.path]],
          IF g.rom.size = 0 THEN "cleanup" ELSE "detect",
          [m \in Machines |-> Asked(g)])

\* retro_load_game_special: two cartridges.
LoadSpecial ==
  \E g \in [Machines -> Games] :
    Begin([a \in {<<"caller", m>> : m \in Machines} |-> g[a[2]].rom],
          [m \in Machines |-> [data |-> <<"caller", m>>, path |-> g[m].path]],
          IF \E m \in Machines : g[m].rom.size = 0
          THEN "cleanup" ELSE "detect",
          [m \in Machines |-> Asked(g[m])])

\* The paths in the lines of a playlist, and the files that they mean: from
\* its own directory.
Entries(lines) ==
  FoldLeft(LAMBDA paths, line :
             IF line.kind = "entry" THEN Append(paths, line.path) ELSE paths,
           << >>, lines)

Meant(playlist) ==
  LET base == Reached(Cwd, [playlist.path EXCEPT !.parts = Front(@)])
      entries == Entries(playlist.lines)
      place(i) == Reached(base, entries[i])
  IN [m \in Machines |->
        IF m < Len(entries) /\ place(m + 1) \in DOMAIN Files
        THEN [rom |-> {Files[place(m + 1)]}, place |-> {place(m + 1)}]
        ELSE NotGiven[m]]

\* retro_load_game of a playlist and dualboy_playlist_parse_file, which may
\* also fail to read it.
LoadPlaylist ==
  \E p \in Playlists :
    \E entries \in {Parse(p.path, p), <<Failed>>} :
      Begin(<< >>,
            [m \in Machines |->
               [data |-> Nil,
                path |-> IF entries = <<Failed>> THEN NoPath
                         ELSE entries[m + 1]]],
            IF entries = <<Failed>> THEN "cleanup" ELSE "read0",
            Meant(p))

\* read_rom_file of machine m: the file that the path reaches, whole.
ReadRomFile(m) ==
  LET place == Reached(Cwd, load.roms[m].path)
      next == IF m = 0 THEN "read1" ELSE "detect"
  IN /\ load.at = (IF m = 0 THEN "read0" ELSE "read1")
     /\ \/ /\ place \in DOMAIN Files
           /\ Files[place].size \in 1 .. RomLimit
           /\ heap' = With(heap, Block(<<"bytes", m>>, Files[place]))
           /\ load' = [load EXCEPT !.at = next,
                                   !.roms[m].data = <<"bytes", m>>]
        \/ heap' = heap /\ load' = [load EXCEPT !.at = "cleanup"]
     /\ UNCHANGED <<corrupt, session, saves, given>>

Goto(at) == load' = [load EXCEPT !.at = at]

\* The checks of load_detected_pair before the session is touched.
DetectPair ==
  /\ load.at = "detect"
  /\ LET rom(m) == heap[load.roms[m].data]
         platform(m) == Detect(rom(m))
         good == /\ \A m \in Machines : /\ rom(m).size <= RomLimit
                                        /\ platform(m) # "none"
                 /\ Family(platform(0)) = Family(platform(1))
     IN \/ /\ good
           /\ load' = [load EXCEPT !.at = "pixels",
                         !.roms = [m \in Machines |->
                           [load.roms[m] EXCEPT
                              !.path = IdentityPath(load.roms, m)]]]
        \/ Goto("cleanup")   \* also: no pixel format, no save directory
  /\ UNCHANGED <<heap, corrupt, session, saves, given>>

Fails == Unloaded(heap) /\ Goto("cleanup") /\ UNCHANGED given

\* dualboy_session_load, step by step: each may fail, and then everything the
\* session has taken so far is released.
AllocatePixels ==
  /\ load.at = "pixels"
  /\ \/ /\ heap' = With(heap, Block(<<"pixels">>, "black"))
        /\ session' = [session EXCEPT !.pixels = <<"pixels">>,
                         !.engine = Family(Detect(heap[load.roms[0].data]))]
        /\ Goto("rom0") /\ UNCHANGED <<corrupt, saves, given>>
     \/ Fails

Shares(m) == m = 1 /\ load.roms[1].data = load.roms[0].data

\* Mutant: the second machine borrows the buffer of the caller.
SharedData_Callers(m) == load.roms[m].data

SharedData(m) == session.data[0]

\* own_rom: a copy of the path, and of the data unless both machines play the
\* very same buffer: then the second borrows the copy of the first.
OwnRom(m) ==
  LET rom == heap[load.roms[m].data]
      path == Block(<<"path", m>>, load.roms[m].path)
      copy == IF Shares(m) THEN << >> ELSE Block(<<"rom", m>>, rom)
  IN /\ load.at = (IF m = 0 THEN "rom0" ELSE "rom1")
     /\ \/ /\ heap' = With(heap, With(path, copy))
           /\ session' =
                [session EXCEPT
                   !.path[m] = <<"path", m>>,
                   !.platform[m] = Detect(rom),
                   !.owned[m] = IF Shares(m) THEN Nil ELSE <<"rom", m>>,
                   !.data[m] = IF Shares(m) THEN SharedData(m)
                                            ELSE <<"rom", m>>]
           /\ Goto(IF m = 0 THEN "rom1" ELSE "create")
           /\ UNCHANGED <<corrupt, saves, given>>
        \/ Fails

\* create_pair.
CreatePair ==
  /\ load.at = "create"
  /\ \/ /\ heap' = With(heap, Block(<<"pair">>, session.engine))
        /\ session' = [session EXCEPT !.pair = <<"pair">>]
        /\ Goto("start") /\ UNCHANGED <<corrupt, saves, given>>
     \/ Fails

\* load_rom of both machines, set_link and the sizes of their states.
StartPair ==
  /\ load.at = "start"
  /\ \/ /\ session' = [session EXCEPT !.loaded = TRUE]
        /\ Goto("saves") /\ UNCHANGED <<heap, corrupt, saves, given>>
     \/ Fails

\* dualboy_save_manager_init.
OpenSaves ==
  /\ load.at = "saves"
  /\ \/ /\ saves' = BuildSavePaths(heap[session.path[0]],
                                   heap[session.path[1]],
                                   session.engine = "melonds")
        /\ saves' # NoFiles
        /\ Goto("renderer") /\ UNCHANGED <<heap, corrupt, session, given>>
     \/ Fails

\* The OpenGL renderer of a pair of consoles may end what has been loaded.
InstallRenderer ==
  /\ load.at = "renderer"
  /\ \/ Goto("cleanup") /\ UNCHANGED <<heap, corrupt, session, saves, given>>
     \/ session.engine = "melonds" /\ Fails

Callers == {<<"caller", m>> : m \in Machines}
Bytes == {<<"bytes", m>> : m \in Machines}

\* The end of the call: load_playlist frees what it read, and the data of the
\* frontend is no longer the core's to use.
Return ==
  /\ load.at = "cleanup"
  /\ heap' = Without(heap, Callers \cup Bytes)
  /\ load' = Idle
  /\ given' = IF session.loaded THEN given ELSE NotGiven
  /\ UNCHANGED <<corrupt, session, saves>>

\* retro_unload_game, retro_init and retro_deinit (unload_current), and the
\* end of a session that cannot be trusted any more (discard_current).
Unload ==
  /\ ~InCall /\ session.loaded
  /\ Unloaded(heap) /\ given' = NotGiven /\ UNCHANGED load

BeginLoad == LoadGame \/ LoadSpecial \/ LoadPlaylist

LoadStep ==
  \/ \E m \in Machines : ReadRomFile(m) \/ OwnRom(m)
  \/ DetectPair \/ AllocatePixels \/ CreatePair \/ StartPair \/ OpenSaves
  \/ InstallRenderer
-----------------------------------------------------------------------------
\* A load takes effect as a whole or not at all, wherever it fails and whatever
\* was loaded before: between calls there is either a session with two live
\* cartridges, those that the players asked for, of one family, and nothing
\* else is allocated; or nothing is.  Nothing is ever freed twice.
LoadWhole ==
  /\ ~corrupt
  /\ ~InCall =>
       IF session.loaded
       THEN /\ \A m \in Machines :
                 /\ session.data[m] \in Live /\ session.path[m] \in Live
                 /\ {heap[session.data[m]]} = given[m].rom
                 /\ session.engine = Family(session.platform[m])
            /\ Live = Range(Freed(session)) \ {Nil} /\ saves # NoFiles
       ELSE Live = {} /\ session = NoSession /\ saves = NoFiles

\* The save files of a session belong to one machine each, all of their names
\* differ, and they are named after the file the player means: a playlist line
\* means the file it would reach from the playlist's own directory, however
\* the path is spelt.
SavesHaveOneOwner ==
  session.loaded /\ saves # NoFiles =>
    /\ IsInjective(Names(saves[1]) \o Names(saves[2]))
    /\ \A m \in Machines : \A place \in given[m].place :
         LET stem == Stem(Path("absolute", place))
         IN saves[m + 1].sram \in {stem \o <<"srm">>, stem \o <<"srm", "2">>}
=============================================================================
