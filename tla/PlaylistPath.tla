---------------------------- MODULE PlaylistPath ----------------------------
(***************************************************************************)
(* The two entries of an M3U playlist and the local files they mean        *)
(* (src/src/frontend/playlist.c).                                          *)
(*                                                                         *)
(* A path is a form, "relative", "absolute" or "unsafe" (a URL, a network  *)
(* path or a leading backslash), and the components between its slashes; a *)
(* component is the sequence of the parts between its dots, so that the    *)
(* three special components are <<"">>, <<"","">> and <<"","","">>.  The   *)
(* capacity of a path in bytes becomes one in components.                  *)
(***************************************************************************)
EXTENDS Integers, SequencesExt

CONSTANTS PathCapacity,   \* DUALBOY_PLAYLIST_PATH_CAPACITY
          EntryCount      \* DUALBOY_PLAYLIST_ENTRY_COUNT

ASSUME PlaylistAssumption == PathCapacity \in Nat /\ EntryCount \in Nat

Empty == <<"">>               \* what follows a trailing slash
Dot == <<"", "">>             \* "."
DotDot == <<"", "", "">>      \* ".."

Path(form, parts) == [form |-> form, parts |-> parts]
NoPath == Path("none", << >>)
Failed == Path("failed", << >>)

\* validate_local_path, and no trailing slash: the path may name a file.
Validate(p) ==
  /\ p.form \notin {"none", "unsafe"} /\ Len(p.parts) < PathCapacity
  /\ p.parts # << >> /\ Last(p.parts) # Empty

\* One component: skipped, taken back by a parent, refused above the root or
\* beyond the capacity, or appended.
NormalizeStep(out, c, absolute) ==
  IF out = Failed \/ c \in {Empty, Dot} THEN out
  ELSE IF c = DotDot /\ out.parts # << >> /\ Last(out.parts) # DotDot
  THEN [out EXCEPT !.parts = Front(@)]
  ELSE IF (c = DotDot /\ absolute) \/ Len(out.parts) + 1 >= PathCapacity
  THEN Failed
  ELSE [out EXCEPT !.parts = Append(@, c)]

Normalize(p) ==
  FoldLeft(LAMBDA out, c : NormalizeStep(out, c, p.form = "absolute"),
           Path(p.form, << >>), p.parts)

\* The directory of the playlist; "." and "/" are paths without components.
Directory(playlist) ==
  LET n == IF Validate(playlist) THEN Normalize(playlist) ELSE Failed
  IN IF n = Failed \/ n.parts = << >> \/ n = Path("relative", <<DotDot>>)
     THEN Failed
     ELSE [n EXCEPT !.parts = Front(@)]

\* resolve_entry: an absolute entry stands for itself, any other one is meant
\* from the directory of the playlist.
Resolve(directory, entry) ==
  IF ~Validate(entry) \/ Last(entry.parts) \in {Dot, DotDot}
  THEN Failed
  ELSE IF entry.form = "absolute" THEN Normalize(entry)
  ELSE IF Len(directory.parts) + Len(entry.parts) >= PathCapacity THEN Failed
  ELSE Normalize([directory EXCEPT !.parts = @ \o entry.parts])

\* A line of the file: a comment or blank, one with a zero byte, or an entry.
Comment == [kind |-> "comment", path |-> NoPath]
ZeroByte == [kind |-> "zero", path |-> NoPath]
Entry(p) == [kind |-> "entry", path |-> p]

ParseLine(entries, line, directory) ==
  IF entries = <<Failed>> \/ line.kind = "comment" THEN entries
  ELSE IF line.kind = "zero" \/ Len(entries) >= EntryCount THEN <<Failed>>
  ELSE LET p == Resolve(directory, line.path)
       IN IF p = Failed THEN <<Failed>> ELSE Append(entries, p)

\* dualboy_playlist_parse: exactly two entries, or nothing.
Parse(playlist, file) ==
  LET directory == Directory(playlist)
      entries == FoldLeft(LAMBDA es, line : ParseLine(es, line, directory),
                          << >>, file.lines)
  IN IF directory = Failed \/ file.large \/ Len(entries) # EntryCount
     THEN <<Failed>> ELSE entries
-----------------------------------------------------------------------------
\* The file that a system call reaches from the directory base (a sequence of
\* names, without symbolic links) when it is given p: the reference.
Step(place, c) ==
  IF c \in {Empty, Dot} THEN place
  ELSE IF c # DotDot THEN Append(place, c)
  ELSE IF place = << >> THEN place ELSE Front(place)

Reached(base, p) ==
  FoldLeft(Step, IF p.form = "absolute" THEN << >> ELSE base, p.parts)
=============================================================================
