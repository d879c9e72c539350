------------------------------ MODULE SavePath ------------------------------
(***************************************************************************)
(* The names of the save files of a pair (src/src/frontend/persistence.c). *)
(*                                                                         *)
(* All of them lie in one directory, which is left out.  A name is the     *)
(* sequence of the parts between its dots, and the capacity of a path in   *)
(* bytes becomes one in parts.  A component holds no separator: names with *)
(* a backslash in them are left out.                                       *)
(***************************************************************************)
EXTENDS PlaylistPath, FiniteSetsExt

CONSTANT NameCapacity     \* DUALBOY_PATH_CAPACITY

ASSUME NameAssumption == NameCapacity \in Nat

NoName == << >>

SafeComponent(name) == name \notin {NoName, Empty, Dot, DotDot}

\* dualboy_content_stem: the last component without what follows its last dot;
\* a leading dot does not count.
Stem(p) ==
  LET name == IF p.parts = << >> THEN NoName ELSE Last(p.parts)
      dots == {i \in 1 .. Len(name) - 1 : i > 1 \/ name[1] # ""}
      stem == IF dots = {} THEN name ELSE SubSeq(name, 1, Max(dots))
  IN IF SafeComponent(name) /\ SafeComponent(stem) THEN stem ELSE NoName

\* dualboy_join_save_path.
Join(stem, suffix) ==
  IF SafeComponent(stem) /\ Len(stem) + Len(suffix) <= NameCapacity
  THEN stem \o suffix ELSE NoName

\* build_one_set: the files of one machine.
FileSet(stem, second, firmware) ==
  LET tail == IF second THEN <<"2">> ELSE << >>
  IN [sram |-> Join(stem, <<"srm">> \o tail),
      rtc |-> Join(stem, <<"rtc">> \o tail),
      firmware |-> IF firmware THEN Join(stem, <<"firmware", "bin">> \o tail)
                               ELSE NoName]

\* Mutant: only the same content collides.
Collides_SamePath(first, second) == first = second

\* The files of the second machine get a suffix when its save would be that of
\* the first.
Collides(first, second) ==
  Join(Stem(first), <<"srm">>) = Join(Stem(second), <<"srm">>)

NoFiles == << >>

\* dualboy_build_save_paths.
BuildSavePaths(first, second, firmware) ==
  LET files == <<FileSet(Stem(first), FALSE, firmware),
                 FileSet(Stem(second), Collides(first, second), firmware)>>
  IN IF \E i \in 1..2 : \/ files[i].sram = NoName \/ files[i].rtc = NoName
                        \/ firmware /\ files[i].firmware = NoName
     THEN NoFiles ELSE files

\* dualboy_legacy_sav_path.
LegacySav(sram) ==
  IF IsSuffix(<<"srm", "2">>, sram)
  THEN SubSeq(sram, 1, Len(sram) - 2) \o <<"sav", "2">>
  ELSE Front(sram) \o <<"sav">>

\* Every name a session reads or writes for one machine.
Names(set) ==
  <<set.sram, set.rtc, LegacySav(set.sram)>>
    \o (IF set.firmware = NoName THEN << >> ELSE <<set.firmware>>)
=============================================================================
