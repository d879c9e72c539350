----------------------------- MODULE MCFrontend -----------------------------
(* The calls of a frontend on a small set of games and displays.           *)
EXTENDS Frontend

Rom(hash, headers, cgb, size) ==
  [hash |-> hash, headers |-> headers, cgb |-> cgb, size |-> size]
Red == Rom("red", {"gb"}, FALSE, 2)
Blue == Rom("blue", {"gb"}, TRUE, 2)
Kart == Rom("kart", {"nds", "gba"}, FALSE, 1)
Party == Rom("party", {"nds"}, FALSE, 3)
Junk == Rom("junk", {"nds"}, FALSE, 2)
Nothing == Rom("nothing", {}, FALSE, 0)

At(form, parts) == [form |-> form, parts |-> parts]
D == <<"d">>
MCCwd == <<<<"home">>>>
MCGames ==
  {[rom |-> Red, path |-> At("relative", <<<<"a", "gb">>>>)],
   [rom |-> Red, path |-> At("none", << >>)],
   [rom |-> Blue, path |-> At("absolute", <<D, <<"a", "srm">>>>)],
   [rom |-> Kart, path |-> At("none", << >>)],
   [rom |-> Nothing, path |-> At("none", << >>)],
   [rom |-> Junk, path |-> At("none", << >>)],
   [rom |-> Party, path |-> At("relative", <<<<"", "a", "nds">>>>)]}

MCFiles ==
  [p \in {<<D, <<"a", "gb">>>>, <<<<"home">>, <<"a", "gb">>>>, <<<<"a", "gb">>>>}
     |-> IF Len(p) = 1 THEN Red ELSE Blue]

List(parts, lines) ==
  [path |-> At("relative", parts), large |-> FALSE, lines |-> lines]
InD == List(<<DotDot, D, <<"l", "m3u">>>>,
            <<Comment, Entry(At("relative", <<<<"a", "gb">>>>)),
              Entry(At("relative", <<D, DotDot, DotDot, Dot, <<"home">>,
                                     DotDot, <<"a", "gb">>>>))>>)
Above == List(<<<<"l", "m3u">>>>,
              <<Entry(At("relative", <<DotDot, DotDot, <<"a", "gb">>>>)),
                Entry(At("absolute", <<D, Empty, <<"a", "gb">>>>))>>)
Unsafe == List(<<<<"l", "m3u">>>>,
               <<Entry(At("unsafe", <<D>>)),
                 Entry(At("relative", <<<<"a", "gb">>>>))>>)
Three == List(<<<<"l", "m3u">>>>,
              <<Entry(At("relative", <<<<"a", "gb">>>>)),
                Entry(At("relative", <<<<"a", "gb">>>>)),
                Entry(At("relative", <<<<"a", "gb">>>>))>>)
MCPlaylists == {InD, Above, Unsafe, Three}

Show(mode, layout, swap) == [mode |-> mode, layout |-> layout, swap |-> swap]
MCDisplays == {Show("dual", "side", TRUE), Show("dual", "top", FALSE),
               Show("player2", "side", FALSE)}

Stick(x, pressed, trigger) ==
  [at |-> <<x, 1>>, pressed |-> pressed, trigger |-> trigger, on |-> TRUE]
MCSticks ==
  [c \in Consoles |->
     IF c = 0
     THEN {Stick(3, FALSE, TRUE), Stick(4, FALSE, TRUE), Stick(5, TRUE, FALSE)}
     ELSE {Off}]
MCTicks == {-1, 1}
MCContacts == {<< >>, <<<<1, 5>>, <<4, 5>>>>}
=============================================================================
