---------------------------- MODULE MCSaveRegion ----------------------------
EXTENDS SaveRegion, TLC

\* Sizes are even and a clock is one cell, so that a clock is told from a
\* battery by its length as it is in the code.
MCSizeOf == "none" :> 0 @@ "FLASH512" :> 2 @@ "FLASH1M" :> 4
MCFamily == "none" :> "none" @@ "FLASH512" :> "FLASH" @@ "FLASH1M" :> "FLASH"

\* Canonical files: empty, short, with a blank and with a foreign tail, and
\* too large.
MCCanonical ==
  {<< >>, <<"x">>, <<"x", FF, FF, FF>>, <<"x", FF, FF, "x">>,
   <<"x", "x", "x", "x", "x">>}

\* Legacy files: without a clock, with one, and too large.
MCLegacy ==
  {<<"x", FF>>, <<FF, "x", "x">>, <<FF, "x", FF, FF, "x">>,
   <<"x", "x", "x", "x", "x", "x">>}

\* Either file alone, none, or both.
MCDisks ==
  {<<NoFile, NoFile>>, <<<<"x">>, <<FF, "x", "x">>>>}
    \cup (MCCanonical \X {NoFile}) \cup ({NoFile} \X MCLegacy)
=============================================================================
