-------------------------- MODULE MCSaveOwnership --------------------------
EXTENDS SaveOwnership, TLC

\* Two copies that manage the same two paths, in different orders.
MCRegions == "a" :> <<2, 1>> @@ "b" :> <<1, 2>>
============================================================================
