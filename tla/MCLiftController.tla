---------------------------- MODULE MCLiftController ----------------------------
(* Two levels four impulses apart, for a command that stalls.              *)
EXTENDS LiftController

MCPresses     == {{}} \cup {{b} : b \in Buttons}
MCLow         == -4
ShortLevelPos == <<0, 4>>
ShortLoadZone == 3..5
=================================================================================
