------------------------------- MODULE MCLiftUses -------------------------------
(* Three levels, four and three impulses apart, the place of loading at    *)
(* the second; the runs of main have the steps of the program.             *)
EXTENDS LiftWriteCombine

MCLevelPos == <<0, 4, 7>>
MCPresses  == {{}} \cup {{b} : b \in Buttons}
MCLoadZone == 7..9
MCLow      == -4
=================================================================================
