------------------------------ MODULE MCSignalTimer ------------------------------
(* A counter whose low half has three values and carries up to MaxHi times: *)
(* every read of a call can fall on either side of a carry, a call can be   *)
(* retried until the high half stops, and intervals stay below Base and     *)
(* cross a carry or are truncated.                                          *)
EXTENDS SignalTimer
=================================================================================
