------------------------------ MODULE MCFpContext ------------------------------
(* Workers that yield in two of five iterations, and are taken from the     *)
(* hart up to eight times more.                                             *)
EXTENDS FpContext
=================================================================================
