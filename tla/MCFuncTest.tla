------------------------------- MODULE MCFuncTest -------------------------------
(* Words of three bits: all cases of the division, its loop with and        *)
(* without the special shifts.  Buffers of four bytes, three values: two    *)
(* that differ on either side of equal zeros, and copies that overlap by    *)
(* one byte, more, or not.  Exit codes of a narrow int, ports on both sides *)
(* of the last one the table names.                                         *)
EXTENDS FuncTest
=================================================================================
