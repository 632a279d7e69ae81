----------------------------- MODULE MonotonicClock -----------------------------
(***************************************************************************)
(* What simd_cycle64 (simd/runtime/runtime.c) promises its callers: between *)
(* the call and the return the clock is read once, atomically.  The answer *)
(* is an instant between the clock at the call and the clock at the return.*)
(***************************************************************************)
EXTENDS Naturals

CONSTANTS Base, MaxHi

VARIABLES
  now,     (* The clock.                                                   *)
  open,    (* TRUE while a read is in progress.                            *)
  opened,  (* The clock when the read was opened.                          *)
  answer   (* The last instant answered.                                   *)

vars == <<now, open, opened, answer>>

Instants == [hi : 0..MaxHi, lo : 0..(Base - 1)]

AtMost(a, b) == a.hi < b.hi \/ (a.hi = b.hi /\ a.lo <= b.lo)

Init ==
  /\ now \in Instants
  /\ open = FALSE
  /\ opened = now
  /\ answer \in {t \in Instants : AtMost(t, now)}

Pass ==
  /\ now' \in {t \in Instants : AtMost(now, t)}
  /\ UNCHANGED <<open, opened, answer>>

Open ==
  /\ ~open
  /\ open' = TRUE
  /\ opened' = now
  /\ UNCHANGED <<now, answer>>

Answer ==
  /\ open
  /\ open' = FALSE
  /\ answer' \in {t \in Instants : AtMost(opened, t) /\ AtMost(t, now)}
  /\ UNCHANGED <<now, opened>>

Next == Pass \/ Open \/ Answer

Spec == Init /\ [][Next]_vars
=================================================================================
