------------------------------- MODULE SignalTimer -------------------------------
(***************************************************************************)
(* coremark-pro/adaptation.c: the CoreMark-PRO timer.  al_signal_start     *)
(* stores simd_cycle64() in `started`; al_signal_finished and al_signal_now *)
(* return simd_cycle64() - started, truncated to a 32-bit size_t.  Both     *)
(* reads run the retry loop of CycleCounter while the counter moves.       *)
(***************************************************************************)
EXTENDS CycleCounter, Integers

VARIABLES
  op,          (* The timer call that runs simd_cycle64.                   *)
  started,     (* static uint64_t started: zero until al_signal_start.     *)
  interval,    (* The last size_t returned, NoInterval before the first.   *)
  startBegan,  (* History: the counter when al_signal_start was called.    *)
  startEnded   (* History: the counter when it returned.                   *)

timer    == <<op, started, interval, startBegan, startEnded>>
allVars  == <<vars, timer>>

NoInterval == Base
Ops        == {"al_signal_start", "al_signal_finished", "al_signal_now"}

(* The 64-bit difference of two instants.                                  *)
Distance(a, b) == (b.hi - a.hi) * Base + (b.lo - a.lo)

(* The truncation to size_t.                                               *)
Truncated(d) == d % Base

TimerTypeOK ==
  /\ TypeOK
  /\ op \in Ops
  /\ {started, startBegan, startEnded} \subseteq Instants
  /\ interval \in 0..(Base - 1) \cup {NoInterval}

TimerInit ==
  /\ Init
  /\ op = "al_signal_now"
  /\ started = Zero /\ startBegan = Zero /\ startEnded = Zero
  /\ interval = NoInterval

Signal ==
  /\ Call
  /\ op' \in Ops
  /\ UNCHANGED <<started, interval, startBegan, startEnded>>

(* A mutant: a timer that was started once keeps its first start.          *)
al_signal_start_once ==
  /\ Return
  /\ op = "al_signal_start"
  /\ started' = IF started = Zero THEN result ELSE started
  /\ startBegan' = began
  /\ startEnded' = counter
  /\ UNCHANGED <<op, interval>>

al_signal_start ==
  /\ Return
  /\ op = "al_signal_start"
  /\ started' = result
  /\ startBegan' = began
  /\ startEnded' = counter
  /\ UNCHANGED <<op, interval>>

al_signal_finished ==
  /\ Return
  /\ op \in {"al_signal_finished", "al_signal_now"}
  /\ interval' = Truncated(Distance(started, result))
  /\ UNCHANGED <<op, started, startBegan, startEnded>>

TimerNext ==
  \/ (Tick \/ ReadHi \/ ReadLow \/ ReadAgain) /\ UNCHANGED timer
  \/ Signal
  \/ al_signal_start
  \/ al_signal_finished

TimerSpec == TimerInit /\ [][TimerNext]_allVars

(* The fairness of the loop, under every timer call that runs it.          *)
TimerFairSpec == TimerSpec /\ WF_vars(Step)

-----------------------------------------------------------------------------
(* A reported interval is never shorter than the time between the return   *)
(* of al_signal_start and the call that reports, and never longer than the *)
(* time between the call of al_signal_start and the return of the report,  *)
(* as long as that fits the size_t it is truncated to; although each of    *)
(* its two ends is read in three steps of a running counter.  (A torn value *)
(* would be off by a multiple of Base and vanish in the truncation; what    *)
(* matters here is when the low half is read and which start is used.)      *)
IntervalMeasures ==
  [][ al_signal_finished /\ Distance(startBegan, counter) < Base =>
        /\ Distance(startEnded, began) <= interval'
        /\ interval' <= Distance(startBegan, counter) ]_allVars
=================================================================================
