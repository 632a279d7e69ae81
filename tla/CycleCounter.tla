------------------------------ MODULE CycleCounter ------------------------------
(***************************************************************************)
(* simd/runtime/runtime.c: simd_cycle64 reads a 64-bit cycle counter       *)
(* through three 32-bit CSR reads while the counter keeps running.  It     *)
(* reads cycleh, cycle, cycleh and retries until both reads of cycleh      *)
(* agree.                                                                  *)
(*                                                                         *)
(* The counter is the pair of CSRs, [hi, lo] with lo below Base (2^32 on   *)
(* the core).  Instants are ordered as the 64-bit number hi * Base + lo.   *)
(***************************************************************************)
EXTENDS Naturals

CONSTANTS
  Base,   (* Number of values of one CSR: 2^32.                            *)
  MaxHi   (* Bounds the model: the counter stops before hi exceeds MaxHi.  *)

ASSUME BaseAssumption  == Base \in Nat \ {0}
ASSUME MaxHiAssumption == MaxHi \in Nat

VARIABLES
  counter,  (* The CSRs cycleh and cycle.                                  *)
  pc,       (* The next read of simd_cycle64, "ret", or "idle" outside it. *)
  hi,       (* Local hi.                                                   *)
  low,      (* Local low.                                                  *)
  result,   (* The last value returned.                                    *)
  began,    (* History: the counter when the call began.                   *)
  sampled,  (* History: the counter when low was last read.                *)
  retries   (* History: how often the loop of the current call repeated.   *)

locals  == <<hi, low, result, began, sampled, retries>>
vars    == <<counter, pc, locals>>

Instants == [hi : 0..MaxHi, lo : 0..(Base - 1)]
Zero     == [hi |-> 0, lo |-> 0]

AtMost(a, b) == a.hi < b.hi \/ (a.hi = b.hi /\ a.lo <= b.lo)

Between(a, t, b) == AtMost(a, t) /\ AtMost(t, b)

TypeOK ==
  /\ counter \in Instants
  /\ pc \in {"idle", "hi", "low", "again", "ret"}
  /\ hi \in 0..MaxHi
  /\ low \in 0..(Base - 1)
  /\ {result, began, sampled} \subseteq Instants
  /\ retries \in Nat

Init ==
  /\ counter \in {t \in Instants : t.hi = 0}
  /\ pc = "idle"
  /\ hi = 0 /\ low = 0 /\ retries = 0
  /\ result = Zero /\ began = counter /\ sampled = Zero

(***************************************************************************)
(* The core: the low half carries into the high half.                      *)
(***************************************************************************)
Tick ==
  /\ \/ /\ counter.lo < Base - 1
        /\ counter' = [counter EXCEPT !.lo = @ + 1]
     \/ /\ counter.lo = Base - 1
        /\ counter.hi < MaxHi
        /\ counter' = [hi |-> counter.hi + 1, lo |-> 0]
  /\ UNCHANGED <<pc, locals>>

(***************************************************************************)
(* simd_cycle64, one action per CSR read; ReadAgain also decides the loop. *)
(***************************************************************************)
Call ==
  /\ pc = "idle"
  /\ pc' = "hi"
  /\ began' = counter
  /\ retries' = 0
  /\ UNCHANGED <<counter, hi, low, result, sampled>>

ReadHi ==
  /\ pc = "hi"
  /\ pc' = "low"
  /\ hi' = counter.hi
  /\ UNCHANGED <<counter, low, result, began, sampled, retries>>

ReadLow ==
  /\ pc = "low"
  /\ pc' = "again"
  /\ low' = counter.lo
  /\ sampled' = counter
  /\ UNCHANGED <<counter, hi, result, began, retries>>

(* A mutant: the two halves are returned as they were read.                *)
ReadAgainTorn ==
  /\ pc = "again"
  /\ pc' = "ret"
  /\ result' = [hi |-> hi, lo |-> low]
  /\ UNCHANGED <<counter, hi, low, began, sampled, retries>>

(* A mutant: the loop waits for the low half to stand still.               *)
ReadAgainLow ==
  /\ pc = "again"
  /\ \/ /\ low = counter.lo
        /\ pc' = "ret"
        /\ result' = [hi |-> hi, lo |-> low]
        /\ UNCHANGED retries
     \/ /\ low # counter.lo
        /\ pc' = "hi"
        /\ retries' = retries + 1
        /\ UNCHANGED result
  /\ UNCHANGED <<counter, hi, low, began, sampled>>

(* A mutant: the loop does not read the first cycleh again.                *)
ReadAgainStale ==
  /\ pc = "again"
  /\ \/ /\ hi = counter.hi
        /\ pc' = "ret"
        /\ result' = [hi |-> hi, lo |-> low]
        /\ UNCHANGED retries
     \/ /\ hi # counter.hi
        /\ pc' = "low"
        /\ UNCHANGED <<result, retries>>
  /\ UNCHANGED <<counter, hi, low, began, sampled>>

ReadAgain ==
  /\ pc = "again"
  /\ \/ /\ hi = counter.hi
        /\ pc' = "ret"
        /\ result' = [hi |-> hi, lo |-> low]
        /\ UNCHANGED retries
     \/ /\ hi # counter.hi
        /\ pc' = "hi"
        /\ retries' = retries + 1
        /\ UNCHANGED result
  /\ UNCHANGED <<counter, hi, low, began, sampled>>

Return ==
  /\ pc = "ret"
  /\ pc' = "idle"
  /\ UNCHANGED <<counter, locals>>

Step == Call \/ ReadHi \/ ReadLow \/ ReadAgain \/ Return

Next == Tick \/ Step

Spec == Init /\ [][Next]_vars

(* The program runs on the hart whose cycles are counted: it is never      *)
(* starved, whatever the counter does.                                     *)
FairSpec == Spec /\ WF_vars(Step)

-----------------------------------------------------------------------------
(* A call returns one value the counter really had while the call ran, not *)
(* a mixture of the two halves at different instants: the value is the     *)
(* counter at the read of low, after the call began and before it returned.*)
ReturnedAnInstant ==
  pc = "ret" => result = sampled /\ Between(began, result, counter)

(* The loop repeats only because cycleh moved: one call repeats at most as *)
(* often as the high half was incremented since the call began.            *)
RetriesBounded == began.hi + retries <= counter.hi

(* Later calls never return an earlier time than earlier calls: what       *)
(* callers that subtract two values (coremark-pro/adaptation.c) rely on.   *)
ResultsMonotonic == [][AtMost(result, result')]_vars

(* Every call returns: the retry loop does not run for ever on a counter   *)
(* whose high half is bounded.                                             *)
CallReturns == (pc = "hi") ~> (pc = "ret")

-----------------------------------------------------------------------------
(* The promise of the function: an atomic read of the clock.               *)
Clock == INSTANCE MonotonicClock WITH
           now      <- counter,
           open     <- pc \in {"hi", "low", "again"},
           opened   <- began,
           answer   <- result

(* simd_cycle64 implements an atomic read of the running clock.            *)
ImplementsClock == Clock!Spec
=================================================================================
