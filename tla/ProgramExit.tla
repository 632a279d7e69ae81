------------------------------- MODULE ProgramExit -------------------------------
(***************************************************************************)
(* How a bare-metal program ends: base-port/base/src/trm.c (call_main,     *)
(* halt), base-port/base/src/ioe.c (the table of device handlers) and      *)
(* base-port/tool/include/tool.h (panic, assert); simd/runtime/start.S and *)
(* runtime.c (simd_exit) report in the same way.                           *)
(*                                                                         *)
(* halt stores a word in tohost and spins; the simulator (external)        *)
(* watches that word and ends the run when it is not zero.  An int is      *)
(* represented by the word that has its bits.                              *)
(***************************************************************************)
EXTENDS Naturals

CONSTANTS
  Half,     (* Half the number of words: 2^31.                             *)
  Ports,    (* Indices of the handler table: 0..127.                       *)
  Served,   (* Those that the table initializer names.                     *)
  None

ASSUME HalfAssumption  == Half \in Nat \ {0}
ASSUME PortsAssumption == Ports \subseteq Nat /\ Served \subseteq Ports

Words == 0..(2 * Half - 1)

ASSUME NoneAssumption == None \notin Words /\ None \notin {"device", "fail"}

VARIABLES
  pc,       (* "main", "halt", "spin", or "wild" after a call of NULL.     *)
  lut,      (* The handler of each port: "device", "fail" or None.         *)
  code,     (* The argument of halt, None before.                          *)
  tohost,   (* The word the simulator watches.                             *)
  seen,     (* The simulator: the word it ended the run with, or None.     *)
  inited    (* History: ioe_init was called.                               *)

vars == <<pc, lut, code, tohost, seen, inited>>

TypeOK ==
  /\ pc \in {"main", "halt", "spin", "wild"}
  /\ lut \in [Ports -> {"device", "fail", None}]
  /\ code \in Words \cup {None}
  /\ tohost \in Words
  /\ seen \in Words \cup {None}
  /\ inited \in BOOLEAN

Init ==
  /\ pc = "main"
  /\ lut = [p \in Ports |-> IF p \in Served THEN "device" ELSE None]
  /\ code = None /\ tohost = 0 /\ seen = None /\ inited = FALSE

-----------------------------------------------------------------------------
(* A mutant: the loop stops before the last entry.                         *)
FilledButLast ==
  [p \in Ports |->
     IF lut[p] = None /\ (\E q \in Ports : q > p) THEN "fail" ELSE lut[p]]

Filled == [p \in Ports |-> IF lut[p] = None THEN "fail" ELSE lut[p]]

ioe_init ==
  /\ pc = "main"
  /\ lut' = Filled
  /\ inited' = TRUE
  /\ UNCHANGED <<pc, code, tohost, seen>>

Halt(c) == pc' = "halt" /\ code' = c

(* ioe_read and ioe_write call whatever the table holds.                   *)
Access(port) ==
  /\ pc = "main"
  /\ \/ lut[port] = "device" /\ UNCHANGED <<pc, code>>
     \/ lut[port] = "fail" /\ Halt(1)
     \/ lut[port] = None /\ pc' = "wild" /\ UNCHANGED code
  /\ UNCHANGED <<lut, tohost, seen, inited>>

(* A failing assert or panic_on in the program.                            *)
Panic ==
  /\ pc = "main"
  /\ Halt(1)
  /\ UNCHANGED <<lut, tohost, seen, inited>>

(* main returns to call_main, or the program calls halt.                   *)
Return(ret) ==
  /\ pc = "main"
  /\ Halt(ret)
  /\ UNCHANGED <<lut, tohost, seen, inited>>

(* A mutant: the code is not shifted.                                      *)
EncodedUnshifted(c) == IF c = 0 THEN 1 ELSE IF c % 2 = 0 THEN c + 1 ELSE c

(* code == 0 ? 1u : (((uint32_t)code << 1) | 1u)                           *)
Encoded(c) == IF c = 0 THEN 1 ELSE ((c * 2) % (2 * Half)) + 1

(* A mutant: halt returns, and the program goes on.                        *)
ReportAndGoOn ==
  /\ pc = "halt"
  /\ pc' = "main"
  /\ tohost' = Encoded(code)
  /\ UNCHANGED <<lut, code, seen, inited>>

Report ==
  /\ pc = "halt"
  /\ pc' = "spin"
  /\ tohost' = Encoded(code)
  /\ UNCHANGED <<lut, code, seen, inited>>

(* The simulator.                                                          *)
Observe ==
  /\ tohost # 0 /\ seen = None
  /\ seen' = tohost
  /\ UNCHANGED <<pc, lut, code, tohost, inited>>

-----------------------------------------------------------------------------
Main ==
  \/ ioe_init
  \/ \E port \in Ports : Access(port)
  \/ Panic
  \/ \E ret \in Words : Return(ret)

Next == Main \/ Report \/ Observe

Spec == Init /\ [][Next]_vars

-----------------------------------------------------------------------------
Reported(word) == word \div 2

(* What the simulator sees is what the program meant: a pass is 1, and a   *)
(* code is recovered from any other word, for the codes that survive the   *)
(* shift (non-negative ints).                                              *)
CodesAreFaithful ==
  seen # None /\ code < Half =>
    /\ seen = 1 <=> code = 0
    /\ code # 0 => Reported(seen) = code

(* A verdict is given once: nothing the program does later changes it.     *)
VerdictIsFinal == [][tohost # 0 => tohost' = tohost]_vars

(* After ioe_init no access can call NULL, so no program that began with   *)
(* it ends unreported; before, every port the table does not name can.     *)
InitMakesPortsSafe == pc = "wild" => ~inited

(* trm.c and both READMEs: 1 means pass, any other odd value carries a     *)
(* non-zero exit code.                                                     *)
PassMeansZero == seen = 1 => code = 0
=================================================================================
