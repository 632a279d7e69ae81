-------------------------------- MODULE FpContext --------------------------------
(***************************************************************************)
(* zircon-validation.c: whether the kernel keeps the floating-point state  *)
(* of a process.  test_context_switch runs two workers that write fs0 and  *)
(* the rounding mode and look at both again and again; test_signal_state   *)
(* and test_ptrace_state do the same around a signal handler and around a  *)
(* stop in which a tracer exchanges the registers.                         *)
(*                                                                         *)
(* The kernel (external) saves and restores the two registers of the one   *)
(* hart when it passes it on.  It may have one defect, which strikes       *)
(* always or now and then.  The workers' tests state what is right, so     *)
(* what matters is that no defect passes and a sound kernel does not fail. *)
(***************************************************************************)
EXTENDS Naturals

CONSTANTS
  Iterations,  (* Of a worker's loop: 20000.                               *)
  Stride,      (* It yields in every Stride-th of them: 32.                *)
  MaxPreempts  (* Bounds the model: how often the timer takes the hart.    *)

ASSUME LoopAssumption ==
  /\ Iterations \in Nat \ {0} /\ Stride \in Nat \ {0} /\ MaxPreempts \in Nat

Children == {"child0", "child1"}
Procs    == Children \cup {"main", "traced"}
Regs     == {"fs0", "rm"}

(* Values of fs0 that the program tells apart; a worker's is named after it. *)
State(value, mode) == [fs0 |-> value, rm |-> mode]
Values == {"0.0", "1.0", "2.0", "3.0"} \cup Children
States == [fs0 : Values, rm : 0..3]

Sound   == <<"none", "none">>
Refusal == <<"call", "error">>
Defects == {"save", "restore", "frame", "set"} \X Regs
           \cup {<<"get", "fs0">>, <<"signal", "lost">>}

MainSteps == {"fork0", "fork1", "wait0", "wait1", "signal", "raise", "look",
              "fork", "wait stop", "get", "set", "cont", "wait end",
              "done", "failed"}
ChildSteps == {"none", "write fs0", "write fcsr", "read fs0", "read fcsr", "yield",
               "write", "stop", "stopped", "check", "exited"}

VARIABLES
  defect,   (* The defect of the kernel, or Sound.                         *)
  steady,   (* Whether it strikes each time.                               *)
  cur,      (* The process on the hart,                                    *)
  regs,     (* its registers,                                              *)
  saved,    (* and the kernel's copies of all processes' registers.        *)
  preempts, (* How often the timer took the hart.                          *)
  pc,       (* The next step of each process.                              *)
  iter,     (* iteration, of each worker.                                  *)
  status,   (* The exit status of each process.                            *)
  seen,     (* signal_seen.                                                *)
  lost      (* History: the workers that came back to wrong registers      *)
            (* which they were still to look at.                           *)

hart   == <<cur, regs, saved, preempts, lost>>
kernel == <<defect, steady>>
vars   == <<kernel, hart, pc, iter, status, seen>>

TypeOK ==
  /\ defect \in Defects \cup {Sound, Refusal} /\ steady \in BOOLEAN
  /\ cur \in Procs /\ regs \in States /\ saved \in [Procs -> States]
  /\ preempts \in 0..MaxPreempts
  /\ pc \in [Procs -> MainSteps \cup ChildSteps]
  /\ iter \in [Children -> 0..(Iterations - 1)]
  /\ status \in [Procs -> {0, 10, 22}]
  /\ seen \in BOOLEAN /\ lost \subseteq Children

Init ==
  /\ defect \in Defects \cup {Sound, Refusal} /\ steady \in BOOLEAN
  /\ cur = "main" /\ regs = State("0.0", 0)
  /\ saved = [p \in Procs |-> State("0.0", 0)]
  /\ preempts = 0 /\ lost = {}
  /\ pc = [p \in Procs |-> IF p = "main" THEN "fork0" ELSE "none"]
  /\ iter = [c \in Children |-> 0] /\ status = [p \in Procs |-> 0]
  /\ seen = FALSE

-----------------------------------------------------------------------------
(* What a worker has written: context_child(child + 2).                    *)
Own(c) == State(c, IF c = "child0" THEN 2 ELSE 3)

(* The registers that a worker has written and is to look at again.        *)
Watches(c) ==
  LET again == iter[c] < Iterations - 1
  IN  CASE pc[c] = "write fcsr" -> {"fs0"}
        [] pc[c] = "read fs0"   -> Regs
        [] pc[c] = "read fcsr"  -> IF again THEN Regs ELSE {"rm"}
        [] pc[c] = "yield"      -> IF again THEN Regs ELSE {}
        [] OTHER                -> {}

Exited(p) == pc[p] = "exited"

(* A process that could use the hart; main waits for its children.         *)
Ready(p) ==
  CASE pc[p] \in {"none", "stopped", "exited", "done", "failed"} -> FALSE
    [] pc[p] = "wait0"     -> Exited("child0")
    [] pc[p] = "wait1"     -> Exited("child1")
    [] pc[p] = "wait stop" -> pc["traced"] \in {"stopped", "exited"}
    [] pc[p] = "wait end"  -> Exited("traced")
    [] OTHER               -> TRUE

(* Whether the defect d strikes here, TRUE or FALSE if it need not.        *)
Hits(d) == IF d # defect THEN {FALSE} ELSE IF steady THEN {TRUE} ELSE BOOLEAN

(* The registers `old` overwritten by `new`, but for those of the defect.  *)
Copied(kind, hit, new, old) ==
  [r \in Regs |-> IF hit /\ defect = <<kind, r>> THEN old[r] ELSE new[r]]

(* The kernel passes the hart to another process.                          *)
SwitchTo(p) ==
  /\ p # cur /\ Ready(p)
  /\ cur' = p
  /\ \E hit \in Hits(defect) :
       /\ saved' = [saved EXCEPT ![cur] = Copied("save", hit, regs, @)]
       /\ regs' = Copied("restore", hit, saved[p], regs)
  /\ lost' = IF p \in Children /\ \E r \in Watches(p) : regs'[r] # Own(p)[r]
             THEN lost \cup {p} ELSE lost
  /\ UNCHANGED <<kernel, status, seen>>

Preempt ==
  /\ preempts < MaxPreempts /\ preempts' = preempts + 1
  /\ \E p \in Procs : SwitchTo(p)
  /\ UNCHANGED <<pc, iter>>

Block ==
  /\ ~Ready(cur)
  /\ \E p \in Procs : SwitchTo(p)
  /\ UNCHANGED <<preempts, pc, iter>>

-----------------------------------------------------------------------------
At(p, step) == cur = p /\ pc[p] = step
Goto(p, step) == pc' = [pc EXCEPT ![p] = step]

(* _exit of a child; fail of main.                                         *)
Exit(p, code) == Goto(p, "exited") /\ status' = [status EXCEPT ![p] = code]

(* context_child                                                           *)
WriteFs0(c) ==
  /\ At(c, "write fs0") /\ Goto(c, "write fcsr")
  /\ regs' = [regs EXCEPT !.fs0 = Own(c).fs0]
  /\ UNCHANGED <<kernel, cur, saved, preempts, lost, iter, status, seen>>

(* A mutant: the mode is not written where fcsr holds it (<< 5 forgotten). *)
WriteFcsrUnshifted(c) ==
  /\ At(c, "write fcsr") /\ Goto(c, "read fs0")
  /\ UNCHANGED <<kernel, hart, iter, status, seen>>

WriteFcsr(c) ==
  /\ At(c, "write fcsr") /\ Goto(c, "read fs0")
  /\ regs' = [regs EXCEPT !.rm = Own(c).rm]
  /\ UNCHANGED <<kernel, cur, saved, preempts, lost, iter, status, seen>>

(* Both reads are one condition of the code, with a short circuit.         *)
ReadFs0(c) ==
  /\ At(c, "read fs0")
  /\ IF regs.fs0 = Own(c).fs0 THEN Goto(c, "read fcsr") /\ UNCHANGED status
     ELSE Exit(c, 10)
  /\ UNCHANGED <<kernel, hart, iter, seen>>

(* The end of an iteration, and of the loop.                               *)
Iterate(c) ==
  IF iter[c] < Iterations - 1
  THEN /\ iter' = [iter EXCEPT ![c] = @ + 1] /\ Goto(c, "read fs0")
  ELSE UNCHANGED iter /\ Goto(c, "exited")

ReadFcsr(c) ==
  /\ At(c, "read fcsr")
  /\ \/ regs.rm # Own(c).rm /\ Exit(c, 10) /\ UNCHANGED iter
     \/ regs.rm = Own(c).rm /\ UNCHANGED status
        /\ IF iter[c] % Stride = 0 THEN Goto(c, "yield") /\ UNCHANGED iter
           ELSE Iterate(c)
  /\ UNCHANGED <<kernel, hart, seen>>

(* A mutant: the loop does not call sched_yield.                           *)
YieldNever(c) ==
  /\ At(c, "yield") /\ Iterate(c)
  /\ UNCHANGED <<kernel, hart, status, seen>>

(* sched_yield: another process that can run gets the hart.                *)
Yield(c) ==
  /\ At(c, "yield") /\ Iterate(c)
  /\ \/ \E p \in Procs : SwitchTo(p) /\ UNCHANGED preempts
     \/ /\ \A p \in Procs \ {c} : ~Ready(p)
        /\ UNCHANGED <<kernel, hart, status, seen>>

(* ptrace_child: PTRACE_TRACEME and SIGSTOP, and the check when continued. *)
TracedWrite ==
  /\ At("traced", "write") /\ Goto("traced", "stop")
  /\ regs' = State("1.0", 1)
  /\ UNCHANGED <<kernel, cur, saved, preempts, lost, iter, status, seen>>

TracedStop ==
  /\ At("traced", "stop") /\ Goto("traced", "stopped")
  /\ UNCHANGED <<kernel, hart, iter, status, seen>>

TracedCheck ==
  /\ At("traced", "check")
  /\ Exit("traced", IF regs = State("2.0", 3) THEN 0 ELSE 22)
  /\ UNCHANGED <<kernel, hart, iter, seen>>

-----------------------------------------------------------------------------
(* main: a child starts with the registers of its parent.                  *)
Fork(step, child, first, next) ==
  /\ At("main", step)
  /\ pc' = [pc EXCEPT !["main"] = next, ![child] = first]
  /\ saved' = [saved EXCEPT ![child] = regs]
  /\ UNCHANGED <<kernel, cur, regs, preempts, lost, iter, status, seen>>

(* A mutant: the status of the child is not looked at.                     *)
WaitForAny(step, child, next) ==
  /\ At("main", step) /\ Exited(child)
  /\ Goto("main", next)
  /\ UNCHANGED <<kernel, hart, iter, status, seen>>

(* waitpid: anything but a regular exit with status 0 is a failure.        *)
Wait(step, child, next) ==
  /\ At("main", step) /\ Exited(child)
  /\ Goto("main", IF status[child] = 0 THEN next ELSE "failed")
  /\ UNCHANGED <<kernel, hart, iter, status, seen>>

WaitStop ==
  /\ At("main", "wait stop") /\ Ready("main")
  /\ Goto("main", IF Exited("traced") THEN "failed" ELSE "get")
  /\ UNCHANGED <<kernel, hart, iter, status, seen>>

SignalWrite ==
  /\ At("main", "signal") /\ Goto("main", "raise")
  /\ regs' = State("1.0", 2)
  /\ UNCHANGED <<kernel, cur, saved, preempts, lost, iter, status, seen>>

(* raise: signal_handler overwrites both registers and sets signal_seen,   *)
(* the kernel restores them from the frame.                                *)
Raise ==
  /\ At("main", "raise") /\ Goto("main", "look")
  /\ \E hit \in Hits(defect) :
       /\ regs' = Copied("frame", hit, regs, State("3.0", 3))
       /\ seen' = ~(hit /\ defect = <<"signal", "lost">>)
  /\ UNCHANGED <<kernel, cur, saved, preempts, lost, iter, status>>

Look ==
  /\ At("main", "look")
  /\ Goto("main", IF seen /\ regs = State("1.0", 2) THEN "fork" ELSE "failed")
  /\ UNCHANGED <<kernel, hart, iter, status, seen>>

(* PTRACE_GETREGSET, of which fs0 is compared; PTRACE_SETREGSET; PTRACE_CONT. *)
GetRegs ==
  /\ At("main", "get")
  /\ \E hit \in Hits(<<"get", "fs0">>) :
       Goto("main", IF saved["traced"].fs0 = "1.0" /\ ~hit THEN "set" ELSE "failed")
  /\ UNCHANGED <<kernel, hart, iter, status, seen>>

SetRegs ==
  /\ At("main", "set") /\ Goto("main", "cont")
  /\ \E hit \in Hits(defect) :
       saved' = [saved EXCEPT !["traced"] = Copied("set", hit, State("2.0", 3), @)]
  /\ UNCHANGED <<kernel, cur, regs, preempts, lost, iter, status, seen>>

Cont ==
  /\ At("main", "cont")
  /\ pc' = [pc EXCEPT !["main"] = "wait end", !["traced"] = "check"]
  /\ UNCHANGED <<kernel, hart, iter, status, seen>>

(* A system call of main returns an error.                                 *)
Refuse ==
  /\ defect = Refusal /\ cur = "main"
  /\ pc["main"] \in {"fork0", "fork1", "signal", "raise", "fork", "get", "set", "cont"}
  /\ Goto("main", "failed")
  /\ UNCHANGED <<kernel, hart, iter, status, seen>>

Worker(c) ==
  WriteFs0(c) \/ WriteFcsr(c) \/ ReadFs0(c) \/ ReadFcsr(c) \/ Yield(c)

Main ==
  \/ Fork("fork0", "child0", "write fs0", "fork1")
  \/ Fork("fork1", "child1", "write fs0", "wait0")
  \/ Wait("wait0", "child0", "wait1")
  \/ Wait("wait1", "child1", "signal")
  \/ SignalWrite \/ Raise \/ Look
  \/ Fork("fork", "traced", "write", "wait stop")
  \/ WaitStop \/ GetRegs \/ SetRegs \/ Cont
  \/ Wait("wait end", "traced", "done")
  \/ Refuse

Next ==
  \/ \E c \in Children : Worker(c)
  \/ TracedWrite \/ TracedStop \/ TracedCheck
  \/ Main
  \/ Preempt \/ Block

Spec == Init /\ [][Next]_vars

(* The hart is never idle while a process can use it.                      *)
FairSpec == Spec /\ WF_vars(Next)

-----------------------------------------------------------------------------
(* A kernel that keeps the registers and refuses nothing never fails the   *)
(* test, wherever it takes the hart away.                                  *)
SoundKernelPasses == defect = Sound => pc["main"] # "failed"

(* A worker that came back to wrong registers, while it was still to look  *)
(* at them, is never taken for sound: not even when the defect strikes     *)
(* once, and between the two reads of one comparison.                      *)
LossIsReported ==
  lost # {} => pc["main"] \in {"fork0", "fork1", "wait0", "wait1", "failed"}

(* Every defect that strikes each time is found: the workers yield often   *)
(* enough to meet each other, and their values differ from those of main.  *)
DefectsAreFound ==
  /\ steady /\ defect \in Defects => <>(pc["main"] = "failed")
  /\ defect = Sound => <>(pc["main"] = "done")
=================================================================================
