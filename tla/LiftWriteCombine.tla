---------------------------- MODULE LiftWriteCombine ----------------------------
(***************************************************************************)
(* The two uses of the lift controller: with a lift and its buttons        *)
(* (LiftController), and in taclebench/ports/lift-write-combine.c, whose   *)
(* main runs the controller six times without any input, measures it, and  *)
(* compares a checksum of the outputs with a constant.                     *)
(*                                                                         *)
(* Without an input no command is ever chosen: what moves is the counter   *)
(* lift_dbgCnt, which lift_ctrl_loop shows on LED 13, and lift_checksum,   *)
(* which sums up the outputs.  What the runs submit to the device is in    *)
(* DescriptorChannel.                                                      *)
(***************************************************************************)
EXTENDS LiftController

WARMUP_STEPS  == 32
LIFT_STEPS    == 1001
LIFT_CHECKSUM == 4005888

(* The steps of the runs of main: each mode is warmed up and measured.     *)
Plan == <<WARMUP_STEPS, WARMUP_STEPS, WARMUP_STEPS,
          LIFT_STEPS, LIFT_STEPS, LIFT_STEPS>>

VARIABLES
  program,    (* Which program is loaded.                                  *)
  dbgCnt,     (* lift_dbgCnt and                                           *)
  checksum,   (* lift_checksum, which no handler of the controller reads.  *)
  began,      (* The runs of main that began,                              *)
  done,       (* the steps of the last one,                                *)
  sums        (* and result.checksum of those that ended.                  *)

port == <<dbgCnt, checksum, began, done, sums>>
pvars == <<vars, program, port>>

-----------------------------------------------------------------------------
(* The end of lift_ctrl_loop: LED 13 is bit 7 of the counter.              *)
Led13(n) == (n \div 128) % 2

(* lift_ctrl_set_vals: the outputs as a number, motor above LEDs.  LED 13  *)
(* is not that of a level any more.                                        *)
Outputs(c, n) ==
  (IF c.motorOn THEN 16384 ELSE 0) + (IF c.motorUp THEN 32768 ELSE 0)
  + (IF c.level \in 1..13 THEN 2^(c.level - 1) ELSE 0) + 8192 * Led13(n)

(* A mutant: only what lift_init clears is cleared.                        *)
clear_checksum == checksum' = 0 /\ UNCHANGED dbgCnt

(* reset_controller, but for what LiftController has of it.                *)
clear_counts == checksum' = 0 /\ dbgCnt' = 0

(* run_controller up to its loop.                                          *)
BeginRun ==
  /\ Len(sums) = began /\ began < Len(Plan)
  /\ began' = began + 1
  /\ done' = 0
  /\ ctl' = reset_controller(ctl)
  /\ in' = {} /\ dly1' = {} /\ dly2' = {}
  /\ clear_counts
  /\ UNCHANGED <<lift, turns, program, sums>>

Running == Len(sums) < began

(* One turn of the loop: set_zero_stimulus and lift_controller.            *)
Step ==
  /\ Running /\ done < Plan[began]
  /\ done' = done + 1
  /\ in' = Voted({}, dly1, dly2)
  /\ dly2' = dly1
  /\ dly1' = {}
  /\ ctl' = lift_ctrl_loop(ctl, in')
  /\ dbgCnt' = dbgCnt + 1
  /\ checksum' = checksum + Outputs(ctl', dbgCnt)
  /\ UNCHANGED <<lift, turns, program, began, sums>>

EndRun ==
  /\ Running /\ done = Plan[began]
  /\ sums' = Append(sums, checksum)
  /\ UNCHANGED <<vars, program, dbgCnt, checksum, began, done>>

(* After main the processor spins in halt.                                 *)
Halted ==
  /\ Len(sums) = Len(Plan)
  /\ UNCHANGED pvars

-----------------------------------------------------------------------------
PortInit ==
  /\ program \in {"shaft", "port"}
  /\ Init
  /\ program = "port" => pos = 1       (* There is no lift. *)
  /\ dbgCnt = 0 /\ checksum = 0
  /\ began = 0 /\ done = 0 /\ sums = <<>>

(* With a lift nothing looks at the counter or at the checksum.            *)
ShaftNext == program = "shaft" /\ Next /\ UNCHANGED <<program, port>>

PortNext == program = "port" /\ (BeginRun \/ Step \/ EndRun \/ Halted)

UseNext == ShaftNext \/ PortNext

UseSpec == PortInit /\ [][UseNext]_pvars

(* The fairness of FairSpec; main needs none for what is claimed of it.    *)
FairUseSpec ==
  /\ UseSpec
  /\ WF_pvars(program = "shaft" /\ Period /\ UNCHANGED <<program, port>>)
  /\ WF_pos(program = "shaft" /\ Moving)

-----------------------------------------------------------------------------
(* Each measured run has the checksum that main asks for, whatever the     *)
(* runs before it counted: main never prints FAIL.                         *)
RunsPass ==
  \A k \in DOMAIN sums : Plan[k] = LIFT_STEPS => sums[k] = LIFT_CHECKSUM
=================================================================================
