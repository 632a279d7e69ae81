----------------------------- MODULE LiftController -----------------------------
(***************************************************************************)
(* taclebench/upstream/bench/app/lift/liftlibcontrol.c and liftlibio.c:    *)
(* the controller of a lift, run once per period, and a lift (external)    *)
(* that it moves.  taclebench/ports/lift-write-combine.c resets and runs   *)
(* it several times.                                                       *)
(*                                                                         *)
(* The controller knows the position of the lift only from an impulse      *)
(* sensor, which it counts, and from sensors at the bottom, the top and    *)
(* the place of loading.  Every input is delayed by a majority vote.  The  *)
(* lift coasts when its motor is switched off.                             *)
(*                                                                         *)
(* The programs of the repository set lift_simio_in to 0; the buttons and  *)
(* sensors are those of the controller's own interface, which the README   *)
(* next to it leaves to test drivers and the runtime environment.          *)
(***************************************************************************)
EXTENDS Integers, FiniteSets, Sequences

CONSTANTS
  LevelPos,    (* lift_levelPos: <<0, 58, 115, ...>>, in impulses.         *)
  MotorDelay,  (* Periods before the motor is started: 50.                 *)
  Window,      (* Periods of counting after it is stopped: 50.             *)
  Presses,     (* Sets of buttons that may be pressed in one period.       *)
  Top,         (* Where the lift meets the sensor of the top.              *)
  LoadZone,    (* Where it meets the sensor of the place of loading.       *)
  Low, High,   (* The mechanical ends of the shaft.                        *)
  Coast,       (* Periods a lift may coast without its motor.              *)
  Dwell,       (* Periods it spends at least at one place.                 *)
  MaxTurns     (* Bounds the model: no button is pressed after that many   *)
               (* turns.                                                   *)

Levels == Len(LevelPos)                       (* 14 *)
Sensors == {"IMPULS", "TOP", "BOTTOM", "LOAD"}
Buttons == {"GO_UP", "GO_DOWN", "GO_LOAD", "GO_TOP", "GO_BOTTOM"}
Commands == {"NONE", "TOP", "BOTTOM", "UP", "DOWN", "STOPPED"}

(* Positions are half impulses: the impulse sensor is active at odd ones.  *)
ASSUME LevelAssumption ==
  LevelPos \in Seq(Int) /\ Levels > 1 /\ LevelPos[1] = 0 /\ LevelPos[2] >= 4
ASSUME ShaftAssumption ==
  Low \in Int /\ High \in Int /\ Top \in Int /\ 0 < Top
(* The shaft goes on beyond the sensors for longer than a lift coasts.      *)
ASSUME MarginAssumption ==
  Coast \in Nat /\ Low < -Coast /\ Top + Coast < High
ASSUME PressAssumption == Presses \subseteq SUBSET Buttons

(* The vote needs two equal samples, the counting must outlast the         *)
(* coasting and the delay of the vote, and the last period before the      *)
(* motor starts must see a level that was found after the bottom was.      *)
ASSUME TimeAssumption ==
  /\ MotorDelay \in Nat /\ MotorDelay >= 2
  /\ Dwell \in Nat /\ Dwell >= 2
  /\ Window \in Nat /\ Window > Coast + 1
  /\ MaxTurns \in Nat

VARIABLES
  ctl,          (* The globals of the controller, without their prefix.    *)
  in,           (* lift_ctrl_io_in, as the set of active inputs.           *)
  dly1, dly2,   (* lift_ctrl_dly1 and 2: the samples before.               *)
  pos,          (* The lift: its place,                                    *)
  dwell,        (* the periods it has been there, up to Dwell,             *)
  off,          (* and the periods since its motor ran, up to Coast.       *)
  turns         (* History: changes of direction since the bottom was met. *)

lift == <<pos, dwell, off>>
vars == <<ctl, in, dly1, dly2, lift, turns>>

CtlType ==
  [ motorOn : BOOLEAN, motorUp : BOOLEAN,       (* lift_ctrl_io_out         *)
    cntValid : BOOLEAN, cnt : Int, endCnt : Int,
    level : 0..Levels, loadLevel : 0..Levels,
    loadPending : BOOLEAN, loadSensor : BOOLEAN,
    cmd : Commands, timMotor : 0..MotorDelay, timImp : 0..Window,
    directionUp : BOOLEAN, lastImp : BOOLEAN ]

TypeOK ==
  /\ ctl \in CtlType
  /\ {in, dly1, dly2} \subseteq SUBSET (Sensors \cup Buttons)
  /\ pos \in Low..High /\ dwell \in 0..Dwell /\ off \in 0..Coast
  /\ turns \in Nat

-----------------------------------------------------------------------------
(* liftlibio.c: an input is active if it was in two of three samples.      *)
Voted(in0, in1, in2) == (in0 \cap in1) \cup (in0 \cap in2) \cup (in1 \cap in2)

(* lift_ctrl_init                                                          *)
lift_ctrl_init(c) ==
  [c EXCEPT !.cntValid = FALSE, !.cnt = 0, !.cmd = "NONE", !.timMotor = 0,
            !.timImp = 0, !.directionUp = TRUE, !.lastImp = FALSE,
            !.loadLevel = 0, !.loadPending = FALSE, !.loadSensor = FALSE]

(* reset_controller of lift-write-combine.c: what lift_ctrl_init leaves    *)
(* alone is cleared before it is called.  LiftWriteCombine clears the      *)
(* counter and the checksum.                                               *)
reset_controller(c) ==
  lift_ctrl_init([c EXCEPT !.motorOn = FALSE, !.motorUp = FALSE,
                           !.level = 0, !.endCnt = 0])

(* What a program that has just been loaded starts with.                   *)
Fresh ==
  lift_ctrl_init(
    [ motorOn |-> FALSE, motorUp |-> FALSE, cntValid |-> FALSE, cnt |-> 0,
      endCnt |-> 0, level |-> 0, loadLevel |-> 0, loadPending |-> FALSE,
      loadSensor |-> FALSE, cmd |-> "NONE", timMotor |-> 0, timImp |-> 0,
      directionUp |-> FALSE, lastImp |-> FALSE ])

-----------------------------------------------------------------------------
(* lift_check_level: a level is shown from a quarter of a level below it   *)
(* (no_middle, a mutant: from its place on).                               *)
no_middle == 0

middle == LevelPos[2] \div 4

(* The places above the bottom that the count has passed, without a gap.   *)
Passed(c) ==
  {k \in 1..(Levels - 1) : \A j \in 1..k : c.cnt >= LevelPos[j + 1] - middle}

lift_check_level(c) ==
  [c EXCEPT !.level = IF c.cntValid THEN 1 + Cardinality(Passed(c)) ELSE 0]

(* lift_check_cmd: the first pressed button in this order is obeyed.       *)
Pressed(i) ==
  LET order == <<"GO_UP", "GO_DOWN", "GO_LOAD", "GO_TOP", "GO_BOTTOM">>
      hit   == {k \in DOMAIN order : order[k] \in i}
  IN  IF hit = {} THEN "NONE"
      ELSE order[CHOOSE k \in hit : \A j \in hit : k <= j]

Chosen(c, i) ==
  CASE c.loadPending /\ "BOTTOM" \in i -> "TOP"
    [] ~c.loadPending /\ Pressed(i) = "GO_UP"
         /\ "TOP" \notin i /\ c.level # Levels -> "UP"
    [] ~c.loadPending /\ Pressed(i) = "GO_DOWN"
         /\ "BOTTOM" \notin i /\ c.level # 1 -> "DOWN"
    [] ~c.loadPending /\ Pressed(i) = "GO_LOAD" ->
         IF c.loadLevel # 0 /\ c.level < c.loadLevel THEN "TOP" ELSE "BOTTOM"
    [] ~c.loadPending /\ Pressed(i) = "GO_TOP" /\ "TOP" \notin i -> "TOP"
    [] ~c.loadPending /\ Pressed(i) = "GO_BOTTOM" /\ "BOTTOM" \notin i -> "BOTTOM"
    [] OTHER -> "NONE"

lift_check_cmd(c, i) ==
  LET load == ~c.loadPending /\ Pressed(i) = "GO_LOAD"
      cmd  == Chosen(c, i)
  IN  [c EXCEPT !.cmd = cmd,
                !.loadPending = @ \/ load,
                !.loadSensor = @ /\ ~load,
                !.timMotor = IF cmd # "NONE" THEN MotorDelay ELSE @]

(* A mutant: nothing is counted once the motor is off.                     *)
CountsOnlyDriven(c) == c.motorOn

(* The impulses of a lift that coasts are counted too.                     *)
Counts(c) == c.motorOn \/ c.timImp > 0

(* A mutant: the window is counted down without end.                       *)
do_impulse_unguarded(c, i) ==
  [c EXCEPT !.lastImp = "IMPULS" \in i, !.timImp = @ - 1]

lift_do_impulse(c, i) ==
  LET edge   == "IMPULS" \in i /\ ~c.lastImp
      step   == IF ~(edge /\ Counts(c)) THEN 0 ELSE IF c.directionUp THEN 1 ELSE -1
      bottom == "BOTTOM" \in i
  IN  [c EXCEPT !.cnt = IF bottom THEN 0 ELSE @ + step,
                !.cntValid = @ \/ bottom,
                !.lastImp = "IMPULS" \in i,
                !.timImp = IF @ > 0 THEN @ - 1 ELSE 0,
                !.cmd = IF c.timImp = 1 THEN "NONE" ELSE @]

(* The level a command for one level aims at, 0 for other commands.        *)
NextLevel(c) ==
  CASE c.cmd = "UP" -> c.level + 1 [] c.cmd = "DOWN" -> c.level - 1 [] OTHER -> 0

EndCnt(c) ==
  IF ~c.cntValid THEN (IF c.cmd = "UP" THEN LevelPos[2] ELSE -LevelPos[2])
  ELSE IF NextLevel(c) \in 1..Levels THEN LevelPos[NextLevel(c)]
  ELSE c.cnt

lift_wait_for_motor_start(c) ==
  LET up == c.cmd \in {"UP", "TOP"}
  IN  [c EXCEPT !.timMotor = @ - 1, !.directionUp = up, !.motorUp = up,
                !.cnt = IF c.cntValid THEN @ ELSE 0,
                !.endCnt = EndCnt(c)]

-----------------------------------------------------------------------------
(* lift_check_run: whether the motor has to run ...                        *)
AtLoad(c, i) ==
  /\ c.loadPending
  /\ \/ c.cmd = "TOP" /\ "LOAD" \in i
     \/ c.cmd = "BOTTOM" /\ c.loadSensor /\ "LOAD" \notin i

(* A mutant: the sensor of the top is not asked on the way to a level.     *)
RunsBlindly(c, i) ==
  \/ c.cmd = "UP" /\ c.cnt < c.endCnt - 1
  \/ c.cmd = "DOWN" /\ c.cnt > c.endCnt + 1 /\ "BOTTOM" \notin i
  \/ c.cmd = "TOP" /\ ~AtLoad(c, i) /\ "TOP" \notin i
  \/ c.cmd = "BOTTOM" /\ ~AtLoad(c, i) /\ "BOTTOM" \notin i

Runs(c, i) ==
  \/ c.cmd = "UP" /\ c.cnt < c.endCnt - 1 /\ "TOP" \notin i
  \/ c.cmd = "DOWN" /\ c.cnt > c.endCnt + 1 /\ "BOTTOM" \notin i
  \/ c.cmd = "TOP" /\ ~AtLoad(c, i) /\ "TOP" \notin i
  \/ c.cmd = "BOTTOM" /\ ~AtLoad(c, i) /\ "BOTTOM" \notin i

(* ... and what it remembers of the place of loading.                      *)
Remember(c, i) ==
  [c EXCEPT
     !.loadLevel = IF AtLoad(c, i) THEN c.level ELSE @,
     !.loadPending = @ /\ ~AtLoad(c, i) /\ ~(c.cmd = "TOP" /\ "TOP" \in i),
     !.loadSensor = IF c.loadPending /\ c.cmd = "BOTTOM" THEN "LOAD" \in i ELSE @]

(* A mutant: the motor is switched off and the command is over at once.    *)
do_cmd_forgetting(c, i) ==
  IF c.timMotor > 0 THEN lift_wait_for_motor_start(c)
  ELSE [Remember(c, i) EXCEPT
          !.motorOn = Runs(c, i),
          !.cmd = IF c.motorOn /\ ~Runs(c, i) THEN "NONE" ELSE @]

lift_do_cmd(c, i) ==
  IF c.timMotor > 0 THEN lift_wait_for_motor_start(c)
  ELSE [Remember(c, i) EXCEPT
          !.motorOn = Runs(c, i),
          !.cmd = IF c.motorOn /\ ~Runs(c, i) THEN "STOPPED" ELSE @,
          !.timImp = IF c.motorOn /\ ~Runs(c, i) THEN Window ELSE @]

(* lift_ctrl_loop.  What it does next, LED 13 and lift_dbgCnt, is in       *)
(* LiftWriteCombine: no handler above reads them.                          *)
lift_ctrl_loop(c, i) ==
  lift_check_level(
    IF c.cmd = "NONE" THEN lift_check_cmd(c, i)
    ELSE lift_do_cmd(lift_do_impulse(c, i), i))

-----------------------------------------------------------------------------
Init ==
  /\ ctl = Fresh
  /\ in = {} /\ dly1 = {} /\ dly2 = {}
  /\ pos \in 0..Top /\ dwell = Dwell /\ off = Coast
  /\ turns = 0

SensedAt(p) ==
  {s \in Sensors : \/ s = "IMPULS" /\ p % 2 = 1
                   \/ s = "BOTTOM" /\ p <= 0
                   \/ s = "TOP" /\ p >= Top
                   \/ s = "LOAD" /\ p \in LoadZone}

(* The lift (external) moves under its motor, coasts after it, and stands. *)
Stays ==
  /\ dwell' = IF dwell < Dwell THEN dwell + 1 ELSE dwell
  /\ UNCHANGED pos

Moves ==
  /\ dwell = Dwell
  /\ ctl.motorOn \/ off < Coast
  /\ pos' = IF ctl.motorUp THEN pos + 1 ELSE pos - 1
  /\ pos' \in Low..High
  /\ dwell' = 1

Lift ==
  /\ Stays \/ Moves
  /\ off' = IF ctl.motorOn THEN 0 ELSE IF off < Coast THEN off + 1 ELSE off

(* lift_controller, once per period: lift_ctrl_get_vals, lift_ctrl_loop,   *)
(* lift_ctrl_set_vals (which shows the outputs to the lift).               *)
Period ==
  /\ Lift
  /\ \E press \in Presses :
       /\ press # {} => turns < MaxTurns
       /\ LET in0 == SensedAt(pos') \cup press
          IN  /\ in' = Voted(in0, dly1, dly2)
              /\ dly2' = dly1
              /\ dly1' = in0
  /\ ctl' = lift_ctrl_loop(ctl, in')
  /\ turns' = IF "BOTTOM" \in in' THEN 0
              ELSE IF ctl'.directionUp # ctl.directionUp THEN turns + 1
              ELSE turns

(* main runs the controller again; it does so while the lift stands.       *)
Reset ==
  /\ ~ctl.motorOn /\ off = Coast
  /\ ctl' = reset_controller(ctl)
  /\ in' = {} /\ dly1' = {} /\ dly2' = {}
  /\ turns' = 0
  /\ UNCHANGED lift

(* A driven lift that has been long enough at one place goes on.           *)
Moving == ctl.motorOn /\ Moves

Next == Period \/ Reset

Spec == Init /\ [][Next]_vars

(* Periods come, and a lift whose motor runs moves: only Period changes    *)
(* pos.                                                                    *)
FairSpec == Spec /\ WF_vars(Period) /\ WF_pos(Moving)

-----------------------------------------------------------------------------
(* The controller never drives the lift against an end of the shaft: the   *)
(* delay of the vote and the coasting fit between sensor and end.          *)
NeverAtTheEnd == pos \in (Low + 1)..(High - 1)

(* The motor is not reversed while it runs, nor while the lift coasts.     *)
DirectionHeld ==
  [][ (ctl.motorOn \/ off < Coast) => ctl'.motorUp = ctl.motorUp ]_vars

(* The count is the place of the lift whenever it stands and no command is *)
(* under way, whatever was counted while it coasted and reset at the       *)
(* bottom.  A turn while the impulse sensor is active goes unnoticed, so   *)
(* each turn since the bottom was met may add half an impulse to the error. *)
CountIsPlace ==
  ctl.cmd = "NONE" /\ ctl.cntValid =>
    \/ ctl.cnt = 0 /\ pos <= 0
    \/ 2 * ctl.cnt - pos \in -(1 + turns)..(1 + turns)

(* A command to the next level or to the top is over some time, and the    *)
(* next button is obeyed.  (EveryCommandEnds: not so for BOTTOM.)          *)
CommandsEnd == (ctl.cmd \in {"UP", "DOWN", "TOP"}) ~> (ctl.cmd = "NONE")

(* The comment of lift_cmd: "cmd keeps the value of the command until the   *)
(* command is finished."                                                   *)
EveryCommandEnds == (ctl.cmd # "NONE") ~> (ctl.cmd = "NONE")
=================================================================================
