-------------------------- MODULE LiftController_proof --------------------------
(***************************************************************************)
(* Proofs about LiftController, for every shaft, every delay and every     *)
(* number of levels, and about the checksum of LiftWriteCombine.           *)
(***************************************************************************)
EXTENDS LiftWriteCombine, FiniteSetTheorems, SequenceTheorems, TLAPS

USE LevelAssumption, ShaftAssumption, MarginAssumption, PressAssumption, TimeAssumption

Inputs == SUBSET (Sensors \cup Buttons)

(* The life of a command: the motor waits for the lift to stand, runs, and *)
(* the window of counting outlasts the coasting.                           *)
Phase ==
  /\ ctl.cmd = "NONE" =>
       /\ ~ctl.motorOn /\ off = Coast
       /\ ctl.timImp = 0 /\ ctl.timMotor = 0
  /\ ctl.cmd = "STOPPED" =>
       /\ ~ctl.motorOn /\ ctl.timMotor = 0 /\ ctl.timImp > 0
       /\ off = Coast \/ off + ctl.timImp >= Window
  /\ ctl.cmd \notin {"NONE", "STOPPED"} =>
       /\ ctl.timImp = 0
       /\ ctl.motorOn \/ off = Coast
       /\ ctl.timMotor > 0 => ~ctl.motorOn
       /\ ctl.timMotor = 0 => (ctl.motorUp <=> ctl.cmd \in {"UP", "TOP"})

(* How far the lift is beyond the sensor it moves towards: driven, it was  *)
(* seen there only now; without its motor, it coasts a place per period.   *)
Place ==
  /\ ~ctl.motorUp /\ ctl.motorOn  => pos >= 0 /\ (pos = 0 => dwell = 1)
  /\ ~ctl.motorUp /\ ~ctl.motorOn => pos >= -off
  /\ ctl.motorUp /\ ctl.motorOn   => pos <= Top /\ (pos = Top => dwell = 1)
  /\ ctl.motorUp /\ ~ctl.motorOn  => pos <= Top + off
  /\ -Coast <= pos /\ pos <= Top + Coast

(* Under a command the last sample is of where the lift is.                *)
Aware == ctl.cmd # "NONE" => SensedAt(pos) \subseteq dly1

(* A motor that is on after a period had a command before it, from a lift  *)
(* that was driven or stood, and does not see the sensor it goes to.       *)
Driven(i) ==
  ctl'.motorOn =>
    /\ ctl.cmd # "NONE" /\ (ctl.motorOn \/ off = Coast)
    /\ ctl'.motorUp => "TOP" \notin i
    /\ ~ctl'.motorUp => "BOTTOM" \notin i

IInv == TypeOK /\ Phase

(* The samples that the vote looks back at were taken where the lift is,   *)
(* or nothing was sampled since the reset and there is no command.         *)
Sampled ==
  /\ \/ dly1 \cap Sensors = SensedAt(pos)
     \/ dly1 = {} /\ dly2 = {} /\ ctl.cmd = "NONE"
  /\ dwell # 1 /\ ctl.cmd # "NONE" => dly2 \cap Sensors = SensedAt(pos)

(* A lift that has just moved is driven or in the window of counting.      *)
Standing ==
  /\ dwell \in 1..Dwell
  /\ dwell = 1 => \/ ctl.motorOn \/ ctl.cmd = "STOPPED"
                  \/ ctl.cmd = "NONE" /\ ~ctl.cntValid

(* Impulses are counted in the direction in which the motor is switched.   *)
Heading ==
  ctl.cntValid \/ (ctl.cmd # "NONE" /\ ctl.timMotor # MotorDelay) =>
    ctl.directionUp = ctl.motorUp

(* The place up to which impulses are counted: the vote is a period late.  *)
CountedTo ==
  IF dwell = 1 THEN (IF ctl.motorUp THEN pos - 1 ELSE pos + 1) ELSE pos

(* The count at the place p after k turns: the rising edge of an odd place *)
(* is counted on the way up when it is reached, on the way down as well.   *)
Fits(cnt, p, up, k) ==
  IF p <= 0 THEN cnt = 0
  ELSE IF up THEN 2 * cnt - p - (p % 2) \in -k..k
  ELSE 2 * cnt - p + (p % 2) \in (1 - k)..(k + 1)

Counting ==
  ctl.cntValid =>
    /\ ctl.lastImp <=> CountedTo % 2 = 1
    /\ Fits(ctl.cnt, CountedTo, ctl.directionUp, turns)

CInv == IInv /\ Sampled /\ Standing /\ Heading /\ Counting

-----------------------------------------------------------------------------
LEMMA LevelsFact ==
  Levels \in Nat /\ Levels > 1 /\ \A k \in 1..Levels : LevelPos[k] \in Int
  BY DEF Levels

LEMMA InitType ==
  ASSUME NEW c \in CtlType
  PROVE  lift_ctrl_init(c) \in CtlType
  <1>1. 0 \in 0..Levels /\ 0 \in 0..MotorDelay /\ 0 \in 0..Window /\ 0 \in Int
    BY LevelsFact
  <1> QED BY <1>1 DEF lift_ctrl_init, CtlType, Commands

(* A record is what its fields are.                                        *)
LEMMA CtlFields ==
  ASSUME NEW c \in CtlType, NEW d \in CtlType,
         c.motorOn = d.motorOn, c.motorUp = d.motorUp,
         c.cntValid = d.cntValid, c.cnt = d.cnt, c.endCnt = d.endCnt,
         c.level = d.level, c.loadLevel = d.loadLevel,
         c.loadPending = d.loadPending, c.loadSensor = d.loadSensor,
         c.cmd = d.cmd, c.timMotor = d.timMotor, c.timImp = d.timImp,
         c.directionUp = d.directionUp, c.lastImp = d.lastImp
  PROVE  c = d
  <1> DEFINE Rec(x) ==
        [ motorOn |-> x.motorOn, motorUp |-> x.motorUp, cntValid |-> x.cntValid,
          cnt |-> x.cnt, endCnt |-> x.endCnt, level |-> x.level,
          loadLevel |-> x.loadLevel, loadPending |-> x.loadPending,
          loadSensor |-> x.loadSensor, cmd |-> x.cmd, timMotor |-> x.timMotor,
          timImp |-> x.timImp, directionUp |-> x.directionUp, lastImp |-> x.lastImp ]
  <1>1. c = Rec(c)
    BY Zenon DEF CtlType
  <1>2. d = Rec(d)
    BY Zenon DEF CtlType
  <1>3. Rec(c) = Rec(d)
    OBVIOUS
  <1> QED BY <1>1, <1>2, <1>3

LEMMA FreshType == Fresh \in CtlType
  <1> DEFINE zero ==
        [ motorOn |-> FALSE, motorUp |-> FALSE, cntValid |-> FALSE, cnt |-> 0,
          endCnt |-> 0, level |-> 0, loadLevel |-> 0, loadPending |-> FALSE,
          loadSensor |-> FALSE, cmd |-> "NONE", timMotor |-> 0, timImp |-> 0,
          directionUp |-> FALSE, lastImp |-> FALSE ]
  <1>1. 0 \in 0..Levels /\ 0 \in 0..MotorDelay /\ 0 \in 0..Window /\ 0 \in Int
    BY LevelsFact
  <1>2. zero \in CtlType
    BY <1>1 DEF CtlType, Commands
  <1>3. Fresh = lift_ctrl_init(zero)
    BY DEF Fresh
  <1> HIDE DEF zero
  <1> QED BY <1>2, <1>3, InitType

LEMMA ResetIsFresh ==
  ASSUME NEW c \in CtlType
  PROVE  reset_controller(c) = Fresh
  <1> DEFINE d == [c EXCEPT !.motorOn = FALSE, !.motorUp = FALSE,
                            !.level = 0, !.endCnt = 0]
  <1>1. 0 \in 0..Levels /\ 0 \in Int
    BY LevelsFact
  <1>2. d \in CtlType
    BY <1>1 DEF CtlType
  <1>3. lift_ctrl_init(d) \in CtlType
    BY <1>2, InitType
  <1>4. Fresh \in CtlType
    BY FreshType
  <1>5. reset_controller(c) = lift_ctrl_init(d)
    BY DEF reset_controller
  <1>6. lift_ctrl_init(d) = Fresh
    BY <1>3, <1>4, CtlFields DEF Fresh, lift_ctrl_init, CtlType
  <1> QED BY <1>5, <1>6

LEMMA CheckLevelFact ==
  ASSUME NEW c \in CtlType
  PROVE  \E l \in 0..Levels : lift_check_level(c) = [c EXCEPT !.level = l]
  <1> DEFINE last == Levels - 1
  <1> DEFINE places == 1..last
  <1>0. last \in Int /\ 1 <= last /\ 1 \in Int
    BY LevelsFact
  <1> HIDE DEF last
  <1>1. IsFiniteSet(places) /\ Cardinality(places) = last
    <2>1. /\ IsFiniteSet(places)
          /\ Cardinality(places) = IF 1 > last THEN 0 ELSE last - 1 + 1
      BY <1>0, FS_Interval, Zenon
    <2> QED BY <1>0, <2>1
  <1>2. Passed(c) \in SUBSET places
    BY DEF Passed, last
  <1> HIDE DEF places
  <1>2a. IsFiniteSet(Passed(c)) /\ Cardinality(Passed(c)) <= last
    BY <1>1, <1>2, FS_Subset
  <1>2b. Cardinality(Passed(c)) \in Nat
    BY <1>2a, FS_CardinalityType
  <1>3. (IF c.cntValid THEN 1 + Cardinality(Passed(c)) ELSE 0) \in 0..Levels
    BY <1>2a, <1>2b, LevelsFact DEF last
  <1> QED BY <1>3 DEF lift_check_level

(* Showing the level changes nothing else.                                 *)
LEMMA CheckLevelFields ==
  ASSUME NEW c \in CtlType
  PROVE  LET d == lift_check_level(c)
         IN  /\ d \in CtlType
             /\ d.motorOn = c.motorOn /\ d.motorUp = c.motorUp /\ d.cmd = c.cmd
             /\ d.timMotor = c.timMotor /\ d.timImp = c.timImp
  <1>1. PICK l \in 0..Levels : lift_check_level(c) = [c EXCEPT !.level = l]
    BY CheckLevelFact
  <1> QED BY <1>1 DEF CtlType

(* A button only starts a command, and the delay before its motor.         *)
LEMMA CheckCmdFields ==
  ASSUME NEW c \in CtlType, NEW i \in Inputs
  PROVE  LET d == lift_check_cmd(c, i)
         IN  /\ d \in CtlType
             /\ d.motorOn = c.motorOn /\ d.motorUp = c.motorUp
             /\ d.timImp = c.timImp
             /\ d.cmd # "STOPPED"
             /\ d.timMotor = IF d.cmd # "NONE" THEN MotorDelay ELSE c.timMotor
  <1> DEFINE cmd == Chosen(c, i)
             tim == IF cmd # "NONE" THEN MotorDelay ELSE c.timMotor
             pending == c.loadPending \/ (~c.loadPending /\ Pressed(i) = "GO_LOAD")
             sensor == c.loadSensor /\ ~(~c.loadPending /\ Pressed(i) = "GO_LOAD")
  <1>1. cmd \in {"NONE", "TOP", "BOTTOM", "UP", "DOWN"}
    BY DEF Chosen
  <1>2. tim \in 0..MotorDelay
    BY DEF CtlType
  <1>3. pending \in BOOLEAN /\ sensor \in BOOLEAN
    OBVIOUS
  <1>4. lift_check_cmd(c, i) =
          [c EXCEPT !.cmd = cmd, !.loadPending = pending,
                    !.loadSensor = sensor, !.timMotor = tim]
    BY DEF lift_check_cmd, CtlType
  <1> HIDE DEF cmd, pending, sensor
  <1> QED BY <1>1, <1>2, <1>3, <1>4 DEF CtlType, Commands

(* Counting ends a command when its window is over.                        *)
LEMMA DoImpulseFields ==
  ASSUME NEW c \in CtlType, NEW i \in Inputs
  PROVE  LET d == lift_do_impulse(c, i)
         IN  /\ d \in CtlType
             /\ d.motorOn = c.motorOn /\ d.motorUp = c.motorUp
             /\ d.timMotor = c.timMotor
             /\ d.timImp = IF c.timImp > 0 THEN c.timImp - 1 ELSE 0
             /\ d.cmd = IF c.timImp = 1 THEN "NONE" ELSE c.cmd
  <1> DEFINE step == IF ~(("IMPULS" \in i /\ ~c.lastImp) /\ Counts(c)) THEN 0
                     ELSE IF c.directionUp THEN 1 ELSE -1
             cnt   == IF "BOTTOM" \in i THEN 0 ELSE c.cnt + step
             valid == c.cntValid \/ "BOTTOM" \in i
             imp   == "IMPULS" \in i
             tim   == IF c.timImp > 0 THEN c.timImp - 1 ELSE 0
             cmd   == IF c.timImp = 1 THEN "NONE" ELSE c.cmd
  <1>1. step \in Int
    OBVIOUS
  <1>2. cnt \in Int
    BY <1>1 DEF CtlType
  <1>3. valid \in BOOLEAN /\ imp \in BOOLEAN
    OBVIOUS
  <1>4. tim \in 0..Window
    BY DEF CtlType
  <1>5. cmd \in Commands
    BY DEF CtlType, Commands
  <1>6. lift_do_impulse(c, i) =
          [c EXCEPT !.cnt = cnt, !.cntValid = valid, !.lastImp = imp,
                    !.timImp = tim, !.cmd = cmd]
    BY DEF lift_do_impulse, CtlType
  <1> HIDE DEF cnt, valid, imp
  <1> QED BY <1>2, <1>3, <1>4, <1>5, <1>6 DEF CtlType

(* While the motor waits, only its direction is set.                       *)
LEMMA WaitFields ==
  ASSUME NEW c \in CtlType, c.timMotor > 0
  PROVE  LET d == lift_wait_for_motor_start(c)
         IN  /\ d \in CtlType
             /\ d.motorOn = c.motorOn /\ d.cmd = c.cmd /\ d.timImp = c.timImp
             /\ d.timMotor = c.timMotor - 1
             /\ d.motorUp <=> c.cmd \in {"UP", "TOP"}
  <1> DEFINE up  == c.cmd \in {"UP", "TOP"}
             cnt == IF c.cntValid THEN c.cnt ELSE 0
  <1>1. EndCnt(c) \in Int
    <2>1. LevelPos[2] \in Int
      BY LevelsFact
    <2>2. NextLevel(c) \in 1..Levels => LevelPos[NextLevel(c)] \in Int
      BY LevelsFact
    <2> QED BY <2>1, <2>2 DEF EndCnt, CtlType
  <1>2. up \in BOOLEAN /\ cnt \in Int /\ c.timMotor - 1 \in 0..MotorDelay
    BY DEF CtlType
  <1>3. lift_wait_for_motor_start(c) =
          [c EXCEPT !.timMotor = c.timMotor - 1, !.directionUp = up,
                    !.motorUp = up, !.cnt = cnt, !.endCnt = EndCnt(c)]
    BY DEF lift_wait_for_motor_start, CtlType
  <1> DEFINE d == lift_wait_for_motor_start(c)
  <1> HIDE DEF up, cnt
  <1>4. /\ d \in CtlType
        /\ d.motorOn = c.motorOn /\ d.cmd = c.cmd /\ d.timImp = c.timImp
        /\ d.timMotor = c.timMotor - 1 /\ d.motorUp = up
    BY <1>1, <1>2, <1>3 DEF CtlType
  <1>5. d.motorUp <=> c.cmd \in {"UP", "TOP"}
    BY <1>4, Zenon DEF up
  <1> QED BY <1>4, <1>5, Zenon

(* When it does not wait, the direction stays; a motor that stops ends the *)
(* command and opens the window.                                           *)
LEMMA RunFields ==
  ASSUME NEW c \in CtlType, NEW i \in Inputs, c.timMotor = 0
  PROVE  LET d == lift_do_cmd(c, i)
         IN  /\ d \in CtlType
             /\ d.motorUp = c.motorUp /\ d.timMotor = 0
             /\ d.motorOn => c.cmd \notin {"NONE", "STOPPED"}
             /\ d.motorOn /\ c.cmd \in {"UP", "TOP"} => "TOP" \notin i
             /\ d.motorOn /\ c.cmd \in {"DOWN", "BOTTOM"} => "BOTTOM" \notin i
             /\ IF c.motorOn /\ ~d.motorOn
                THEN d.cmd = "STOPPED" /\ d.timImp = Window
                ELSE d.cmd = c.cmd /\ d.timImp = c.timImp
  <1> DEFINE run   == Runs(c, i)
             stops == c.motorOn /\ ~run
             r     == Remember(c, i)
             level == IF AtLoad(c, i) THEN c.level ELSE c.loadLevel
             pending == c.loadPending /\ ~AtLoad(c, i)
                          /\ ~(c.cmd = "TOP" /\ "TOP" \in i)
             sensor == IF c.loadPending /\ c.cmd = "BOTTOM" THEN "LOAD" \in i
                       ELSE c.loadSensor
  <1>1. run \in BOOLEAN
    BY Zenon DEF Runs
  <1>2. /\ run => c.cmd \notin {"NONE", "STOPPED"}
        /\ run /\ c.cmd \in {"UP", "TOP"} => "TOP" \notin i
        /\ run /\ c.cmd \in {"DOWN", "BOTTOM"} => "BOTTOM" \notin i
    BY DEF Runs
  <1>3. r \in CtlType /\ r.motorUp = c.motorUp /\ r.timMotor = 0
          /\ r.cmd = c.cmd /\ r.timImp = c.timImp
    <2>1. level \in 0..Levels
      BY DEF CtlType
    <2>2. pending \in BOOLEAN
      OBVIOUS
    <2>3. c.loadSensor \in BOOLEAN
      BY DEF CtlType
    <2>4. sensor \in BOOLEAN
      <3>1. ("LOAD" \in i) \in BOOLEAN
        OBVIOUS
      <3>2. sensor = ("LOAD" \in i) \/ sensor = c.loadSensor
        BY Zenon
      <3> QED BY <2>3, <3>1, <3>2, Zenon
    <2>5. r = [c EXCEPT !.loadLevel = level, !.loadPending = pending,
                        !.loadSensor = sensor]
      BY DEF Remember, CtlType
    <2> HIDE DEF r, level, pending, sensor
    <2> QED BY <2>1, <2>2, <2>4, <2>5 DEF CtlType
  <1>4. lift_do_cmd(c, i) =
          [r EXCEPT !.motorOn = run,
                    !.cmd = IF stops THEN "STOPPED" ELSE r.cmd,
                    !.timImp = IF stops THEN Window ELSE r.timImp]
    BY <1>3 DEF lift_do_cmd, CtlType
  <1> HIDE DEF run, r
  <1>5. Window \in 0..Window
    OBVIOUS
  <1> QED BY <1>1, <1>2, <1>3, <1>4, <1>5 DEF CtlType, Commands

-----------------------------------------------------------------------------
LEMMA InitIInv == Init => IInv
  <1> SUFFICES ASSUME Init PROVE IInv
    OBVIOUS
  <1>1. ctl = Fresh /\ Fresh \in CtlType
    BY FreshType DEF Init
  <1>2. /\ Fresh.cmd = "NONE" /\ Fresh.motorOn = FALSE
        /\ Fresh.timImp = 0 /\ Fresh.timMotor = 0
    BY DEF Fresh, lift_ctrl_init
  <1>3. TypeOK
    BY <1>1 DEF Init, TypeOK
  <1>4. Phase
    BY <1>1, <1>2 DEF Init, Phase
  <1> QED BY <1>3, <1>4 DEF IInv

(* The sensors are inputs, and the vote invents none.                      *)
LEMMA InputsVoted ==
  ASSUME TypeOK, NEW press \in Presses, NEW p
  PROVE  /\ SensedAt(p) \cup press \in Inputs
         /\ Voted(SensedAt(p) \cup press, dly1, dly2) \in Inputs
  BY DEF TypeOK, SensedAt, Voted, Inputs

(* One period of the controller from a state of the invariant, while the   *)
(* lift coasts on or comes to rest.                                        *)
LEMMA LoopPhase ==
  ASSUME IInv, NEW i \in Inputs, ctl' = lift_ctrl_loop(ctl, i),
         off' = IF ctl.motorOn THEN 0 ELSE IF off < Coast THEN off + 1 ELSE off
  PROVE  /\ ctl' \in CtlType /\ off' \in 0..Coast
         /\ Phase'
         /\ ctl.motorOn \/ off < Coast => ctl'.motorUp = ctl.motorUp
         /\ Driven(i)
  <1>1. ctl \in CtlType /\ off \in 0..Coast
    BY DEF IInv, TypeOK
  <1>2. off' \in 0..Coast
    BY <1>1
  <1>3. CASE ctl.cmd = "NONE"
    <2> DEFINE c == lift_check_cmd(ctl, i)
    <2>1. ctl' = lift_check_level(c)
      BY <1>3 DEF lift_ctrl_loop
    <2>2. /\ c \in CtlType /\ c.motorOn = ctl.motorOn /\ c.motorUp = ctl.motorUp
          /\ c.timImp = ctl.timImp /\ c.cmd # "STOPPED"
          /\ c.timMotor = IF c.cmd # "NONE" THEN MotorDelay ELSE ctl.timMotor
      BY <1>1, CheckCmdFields
    <2> HIDE DEF c
    <2>3. /\ ctl' \in CtlType
          /\ ctl'.motorOn = c.motorOn /\ ctl'.motorUp = c.motorUp
          /\ ctl'.cmd = c.cmd /\ ctl'.timMotor = c.timMotor
          /\ ctl'.timImp = c.timImp
      BY <2>1, <2>2, CheckLevelFields
    <2>4. ~ctl.motorOn /\ off = Coast /\ ctl.timImp = 0 /\ ctl.timMotor = 0
      BY <1>3 DEF IInv, Phase
    <2>5. off' = Coast
      BY <1>1, <2>4
    <2>6. Phase'
      BY <2>2, <2>3, <2>4, <2>5 DEF Phase
    <2>7. Driven(i)
      BY <2>2, <2>3, <2>4 DEF Driven
    <2> QED BY <1>2, <2>2, <2>3, <2>6, <2>7
  <1>4. CASE ctl.cmd # "NONE"
    <2> DEFINE c == lift_do_impulse(ctl, i)
               d == lift_do_cmd(c, i)
    <2>1. ctl' = lift_check_level(d)
      BY <1>4 DEF lift_ctrl_loop
    <2>2. /\ c \in CtlType
          /\ c.motorOn = ctl.motorOn /\ c.motorUp = ctl.motorUp
          /\ c.timMotor = ctl.timMotor
          /\ c.timImp = IF ctl.timImp > 0 THEN ctl.timImp - 1 ELSE 0
          /\ c.cmd = IF ctl.timImp = 1 THEN "NONE" ELSE ctl.cmd
      BY <1>1, DoImpulseFields
    <2>3. /\ ctl.timImp \in Nat /\ ctl.timMotor \in Nat
          /\ ctl.motorOn \in BOOLEAN /\ off \in Nat /\ off <= Coast
          /\ c.motorOn \in BOOLEAN
      BY <1>1, <2>2 DEF CtlType
    <2>4. CASE ctl.timMotor > 0
      <3>1. /\ ctl.cmd # "STOPPED" /\ ctl.timImp = 0
            /\ ~ctl.motorOn /\ off = Coast
        BY <1>4, <2>3, <2>4 DEF IInv, Phase
      <3>2. d = lift_wait_for_motor_start(c)
        BY <2>2, <2>4 DEF lift_do_cmd
      <3>3. /\ d \in CtlType /\ d.motorOn = c.motorOn /\ d.cmd = c.cmd
            /\ d.timImp = c.timImp /\ d.timMotor = c.timMotor - 1
            /\ d.motorUp <=> c.cmd \in {"UP", "TOP"}
        BY <2>2, <2>4, <3>2, WaitFields
      <3> HIDE DEF c, d
      <3>4. /\ ctl' \in CtlType /\ ctl'.motorOn = d.motorOn
            /\ ctl'.motorUp = d.motorUp
            /\ ctl'.cmd = d.cmd /\ ctl'.timMotor = d.timMotor
            /\ ctl'.timImp = d.timImp
        BY <2>1, <3>3, CheckLevelFields
      <3>5. off' = Coast
        BY <3>1
      <3>6. Phase'
        BY <1>4, <2>2, <3>1, <3>3, <3>4, <3>5 DEF Phase
      <3>7. Driven(i)
        BY <2>2, <3>1, <3>3, <3>4 DEF Driven
      <3> QED BY <1>2, <3>1, <3>4, <3>6, <3>7
    <2>5. CASE ctl.timMotor = 0
      <3>1. /\ d \in CtlType
            /\ d.motorUp = c.motorUp /\ d.timMotor = 0
            /\ d.motorOn => c.cmd \notin {"NONE", "STOPPED"}
            /\ d.motorOn /\ c.cmd \in {"UP", "TOP"} => "TOP" \notin i
            /\ d.motorOn /\ c.cmd \in {"DOWN", "BOTTOM"} => "BOTTOM" \notin i
            /\ IF c.motorOn /\ ~d.motorOn
               THEN d.cmd = "STOPPED" /\ d.timImp = Window
               ELSE d.cmd = c.cmd /\ d.timImp = c.timImp
        BY <2>2, <2>5, RunFields
      <3> HIDE DEF c, d
      <3>2. /\ ctl' \in CtlType
            /\ ctl'.motorOn = d.motorOn /\ ctl'.motorUp = d.motorUp
            /\ ctl'.cmd = d.cmd /\ ctl'.timMotor = d.timMotor
            /\ ctl'.timImp = d.timImp
        BY <2>1, <3>1, CheckLevelFields
      <3>3. CASE ctl.cmd = "STOPPED"
        <4>1. /\ ~ctl.motorOn /\ ctl.timImp > 0
              /\ off = Coast \/ off + ctl.timImp >= Window
          BY <3>3 DEF IInv, Phase
        <4>2. /\ ~ctl'.motorOn /\ ctl'.cmd = c.cmd
              /\ ctl'.timImp = ctl.timImp - 1 /\ ctl'.timMotor = 0
          BY <2>2, <2>3, <3>1, <3>2, <3>3, <4>1
        <4>3. ctl.timImp = 1 => off' = Coast
          BY <2>3, <4>1
        <4>4. ctl.timImp # 1 => off' = Coast \/ off' + ctl'.timImp >= Window
          BY <2>3, <4>1, <4>2
        <4>5. Phase'
          BY <2>2, <2>3, <3>3, <4>1, <4>2, <4>3, <4>4 DEF Phase
        <4>6. Driven(i)
          BY <4>2 DEF Driven
        <4> QED BY <1>2, <2>2, <3>1, <3>2, <4>5, <4>6
      <3>4. CASE ctl.cmd # "STOPPED"
        <4>1. ctl.timImp = 0 /\ (ctl.motorOn \/ off = Coast)
          BY <1>4, <3>4 DEF IInv, Phase
        <4>2. c.cmd = ctl.cmd /\ c.timImp = 0
          BY <2>2, <4>1
        <4>2a. Driven(i)
          <5> SUFFICES ASSUME ctl'.motorOn
                       PROVE  /\ ctl.cmd # "NONE" /\ (ctl.motorOn \/ off = Coast)
                              /\ ctl'.motorUp => "TOP" \notin i
                              /\ ~ctl'.motorUp => "BOTTOM" \notin i
            BY DEF Driven
          <5>1. ctl'.motorUp = ctl.motorUp /\ d.motorOn
            BY <2>2, <3>1, <3>2
          <5>2. ctl.cmd \in {"UP", "DOWN", "TOP", "BOTTOM"}
            BY <1>1, <1>4, <3>4 DEF CtlType, Commands
          <5>3. ctl.motorUp <=> ctl.cmd \in {"UP", "TOP"}
            BY <1>4, <2>5, <3>4 DEF IInv, Phase
          <5>4. ctl'.motorUp => "TOP" \notin i
            BY <3>1, <4>2, <5>1, <5>3, Zenon
          <5>5. ~ctl'.motorUp => "BOTTOM" \notin i
            BY <3>1, <4>2, <5>1, <5>2, <5>3, Zenon
          <5> QED BY <1>4, <4>1, <5>4, <5>5
        <4>3. CASE ctl.motorOn /\ ~d.motorOn
          <5>1. /\ ctl'.cmd = "STOPPED" /\ ctl'.timImp = Window
                /\ ctl'.timMotor = 0 /\ ~ctl'.motorOn
            BY <2>2, <3>1, <3>2, <4>3
          <5>2. off' = 0
            BY <4>3
          <5>3. Phase'
            BY <5>1, <5>2 DEF Phase
          <5> QED BY <1>2, <2>2, <3>1, <3>2, <4>2a, <5>3
        <4>4. CASE ~ctl.motorOn \/ d.motorOn
          <5>1. /\ ctl'.cmd = ctl.cmd /\ ctl'.timImp = 0
                /\ ctl'.timMotor = 0 /\ ctl'.motorOn = d.motorOn
            BY <2>2, <3>1, <3>2, <4>2, <4>4
          <5>2. d.motorOn \/ off' = Coast
            BY <2>3, <4>1, <4>4
          <5>2a. ctl'.motorUp <=> ctl'.cmd \in {"UP", "TOP"}
            <6>1. ctl.motorUp <=> ctl.cmd \in {"UP", "TOP"}
              BY <1>4, <2>5, <3>4 DEF IInv, Phase
            <6>2. ctl'.motorUp = ctl.motorUp /\ ctl'.cmd = ctl.cmd
              BY <2>2, <3>1, <3>2, <5>1
            <6> QED BY <6>1, <6>2, Zenon
          <5>3. Phase'
            BY <1>4, <3>4, <5>1, <5>2, <5>2a DEF Phase
          <5> QED BY <1>2, <2>2, <3>1, <3>2, <4>2a, <5>3
        <4> QED BY <4>3, <4>4
      <3> QED BY <3>3, <3>4
    <2> QED BY <2>3, <2>4, <2>5
  <1> QED BY <1>3, <1>4

(* What the vote lets through: an input of the last two samples.           *)
LEMMA VoteHolds ==
  ASSUME NEW s, NEW in0, s \in in0, s \in dly1
  PROVE  s \in Voted(in0, dly1, dly2)
  BY DEF Voted

(* A lift that is not beyond a sensor is not far beyond it.                *)
LEMMA Margins ==
  \A p \in Int, o \in 0..Coast :
    /\ p >= 0 => p >= -o
    /\ p <= Top => p <= Top + o
    /\ p >= -o => p >= -Coast
    /\ p <= Top + o => p <= Top + Coast
  OBVIOUS

LEMMA InitPlace == Init => Place /\ Aware
  <1> SUFFICES ASSUME Init PROVE Place /\ Aware
    OBVIOUS
  <1>1. /\ Fresh.cmd = "NONE" /\ Fresh.motorOn = FALSE /\ Fresh.motorUp = FALSE
    BY DEF Fresh, lift_ctrl_init
  <1>2. ctl = Fresh /\ off = Coast /\ pos \in 0..Top
    BY DEF Init
  <1>3. Place
    BY <1>1, <1>2 DEF Place
  <1>4. Aware
    BY <1>1, <1>2 DEF Aware
  <1> QED BY <1>3, <1>4

(* One period of the lift: how far it goes before the controller that has  *)
(* seen its sensor stops it, and while it coasts.                          *)
LEMMA PeriodPlace ==
  ASSUME IInv, Place, Aware, Period
  PROVE  Place' /\ Aware'
  <1>1. PICK press \in Presses :
          LET in0 == SensedAt(pos') \cup press
          IN  in' = Voted(in0, dly1, dly2) /\ dly2' = dly1 /\ dly1' = in0
    BY DEF Period
  <1>2. Aware'
    BY <1>1 DEF Aware
  <1>3. /\ in' \in Inputs /\ ctl' = lift_ctrl_loop(ctl, in')
        /\ off' = IF ctl.motorOn THEN 0 ELSE IF off < Coast THEN off + 1 ELSE off
    BY <1>1, InputsVoted DEF IInv, Period, Lift
  <1>4. /\ ctl' \in CtlType /\ off' \in 0..Coast
        /\ ctl.motorOn \/ off < Coast => ctl'.motorUp = ctl.motorUp
        /\ Driven(in')
    BY <1>3, LoopPhase
  <1>5. /\ ctl.motorOn \in BOOLEAN /\ ctl.motorUp \in BOOLEAN
        /\ ctl'.motorOn \in BOOLEAN /\ ctl'.motorUp \in BOOLEAN
        /\ pos \in Int /\ off \in 0..Coast /\ dwell \in 0..Dwell
    BY <1>4 DEF IInv, TypeOK, CtlType
  <1>6. Stays \/ Moves
    BY DEF Period, Lift
  <1>7. pos' \in {pos, pos + 1, pos - 1}
    BY <1>5, <1>6 DEF Stays, Moves
  <1>8. ctl.motorOn => ctl'.motorUp = ctl.motorUp
    BY <1>4
  (* A driven lift that was just seen at the sensor stays for this period. *)
  <1>9. ASSUME ctl.motorOn, ~ctl.motorUp
        PROVE  pos' >= 0 /\ (pos' = 0 => pos = 0 \/ dwell' = 1)
    <2>1. pos >= 0 /\ (pos = 0 => dwell = 1)
      BY <1>9 DEF Place
    <2> QED BY <1>5, <1>6, <1>9, <2>1 DEF Stays, Moves
  <1>10. ASSUME ctl.motorOn, ctl.motorUp
         PROVE  pos' <= Top /\ (pos' = Top => pos = Top \/ dwell' = 1)
    <2>1. pos <= Top /\ (pos = Top => dwell = 1)
      BY <1>10 DEF Place
    <2> QED BY <1>5, <1>6, <1>10, <2>1 DEF Stays, Moves
  <1>11. ASSUME ~ctl.motorOn, off = Coast
         PROVE  pos' = pos
    BY <1>5, <1>6, <1>11 DEF Stays, Moves
  <1>12. ASSUME ~ctl.motorOn, ~ctl.motorUp, off < Coast
         PROVE  pos' >= -off' /\ pos' <= Top + Coast
    <2>1. pos >= -off /\ pos <= Top + Coast
      BY <1>12 DEF Place
    <2>2. pos' \in {pos, pos - 1} /\ off' = off + 1
      BY <1>3, <1>5, <1>6, <1>12 DEF Stays, Moves
    <2> QED BY <1>5, <2>1, <2>2
  <1>13. ASSUME ~ctl.motorOn, ctl.motorUp, off < Coast
         PROVE  pos' <= Top + off' /\ pos' >= -Coast
    <2>1. pos <= Top + off /\ pos >= -Coast
      BY <1>13 DEF Place
    <2>2. pos' \in {pos, pos + 1} /\ off' = off + 1
      BY <1>3, <1>5, <1>6, <1>13 DEF Stays, Moves
    <2> QED BY <1>5, <2>1, <2>2
  (* The sensor of the place where it is and was is not missed.            *)
  <1>14. ASSUME ctl'.motorOn, ~ctl'.motorUp
         PROVE  ~(pos <= 0 /\ pos' <= 0)
    <2> SUFFICES ASSUME pos <= 0, pos' <= 0 PROVE FALSE
      OBVIOUS
    <2>1. "BOTTOM" \in SensedAt(pos) /\ "BOTTOM" \in SensedAt(pos')
      BY DEF SensedAt, Sensors
    <2>2. "BOTTOM" \in dly1
      BY <1>4, <1>14, <2>1 DEF Driven, Aware
    <2>3. "BOTTOM" \in in'
      BY <1>1, <2>1, <2>2, VoteHolds
    <2> QED BY <1>4, <1>14, <2>3 DEF Driven
  <1>15. ASSUME ctl'.motorOn, ctl'.motorUp
         PROVE  ~(pos >= Top /\ pos' >= Top)
    <2> SUFFICES ASSUME pos >= Top, pos' >= Top PROVE FALSE
      OBVIOUS
    <2>1. "TOP" \in SensedAt(pos) /\ "TOP" \in SensedAt(pos')
      BY DEF SensedAt, Sensors
    <2>2. "TOP" \in dly1
      BY <1>4, <1>15, <2>1 DEF Driven, Aware
    <2>3. "TOP" \in in'
      BY <1>1, <2>1, <2>2, VoteHolds
    <2> QED BY <1>4, <1>15, <2>3 DEF Driven
  <1>16. -Coast <= pos' /\ pos' <= Top + Coast
    <2>1. -Coast <= pos /\ pos <= Top + Coast
      BY DEF Place
    <2>2. CASE ctl.motorOn /\ ~ctl.motorUp
      BY <1>5, <1>6, <1>9, <2>1, <2>2 DEF Stays, Moves
    <2>3. CASE ctl.motorOn /\ ctl.motorUp
      BY <1>5, <1>6, <1>10, <2>1, <2>3 DEF Stays, Moves
    <2>4. CASE ~ctl.motorOn /\ off = Coast
      BY <1>11, <2>1, <2>4
    <2>5. CASE ~ctl.motorOn /\ off < Coast
      <3>1. off' \in 0..Coast /\ pos' \in Int
        BY <1>4, <1>5, <1>7
      <3>2. CASE ctl.motorUp
        BY <1>13, <2>5, <3>1, <3>2, Margins, Zenon
      <3>3. CASE ~ctl.motorUp
        BY <1>12, <2>5, <3>1, <3>3, Margins, Zenon
      <3> QED BY <3>2, <3>3
    <2> QED BY <1>5, <2>2, <2>3, <2>4, <2>5
  <1>17. ASSUME ~ctl'.motorUp, ctl'.motorOn
         PROVE  pos' >= 0 /\ (pos' = 0 => dwell' = 1)
    <2>1. CASE ctl.motorOn
      BY <1>5, <1>7, <1>8, <1>9, <1>14, <1>17, <2>1
    <2>2. CASE ~ctl.motorOn
      BY <1>4, <1>5, <1>11, <1>14, <1>17, <2>2 DEF Driven
    <2> QED BY <1>5, <2>1, <2>2
  <1>18. ASSUME ctl'.motorUp, ctl'.motorOn
         PROVE  pos' <= Top /\ (pos' = Top => dwell' = 1)
    <2>1. CASE ctl.motorOn
      BY <1>5, <1>7, <1>8, <1>10, <1>15, <1>18, <2>1
    <2>2. CASE ~ctl.motorOn
      BY <1>4, <1>5, <1>11, <1>15, <1>18, <2>2 DEF Driven
    <2> QED BY <1>5, <2>1, <2>2
  <1>19. ASSUME ~ctl'.motorUp, ~ctl'.motorOn
         PROVE  pos' >= -off'
    <2>1. CASE ctl.motorOn
      <3>1. ~ctl.motorUp
        BY <1>8, <1>19, <2>1, Zenon
      <3>2. off' \in 0..Coast /\ pos' \in Int /\ pos' >= 0
        BY <1>4, <1>5, <1>7, <1>9, <2>1, <3>1
      <3> QED BY <3>2, Margins, Zenon
    <2>2. CASE ~ctl.motorOn /\ off < Coast
      BY <1>4, <1>12, <1>19, <2>2
    <2>3. CASE ~ctl.motorOn /\ off = Coast
      <3>1. off' = Coast
        BY <1>3, <2>3
      <3> QED BY <1>16, <3>1
    <2> QED BY <1>5, <2>1, <2>2, <2>3
  <1>20. ASSUME ctl'.motorUp, ~ctl'.motorOn
         PROVE  pos' <= Top + off'
    <2>1. CASE ctl.motorOn
      <3>1. ctl.motorUp
        BY <1>8, <1>20, <2>1, Zenon
      <3>2. off' \in 0..Coast /\ pos' \in Int /\ pos' <= Top
        BY <1>4, <1>5, <1>7, <1>10, <2>1, <3>1
      <3> QED BY <3>2, Margins, Zenon
    <2>2. CASE ~ctl.motorOn /\ off < Coast
      BY <1>4, <1>13, <1>20, <2>2
    <2>3. CASE ~ctl.motorOn /\ off = Coast
      <3>1. off' = Coast
        BY <1>3, <2>3
      <3> QED BY <1>16, <3>1
    <2> QED BY <1>5, <2>1, <2>2, <2>3
  <1> QED BY <1>2, <1>16, <1>17, <1>18, <1>19, <1>20 DEF Place

LEMMA ResetPlace ==
  ASSUME IInv, Place, Aware, Reset
  PROVE  Place' /\ Aware'
  <1>1. ctl' = Fresh
    BY ResetIsFresh DEF Reset, IInv, TypeOK
  <1>2. Fresh.cmd = "NONE" /\ Fresh.motorOn = FALSE /\ Fresh.motorUp = FALSE
    BY DEF Fresh, lift_ctrl_init
  <1>3. pos' = pos /\ off' = off /\ off = Coast /\ -Coast <= pos /\ pos <= Top + Coast
    BY DEF Reset, lift, Place
  <1>4. Place'
    BY <1>1, <1>2, <1>3 DEF Place
  <1>5. Aware'
    BY <1>1, <1>2 DEF Aware
  <1> QED BY <1>4, <1>5

LEMMA NextIInv ==
  ASSUME IInv, [Next]_vars
  PROVE  /\ IInv'
         /\ (ctl.motorOn \/ off < Coast) =>
              ctl'.motorUp = ctl.motorUp
  <1>1. CASE Period
    <2>1. PICK press \in Presses :
            LET in0 == SensedAt(pos') \cup press
            IN  in' = Voted(in0, dly1, dly2) /\ dly2' = dly1 /\ dly1' = in0
      BY <1>1 DEF Period
    <2>2. in' \in Inputs /\ dly1' \in Inputs /\ dly2' \in Inputs
      BY <2>1, InputsVoted DEF IInv, TypeOK, Inputs
    <2>3. ctl' = lift_ctrl_loop(ctl, in')
      BY <1>1 DEF Period
    <2>4. off' = IF ctl.motorOn THEN 0 ELSE IF off < Coast THEN off + 1 ELSE off
      BY <1>1 DEF Period, Lift
    <2>5. /\ ctl' \in CtlType /\ off' \in 0..Coast /\ Phase'
          /\ ctl.motorOn \/ off < Coast => ctl'.motorUp = ctl.motorUp
      BY <2>2, <2>3, <2>4, LoopPhase
    <2>6. pos' \in Low..High /\ dwell' \in 0..Dwell
      BY <1>1 DEF Period, Lift, Stays, Moves, IInv, TypeOK
    <2>7. turns' \in Nat
      <3>1. turns \in Nat
        BY DEF IInv, TypeOK
      <3>2. turns' \in {0, turns, turns + 1}
        BY <1>1 DEF Period
      <3> QED BY <3>1, <3>2
    <2>8. TypeOK'
      BY <2>2, <2>5, <2>6, <2>7 DEF TypeOK, Inputs
    <2> QED BY <2>5, <2>8 DEF IInv
  <1>2. CASE Reset
    <2>1. ctl' = Fresh /\ Fresh \in CtlType
      BY <1>2, ResetIsFresh, FreshType DEF Reset, IInv, TypeOK
    <2>2. /\ Fresh.cmd = "NONE" /\ Fresh.motorOn = FALSE
          /\ Fresh.timImp = 0 /\ Fresh.timMotor = 0
      BY DEF Fresh, lift_ctrl_init
    <2>3. /\ ~ctl.motorOn /\ off = Coast
          /\ in' = {} /\ dly1' = {} /\ dly2' = {} /\ turns' = 0
          /\ pos' = pos /\ dwell' = dwell /\ off' = off
      BY <1>2 DEF Reset, lift
    <2>4. TypeOK'
      BY <2>1, <2>3 DEF IInv, TypeOK
    <2>5. Phase'
      BY <2>1, <2>2, <2>3 DEF Phase
    <2> QED BY <2>3, <2>4, <2>5 DEF IInv
  <1>3. CASE UNCHANGED vars
    BY <1>3 DEF vars, lift, IInv, TypeOK, Phase
  <1> QED BY <1>1, <1>2, <1>3 DEF Next

-----------------------------------------------------------------------------
(* What each function does to the count and its direction.                 *)
SameCount(c, d) ==
  /\ d.cnt = c.cnt /\ d.cntValid = c.cntValid
  /\ d.directionUp = c.directionUp /\ d.lastImp = c.lastImp

LEMMA CheckLevelCount ==
  ASSUME NEW c \in CtlType
  PROVE  SameCount(c, lift_check_level(c))
  <1>1. PICK l \in 0..Levels : lift_check_level(c) = [c EXCEPT !.level = l]
    BY CheckLevelFact
  <1> QED BY <1>1 DEF CtlType, SameCount

LEMMA CheckCmdCount ==
  ASSUME NEW c \in CtlType, NEW i
  PROVE  SameCount(c, lift_check_cmd(c, i))
  BY DEF lift_check_cmd, CtlType, SameCount

LEMMA RunCount ==
  ASSUME NEW c \in CtlType, NEW i, c.timMotor = 0
  PROVE  SameCount(c, lift_do_cmd(c, i))
  BY DEF lift_do_cmd, Remember, CtlType, SameCount

LEMMA WaitCount ==
  ASSUME NEW c \in CtlType
  PROVE  LET d == lift_wait_for_motor_start(c)
         IN  /\ d.cntValid = c.cntValid /\ d.lastImp = c.lastImp
             /\ c.cntValid => d.cnt = c.cnt
             /\ d.directionUp = d.motorUp
  BY DEF lift_wait_for_motor_start, CtlType

(* An edge counts while the motor runs or the window is open.              *)
Edge(c, i) == "IMPULS" \in i /\ ~c.lastImp /\ (c.motorOn \/ c.timImp > 0)

LEMMA DoImpulseCount ==
  ASSUME NEW c \in CtlType, NEW i
  PROVE  LET d == lift_do_impulse(c, i)
         IN  /\ d.directionUp = c.directionUp
             /\ d.cntValid <=> c.cntValid \/ "BOTTOM" \in i
             /\ d.lastImp <=> "IMPULS" \in i
             /\ "BOTTOM" \in i => d.cnt = 0
             /\ "BOTTOM" \notin i /\ ~Edge(c, i) => d.cnt = c.cnt
             /\ "BOTTOM" \notin i /\ Edge(c, i) =>
                  d.cnt = IF c.directionUp THEN c.cnt + 1 ELSE c.cnt - 1
  <1> DEFINE step == IF ~(("IMPULS" \in i /\ ~c.lastImp) /\ Counts(c)) THEN 0
                     ELSE IF c.directionUp THEN 1 ELSE -1
             cnt   == IF "BOTTOM" \in i THEN 0 ELSE c.cnt + step
             valid == c.cntValid \/ "BOTTOM" \in i
             imp   == "IMPULS" \in i
             tim   == IF c.timImp > 0 THEN c.timImp - 1 ELSE 0
             cmd   == IF c.timImp = 1 THEN "NONE" ELSE c.cmd
             d     == lift_do_impulse(c, i)
  <1>1. d = [c EXCEPT !.cnt = cnt, !.cntValid = valid, !.lastImp = imp,
                      !.timImp = tim, !.cmd = cmd]
    BY DEF lift_do_impulse, CtlType
  <1>2. /\ "BOTTOM" \in i => cnt = 0
        /\ "BOTTOM" \notin i /\ ~Edge(c, i) => cnt = c.cnt
        /\ "BOTTOM" \notin i /\ Edge(c, i) =>
             cnt = IF c.directionUp THEN c.cnt + 1 ELSE c.cnt - 1
    BY DEF Edge, Counts, CtlType
  <1>3. (valid <=> c.cntValid \/ "BOTTOM" \in i) /\ (imp <=> "IMPULS" \in i)
    OBVIOUS
  <1> HIDE DEF cnt, valid, imp, tim, cmd, d
  <1>4. /\ d.directionUp = c.directionUp /\ d.cnt = cnt
        /\ d.cntValid = valid /\ d.lastImp = imp
    BY <1>1 DEF CtlType
  <1>5. /\ d.cntValid <=> c.cntValid \/ "BOTTOM" \in i
        /\ d.lastImp <=> "IMPULS" \in i
    BY <1>3, <1>4, Zenon
  <1> QED BY <1>2, <1>4, <1>5, Zenon DEF d

(* One period of the controller: without a command nothing is counted,     *)
(* with one the inputs are, and only a waiting motor is turned.            *)
LEMMA LoopCount ==
  ASSUME IInv, NEW i \in Inputs, ctl' = lift_ctrl_loop(ctl, i)
  PROVE  /\ ctl.cmd = "NONE" =>
              /\ SameCount(ctl, ctl') /\ ctl'.motorUp = ctl.motorUp
              /\ ctl'.cmd # "NONE" => ctl'.timMotor = MotorDelay
         /\ ctl.cmd # "NONE" =>
              /\ ctl'.cntValid <=> ctl.cntValid \/ "BOTTOM" \in i
              /\ ctl'.lastImp <=> "IMPULS" \in i
              /\ "BOTTOM" \in i => ctl'.cntValid /\ ctl'.cnt = 0
              /\ ctl'.cntValid /\ "BOTTOM" \notin i =>
                   ctl'.cnt = IF ~Edge(ctl, i) THEN ctl.cnt
                              ELSE IF ctl.directionUp THEN ctl.cnt + 1 ELSE ctl.cnt - 1
              /\ ctl.timMotor > 0 => ctl'.directionUp = ctl'.motorUp
              /\ ctl.timMotor = 0 => /\ ctl'.directionUp = ctl.directionUp
                                     /\ ctl'.motorUp = ctl.motorUp
  <1>1. ctl \in CtlType
    BY DEF IInv, TypeOK
  <1>2. CASE ctl.cmd = "NONE"
    <2> DEFINE c == lift_check_cmd(ctl, i)
    <2>1. ctl' = lift_check_level(c)
      BY <1>2 DEF lift_ctrl_loop
    <2>2. /\ c \in CtlType /\ c.motorUp = ctl.motorUp
          /\ c.timMotor = IF c.cmd # "NONE" THEN MotorDelay ELSE ctl.timMotor
      BY <1>1, CheckCmdFields
    <2>3. SameCount(ctl, c)
      BY <1>1, CheckCmdCount
    <2> HIDE DEF c
    <2>4. /\ ctl'.motorUp = c.motorUp /\ ctl'.cmd = c.cmd
          /\ ctl'.timMotor = c.timMotor /\ SameCount(c, ctl')
      BY <2>1, <2>2, CheckLevelFields, CheckLevelCount
    <2> QED BY <1>2, <2>2, <2>3, <2>4 DEF SameCount
  <1>3. CASE ctl.cmd # "NONE"
    <2> DEFINE c == lift_do_impulse(ctl, i)
               d == lift_do_cmd(c, i)
    <2>1. ctl' = lift_check_level(d)
      BY <1>3 DEF lift_ctrl_loop
    <2>2. c \in CtlType /\ c.motorUp = ctl.motorUp /\ c.timMotor = ctl.timMotor
      BY <1>1, DoImpulseFields
    <2>3. /\ c.directionUp = ctl.directionUp
          /\ c.cntValid <=> ctl.cntValid \/ "BOTTOM" \in i
          /\ c.lastImp <=> "IMPULS" \in i
          /\ "BOTTOM" \in i => c.cnt = 0
          /\ "BOTTOM" \notin i /\ ~Edge(ctl, i) => c.cnt = ctl.cnt
          /\ "BOTTOM" \notin i /\ Edge(ctl, i) =>
               c.cnt = IF ctl.directionUp THEN ctl.cnt + 1 ELSE ctl.cnt - 1
      BY <1>1, DoImpulseCount
    <2>4. ctl.timMotor \in Nat /\ c.timMotor \in Nat
      BY <1>1, <2>2 DEF CtlType
    <2>5. /\ d \in CtlType
          /\ d.cntValid = c.cntValid /\ d.lastImp = c.lastImp
          /\ c.cntValid => d.cnt = c.cnt
          /\ ctl.timMotor > 0 => d.directionUp = d.motorUp
          /\ ctl.timMotor = 0 => d.directionUp = c.directionUp /\ d.motorUp = c.motorUp
      <3>1. CASE ctl.timMotor > 0
        <4>1. d = lift_wait_for_motor_start(c)
          BY <2>2, <3>1 DEF lift_do_cmd
        <4> HIDE DEF c, d
        <4> QED BY <2>2, <2>4, <3>1, <4>1, WaitFields, WaitCount
      <3>2. CASE ctl.timMotor = 0
        <4>1. SameCount(c, d)
          BY <2>2, <3>2, RunCount
        <4>2. d \in CtlType /\ d.motorUp = c.motorUp
          BY <2>2, <3>2, RunFields
        <4> HIDE DEF c, d
        <4> QED BY <3>2, <4>1, <4>2 DEF SameCount
      <3> QED BY <2>4, <3>1, <3>2
    <2> HIDE DEF c, d
    <2>6. ctl'.motorUp = d.motorUp /\ SameCount(d, ctl')
      BY <2>1, <2>5, CheckLevelFields, CheckLevelCount
    <2>7. /\ ctl'.cnt = d.cnt /\ ctl'.cntValid = d.cntValid
          /\ ctl'.directionUp = d.directionUp /\ ctl'.lastImp = d.lastImp
      BY <2>6 DEF SameCount
    <2>8. /\ ctl'.cntValid <=> ctl.cntValid \/ "BOTTOM" \in i
          /\ ctl'.lastImp <=> "IMPULS" \in i
      BY <2>3, <2>5, <2>7, Zenon
    <2>9. ctl'.cntValid => ctl'.cnt = c.cnt
      BY <2>5, <2>7, Zenon
    <2> QED BY <1>3, <2>2, <2>3, <2>5, <2>6, <2>7, <2>8, <2>9, Zenon
  <1> QED BY <1>2, <1>3

-----------------------------------------------------------------------------
(* In a period the lift stays where it is, or goes on to the next place.   *)
LEMMA LiftGoes ==
  ASSUME IInv, Standing, Period
  PROVE  \/ pos' = pos /\ dwell' \in 2..Dwell
         \/ /\ dwell' = 1 /\ dwell # 1
            /\ ctl.motorOn \/ off < Coast
            /\ pos' = IF ctl.motorUp THEN pos + 1 ELSE pos - 1
  <1>1. dwell \in 1..Dwell /\ Dwell \in Nat /\ Dwell >= 2
    BY DEF Standing
  <1>2. CASE Stays
    BY <1>1, <1>2 DEF Stays
  <1>3. CASE Moves
    <2>1. dwell # 1
      BY <1>1, <1>3 DEF Moves
    <2> QED BY <1>3, <2>1 DEF Moves
  <1> QED BY <1>2, <1>3 DEF Period, Lift

(* The vote of two equal samples is what they are ...                      *)
LEMMA VoteOfTwo ==
  ASSUME NEW a, NEW b, NEW c, NEW S, NEW T,
         (a \cap S = T /\ b \cap S = T) \/ (b \cap S = T /\ c \cap S = T)
  PROVE  Voted(a, b, c) \cap S = T
  BY DEF Voted

(* ... so that under a command the inputs are those of the place where the *)
(* lift was before the period.                                             *)
LEMMA SeenLate ==
  ASSUME IInv, Sampled, Standing, Period
  PROVE  /\ in' \in Inputs /\ Sampled'
         /\ ctl.cmd # "NONE" => in' \cap Sensors = SensedAt(pos)
         /\ in' \cap Sensors \subseteq SensedAt(pos)
  <1>1. PICK press \in Presses :
          LET in0 == SensedAt(pos') \cup press
          IN  in' = Voted(in0, dly1, dly2) /\ dly2' = dly1 /\ dly1' = in0
    BY DEF Period
  <1>2. in' \in Inputs
    BY <1>1, InputsVoted DEF IInv
  <1>3. dly1' \cap Sensors = SensedAt(pos')
    <2>1. press \cap Sensors = {}
      BY DEF Buttons, Sensors
    <2>2. SensedAt(pos') \subseteq Sensors
      BY DEF SensedAt
    <2> QED BY <1>1, <2>1, <2>2
  <1>4. in' = Voted(dly1', dly1, dly2) /\ dly2' = dly1
    BY <1>1
  <1>5. \/ pos' = pos /\ dwell' # 1
        \/ /\ dwell' = 1 /\ dwell # 1
           /\ ctl.motorOn \/ off < Coast
    <2>1. \A d \in 2..Dwell : d # 1
      OBVIOUS
    <2> QED BY <2>1, LiftGoes
  <1>6. ctl.cmd = "NONE" => ~ctl.motorOn /\ off = Coast /\ pos' = pos /\ dwell' # 1
    <2>1. ctl.cmd = "NONE" => ~ctl.motorOn /\ off = Coast /\ ~(off < Coast)
      BY DEF IInv, Phase
    <2> QED BY <1>5, <2>1
  <1>7. CASE ~(dly1 \cap Sensors = SensedAt(pos))
    <2>1. dly1 = {} /\ dly2 = {} /\ ctl.cmd = "NONE"
      BY <1>7 DEF Sampled
    <2>2. in' = {}
      BY <1>4, <2>1 DEF Voted
    <2>3. ctl'.cmd = "NONE"
      <3>1. ctl' = lift_check_level(lift_check_cmd(ctl, in'))
        BY <2>1 DEF Period, lift_ctrl_loop
      <3>2. Pressed({}) = "NONE"
        BY DEF Pressed
      <3>3. Chosen(ctl, {}) = "NONE"
        BY <3>2 DEF Chosen
      <3>4. ctl \in CtlType
        BY DEF IInv, TypeOK
      <3>5. lift_check_cmd(ctl, {}) \in CtlType
        BY <3>4, CheckCmdFields DEF Inputs
      <3>6. lift_check_cmd(ctl, {}).cmd = "NONE"
        BY <3>3, <3>4 DEF lift_check_cmd, CtlType
      <3> QED BY <2>2, <3>1, <3>5, <3>6, CheckLevelFields
    <2> QED BY <1>2, <1>3, <2>1, <2>2, <2>3 DEF Sampled
  <1>8. CASE dly1 \cap Sensors = SensedAt(pos)
    <2>1. CASE pos' = pos /\ dwell' # 1
      <3>1. in' \cap Sensors = SensedAt(pos)
        BY <1>3, <1>4, <1>8, <2>1, VoteOfTwo
      <3> QED BY <1>2, <1>3, <1>4, <1>8, <2>1, <3>1 DEF Sampled
    <2>2. CASE dwell' = 1 /\ dwell # 1 /\ ctl.cmd # "NONE"
      <3>1. dly2 \cap Sensors = SensedAt(pos)
        BY <2>2 DEF Sampled
      <3>2. in' \cap Sensors = SensedAt(pos)
        BY <1>4, <1>8, <3>1, VoteOfTwo
      <3> QED BY <1>2, <1>3, <2>2, <3>2 DEF Sampled
    <2> QED BY <1>5, <1>6, <2>1, <2>2
  <1> QED BY <1>7, <1>8

(* One place further, the count of an edge makes up for the place; a turn  *)
(* there may cost half an impulse.                                         *)
LEMMA Parity ==
  \A p \in Int : /\ p % 2 \in {0, 1}
                 /\ (p + 1) % 2 = 1 - (p % 2) /\ (p - 1) % 2 = 1 - (p % 2)
  OBVIOUS

LEMMA FitsOn ==
  ASSUME NEW cnt \in Int, NEW p \in Int, NEW up \in BOOLEAN, NEW k \in Nat,
         Fits(cnt, p, up, k)
  PROVE  /\ up /\ p + 1 > 0 =>
              Fits(IF (p + 1) % 2 = 1 THEN cnt + 1 ELSE cnt, p + 1, up, k)
         /\ ~up /\ p - 1 > 0 =>
              Fits(IF (p - 1) % 2 = 1 THEN cnt - 1 ELSE cnt, p - 1, up, k)
         /\ Fits(cnt, p, ~up, k + 1)
  <1>1. /\ p % 2 \in {0, 1}
        /\ (p + 1) % 2 = 1 - (p % 2) /\ (p - 1) % 2 = 1 - (p % 2)
    BY Parity
  <1>2. ASSUME up, p + 1 > 0
        PROVE  Fits(IF (p + 1) % 2 = 1 THEN cnt + 1 ELSE cnt, p + 1, up, k)
    <2>1. CASE p > 0
      <3>1. 2 * cnt - p - (p % 2) \in -k..k
        BY <1>2, <2>1 DEF Fits
      <3> QED BY <1>1, <1>2, <2>1, <3>1 DEF Fits
    <2>2. CASE ~(p > 0)
      <3>1. p = 0 /\ cnt = 0
        BY <1>2, <2>2 DEF Fits
      <3> QED BY <1>2, <3>1 DEF Fits
    <2> QED BY <2>1, <2>2
  <1>3. ASSUME ~up, p - 1 > 0
        PROVE  Fits(IF (p - 1) % 2 = 1 THEN cnt - 1 ELSE cnt, p - 1, up, k)
    <2>1. 2 * cnt - p + (p % 2) \in (1 - k)..(k + 1)
      BY <1>3 DEF Fits
    <2> QED BY <1>1, <1>3, <2>1 DEF Fits
  <1>4. Fits(cnt, p, ~up, k + 1)
    <2>1. CASE p <= 0
      BY <2>1 DEF Fits
    <2>2. CASE p > 0 /\ up
      <3>1. 2 * cnt - p - (p % 2) \in -k..k
        BY <2>2 DEF Fits
      <3> QED BY <1>1, <2>2, <3>1 DEF Fits
    <2>3. CASE p > 0 /\ ~up
      <3>1. 2 * cnt - p + (p % 2) \in (1 - k)..(k + 1)
        BY <2>3 DEF Fits
      <3> QED BY <1>1, <2>3, <3>1 DEF Fits
    <2> QED BY <2>1, <2>2, <2>3
  <1> QED BY <1>2, <1>3, <1>4

LEMMA FitsPlace ==
  ASSUME NEW cnt \in Int, NEW p \in Int, NEW up \in BOOLEAN, NEW k \in Nat,
         Fits(cnt, p, up, k)
  PROVE  \/ cnt = 0 /\ p <= 0
         \/ 2 * cnt - p \in -(1 + k)..(1 + k)
  <1>1. p % 2 \in {0, 1}
    BY Parity
  <1>2. CASE p <= 0
    BY <1>2 DEF Fits
  <1>3. CASE p > 0 /\ up
    <2>1. 2 * cnt - p - (p % 2) \in -k..k
      BY <1>3 DEF Fits
    <2> QED BY <1>1, <2>1
  <1>4. CASE p > 0 /\ ~up
    <2>1. 2 * cnt - p + (p % 2) \in (1 - k)..(k + 1)
      BY <1>4 DEF Fits
    <2> QED BY <1>1, <2>1
  <1> QED BY <1>2, <1>3, <1>4

(* A lift that can move is not told to have come to rest: after a period   *)
(* it is driven, or its command is still in the window of counting.        *)
LEMMA MoverStops ==
  ASSUME IInv, NEW i \in Inputs, ctl' = lift_ctrl_loop(ctl, i),
         ctl.motorOn \/ off < Coast
  PROVE  ctl'.motorOn \/ ctl'.cmd = "STOPPED"
  <1>1. ctl \in CtlType /\ off \in 0..Coast
    BY DEF IInv, TypeOK
  <1>2. ctl.timImp \in Nat /\ ctl.timMotor \in Nat /\ ctl.motorOn \in BOOLEAN
    BY <1>1 DEF CtlType
  <1>3. /\ ctl.cmd # "NONE" /\ ctl.timMotor = 0
        /\ ctl.motorOn \/ (ctl.cmd = "STOPPED" /\ ctl.timImp # 1)
    <2>1. ctl.cmd # "NONE"
      BY <1>1, <1>2 DEF IInv, Phase
    <2>2. CASE ctl.cmd = "STOPPED"
      BY <1>1, <1>2, <2>2 DEF IInv, Phase
    <2>3. CASE ctl.cmd # "STOPPED"
      BY <1>1, <1>2, <2>1, <2>3 DEF IInv, Phase
    <2> QED BY <2>1, <2>2, <2>3
  <1> DEFINE c == lift_do_impulse(ctl, i)
             d == lift_do_cmd(c, i)
  <1>4. ctl' = lift_check_level(d)
    BY <1>3 DEF lift_ctrl_loop
  <1>5. /\ c \in CtlType /\ c.motorOn = ctl.motorOn /\ c.timMotor = 0
        /\ c.cmd = IF ctl.timImp = 1 THEN "NONE" ELSE ctl.cmd
    BY <1>1, <1>3, DoImpulseFields
  <1>6. /\ d \in CtlType
        /\ IF c.motorOn /\ ~d.motorOn THEN d.cmd = "STOPPED" ELSE d.cmd = c.cmd
    BY <1>5, RunFields
  <1> HIDE DEF c, d
  <1>7. ctl'.motorOn = d.motorOn /\ ctl'.cmd = d.cmd
    BY <1>4, <1>6, CheckLevelFields
  <1> QED BY <1>2, <1>3, <1>5, <1>6, <1>7

(* A period counts the place where the lift was before it.                 *)
LEMMA PeriodCount ==
  ASSUME CInv, Period
  PROVE  Standing' /\ Heading' /\ Counting'
  <1>1. /\ in' \in Inputs
        /\ ctl.cmd # "NONE" => in' \cap Sensors = SensedAt(pos)
        /\ in' \cap Sensors \subseteq SensedAt(pos)
    BY SeenLate DEF CInv
  <1>2. /\ ctl.cmd # "NONE" => /\ "BOTTOM" \in in' <=> pos <= 0
                               /\ "IMPULS" \in in' <=> pos % 2 = 1
        /\ "BOTTOM" \in in' => pos <= 0
    <2>1. /\ "BOTTOM" \in SensedAt(pos) <=> pos <= 0
          /\ "IMPULS" \in SensedAt(pos) <=> pos % 2 = 1
          /\ "BOTTOM" \in Sensors /\ "IMPULS" \in Sensors
      BY DEF SensedAt, Sensors
    <2> QED BY <1>1, <2>1
  <1>3. /\ ctl' = lift_ctrl_loop(ctl, in')
        /\ off' = IF ctl.motorOn THEN 0 ELSE IF off < Coast THEN off + 1 ELSE off
        /\ turns' = IF "BOTTOM" \in in' THEN 0
                    ELSE IF ctl'.directionUp # ctl.directionUp THEN turns + 1
                    ELSE turns
    BY DEF Period, Lift
  <1>4. /\ ctl' \in CtlType /\ off' \in 0..Coast /\ Phase'
        /\ ctl.motorOn \/ off < Coast => ctl'.motorUp = ctl.motorUp
    BY <1>1, <1>3, LoopPhase DEF CInv
  <1>5. /\ ctl.cmd = "NONE" =>
             /\ SameCount(ctl, ctl') /\ ctl'.motorUp = ctl.motorUp
             /\ ctl'.cmd # "NONE" => ctl'.timMotor = MotorDelay
        /\ ctl.cmd # "NONE" =>
             /\ ctl'.cntValid <=> ctl.cntValid \/ "BOTTOM" \in in'
             /\ ctl'.lastImp <=> "IMPULS" \in in'
             /\ "BOTTOM" \in in' => ctl'.cntValid /\ ctl'.cnt = 0
             /\ ctl'.cntValid /\ "BOTTOM" \notin in' =>
                  ctl'.cnt = IF ~Edge(ctl, in') THEN ctl.cnt
                             ELSE IF ctl.directionUp THEN ctl.cnt + 1 ELSE ctl.cnt - 1
             /\ ctl.timMotor > 0 => ctl'.directionUp = ctl'.motorUp
             /\ ctl.timMotor = 0 => /\ ctl'.directionUp = ctl.directionUp
                                    /\ ctl'.motorUp = ctl.motorUp
    BY <1>1, <1>3, LoopCount DEF CInv
  <1>6. \/ pos' = pos /\ dwell' \in 2..Dwell
        \/ /\ dwell' = 1 /\ dwell # 1
           /\ ctl.motorOn \/ off < Coast
           /\ pos' = IF ctl.motorUp THEN pos + 1 ELSE pos - 1
    BY LiftGoes DEF CInv
  <1>7. /\ ctl \in CtlType /\ pos \in Int /\ off \in 0..Coast /\ turns \in Nat
        /\ ctl.timMotor \in Nat /\ ctl.timImp \in Nat /\ ctl.cnt \in Int
        /\ ctl.directionUp \in BOOLEAN /\ ctl.motorUp \in BOOLEAN
        /\ ctl.motorOn \in BOOLEAN /\ ctl.cntValid \in BOOLEAN
        /\ ctl.lastImp \in BOOLEAN
        /\ ctl'.directionUp \in BOOLEAN /\ ctl'.motorUp \in BOOLEAN
        /\ ctl'.motorOn \in BOOLEAN /\ ctl'.cntValid \in BOOLEAN
        /\ ctl'.lastImp \in BOOLEAN
    BY <1>4 DEF CInv, IInv, TypeOK, CtlType
  (* Without a command the lift stands.                                    *)
  <1>8. ctl.cmd = "NONE" => pos' = pos /\ dwell' # 1
    <2>1. ctl.cmd = "NONE" => ~ctl.motorOn /\ off = Coast
      BY DEF CInv, IInv, Phase
    <2> QED BY <1>6, <1>7, <2>1
  <1>9. Standing'
    <2>1. dwell' \in 1..Dwell
      BY <1>6
    <2>2. ASSUME dwell' = 1
          PROVE  ctl'.motorOn \/ ctl'.cmd = "STOPPED"
      <3>1. ctl.motorOn \/ off < Coast
        BY <1>6, <2>2
      <3> QED BY <1>1, <1>3, <3>1, MoverStops DEF CInv
    <2> QED BY <2>1, <2>2 DEF Standing
  <1>10. Heading'
    <2>1. CASE ctl.cmd = "NONE"
      <3>1. /\ ctl'.cntValid = ctl.cntValid /\ ctl'.directionUp = ctl.directionUp
            /\ ctl'.motorUp = ctl.motorUp
            /\ ctl'.cmd # "NONE" => ctl'.timMotor = MotorDelay
        BY <1>5, <2>1 DEF SameCount
      <3> QED BY <3>1 DEF CInv, Heading
    <2>2. CASE ctl.cmd # "NONE" /\ ctl.timMotor > 0
      BY <1>5, <2>2 DEF Heading
    <2>3. CASE ctl.cmd # "NONE" /\ ctl.timMotor = 0
      <3>1. ctl.directionUp = ctl.motorUp
        BY <2>3 DEF CInv, Heading
      <3> QED BY <1>5, <2>3, <3>1 DEF Heading
    <2> QED BY <1>7, <2>1, <2>2, <2>3
  (* What will be counted up to is where the lift was.                     *)
  <1>11. CountedTo' = pos
    <2>1. CASE dwell' # 1
      BY <1>6, <2>1 DEF CountedTo
    <2>2. CASE dwell' = 1
      <3>1. /\ ctl'.motorUp = ctl.motorUp
            /\ pos' = IF ctl.motorUp THEN pos + 1 ELSE pos - 1
        BY <1>4, <1>6, <2>2
      <3> QED BY <1>7, <2>2, <3>1 DEF CountedTo
    <2> QED BY <2>1, <2>2
  <1>12. Counting'
    <2> SUFFICES ASSUME ctl'.cntValid
                 PROVE  /\ ctl'.lastImp <=> pos % 2 = 1
                        /\ Fits(ctl'.cnt, pos, ctl'.directionUp, turns')
      BY <1>11 DEF Counting
    <2>1. CASE ctl.cmd = "NONE"
      <3>1. /\ ctl.cntValid /\ ctl'.cnt = ctl.cnt /\ ctl'.lastImp = ctl.lastImp
            /\ ctl'.directionUp = ctl.directionUp
        BY <1>5, <2>1 DEF SameCount
      <3>2. CountedTo = pos
        BY <2>1, <3>1 DEF CInv, Standing, IInv, Phase, CountedTo
      <3>3. /\ ctl.lastImp <=> pos % 2 = 1
            /\ Fits(ctl.cnt, pos, ctl.directionUp, turns)
        BY <3>1, <3>2 DEF CInv, Counting
      <3>4. CASE pos <= 0
        BY <3>1, <3>3, <3>4 DEF Fits
      <3>5. CASE pos > 0
        <4>1. turns' = turns
          BY <1>2, <1>3, <1>7, <3>1, <3>5
        <4> QED BY <3>1, <3>3, <4>1
      <3> QED BY <1>7, <3>4, <3>5
    <2>2. CASE ctl.cmd # "NONE"
      <3>1. ctl'.lastImp <=> pos % 2 = 1
        BY <1>2, <1>5, <2>2, Zenon
      <3>2. CASE pos <= 0
        BY <1>2, <1>5, <2>2, <3>1, <3>2 DEF Fits
      <3>3. CASE pos > 0
        <4>1. "BOTTOM" \notin in'
          BY <1>2, <1>7, <3>3
        <4>2. ctl.cntValid
          BY <1>5, <2>2, <4>1
        <4>3. /\ ctl.lastImp <=> CountedTo % 2 = 1
              /\ Fits(ctl.cnt, CountedTo, ctl.directionUp, turns)
              /\ ctl.directionUp = ctl.motorUp
          BY <4>2 DEF CInv, Counting, Heading
        <4>4. turns' = IF ctl'.directionUp # ctl.directionUp THEN turns + 1 ELSE turns
          BY <1>3, <4>1
        <4>5. CASE dwell # 1
          <5>1. CountedTo = pos
            BY <4>5 DEF CountedTo
          <5>2. ~Edge(ctl, in')
            BY <1>2, <2>2, <4>3, <5>1 DEF Edge
          <5>3. ctl'.cnt = ctl.cnt
            BY <1>5, <2>2, <4>1, <5>2
          <5>4. Fits(ctl.cnt, pos, ctl.directionUp, turns)
            BY <4>3, <5>1
          <5>5. Fits(ctl.cnt, pos, ~ctl.directionUp, turns + 1)
            BY <1>7, <5>4, FitsOn
          <5>6. CASE ctl'.directionUp = ctl.directionUp
            BY <3>1, <4>4, <5>3, <5>4, <5>6
          <5>7. CASE ctl'.directionUp # ctl.directionUp
            <6>1. ctl'.directionUp = ~ctl.directionUp
              BY <1>7, <5>7
            <6>2. turns' = turns + 1
              BY <4>4, <5>7
            <6> QED BY <3>1, <5>3, <5>5, <6>1, <6>2
          <5> QED BY <5>6, <5>7
        <4>6. CASE dwell = 1
          <5>1. /\ ctl.motorOn \/ ctl.timImp > 0
                /\ ctl.timMotor = 0
            <6>1. ctl.motorOn \/ ctl.cmd = "STOPPED"
              BY <2>2, <4>6 DEF CInv, Standing
            <6>2. ctl.cmd = "STOPPED" => ctl.timMotor = 0 /\ ctl.timImp > 0
              BY DEF CInv, IInv, Phase
            <6>3. ctl.cmd # "STOPPED" => (ctl.timMotor > 0 => ~ctl.motorOn)
              BY <2>2 DEF CInv, IInv, Phase
            <6> QED BY <1>7, <6>1, <6>2, <6>3
          <5>2. /\ ctl'.directionUp = ctl.directionUp /\ turns' = turns
            BY <1>5, <2>2, <4>4, <5>1
          <5>3. /\ CountedTo \in Int
                /\ pos = IF ctl.directionUp THEN CountedTo + 1 ELSE CountedTo - 1
            BY <1>7, <4>3, <4>6 DEF CountedTo
          <5>4. Edge(ctl, in') <=> pos % 2 = 1
            <6>1. pos % 2 = 1 => ~(CountedTo % 2 = 1)
              BY <5>3, Parity
            <6> QED BY <1>2, <2>2, <4>3, <5>1, <6>1 DEF Edge
          <5>5. ctl'.cnt = IF ~(pos % 2 = 1) THEN ctl.cnt
                           ELSE IF ctl.directionUp THEN ctl.cnt + 1 ELSE ctl.cnt - 1
            BY <1>5, <2>2, <4>1, <5>4
          <5>6. Fits(ctl'.cnt, pos, ctl.directionUp, turns)
            <6>1. /\ ctl.directionUp /\ CountedTo + 1 > 0 =>
                       Fits(IF (CountedTo + 1) % 2 = 1 THEN ctl.cnt + 1 ELSE ctl.cnt,
                            CountedTo + 1, ctl.directionUp, turns)
                  /\ ~ctl.directionUp /\ CountedTo - 1 > 0 =>
                       Fits(IF (CountedTo - 1) % 2 = 1 THEN ctl.cnt - 1 ELSE ctl.cnt,
                            CountedTo - 1, ctl.directionUp, turns)
              BY <1>7, <4>3, <5>3, FitsOn
            <6>2. CASE ctl.directionUp
              BY <3>3, <5>3, <5>5, <6>1, <6>2
            <6>3. CASE ~ctl.directionUp
              BY <3>3, <5>3, <5>5, <6>1, <6>3
            <6> QED BY <6>2, <6>3
          <5> QED BY <3>1, <5>2, <5>6
        <4> QED BY <4>5, <4>6
      <3> QED BY <1>7, <3>2, <3>3
    <2> QED BY <2>1, <2>2
  <1> QED BY <1>9, <1>10, <1>12

LEMMA InitCInv == Init => CInv
  <1> SUFFICES ASSUME Init PROVE CInv
    OBVIOUS
  <1>1. ctl.cmd = "NONE" /\ ctl.cntValid = FALSE
    BY DEF Init, Fresh, lift_ctrl_init
  <1>2. dly1 = {} /\ dly2 = {} /\ dwell = Dwell
    BY DEF Init
  <1> QED BY <1>1, <1>2, InitIInv DEF CInv, Sampled, Standing, Heading, Counting

LEMMA NextCInv ==
  ASSUME CInv, [Next]_vars
  PROVE  CInv'
  <1>1. IInv'
    BY NextIInv DEF CInv
  <1>2. CASE Period
    BY <1>1, <1>2, SeenLate, PeriodCount DEF CInv
  <1>3. CASE Reset
    <2>1. ctl' = Fresh
      BY <1>3, ResetIsFresh DEF Reset, CInv, IInv, TypeOK
    <2>2. ctl'.cmd = "NONE" /\ ctl'.cntValid = FALSE
      BY <2>1 DEF Fresh, lift_ctrl_init
    <2>3. dly1' = {} /\ dly2' = {} /\ dwell' = dwell
      BY <1>3 DEF Reset, lift
    <2>4. Standing'
      BY <2>2, <2>3 DEF CInv, Standing
    <2> QED BY <1>1, <2>2, <2>3, <2>4 DEF CInv, Sampled, Heading, Counting
  <1>4. CASE UNCHANGED vars
    <2>1. /\ ctl' = ctl /\ dly1' = dly1 /\ dly2' = dly2 /\ pos' = pos
          /\ dwell' = dwell /\ turns' = turns
      BY <1>4 DEF vars, lift
    <2>2. SensedAt(pos') = SensedAt(pos) /\ CountedTo' = CountedTo
      BY <2>1 DEF CountedTo
    <2>3. Sampled' /\ Standing' /\ Heading'
      BY <2>1, <2>2 DEF CInv, Sampled, Standing, Heading
    <2>4. Counting'
      BY <2>1, <2>2 DEF CInv, Counting
    <2> QED BY <1>1, <2>3, <2>4 DEF CInv
  <1> QED BY <1>2, <1>3, <1>4 DEF Next

-----------------------------------------------------------------------------
(* Every global of the controller keeps its range: timers, level, command. *)
THEOREM TypeCorrect == Spec => []TypeOK
  <1>1. IInv => TypeOK
    BY DEF IInv
  <1>2. IInv /\ [Next]_vars => IInv'
    BY NextIInv
  <1> QED BY InitIInv, <1>1, <1>2, PTL DEF Spec

(* The motor is never reversed while it runs or while the lift coasts, for *)
(* every delay of the motor and every window longer than the coasting.     *)
THEOREM DirectionIsHeld == Spec => DirectionHeld
  <1> DEFINE Held ==
        (ctl.motorOn \/ off < Coast) => ctl'.motorUp = ctl.motorUp
  <1>1. IInv /\ [Next]_vars => [Held]_vars
    BY NextIInv
  <1>2. IInv /\ [Next]_vars => IInv'
    BY NextIInv
  <1> QED BY InitIInv, <1>1, <1>2, PTL DEF Spec, DirectionHeld

(* For every shaft that goes on beyond its sensors for longer than a lift  *)
(* coasts, the lift never meets an end: the sensors are voted and late, so *)
(* this takes Place, how late the lift can be seen, and Aware.             *)
THEOREM EndsAreNotMet == Spec => []NeverAtTheEnd
  <1> DEFINE PInv == IInv /\ Place /\ Aware
  <1>1. Init => PInv
    BY InitIInv, InitPlace
  <1>2. PInv /\ [Next]_vars => PInv'
    <2> SUFFICES ASSUME PInv, [Next]_vars PROVE PInv'
      OBVIOUS
    <2>1. IInv'
      BY NextIInv
    <2>2. CASE Period
      BY <2>1, <2>2, PeriodPlace
    <2>3. CASE Reset
      BY <2>1, <2>3, ResetPlace
    <2>4. CASE UNCHANGED vars
      BY <2>1, <2>4 DEF vars, lift, Place, Aware
    <2> QED BY <2>2, <2>3, <2>4 DEF Next
  <1>3. PInv => NeverAtTheEnd
    BY DEF IInv, TypeOK, Place, NeverAtTheEnd
  <1> HIDE DEF PInv
  <1> QED BY <1>1, <1>2, <1>3, PTL DEF Spec

(* The count is the place of the lift whenever it stands and no command is *)
(* under way, up to half an impulse per turn, for every shaft and delay:   *)
(* the vote shows the place of the period before, the window of counting   *)
(* is open until the lift has stood there, and on each place one edge is   *)
(* counted in the direction in which it was reached.                       *)
THEOREM CountsThePlace == Spec => []CountIsPlace
  <1>1. CInv => CountIsPlace
    <2> SUFFICES ASSUME CInv, ctl.cmd = "NONE", ctl.cntValid
                 PROVE  \/ ctl.cnt = 0 /\ pos <= 0
                        \/ 2 * ctl.cnt - pos \in -(1 + turns)..(1 + turns)
      BY DEF CountIsPlace
    <2>1. ctl.cnt \in Int /\ pos \in Int /\ turns \in Nat
      BY DEF CInv, IInv, TypeOK, CtlType
    <2>2. CountedTo = pos
      BY DEF CInv, Standing, IInv, Phase, CountedTo
    <2>3. Fits(ctl.cnt, pos, ctl.directionUp, turns)
      BY <2>2 DEF CInv, Counting
    <2>4. ctl.directionUp \in BOOLEAN
      BY DEF CInv, IInv, TypeOK, CtlType
    <2> QED BY <2>1, <2>3, <2>4, FitsPlace
  <1>2. CInv /\ [Next]_vars => CInv'
    BY NextCInv
  <1> QED BY InitCInv, <1>1, <1>2, PTL DEF Spec

-----------------------------------------------------------------------------
(* How often LED 13 was on in the first n steps of a run: it is on in the  *)
(* second half of every 256 steps.                                         *)
Ones(n) == 128 * (n \div 256) + (IF n % 256 > 128 THEN (n % 256) - 128 ELSE 0)

(* Without input the controller stays as it was reset, the counter is the  *)
(* step, and the checksum what LED 13 adds up to by then.                  *)
Measured ==
  /\ began \in 0..6 /\ done \in Nat /\ dbgCnt \in Nat /\ sums \in Seq(Int)
  /\ Len(sums) \in {began, began - 1}
  /\ \A k \in 1..Len(sums) : sums[k] = 8192 * Ones(Plan[k])
  /\ program = "shaft" => began = 0
  /\ program = "port" => ctl = Fresh /\ dly1 = {} /\ dly2 = {}
  /\ began > 0 => /\ dbgCnt = done /\ done <= Plan[began]
                  /\ checksum = 8192 * Ones(done)

LEMMA PlanFact ==
  /\ Len(Plan) = 6
  /\ \A k \in 1..6 : Plan[k] \in Nat /\ (Plan[k] = 32 \/ Plan[k] = 1001)
  BY DEF Plan, WARMUP_STEPS, LIFT_STEPS

LEMMA OnesStep ==
  ASSUME NEW n \in Nat
  PROVE  Ones(n) \in Nat /\ Ones(n + 1) = Ones(n) + Led13(n)
  <1>1. PICK q \in Nat, r \in 0..255 : n = 256 * q + r
    <2>1. n \div 256 \in Nat /\ n % 256 \in 0..255
      OBVIOUS
    <2>2. n = 256 * (n \div 256) + (n % 256)
      OBVIOUS
    <2> QED BY <2>1, <2>2
  <1>2. n \div 256 = q /\ n % 256 = r
    BY <1>1
  <1>3. Led13(n) = IF r >= 128 THEN 1 ELSE 0
    <2>1. n \div 128 = 2 * q + (IF r >= 128 THEN 1 ELSE 0)
      BY <1>1
    <2>2. (2 * q) % 2 = 0 /\ (2 * q + 1) % 2 = 1 /\ 2 * q \in Nat
      OBVIOUS
    <2> QED BY <2>1, <2>2 DEF Led13
  <1>4. CASE r < 255
    <2>1. (n + 1) \div 256 = q /\ (n + 1) % 256 = r + 1
      BY <1>1, <1>4
    <2> QED BY <1>2, <1>3, <1>4, <2>1 DEF Ones
  <1>5. CASE r = 255
    <2>1. (n + 1) \div 256 = q + 1 /\ (n + 1) % 256 = 0
      BY <1>1, <1>5
    <2> QED BY <1>2, <1>3, <1>5, <2>1 DEF Ones
  <1>6. Ones(n) \in Nat
    BY <1>1, <1>2 DEF Ones
  <1> QED BY <1>1, <1>4, <1>5, <1>6

LEMMA OnesOfRuns == Ones(0) = 0 /\ 8192 * Ones(LIFT_STEPS) = LIFT_CHECKSUM
  BY DEF Ones, LIFT_STEPS, LIFT_CHECKSUM

(* Nothing is pressed and nothing is sensed: nothing is chosen.            *)
LEMMA FreshStays == lift_ctrl_loop(Fresh, {}) = Fresh
  <1>1. /\ Fresh.cmd = "NONE" /\ Fresh.loadPending = FALSE
        /\ Fresh.loadSensor = FALSE /\ Fresh.cntValid = FALSE /\ Fresh.level = 0
    BY DEF Fresh, lift_ctrl_init
  <1>2. Fresh \in CtlType
    BY FreshType
  <1>3. Pressed({}) = "NONE"
    BY DEF Pressed
  <1>4. Chosen(Fresh, {}) = "NONE"
    BY <1>1, <1>3 DEF Chosen
  <1>5. lift_check_cmd(Fresh, {}) = Fresh
    BY <1>1, <1>2, <1>3, <1>4 DEF lift_check_cmd, CtlType
  <1>6. lift_check_level(Fresh) = Fresh
    BY <1>1, <1>2 DEF lift_check_level, CtlType
  <1> QED BY <1>1, <1>5, <1>6 DEF lift_ctrl_loop

LEMMA InitMeasured == PortInit => Measured
  BY DEF PortInit, Init, Measured

LEMMA NextMeasured ==
  ASSUME Measured, [UseNext]_pvars
  PROVE  Measured'
  <1>1. CASE ShaftNext
    BY <1>1 DEF ShaftNext, port, Measured
  <1>2. CASE program = "port" /\ BeginRun
    <2>1. ctl' = Fresh
      BY <1>2, FreshType, ResetIsFresh DEF BeginRun, Measured
    <2>2. /\ began \in 0..5 /\ began' = began + 1 /\ Len(sums) = began
          /\ done' = 0 /\ dbgCnt' = 0 /\ checksum' = 0
          /\ sums' = sums /\ program' = program
          /\ dly1' = {} /\ dly2' = {}
      BY <1>2, PlanFact DEF BeginRun, clear_counts, Measured
    <2>3. began' \in 1..6 /\ Plan[began'] >= 0
      BY <2>2, PlanFact
    <2>4. checksum' = 8192 * Ones(done')
      BY <2>2, OnesOfRuns
    <2> QED BY <1>2, <2>1, <2>2, <2>3, <2>4 DEF Measured
  <1>3. CASE program = "port" /\ Step
    <2>1. began > 0 /\ done < Plan[began] /\ began \in 1..6
      BY <1>3 DEF Step, Running, Measured
    <2>2. in' = {} /\ dly1' = {} /\ dly2' = {}
      BY <1>3 DEF Step, Voted, Measured
    <2>3. ctl' = Fresh
      <3>1. ctl = Fresh
        BY <1>3 DEF Measured
      <3>2. ctl' = lift_ctrl_loop(ctl, in')
        BY <1>3 DEF Step
      <3>3. ctl' = lift_ctrl_loop(Fresh, {})
        BY <2>2, <3>1, <3>2, Zenon
      <3> QED BY <3>3, FreshStays, Zenon
    <2>4. Outputs(ctl', dbgCnt) = 8192 * Led13(done)
      <3>1. Fresh.motorOn = FALSE /\ Fresh.motorUp = FALSE /\ Fresh.level = 0
        BY DEF Fresh, lift_ctrl_init
      <3>2. dbgCnt = done /\ done \in Nat
        BY <2>1 DEF Measured
      <3>3. Led13(done) \in Int
        BY <3>2 DEF Led13
      <3> HIDE DEF Led13
      <3> QED BY <2>3, <3>1, <3>2, <3>3 DEF Outputs
    <2>5. /\ done' = done + 1 /\ dbgCnt' = dbgCnt + 1 /\ began' = began
          /\ sums' = sums /\ program' = program
          /\ checksum' = checksum + Outputs(ctl', dbgCnt)
      BY <1>3 DEF Step
    <2>6. checksum' = 8192 * Ones(done')
      <3>1. done \in Nat /\ checksum = 8192 * Ones(done)
        BY <2>1 DEF Measured
      <3>2. Ones(done) \in Nat /\ Ones(done + 1) = Ones(done) + Led13(done)
        BY <3>1, OnesStep
      <3>3. Led13(done) \in Int
        BY <3>1 DEF Led13
      <3> QED BY <2>4, <2>5, <3>1, <3>2, <3>3
    <2>7. Plan[began] \in Nat
      BY <2>1, PlanFact
    <2> QED BY <1>3, <2>1, <2>2, <2>3, <2>5, <2>6, <2>7 DEF Measured
  <1>4. CASE program = "port" /\ EndRun
    <2>1. /\ Len(sums) < began /\ done = Plan[began]
          /\ sums' = Append(sums, checksum)
          /\ UNCHANGED <<ctl, dly1, dly2, program, dbgCnt, checksum, began, done>>
      BY <1>4 DEF EndRun, Running, vars
    <2>2. began > 0 /\ Len(sums) \in Nat /\ began \in Nat
      BY <2>1 DEF Measured
    <2>3. checksum = 8192 * Ones(done) /\ done \in Nat
      BY <2>2 DEF Measured
    <2>4. sums \in Seq(Int) /\ checksum \in Int
      <3>1. Ones(done) \in Nat
        BY <2>3, OnesStep
      <3> HIDE DEF Ones
      <3> QED BY <2>3, <3>1 DEF Measured
    <2>5. /\ sums' \in Seq(Int) /\ Len(sums') = Len(sums) + 1
          /\ \A k \in 1..Len(sums) : sums'[k] = sums[k]
          /\ sums'[Len(sums) + 1] = checksum
      BY <2>1, <2>4
    <2>6. Len(sums') \in {began', began' - 1} /\ began = Len(sums) + 1
      BY <2>1, <2>2, <2>5 DEF Measured
    <2>7. \A k \in 1..Len(sums') : sums'[k] = 8192 * Ones(Plan[k])
      <3> SUFFICES ASSUME NEW k \in 1..Len(sums')
                   PROVE  sums'[k] = 8192 * Ones(Plan[k])
        OBVIOUS
      <3>1. CASE k \in 1..Len(sums)
        BY <2>5, <3>1 DEF Measured
      <3>2. CASE k = Len(sums) + 1
        BY <2>1, <2>3, <2>5, <2>6, <3>2
      <3> QED BY <2>2, <2>5, <3>1, <3>2
    <2>8. /\ program = "port" /\ program' = program /\ ctl' = ctl
          /\ dly1' = dly1 /\ dly2' = dly2 /\ dbgCnt' = dbgCnt
          /\ checksum' = checksum /\ began' = began /\ done' = done
      BY <1>4, <2>1
    <2> QED BY <2>5, <2>6, <2>7, <2>8 DEF Measured
  <1>5. CASE UNCHANGED pvars
    BY <1>5 DEF pvars, port, vars, Measured
  <1> QED BY <1>1, <1>2, <1>3, <1>4, <1>5 DEF UseNext, PortNext, Halted

(* Every measured run of main ends with LIFT_CHECKSUM, whatever ran before *)
(* it: 489 steps of 1001 have LED 13 on, and nothing else is ever on.      *)
THEOREM MainPasses == UseSpec => []RunsPass
  <1>1. Measured => RunsPass
    <2> SUFFICES ASSUME Measured, NEW k \in DOMAIN sums, Plan[k] = LIFT_STEPS
                 PROVE  sums[k] = LIFT_CHECKSUM
      BY DEF RunsPass
    <2>1. k \in 1..Len(sums)
      BY DEF Measured
    <2> QED BY <2>1, OnesOfRuns DEF Measured
  <1>2. Measured /\ [UseNext]_pvars => Measured'
    BY NextMeasured
  <1> QED BY InitMeasured, <1>1, <1>2, PTL DEF UseSpec
=================================================================================
