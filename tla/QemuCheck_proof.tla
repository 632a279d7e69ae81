----------------------------- MODULE QemuCheck_proof -----------------------------
(***************************************************************************)
(* Proofs about QemuCheck for every deadline and every set of exit codes.  *)
(***************************************************************************)
EXTENDS QemuCheck, TLAPS

USE LimitAssumption, CodesAssumption, NoneAssumption DEF TimedOut, Terminated, Live

(* Once the guest has booted its marker stays in the log.                  *)
Booted == booted => marker /\ qemu \notin {"forked", "opened"}

(* Without TERM the status is one that it leaves by itself with.           *)
Unstopped == ~stopped => code \in ExitCodes \cup {None}

(* How far the script has come, and what it then knows: it settles because *)
(* a marker was there, QEMU is gone, or the deadline has passed.           *)
Seen == booted \/ misled

Progress ==
  /\ pc \in Polling => status = 0
  /\ pc = "sleep" => elapsed < Limit
  /\ pc \in Polling \cup {"found", "present", "kill", "wait"} => ~stopped
  /\ pc \in {"found", "present", "wait"} =>
       \/ Seen
       \/ status = 0 /\ qemu = "reaped"
       \/ status = TimedOut /\ elapsed = Limit
  /\ pc = "wait" => qemu = "reaped"
  /\ pc \in {"kill", "reap"} =>
       Seen \/ (status = TimedOut /\ elapsed = Limit)
  /\ pc = "reap" => stopped \/ qemu \notin Live

(* What the last grep is combined with.                                    *)
Settled ==
  pc \in {"verdict", "done"} =>
    /\ qemu = "reaped"
    /\ \/ Seen
       \/ status = TimedOut /\ elapsed = Limit
       \/ ~stopped /\ status = code

(* A timeout stays one.                                                    *)
Timeouts == status = TimedOut => elapsed = Limit

Ended ==
  exit # None => IF marker THEN Seen /\ exit = 0 ELSE exit = status

IInv == TypeOK /\ Booted /\ Unstopped /\ Progress /\ Settled /\ Timeouts /\ Ended

LEMMA InitIInv == Init => IInv
  <1> SUFFICES ASSUME Init
               PROVE  IInv
    OBVIOUS
  <1>1. pc \notin {"done", "verdict"} /\ exit = None
    BY DEF Init
  <1>2. TypeOK
    <2>1. /\ {marker, booted, stopped, misled} \subseteq BOOLEAN
          /\ qemu \in Live \cup {"zombie", "reaped"} /\ qemu \in Live
          /\ pc \in Polling \cup Settling \cup {"done"}
      BY DEF Init, Polling
    <2>2. elapsed \in 0..Limit /\ status = 0 /\ code = None
      BY DEF Init
    <2> QED
      BY <1>1, <2>1, <2>2 DEF Init, TypeOK
  <1>3. Booted /\ Unstopped /\ Progress /\ Settled /\ Timeouts /\ Ended
    BY <1>1 DEF Init, Booted, Unstopped, Progress, Settled, Timeouts, Ended
  <1> QED BY <1>2, <1>3 DEF IInv

(* The guest and QEMU can only add the marker and end.                     *)
LEMMA MachineStep ==
  ASSUME IInv, Machine
  PROVE  IInv'
  <1>5. CASE OpenLog
    BY <1>5 DEF OpenLog, script, IInv, TypeOK, Progress, Settled, Ended, Booted, Unstopped,
                Seen, Timeouts, Polling, Settling
  <1>6. CASE Run
    BY <1>6 DEF Run, script, IInv, TypeOK, Progress, Settled, Ended, Booted, Unstopped,
                Seen, Timeouts, Polling, Settling
  <1>1. CASE PrintMarker
    BY <1>1 DEF PrintMarker, script, IInv, TypeOK, Progress, Settled, Ended, Booted, Unstopped,
                Seen, Timeouts, Polling, Settling
  <1>2. CASE Leave
    BY <1>2 DEF Leave, script, IInv, TypeOK, Progress, Settled, Ended, Booted, Unstopped,
                Seen, Timeouts, Polling, Settling
  <1>3. CASE Obey
    BY <1>3 DEF Obey, script, IInv, TypeOK, Progress, Settled, Ended, Booted, Unstopped,
                Seen, Timeouts, Polling, Settling
  <1>4. CASE Reap
    BY <1>4 DEF Reap, script, IInv, TypeOK, Progress, Settled, Ended, Booted, Unstopped,
                Seen, Timeouts, Polling, Settling
  <1> QED BY <1>1, <1>2, <1>3, <1>4, <1>5, <1>6 DEF Machine

LEMMA PollingStep ==
  ASSUME IInv, CheckAlive \/ LookForMarker \/ CheckClock \/ Sleep
  PROVE  IInv'
  <1>1. CASE CheckAlive
    BY <1>1 DEF CheckAlive, Answers, Goto, machine, IInv, TypeOK, Progress,
                Settled, Ended, Booted, Unstopped,
                Seen, Timeouts, Polling, Settling
  <1>2. CASE LookForMarker
    BY <1>2 DEF LookForMarker, Grep, Goto, machine, IInv, TypeOK, Progress, Settled,
                Ended, Booted, Unstopped,
                Seen, Timeouts, Polling, Settling
  <1>3. CASE CheckClock
    BY <1>3 DEF CheckClock, Goto, machine, IInv, TypeOK, Progress, Settled,
                Ended, Booted, Unstopped,
                Seen, Timeouts, Polling, Settling
  <1>4. CASE Sleep
    BY <1>4 DEF Sleep, Goto, machine, IInv, TypeOK, Progress, Settled, Ended, Booted, Unstopped,
                Seen, Timeouts, Polling, Settling
  <1> QED BY <1>1, <1>2, <1>3, <1>4

LEMMA SettlingStep ==
  ASSUME IInv,
         \/ AfterPolling \/ CheckPresent \/ Kill
         \/ WaitIgnoring \/ WaitForStatus \/ Verdict
  PROVE  IInv'
  <1>1. CASE AfterPolling
    BY <1>1 DEF AfterPolling, Grep, Goto, machine, IInv, TypeOK, Progress, Settled,
                Ended, Booted, Unstopped,
                Seen, Timeouts, Polling, Settling
  <1>2. CASE CheckPresent
    BY <1>2 DEF CheckPresent, Answers, Goto, machine, IInv, TypeOK, Progress,
                Settled, Ended, Booted, Unstopped,
                Seen, Timeouts, Polling, Settling
  <1>3. CASE Kill
    <2>1. pc = "kill" /\ pc' = "reap" /\ ~stopped /\ UNCHANGED <<machine, elapsed, status, misled, exit>>
      BY <1>3 DEF Kill, Goto, IInv, Progress
    <2>2. stopped' \in BOOLEAN /\ (stopped' <=> qemu \in Live)
      BY <1>3, <2>1 DEF Kill
    <2> QED BY <2>1, <2>2 DEF machine, IInv, TypeOK, Progress, Settled, Ended, Booted, Unstopped,
                Seen, Timeouts, Polling, Settling
  <1>4. CASE WaitIgnoring
    BY <1>4 DEF WaitIgnoring, Goto, IInv, TypeOK, Progress, Settled, Ended, Booted, Unstopped,
                Seen, Timeouts, Polling, Settling
  <1>5. CASE WaitForStatus
    <2>1. /\ pc = "wait" /\ pc' = "verdict" /\ UNCHANGED <<machine, stopped, elapsed, misled, exit>>
          /\ status' = IF code = 0 THEN status ELSE code
      BY <1>5 DEF WaitForStatus, Goto
    <2>2. /\ qemu = "reaped" /\ ~stopped /\ code \in ExitCodes /\ exit = None
          /\ Seen \/ status = 0 \/ (status = TimedOut /\ elapsed = Limit)
      BY <2>1 DEF IInv, TypeOK, Progress, Unstopped
    <2>3. TypeOK'
      BY <2>1, <2>2 DEF IInv, TypeOK, machine, Polling, Settling
    <2>4. Booted' /\ Unstopped' /\ Progress' /\ Ended'
      BY <2>1, <2>2 DEF IInv, Booted, Unstopped, Progress, Ended, machine, Polling
    <2>5. Settled' /\ Timeouts'
      BY <2>1, <2>2 DEF IInv, Settled, Timeouts, Seen, machine
    <2> QED BY <2>3, <2>4, <2>5 DEF IInv
  <1>6. CASE Verdict
    BY <1>6 DEF Verdict, Grep, Goto, machine, IInv, TypeOK, Progress, Settled, Ended, Booted, Unstopped,
                Seen, Timeouts, Polling, Settling
  <1> QED BY <1>1, <1>2, <1>3, <1>4, <1>5, <1>6

LEMMA NextIInv == IInv /\ [Next]_vars => IInv'
  <1>1. ASSUME IInv, UNCHANGED vars
        PROVE  IInv'
    BY <1>1 DEF vars, machine, script, IInv, TypeOK, Progress, Settled, Ended, Booted, Unstopped,
                Seen, Timeouts, Polling, Settling
  <1> QED BY <1>1, MachineStep, PollingStep, SettlingStep DEF Next, Script

-----------------------------------------------------------------------------
(* The script and QEMU stay in the states the model declares.              *)
THEOREM TypeCorrect == Spec => []TypeOK
  <1>1. IInv => TypeOK
    BY DEF IInv
  <1> QED BY InitIInv, NextIInv, <1>1, PTL DEF Spec

(* Wherever the marker falls between the greps, a boot that passed is      *)
(* reported as passed; and a pass is reported without one only for a QEMU  *)
(* that left by itself with status 0 before the deadline, or after the log *)
(* of an earlier check was read.                                           *)
THEOREM AgreesWithLog == Spec => []VerdictAgreesWithLog
  <1>1. IInv => VerdictAgreesWithLog
    BY DEF IInv, TypeOK, Booted, Unstopped, Seen, Settled, Timeouts, Ended, VerdictAgreesWithLog
  <1> QED BY InitIInv, NextIInv, <1>1, PTL DEF Spec

(* No QEMU survives the script.                                            *)
THEOREM LeavesNoOrphan == Spec => []NoOrphan
  <1>1. IInv => NoOrphan
    BY DEF IInv, TypeOK, Settled, NoOrphan
  <1> QED BY InitIInv, NextIInv, <1>1, PTL DEF Spec

(* A timeout is reported only for a boot that outlasted all polls, and for *)
(* every QEMU stopped without a boot if no earlier log was read.           *)
THEOREM ReportsTimeouts == Spec => []TimeoutIsReported
  <1>1. IInv => TimeoutIsReported
    BY DEF IInv, TypeOK, Booted, Unstopped, Seen, Settled, Timeouts, Ended, TimeoutIsReported
  <1> QED BY InitIInv, NextIInv, <1>1, PTL DEF Spec

(* QEMU's own failure is handed on, if no earlier log was read.            *)
THEOREM ReportsCrashes == Spec => []CrashIsReported
  <1>1. IInv => CrashIsReported
    BY DEF IInv, TypeOK, Booted, Unstopped, Seen, Settled, Timeouts, Ended, CrashIsReported
  <1> QED BY InitIInv, NextIInv, <1>1, PTL DEF Spec
=================================================================================
