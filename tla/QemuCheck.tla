-------------------------------- MODULE QemuCheck --------------------------------
(***************************************************************************)
(* linux-system/scripts/run-qemu.sh: the boot check.  The script starts    *)
(* QEMU in the background with its output in a log, polls once a second    *)
(* for the marker that the guest's /init prints when zircon-validation     *)
(* passes, gives up after Limit polls, stops QEMU and turns what the log   *)
(* and QEMU's exit status say into its own exit status.                    *)
(*                                                                         *)
(* The guest, QEMU and the script run concurrently: the marker can be      *)
(* printed, and QEMU can leave by itself, between any two commands.  An    *)
(* exited QEMU answers `kill -0` until the shell has reaped it.  The log   *)
(* is truncated by the process that becomes QEMU, after the fork: until    *)
(* then the script reads what an earlier check left in it.                 *)
(***************************************************************************)
EXTENDS Naturals

CONSTANTS
  Limit,      (* Polls before giving up: 120.                              *)
  ExitCodes,  (* Exit statuses of a QEMU that leaves by itself.            *)
  None

TimedOut   == 124
Terminated == 143   (* 128 and the number of TERM. *)

ASSUME LimitAssumption == Limit \in Nat
ASSUME CodesAssumption == ExitCodes \subseteq (0..255) \ {TimedOut}
ASSUME NoneAssumption  == None \notin 0..255

VARIABLES
  marker,   (* The log holds ZIRCON_LINUX_BOOT_PASS.                       *)
  booted,   (* This QEMU's guest has printed it.                           *)
  qemu,     (* "forked" (from the shell), "opened" (the log is its own,    *)
            (* TERM still ends it at once), "running", "zombie" (exited,   *)
            (* not reaped) or "reaped".                                    *)
  code,     (* The exit status of QEMU, None while it runs.                *)
  stopped,  (* A TERM signal was sent to it.                               *)
  pc,       (* The next command of the script, "done" after it.            *)
  elapsed, status,   (* Its variables of these names.                      *)
  misled,   (* A grep has found the marker of an earlier check.            *)
  exit      (* The exit status of the script, None before.                 *)

machine == <<marker, booted, qemu, code>>
script  == <<stopped, pc, elapsed, status, misled, exit>>
vars    == <<machine, script>>

Polling  == {"alive", "look", "clock", "sleep"}
Settling == {"found", "present", "kill", "reap", "wait", "verdict"}

Live == {"forked", "opened", "running"}

TypeOK ==
  /\ {marker, booted, stopped, misled} \subseteq BOOLEAN
  /\ qemu \in Live \cup {"zombie", "reaped"}
  /\ code \in ExitCodes \cup {0, Terminated, None}
  /\ (code = None) <=> (qemu \in Live)
  /\ pc \in Polling \cup Settling \cup {"done"}
  /\ elapsed \in 0..Limit
  /\ status \in ExitCodes \cup {0, TimedOut}
  /\ exit \in ExitCodes \cup {0, TimedOut, None}
  /\ (exit = None) <=> (pc # "done")

Init ==
  /\ marker \in BOOLEAN /\ booted = FALSE /\ qemu = "forked" /\ code = None
  /\ stopped = FALSE /\ pc = "alive" /\ misled = FALSE
  /\ elapsed = 0 /\ status = 0 /\ exit = None

-----------------------------------------------------------------------------
(* The guest and QEMU.                                                     *)
OpenLog ==
  /\ qemu = "forked" /\ qemu' = "opened"
  /\ marker' = FALSE
  /\ UNCHANGED <<booted, code, script>>

Run ==
  /\ qemu = "opened" /\ ~stopped /\ qemu' = "running"
  /\ UNCHANGED <<marker, booted, code, script>>

PrintMarker ==
  /\ qemu = "running"
  /\ marker' = TRUE /\ booted' = TRUE
  /\ UNCHANGED <<qemu, code, script>>

(* It ends by itself (external): shutdown, crash or a foreign signal, or a *)
(* log or a program that cannot be opened.                                 *)
Leave ==
  /\ qemu \in Live /\ ~stopped
  /\ qemu' = "zombie"
  /\ code' \in IF qemu = "running" THEN ExitCodes ELSE ExitCodes \ {0}
  /\ UNCHANGED <<marker, booted, script>>

(* It obeys TERM (external): QEMU shuts down with status 0.                *)
Obey ==
  /\ qemu \in Live /\ stopped
  /\ qemu' = "zombie"
  /\ code' = IF qemu = "running" THEN 0 ELSE Terminated
  /\ UNCHANGED <<marker, booted, script>>

(* The shell may reap it while it waits for any other child.               *)
Reap ==
  /\ qemu = "zombie"
  /\ qemu' = "reaped"
  /\ UNCHANGED <<marker, booted, code, script>>

-----------------------------------------------------------------------------
(* The script, one action per command.                                     *)
Goto(from, to) == pc = from /\ pc' = to

Answers == qemu # "reaped"      (* kill -0 "$qemu_pid" *)

CheckAlive ==
  /\ \/ Answers  /\ Goto("alive", "look")
     \/ ~Answers /\ Goto("alive", "found")
  /\ UNCHANGED <<machine, stopped, elapsed, status, misled, exit>>

(* grep -q ZIRCON_LINUX_BOOT_PASS "$log": whether it finds the marker.     *)
Grep(found) ==
  /\ found = marker
  /\ misled' = (misled \/ (marker /\ ~booted))

LookForMarker ==
  /\ \/ Grep(TRUE)  /\ Goto("look", "found")
     \/ Grep(FALSE) /\ Goto("look", "clock")
  /\ UNCHANGED <<machine, stopped, elapsed, status, exit>>

(* A mutant: gives up, but forgets the status of a timeout.                *)
CheckClockSilent ==
  /\ \/ elapsed >= Limit /\ Goto("clock", "found")
     \/ elapsed < Limit  /\ Goto("clock", "sleep")
  /\ UNCHANGED <<machine, stopped, elapsed, status, misled, exit>>

CheckClock ==
  /\ \/ elapsed >= Limit /\ Goto("clock", "found") /\ status' = TimedOut
     \/ elapsed < Limit  /\ Goto("clock", "sleep") /\ UNCHANGED status
  /\ UNCHANGED <<machine, stopped, elapsed, misled, exit>>

(* A mutant: the polls are not counted.                                    *)
SleepUncounted ==
  /\ Goto("sleep", "alive")
  /\ UNCHANGED <<machine, stopped, elapsed, status, misled, exit>>

Sleep ==
  /\ Goto("sleep", "alive")
  /\ elapsed' = elapsed + 1
  /\ UNCHANGED <<machine, stopped, status, misled, exit>>

(* A mutant: a pass does not stop QEMU.                                    *)
AfterPollingLeaving ==
  /\ \/ Grep(TRUE)  /\ Goto("found", "verdict")
     \/ Grep(FALSE) /\ Goto("found", "present")
  /\ UNCHANGED <<machine, stopped, elapsed, status, exit>>

AfterPolling ==
  /\ \/ Grep(TRUE)  /\ Goto("found", "kill")
     \/ Grep(FALSE) /\ Goto("found", "present")
  /\ UNCHANGED <<machine, stopped, elapsed, status, exit>>

CheckPresent ==
  /\ \/ Answers  /\ Goto("present", "kill")
     \/ ~Answers /\ Goto("present", "wait")
  /\ UNCHANGED <<machine, stopped, elapsed, status, misled, exit>>

Kill ==
  /\ Goto("kill", "reap")
  /\ stopped' = (stopped \/ qemu \in Live)
  /\ UNCHANGED <<machine, elapsed, status, misled, exit>>

(* wait "$qemu_pid" || true *)
WaitIgnoring ==
  /\ qemu \notin Live
  /\ Goto("reap", "verdict")
  /\ qemu' = "reaped"
  /\ UNCHANGED <<marker, booted, code, stopped, elapsed, status, misled, exit>>

(* A mutant: the status of a QEMU that left by itself is ignored.          *)
WaitForNothing ==
  /\ qemu \notin Live
  /\ Goto("wait", "verdict")
  /\ UNCHANGED <<machine, stopped, elapsed, status, misled, exit>>

(* wait "$qemu_pid" || status=$? *)
WaitForStatus ==
  /\ qemu \notin Live
  /\ Goto("wait", "verdict")
  /\ status' = IF code = 0 THEN status ELSE code
  /\ UNCHANGED <<machine, stopped, elapsed, misled, exit>>

(* A mutant: the last grep is left out.                                    *)
VerdictByStatus ==
  /\ Goto("verdict", "done")
  /\ exit' = status
  /\ UNCHANGED <<machine, stopped, elapsed, status, misled>>

Verdict ==
  /\ Goto("verdict", "done")
  /\ \/ Grep(TRUE)  /\ exit' = 0
     \/ Grep(FALSE) /\ exit' = status
  /\ UNCHANGED <<machine, stopped, elapsed, status>>

-----------------------------------------------------------------------------
Script ==
  \/ CheckAlive \/ LookForMarker \/ CheckClock \/ Sleep \/ AfterPolling
  \/ CheckPresent \/ Kill \/ WaitIgnoring \/ WaitForStatus \/ Verdict

Machine == OpenLog \/ Run \/ PrintMarker \/ Leave \/ Obey \/ Reap

Next == Script \/ Machine

Spec == Init /\ [][Next]_vars

(* The shell is scheduled, and QEMU obeys TERM.  Nothing obliges the guest *)
(* to print the marker, QEMU to leave by itself, or the log to be opened.  *)
FairSpec == Spec /\ WF_vars(Script) /\ WF_vars(Obey)

-----------------------------------------------------------------------------
(* The verdict agrees with the boot: wherever the marker falls between the *)
(* four greps, the deadline and the kill, a boot that passed is never      *)
(* reported as failed, and success without one only if QEMU left by itself *)
(* with status 0 before the deadline, or a grep came before the truncation *)
(* of a log with the marker of an earlier check.                           *)
VerdictAgreesWithLog ==
  exit # None =>
    /\ booted => exit = 0
    /\ exit = 0 /\ ~booted /\ ~misled => code = 0 /\ ~stopped /\ status = 0

(* The script never ends while its QEMU still runs and may write the log.  *)
NoOrphan == exit # None => qemu = "reaped"

(* A timeout is reported only after all polls and without a boot, and a    *)
(* QEMU that had to be stopped without one is always a timeout, unless the *)
(* log of an earlier check was read.                                       *)
TimeoutIsReported ==
  /\ exit = TimedOut => elapsed = Limit /\ ~booted
  /\ exit # None /\ stopped /\ ~booted /\ ~misled => exit = TimedOut

(* A QEMU that leaves before the deadline without a boot hands its exit    *)
(* status to the script, whoever reaped it and when, unless the log of an  *)
(* earlier check was read.                                                 *)
CrashIsReported ==
  exit # None /\ ~booted /\ ~misled /\ elapsed < Limit => exit = code

(* The check always ends, also when the guest hangs without a word.        *)
Terminates == <>(exit # None)
=================================================================================
