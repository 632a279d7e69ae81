-------------------------------- MODULE PgoBuild --------------------------------
(***************************************************************************)
(* linux-system/scripts/build-simulator.sh: the profile-guided build of    *)
(* the simulator.  One invocation fingerprints the sources, and unless the *)
(* stored profile carries that fingerprint builds an instrumented          *)
(* simulator, trains it, merges the raw profiles and signs the profile;    *)
(* then it builds the optimized simulator.  What it leaves on disk decides *)
(* what the next invocation skips.                                         *)
(*                                                                         *)
(* An invocation can be killed between any two steps and is rerun; the     *)
(* sources can be edited between and during invocations.  A fingerprint    *)
(* identifies the sources it was taken from: a version stands for both     *)
(* (collisions of cksum are ignored).  Invocations do not overlap.         *)
(***************************************************************************)
EXTENDS Naturals, FiniteSets

CONSTANTS
  Versions,    (* Contents of everything the manifest covers.              *)
  InsideBuild, (* Which of the three PGO_* paths lie inside PGO_BUILD.      *)
  None,
  MaxEdits,    (* Bounds the model: edits of the sources.                  *)
  MaxFaults    (* Bounds the model: kills, failing tools, make clean.      *)

ASSUME VersionsAssumption == Versions # {}
ASSUME InsideAssumption   == InsideBuild \subseteq {"profile", "fingerprint", "pending"}
ASSUME BoundsAssumption   == MaxEdits \in Nat /\ MaxFaults \in Nat

VARIABLES
  src,     (* The version the sources are at.                              *)
  pc,      (* The next step of the invocation; "idle" when none runs.      *)
  fp,      (* Its variable `fingerprint`.                                  *)
  disk,    (* What outlives an invocation, see DiskType.                   *)
  log,     (* $training_log: absent, unfinished, or reporting completion.  *)
  edited,  (* History: the sources changed since the last invocation started. *)
  tainted, (* History: they had when the instrumented binary was built.    *)
  edits, faults

vars == <<src, pc, fp, disk, log, edited, tainted, edits, faults>>
environment == <<src, edited, tainted, edits>>

Maybe(S) == S \cup {None}

(* A raw or merged profile: the version of the instrumented binary that    *)
(* wrote it, and whether its training ran to the end ("whole"), stopped    *)
(* early, or was cut off while being written ("torn").                     *)
RawProfiles == [of : Versions, kind : {"whole", "early", "torn"}]
Profiles    == [of : Versions, kind : {"whole", "early"}]

(* The optimized build tree: the version of its objects, the profiles they *)
(* were compiled with, and whether the executable was linked.              *)
Builds == [of : Versions, profiles : SUBSET Profiles, linked : BOOLEAN]

ASSUME NoneAssumption == None \notin Versions \cup RawProfiles \cup Builds

DiskType ==
  [ profile     : Maybe(Profiles),      (* $pgo_profile                    *)
    fingerprint : Maybe(Versions),      (* $pgo_fingerprint                *)
    pending     : Maybe(Versions),      (* $pgo_pending_fingerprint        *)
    binary      : Maybe(Versions),      (* $pgo_build/bin/zircon-sim       *)
    raws        : SUBSET RawProfiles,   (* non-empty .profraw files        *)
    sim         : Maybe(Builds) ]       (* $sim_build                      *)

Empty == [profile |-> None, fingerprint |-> None, pending |-> None,
          binary |-> None, raws |-> {}, sim |-> None]

Steps == {"idle", "decide", "wipe", "build", "label", "clear", "launch",
          "training", "exiting", "merge", "sign", "unpend", "final"}

TypeOK ==
  /\ src \in Versions
  /\ pc \in Steps
  /\ fp \in Maybe(Versions)
  /\ pc # "idle" => fp \in Versions
  /\ disk \in DiskType
  /\ log \in {"absent", "unfinished", "completed"}
  /\ edited \in BOOLEAN /\ tainted \in BOOLEAN
  /\ edits \in 0..MaxEdits /\ faults \in 0..MaxFaults

Init ==
  /\ src \in Versions
  /\ pc = "idle" /\ fp = None
  /\ disk = Empty /\ log = "absent"
  /\ edited = FALSE /\ tainted = FALSE
  /\ edits = 0 /\ faults = 0

-----------------------------------------------------------------------------
(* One invocation.                                                         *)
Goto(from, to) == pc = from /\ pc' = to
Put(file, x)   == disk' = [disk EXCEPT ![file] = x]

Fault == faults < MaxFaults /\ faults' = faults + 1
NoFault == faults' = faults

Start ==
  /\ Goto("idle", "decide")
  /\ fp' = src
  /\ edited' = FALSE
  /\ UNCHANGED <<src, disk, log, tainted, edits, faults>>

ProfileIsCurrent == disk.profile # None /\ disk.fingerprint = fp
(* A mutant: any instrumented binary will do.                              *)
BinaryExists == disk.binary # None

PendingIsCurrent == disk.pending = fp /\ disk.binary # None
TrainingCompleted == log = "completed"

(* A mutant: every invocation trains again.                                *)
DecideToTrain ==
  /\ \/ ProfileIsCurrent /\ Goto("decide", "final")
     \/ ~ProfileIsCurrent /\ PendingIsCurrent /\ Goto("decide", "clear")
     \/ ~ProfileIsCurrent /\ ~PendingIsCurrent /\ Goto("decide", "wipe")
  /\ UNCHANGED <<fp, disk, log, environment, faults>>

Decide ==
  /\ \/ ProfileIsCurrent /\ Goto("decide", "final")
     \/ /\ ~ProfileIsCurrent /\ PendingIsCurrent
        /\ disk.raws # {} /\ TrainingCompleted
        /\ Goto("decide", "merge")
     \/ /\ ~ProfileIsCurrent /\ PendingIsCurrent
        /\ ~(disk.raws # {} /\ TrainingCompleted)
        /\ Goto("decide", "clear")
     \/ ~ProfileIsCurrent /\ ~PendingIsCurrent /\ Goto("decide", "wipe")
  /\ UNCHANGED <<fp, disk, log, environment, faults>>

(* rm -rf "$pgo_build" "$sim_build" unlinks one file after the other, in   *)
(* no particular order, and is finished when none is left.                 *)
InPgoBuild == InsideBuild \cup {"binary", "raws"}

Unlink(file) ==
  /\ pc = "wipe"
  /\ file \in InPgoBuild
       \/ (file = "sim" /\ \A f \in InPgoBuild : disk[f] = Empty[f])
  /\ disk[file] # Empty[file]
  /\ Put(file, Empty[file])
  /\ UNCHANGED <<pc, fp, log, environment, faults>>

(* A mutant: rm -rf "$pgo_build" only.                                     *)
WipedPgoBuild ==
  /\ \A f \in InPgoBuild : disk[f] = Empty[f]
  /\ Goto("wipe", "build")
  /\ UNCHANGED <<fp, disk, log, environment, faults>>

Wiped ==
  /\ \A f \in InPgoBuild \cup {"sim"} : disk[f] = Empty[f]
  /\ Goto("wipe", "build")
  /\ UNCHANGED <<fp, disk, log, environment, faults>>

BuildInstrumented ==
  /\ Goto("build", "label")
  /\ Put("binary", src)
  /\ tainted' = edited
  /\ UNCHANGED <<src, fp, log, edited, edits, faults>>

Label ==
  /\ Goto("label", "clear")
  /\ Put("pending", fp)
  /\ UNCHANGED <<fp, log, environment, faults>>

ClearRaws ==
  /\ Goto("clear", "launch")
  /\ Put("raws", {})
  /\ UNCHANGED <<fp, log, environment, faults>>

(* The training pipeline: tee truncates the log before the simulator runs. *)
Launch ==
  /\ Goto("launch", "training")
  /\ log' = "unfinished"
  /\ UNCHANGED <<fp, disk, environment, faults>>

ReachLastCycle ==
  /\ Goto("training", "exiting")
  /\ log' = "completed"
  /\ UNCHANGED <<fp, disk, environment, faults>>

Raw(kind) == [of |-> disk.binary, kind |-> kind]

TrainingExits ==
  /\ Goto("exiting", "merge")
  /\ Put("raws", {Raw("whole")})
  /\ UNCHANGED <<fp, log, environment, faults>>

Torn == \E r \in disk.raws : r.kind = "torn"

(* llvm-profdata merges all raw profiles into a temporary file, which mv   *)
(* puts in place; at most one raw profile is ever there.                   *)
Merge ==
  /\ disk.raws # {} /\ ~Torn
  /\ Goto("merge", "sign")
  /\ \E r \in disk.raws : Put("profile", r)
  /\ UNCHANGED <<fp, log, environment, faults>>

(* No raw profile, or one that llvm-profdata rejects: the script gives up. *)
MergeFails ==
  /\ disk.raws = {} \/ Torn
  /\ Goto("merge", "idle")
  /\ UNCHANGED <<fp, disk, log, environment, faults>>

(* A mutant: the profile is not signed.                                    *)
SignNothing ==
  /\ Goto("sign", "unpend")
  /\ UNCHANGED <<fp, disk, log, environment, faults>>

Sign ==
  /\ Goto("sign", "unpend")
  /\ Put("fingerprint", fp)
  /\ UNCHANGED <<fp, log, environment, faults>>

Unpend ==
  /\ Goto("unpend", "final")
  /\ Put("pending", None)
  /\ UNCHANGED <<fp, log, environment, faults>>

(* The optimized build is incremental: it recompiles what changed in the   *)
(* sources, and any object it keeps keeps the profile it was compiled with. *)
Compiled(linked) ==
  { [of |-> src, profiles |-> kept \cup fresh, linked |-> linked] :
      kept  \in SUBSET (IF disk.sim = None THEN {} ELSE disk.sim.profiles),
      fresh \in SUBSET {disk.profile} } 

BuildOptimized ==
  /\ Goto("final", "idle")
  /\ \E b \in Compiled(TRUE) : b.profiles # {} /\ Put("sim", b)
  /\ UNCHANGED <<fp, log, environment, faults>>

-----------------------------------------------------------------------------
(* Faults: a step fails and `set -e` ends the invocation, or it is killed. *)
Stop == pc' = "idle" /\ UNCHANGED <<fp, environment>>

Killed ==
  /\ pc # "idle"
  /\ Fault /\ Stop
  /\ UNCHANGED <<disk, log>>

(* The simulator stops before the last cycle, with or without a profile.   *)
TrainingFails ==
  /\ pc = "training"
  /\ Fault /\ Stop
  /\ \E left \in {{}, {Raw("early")}} : Put("raws", left)
  /\ UNCHANGED log

(* It reported the last cycle, but fails or is killed while it exits.      *)
ExitFails ==
  /\ pc = "exiting"
  /\ Fault /\ Stop
  /\ \E kind \in {"whole", "torn"} : Put("raws", {Raw(kind)})
  /\ UNCHANGED log

OptimizedBuildFails ==
  /\ pc = "final"
  /\ Fault /\ Stop
  /\ \E b \in Compiled(FALSE) : Put("sim", b)
  /\ UNCHANGED log

(* make clean removes $training_log with the rest of linux-system/build.   *)
MakeClean ==
  /\ pc = "idle"
  /\ Fault
  /\ log' = "absent"
  /\ UNCHANGED <<pc, fp, disk, environment>>

Edit ==
  /\ edits < MaxEdits
  /\ edits' = edits + 1
  /\ src' \in Versions \ {src}
  /\ edited' = TRUE
  /\ UNCHANGED <<pc, fp, disk, log, tainted, faults>>

-----------------------------------------------------------------------------
Script ==
  \/ Decide \/ (\E f \in DOMAIN Empty : Unlink(f)) \/ Wiped
  \/ BuildInstrumented \/ Label \/ ClearRaws \/ Launch \/ ReachLastCycle
  \/ TrainingExits \/ Merge \/ MergeFails \/ Sign \/ Unpend \/ BuildOptimized

Faulty == Killed \/ TrainingFails \/ ExitFails \/ OptimizedBuildFails \/ MakeClean

Next == Start \/ Script \/ Faulty \/ Edit

Spec == Init /\ [][Next]_vars

(* The script runs on once started, and its user reruns it when it stopped. *)
FairSpec == Spec /\ WF_vars(Start) /\ WF_vars(Script)

-----------------------------------------------------------------------------
(* What the fingerprint files claim is true, whatever was killed before:   *)
(* the profile signed F was trained to the end by a binary of version F,   *)
(* and the instrumented binary labelled F was built from F.  One exception, *)
(* which the script cannot see: the sources changed between the fingerprint *)
(* and the build of the instrumented binary the labels go back to.         *)
LabelsAreTrue ==
  ~tainted =>
    /\ (disk.profile # None /\ disk.fingerprint # None) =>
         disk.profile = [of |-> disk.fingerprint, kind |-> "whole"]
    /\ (disk.binary # None /\ disk.pending # None) =>
         disk.binary = disk.pending

(* An invocation that finishes and was not edited under leaves a simulator *)
(* of the sources it was started for.  All its objects, those of earlier   *)
(* incremental builds included, were optimized with a complete profile of  *)
(* those very sources, unless the instrumented binary that was trained was *)
(* itself built by an invocation that had been edited under: its profile   *)
(* is signed with a fingerprint it does not have, and is reused without a  *)
(* word when the edit is taken back.                                       *)
FinishedBuildIsCurrent ==
  [][ (BuildOptimized /\ ~edited) =>
        /\ disk'.sim.of = fp
        /\ ~tainted =>
             disk'.sim.profiles = {[of |-> fp, kind |-> "whole"]} ]_vars

(* A completed training run is not repeated: from the moment its profile   *)
(* is on disk, no step of an invocation for the same sources, and no kill, *)
(* loses it before the profile merged from it is signed.                   *)
Trained(v) ==
  \/ /\ disk.pending = v /\ disk.binary # None /\ log = "completed"
     /\ \E r \in disk.raws : r.kind = "whole"
  \/ disk.profile # None /\ disk.fingerprint = v

TrainingIsKept ==
  [][ (Trained(src) /\ src' = src /\ (pc = "idle" \/ fp = src) /\ ~MakeClean)
        => Trained(src)' ]_vars

(* Reruns converge: once edits and faults cease, the optimized simulator   *)
(* is of the present sources and stays so, except that a profile torn by   *)
(* a kill under a completed log is retried for ever.                       *)
UpToDate == disk.sim # None /\ disk.sim.linked /\ disk.sim.of = src

Wedged == Torn /\ TrainingCompleted /\ disk.pending = src

Converges == <>[](UpToDate \/ Wedged)
=================================================================================
