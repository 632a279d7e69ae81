----------------------------- MODULE PgoBuild_proof -----------------------------
(***************************************************************************)
(* Proofs about PgoBuild for any number of versions, edits and faults, for *)
(* every configuration that keeps the two fingerprint files in PGO_BUILD.  *)
(***************************************************************************)
EXTENDS PgoBuild, TLAPS

LabelsInside == {"fingerprint", "pending"} \subseteq InsideBuild

Trusted(v)  == v \in Versions /\ ~tainted
GoodProfile(v) == [of |-> v, kind |-> "whole"]

(* An invocation nobody edited under still sees the sources it hashed.     *)
Unedited == pc # "idle" /\ ~edited => src = fp

(* What each step of an invocation finds on disk.                          *)
Stages ==
  /\ pc \in {"build", "label"} =>
       /\ disk.fingerprint = None /\ disk.pending = None
       /\ disk.raws = {} /\ disk.sim = None
  /\ pc = "label" => disk.binary # None /\ (Trusted(fp) => disk.binary = fp)
  /\ pc \in {"clear", "launch", "training", "exiting"} => disk.binary # None
  /\ pc \in {"clear", "launch", "training", "exiting", "merge", "sign", "unpend"}
       => disk.pending = fp
  /\ pc \in {"launch", "training", "exiting"} => disk.raws = {}
  /\ pc = "training" => log = "unfinished"
  /\ pc \in {"exiting", "merge"} => log = "completed"
  /\ pc \in {"sign", "unpend", "final"} => disk.profile # None
  /\ pc = "sign" /\ Trusted(fp) => disk.profile = GoodProfile(fp)
  /\ pc \in {"unpend", "final"} => disk.fingerprint = fp

(* What a killed invocation may leave for the next one to find: the two    *)
(* labels never name different versions, and everything that stands next   *)
(* to a label is of the version it names.                                  *)
Leftovers ==
  /\ disk.pending # None /\ disk.fingerprint # None =>
       disk.pending = disk.fingerprint
  /\ \A r \in disk.raws : Trusted(disk.pending) => r.of = disk.pending
  /\ \A r \in disk.raws : r.kind = "early" => log # "completed"
  /\ \A v \in {disk.pending, disk.fingerprint} :
       Trusted(v) /\ disk.sim # None => disk.sim.profiles \subseteq {GoodProfile(v)}

IInv == TypeOK /\ Unedited /\ Stages /\ Leftovers /\ LabelsAreTrue

USE NoneAssumption, BoundsAssumption

LEMMA InitIInv == Init => IInv
  <1> SUFFICES ASSUME Init PROVE IInv
    OBVIOUS
  <1>1. /\ disk = Empty /\ pc = "idle" /\ disk.profile = None
        /\ disk.fingerprint = None /\ disk.pending = None
        /\ disk.binary = None /\ disk.raws = {} /\ disk.sim = None
    BY DEF Init, Empty
  <1>2. disk \in DiskType
    BY <1>1 DEF DiskType, Empty, Maybe
  <1>3. TypeOK
    <2>1. 0 \in 0..MaxEdits /\ 0 \in 0..MaxFaults
      BY BoundsAssumption
    <2> QED BY <1>2, <2>1 DEF Init, TypeOK, Maybe, Steps
  <1>4. Unedited /\ Stages /\ LabelsAreTrue
    BY <1>1 DEF Unedited, Stages, LabelsAreTrue
  <1>5. Leftovers
    BY <1>1 DEF Leftovers
  <1> QED BY <1>3, <1>4, <1>5 DEF IInv

-----------------------------------------------------------------------------
(* What writing one file leaves of the others.                             *)
LEMMA Put_profile ==
  ASSUME disk \in DiskType, NEW x \in Maybe(Profiles), Put("profile", x)
  PROVE  /\ disk' \in DiskType /\ disk'.profile = x
         /\ disk'.fingerprint = disk.fingerprint
         /\ disk'.pending = disk.pending
         /\ disk'.binary = disk.binary
         /\ disk'.raws = disk.raws
         /\ disk'.sim = disk.sim
  BY DEF DiskType, Put

LEMMA Put_fingerprint ==
  ASSUME disk \in DiskType, NEW x \in Maybe(Versions), Put("fingerprint", x)
  PROVE  /\ disk' \in DiskType /\ disk'.fingerprint = x
         /\ disk'.profile = disk.profile
         /\ disk'.pending = disk.pending
         /\ disk'.binary = disk.binary
         /\ disk'.raws = disk.raws
         /\ disk'.sim = disk.sim
  BY DEF DiskType, Put

LEMMA Put_pending ==
  ASSUME disk \in DiskType, NEW x \in Maybe(Versions), Put("pending", x)
  PROVE  /\ disk' \in DiskType /\ disk'.pending = x
         /\ disk'.profile = disk.profile
         /\ disk'.fingerprint = disk.fingerprint
         /\ disk'.binary = disk.binary
         /\ disk'.raws = disk.raws
         /\ disk'.sim = disk.sim
  BY DEF DiskType, Put

LEMMA Put_binary ==
  ASSUME disk \in DiskType, NEW x \in Maybe(Versions), Put("binary", x)
  PROVE  /\ disk' \in DiskType /\ disk'.binary = x
         /\ disk'.profile = disk.profile
         /\ disk'.fingerprint = disk.fingerprint
         /\ disk'.pending = disk.pending
         /\ disk'.raws = disk.raws
         /\ disk'.sim = disk.sim
  BY DEF DiskType, Put

LEMMA Put_raws ==
  ASSUME disk \in DiskType, NEW x \in SUBSET RawProfiles, Put("raws", x)
  PROVE  /\ disk' \in DiskType /\ disk'.raws = x
         /\ disk'.profile = disk.profile
         /\ disk'.fingerprint = disk.fingerprint
         /\ disk'.pending = disk.pending
         /\ disk'.binary = disk.binary
         /\ disk'.sim = disk.sim
  BY DEF DiskType, Put

LEMMA Put_sim ==
  ASSUME disk \in DiskType, NEW x \in Maybe(Builds), Put("sim", x)
  PROVE  /\ disk' \in DiskType /\ disk'.sim = x
         /\ disk'.profile = disk.profile
         /\ disk'.fingerprint = disk.fingerprint
         /\ disk'.pending = disk.pending
         /\ disk'.binary = disk.binary
         /\ disk'.raws = disk.raws
  BY DEF DiskType, Put

-----------------------------------------------------------------------------
LEMMA StartStep == IInv /\ Start => IInv'
  <1> SUFFICES ASSUME IInv, Start PROVE IInv'
    OBVIOUS
  <1>1. /\ UNCHANGED <<src, disk, log, tainted, edits, faults>>
        /\ pc' = "decide" /\ fp' = src /\ edited' = FALSE
    BY DEF Start, Goto
  <1>2. TypeOK' /\ Unedited' /\ Stages'
    BY <1>1 DEF IInv, TypeOK, Maybe, Steps, Unedited, Stages, Trusted
  <1>3. Leftovers' /\ LabelsAreTrue'
    BY <1>1 DEF IInv, Leftovers, LabelsAreTrue, Trusted
  <1> QED BY <1>2, <1>3 DEF IInv

LEMMA DecideStep == IInv /\ Decide => IInv'
  <1> SUFFICES ASSUME IInv, Decide
               PROVE  IInv'
    OBVIOUS
  <1>1. UNCHANGED <<fp, disk, log, src, edited, tainted, edits, faults>> /\ pc = "decide"
    BY DEF Decide, environment, Goto
  <1>2. TypeOK' /\ Unedited' /\ Leftovers' /\ LabelsAreTrue'
    BY <1>1 DEF IInv, Decide, Goto, TypeOK, Steps, Unedited, Leftovers,
                LabelsAreTrue, Trusted
  <1>3. Stages'
    BY <1>1 DEF IInv, Decide, Goto, Stages, Trusted, ProfileIsCurrent,
                PendingIsCurrent, TrainingCompleted
  <1> QED BY <1>2, <1>3 DEF IInv

LEMMA UnlinkStep ==
  ASSUME LabelsInside, IInv, NEW f \in DOMAIN Empty, Unlink(f)
  PROVE  IInv'
  <1>1. UNCHANGED <<pc, fp, log, src, edited, tainted, edits, faults>> /\ pc = "wipe"
    BY DEF Unlink, environment
  <1>2. f \in {"profile", "fingerprint", "pending", "binary", "raws", "sim"}
    BY DEF Empty
  <1>3. Put(f, Empty[f]) /\ disk \in DiskType
    BY DEF Unlink, IInv, TypeOK
  <1>4. /\ Empty.profile = None /\ Empty.fingerprint = None
        /\ Empty.pending = None /\ Empty.binary = None
        /\ Empty.raws = {} /\ Empty.sim = None
        /\ None \in Maybe(Profiles) /\ None \in Maybe(Versions)
        /\ None \in Maybe(Builds) /\ {} \in SUBSET RawProfiles
    BY DEF Empty, Maybe
  <1>5. /\ disk' \in DiskType
        /\ disk'.profile \in {disk.profile, None}
        /\ disk'.fingerprint \in {disk.fingerprint, None}
        /\ disk'.pending \in {disk.pending, None}
        /\ disk'.binary \in {disk.binary, None}
        /\ disk'.raws \in {disk.raws, {}}
        /\ disk'.sim \in {disk.sim, None}
    <2>1. CASE f = "profile"
      BY <2>1, <1>3, <1>4, Put_profile
    <2>2. CASE f = "fingerprint"
      BY <2>2, <1>3, <1>4, Put_fingerprint
    <2>3. CASE f = "pending"
      BY <2>3, <1>3, <1>4, Put_pending
    <2>4. CASE f = "binary"
      BY <2>4, <1>3, <1>4, Put_binary
    <2>5. CASE f = "raws"
      BY <2>5, <1>3, <1>4, Put_raws
    <2>6. CASE f = "sim"
      BY <2>6, <1>3, <1>4, Put_sim
    <2> QED BY <1>2, <2>1, <2>2, <2>3, <2>4, <2>5, <2>6
  <1>6. TypeOK' /\ Unedited' /\ Stages'
    BY <1>1, <1>5 DEF IInv, TypeOK, Unedited, Stages, Trusted
  <1>7. Leftovers' /\ LabelsAreTrue'
    BY <1>1, <1>5 DEF IInv, Leftovers, LabelsAreTrue, Trusted
  <1> QED BY <1>6, <1>7 DEF IInv

LEMMA WipedStep ==
  ASSUME LabelsInside, IInv, Wiped
  PROVE  IInv'
  <1>1. /\ UNCHANGED <<fp, disk, log, src, edited, tainted, edits, faults>>
        /\ pc = "wipe" /\ pc' = "build"
    BY DEF Wiped, environment, Goto
  <1>2. /\ disk.fingerprint = None /\ disk.pending = None
        /\ disk.raws = {} /\ disk.sim = None
    BY DEF LabelsInside, Wiped, InPgoBuild, Empty
  <1>3. TypeOK' /\ Unedited' /\ Leftovers' /\ LabelsAreTrue' /\ Stages'
    BY <1>1, <1>2 DEF IInv, TypeOK, Steps, Unedited, Leftovers,
                LabelsAreTrue, Trusted, Stages
  <1> QED BY <1>3 DEF IInv

LEMMA BuildInstrumentedStep == IInv /\ BuildInstrumented => IInv'
  <1> SUFFICES ASSUME IInv, BuildInstrumented
               PROVE  IInv'
    OBVIOUS
  <1>1. /\ UNCHANGED <<fp, log, src, edited, edits, faults>>
        /\ pc = "build" /\ pc' = "label" /\ tainted' = edited
    BY DEF BuildInstrumented, environment, Goto
  <1>2. /\ disk' \in DiskType /\ disk'.binary = src
        /\ disk'.profile = disk.profile /\ disk'.fingerprint = disk.fingerprint
        /\ disk'.pending = disk.pending /\ disk'.raws = disk.raws
        /\ disk'.sim = disk.sim
    BY Put_binary DEF BuildInstrumented, IInv, TypeOK, Maybe
  <1>3. TypeOK' /\ Unedited' /\ Leftovers' /\ LabelsAreTrue' /\ Stages'
    BY <1>1, <1>2 DEF IInv, TypeOK, Steps, Unedited, Leftovers,
                LabelsAreTrue, Trusted, Stages
  <1> QED BY <1>3 DEF IInv

LEMMA LabelStep == IInv /\ Label => IInv'
  <1> SUFFICES ASSUME IInv, Label
               PROVE  IInv'
    OBVIOUS
  <1>1. /\ UNCHANGED <<fp, log, src, edited, tainted, edits, faults>>
        /\ pc = "label" /\ pc' = "clear"
    BY DEF Label, environment, Goto
  <1>2. /\ disk' \in DiskType /\ disk'.pending = fp
        /\ disk'.profile = disk.profile /\ disk'.fingerprint = disk.fingerprint
        /\ disk'.binary = disk.binary /\ disk'.raws = disk.raws
        /\ disk'.sim = disk.sim
    BY Put_pending DEF Label, IInv, TypeOK, Maybe
  <1>3. TypeOK' /\ Unedited' /\ Leftovers' /\ LabelsAreTrue' /\ Stages'
    BY <1>1, <1>2 DEF IInv, TypeOK, Steps, Unedited, Leftovers,
                LabelsAreTrue, Trusted, Stages
  <1> QED BY <1>3 DEF IInv

LEMMA ClearRawsStep == IInv /\ ClearRaws => IInv'
  <1> SUFFICES ASSUME IInv, ClearRaws
               PROVE  IInv'
    OBVIOUS
  <1>1. /\ UNCHANGED <<fp, log, src, edited, tainted, edits, faults>>
        /\ pc = "clear" /\ pc' = "launch"
    BY DEF ClearRaws, environment, Goto
  <1>2. /\ disk' \in DiskType /\ disk'.raws = {}
        /\ disk'.profile = disk.profile /\ disk'.fingerprint = disk.fingerprint
        /\ disk'.binary = disk.binary /\ disk'.pending = disk.pending
        /\ disk'.sim = disk.sim
    BY Put_raws DEF ClearRaws, IInv, TypeOK
  <1>3. TypeOK' /\ Unedited' /\ Leftovers' /\ LabelsAreTrue' /\ Stages'
    BY <1>1, <1>2 DEF IInv, TypeOK, Steps, Unedited, Leftovers,
                LabelsAreTrue, Trusted, Stages
  <1> QED BY <1>3 DEF IInv

LEMMA LogStep == IInv /\ (Launch \/ ReachLastCycle) => IInv'
  <1> SUFFICES ASSUME IInv, Launch \/ ReachLastCycle
               PROVE  IInv'
    OBVIOUS
  <1>1. /\ UNCHANGED <<fp, disk, src, edited, tainted, edits, faults>>
        /\ \/ pc = "launch" /\ pc' = "training" /\ log' = "unfinished"
           \/ pc = "training" /\ pc' = "exiting" /\ log' = "completed"
    BY DEF Launch, ReachLastCycle, environment, Goto
  <1>2. TypeOK' /\ Unedited' /\ Leftovers' /\ LabelsAreTrue' /\ Stages'
    BY <1>1 DEF IInv, TypeOK, Steps, Unedited, Leftovers,
                LabelsAreTrue, Trusted, Stages
  <1> QED BY <1>2 DEF IInv

LEMMA FaultsCounted ==
  ASSUME IInv, Fault \/ UNCHANGED faults
  PROVE  faults' \in 0..MaxFaults
  BY DEF IInv, TypeOK, Fault

(* The end of a training run, in whatever way: a raw profile of the        *)
(* labelled binary, early only under an unfinished log, or none.           *)
LEMMA RawsStep ==
  ASSUME IInv, pc \in {"training", "exiting"}, pc' \in {"merge", "idle"},
         UNCHANGED <<fp, log, src, edited, tainted, edits>>, faults' \in 0..MaxFaults,
         pc' = "merge" => pc = "exiting",
         NEW left \in {{}, {Raw("whole")}, {Raw("early")}, {Raw("torn")}},
         left = {Raw("early")} => pc = "training",
         Put("raws", left)
  PROVE  IInv'
  <1>1. disk.binary \in Versions
    BY DEF IInv, Stages, TypeOK, DiskType, Maybe
  <1>2. left \in SUBSET RawProfiles
    BY <1>1 DEF Raw, RawProfiles
  <1>3. /\ disk' \in DiskType /\ disk'.raws = left
        /\ disk'.profile = disk.profile /\ disk'.fingerprint = disk.fingerprint
        /\ disk'.binary = disk.binary /\ disk'.pending = disk.pending
        /\ disk'.sim = disk.sim
    BY <1>2, Put_raws DEF IInv, TypeOK
  <1>4. \A r \in left : r.of = disk.binary
    BY DEF Raw
  <1>5. \A r \in left : r.kind = "early" => log # "completed"
    BY DEF Raw, IInv, Stages
  <1>6. Trusted(disk.pending) => disk.binary = disk.pending
    BY <1>1, NoneAssumption DEF IInv, LabelsAreTrue, Trusted
  <1>7. TypeOK' /\ Unedited' /\ Stages' /\ LabelsAreTrue'
    BY <1>1, <1>3 DEF IInv, TypeOK, Steps, Unedited, Stages, LabelsAreTrue,
                      Trusted
  <1>8. Leftovers'
    BY <1>3, <1>4, <1>5, <1>6 DEF IInv, Leftovers, Trusted
  <1> QED BY <1>7, <1>8 DEF IInv

LEMMA TrainingEnds ==
  IInv /\ (TrainingExits \/ TrainingFails \/ ExitFails) => IInv'
  <1> SUFFICES ASSUME IInv, TrainingExits \/ TrainingFails \/ ExitFails
               PROVE  IInv'
    OBVIOUS
  <1>1. /\ faults' \in 0..MaxFaults
        /\ UNCHANGED <<fp, log, src, edited, tainted, edits>>
    BY FaultsCounted DEF TrainingExits, TrainingFails, ExitFails, Stop, environment
  <1>2. Raw("early") # Raw("whole") /\ Raw("early") # Raw("torn")
    BY DEF Raw
  <1>3. CASE TrainingExits
    BY <1>1, <1>2, <1>3, RawsStep DEF TrainingExits, Goto
  <1>4. CASE TrainingFails
    <2>1. PICK left \in {{}, {Raw("early")}} : Put("raws", left)
      BY <1>4 DEF TrainingFails
    <2> QED
      BY <1>1, <1>2, <1>4, <2>1, RawsStep DEF TrainingFails, Stop
  <1>5. CASE ExitFails
    <2>1. PICK kind \in {"whole", "torn"} : Put("raws", {Raw(kind)})
      BY <1>5 DEF ExitFails
    <2> QED
      BY <1>1, <1>2, <1>5, <2>1, RawsStep DEF ExitFails, Stop
  <1> QED BY <1>3, <1>4, <1>5

LEMMA MergeStep == IInv /\ Merge => IInv'
  <1> SUFFICES ASSUME IInv, Merge
               PROVE  IInv'
    OBVIOUS
  <1>1. /\ UNCHANGED <<fp, log, src, edited, tainted, edits, faults>>
        /\ pc = "merge" /\ pc' = "sign"
    BY DEF Merge, environment, Goto
  <1>2. PICK r \in disk.raws : Put("profile", r)
    BY DEF Merge
  <1>3. /\ r \in Maybe(Profiles) /\ r # None /\ r.kind = "whole"
        /\ Trusted(fp) => r = GoodProfile(fp)
    <2>1. r \in RawProfiles
      BY DEF IInv, TypeOK, DiskType
    <2>2. r.kind = "whole"
      BY <1>1, <2>1 DEF IInv, Stages, Leftovers, Merge, Torn, RawProfiles
    <2>3. Trusted(fp) => r.of = fp
      BY <1>1 DEF IInv, Stages, Leftovers, Trusted
    <2> QED
      BY <2>1, <2>2, <2>3 DEF RawProfiles, Profiles, Maybe, GoodProfile
  <1>4. /\ disk' \in DiskType /\ disk'.profile = r
        /\ disk'.raws = disk.raws /\ disk'.fingerprint = disk.fingerprint
        /\ disk'.binary = disk.binary /\ disk'.pending = disk.pending
        /\ disk'.sim = disk.sim
    BY <1>2, <1>3, Put_profile DEF IInv, TypeOK
  <1>5. TypeOK' /\ Unedited' /\ Stages' /\ Leftovers'
    BY <1>1, <1>3, <1>4 DEF IInv, TypeOK, Steps, Unedited, Stages, Leftovers,
                            Trusted
  <1>6. LabelsAreTrue'
    <2>1. disk.pending = fp
      BY <1>1 DEF IInv, Stages
    <2>2. disk.fingerprint \in {None, fp}
      BY <1>1, <2>1 DEF IInv, Leftovers, TypeOK
    <2>3. SUFFICES ASSUME ~tainted
                   PROVE  /\ r # None /\ disk.fingerprint # None =>
                               r = GoodProfile(disk.fingerprint)
                          /\ disk.binary # None /\ disk.pending # None =>
                               disk.binary = disk.pending
      BY <1>1, <1>4 DEF LabelsAreTrue, GoodProfile
    <2>4. fp \in Versions /\ Trusted(fp)
      BY <1>1, <2>3 DEF IInv, TypeOK, Trusted
    <2>5. disk.binary # None /\ disk.pending # None => disk.binary = disk.pending
      BY <2>3 DEF IInv, LabelsAreTrue
    <2> QED BY <1>3, <2>2, <2>4, <2>5
  <1> QED BY <1>5, <1>6 DEF IInv

LEMMA SignStep == IInv /\ Sign => IInv'
  <1> SUFFICES ASSUME IInv, Sign
               PROVE  IInv'
    OBVIOUS
  <1>1. /\ UNCHANGED <<fp, log, src, edited, tainted, edits, faults>>
        /\ pc = "sign" /\ pc' = "unpend"
    BY DEF Sign, environment, Goto
  <1>2. /\ disk' \in DiskType /\ disk'.fingerprint = fp
        /\ disk'.profile = disk.profile /\ disk'.raws = disk.raws
        /\ disk'.binary = disk.binary /\ disk'.pending = disk.pending
        /\ disk'.sim = disk.sim
    BY <1>1, Put_fingerprint DEF IInv, TypeOK, Sign, Maybe
  <1>3. TypeOK' /\ Unedited' /\ Leftovers' /\ LabelsAreTrue' /\ Stages'
    BY <1>1, <1>2 DEF IInv, TypeOK, Steps, Unedited, Leftovers,
                LabelsAreTrue, Trusted, Stages, GoodProfile
  <1> QED BY <1>3 DEF IInv

LEMMA UnpendStep == IInv /\ Unpend => IInv'
  <1> SUFFICES ASSUME IInv, Unpend
               PROVE  IInv'
    OBVIOUS
  <1>1. /\ UNCHANGED <<fp, log, src, edited, tainted, edits, faults>>
        /\ pc = "unpend" /\ pc' = "final"
    BY DEF Unpend, environment, Goto
  <1>2. /\ disk' \in DiskType /\ disk'.pending = None
        /\ disk'.profile = disk.profile /\ disk'.raws = disk.raws
        /\ disk'.binary = disk.binary /\ disk'.fingerprint = disk.fingerprint
        /\ disk'.sim = disk.sim
    BY Put_pending DEF IInv, TypeOK, Unpend, Maybe
  <1>3. TypeOK' /\ Unedited' /\ Leftovers' /\ LabelsAreTrue' /\ Stages'
    BY <1>1, <1>2 DEF IInv, TypeOK, Steps, Unedited, Leftovers,
                LabelsAreTrue, Trusted, Stages
  <1> QED BY <1>3 DEF IInv

-----------------------------------------------------------------------------
(* What the optimized build, finished or not, makes of the build tree.     *)
LEMMA CompiledFacts ==
  ASSUME IInv, pc = "final", NEW linked \in BOOLEAN, NEW b \in Compiled(linked)
  PROVE  /\ b \in Builds /\ b.of = src
         /\ Trusted(fp) => b.profiles \subseteq {GoodProfile(fp)}
  <1>1. /\ b.of = src /\ b.linked = linked
        /\ b = [of |-> b.of, profiles |-> b.profiles, linked |-> b.linked]
        /\ b.profiles \subseteq
             (IF disk.sim = None THEN {} ELSE disk.sim.profiles) \cup {disk.profile}
    BY DEF Compiled
  <1>2. disk.profile \in Profiles
    BY DEF IInv, TypeOK, DiskType, Stages, Maybe
  <1>3. disk.sim # None => disk.sim.profiles \subseteq Profiles
    BY DEF IInv, TypeOK, DiskType, Maybe, Builds
  <1>4. b \in Builds /\ b.of = src
    BY <1>1, <1>2, <1>3 DEF IInv, TypeOK, Builds
  <1>5. ASSUME Trusted(fp)
        PROVE  b.profiles \subseteq {GoodProfile(fp)}
    <2>1. disk.fingerprint = fp
      BY DEF IInv, Stages
    <2>2. disk.profile = GoodProfile(fp)
      BY <1>2, <1>5, <2>1 DEF IInv, Stages, LabelsAreTrue, Trusted, GoodProfile
    <2>3. disk.sim # None => disk.sim.profiles \subseteq {GoodProfile(fp)}
      BY <1>5, <2>1 DEF IInv, Leftovers
    <2> QED BY <1>1, <2>2, <2>3
  <1> QED BY <1>4, <1>5

LEMMA OptimizedStep == IInv /\ (BuildOptimized \/ OptimizedBuildFails) => IInv'
  <1> SUFFICES ASSUME IInv, BuildOptimized \/ OptimizedBuildFails
               PROVE  IInv'
    OBVIOUS
  <1>1. /\ UNCHANGED <<fp, log, src, edited, tainted, edits>>
        /\ faults' \in 0..MaxFaults /\ pc = "final" /\ pc' = "idle"
    BY FaultsCounted
       DEF BuildOptimized, OptimizedBuildFails, environment, Goto, Stop
  <1>0. PICK linked \in BOOLEAN : \E b \in Compiled(linked) : Put("sim", b)
    BY DEF BuildOptimized, OptimizedBuildFails
  <1>2. PICK b \in Compiled(linked) : Put("sim", b)
    BY <1>0
  <1>3. /\ b \in Builds
        /\ Trusted(fp) => b.profiles \subseteq {GoodProfile(fp)}
    BY <1>1, <1>2, CompiledFacts
  <1>4. /\ disk' \in DiskType /\ disk'.sim = b
        /\ disk'.profile = disk.profile /\ disk'.raws = disk.raws
        /\ disk'.binary = disk.binary /\ disk'.fingerprint = disk.fingerprint
        /\ disk'.pending = disk.pending
    BY <1>2, <1>3, Put_sim DEF IInv, TypeOK, Maybe
  <1>5. TypeOK' /\ Unedited' /\ LabelsAreTrue' /\ Stages'
    BY <1>1, <1>4 DEF IInv, TypeOK, Steps, Unedited, LabelsAreTrue, Stages
  <1>6. Leftovers'
    <2>1. disk.fingerprint = fp /\ disk.pending \in {None, fp}
      BY <1>1 DEF IInv, Stages, Leftovers, TypeOK
    <2> QED
      BY <1>1, <1>3, <1>4, <2>1 DEF IInv, Leftovers, Trusted
  <1> QED BY <1>5, <1>6 DEF IInv

(* Everything else leaves the disk as it is.                               *)
LEMMA DiskUntouched ==
  IInv /\ (Killed \/ MergeFails \/ MakeClean \/ Edit \/ UNCHANGED vars) => IInv'
  <1> SUFFICES ASSUME IInv,
                      Killed \/ MergeFails \/ MakeClean \/ Edit \/ UNCHANGED vars
               PROVE  IInv'
    OBVIOUS
  <1>1. CASE Killed \/ MergeFails
    <2>1. /\ UNCHANGED <<fp, disk, log, src, edited, tainted, edits>>
          /\ faults' \in 0..MaxFaults /\ pc' = "idle"
      BY <1>1 DEF Killed, MergeFails, Stop, Fault, environment, Goto, IInv, TypeOK
    <2> QED
      BY <2>1 DEF IInv, TypeOK, Steps, Unedited, Leftovers, LabelsAreTrue,
                  Trusted, Stages
  <1>2. CASE MakeClean
    <2>1. /\ UNCHANGED <<pc, fp, disk, src, edited, tainted, edits>>
          /\ faults' \in 0..MaxFaults /\ pc = "idle" /\ log' = "absent"
      BY <1>2 DEF MakeClean, Fault, environment, IInv, TypeOK
    <2> QED
      BY <2>1 DEF IInv, TypeOK, Unedited, Leftovers, LabelsAreTrue, Trusted,
                  Stages
  <1>3. CASE Edit
    <2>1. /\ UNCHANGED <<pc, fp, disk, log, tainted, faults>>
          /\ src' \in Versions /\ edits' \in 0..MaxEdits /\ edited' = TRUE
      BY <1>3 DEF Edit, IInv, TypeOK
    <2> QED
      BY <2>1 DEF IInv, TypeOK, Unedited, Leftovers, LabelsAreTrue, Trusted,
                  Stages
  <1>4. CASE UNCHANGED vars
    BY <1>4 DEF vars, IInv, TypeOK, Unedited, Leftovers, LabelsAreTrue, Trusted,
                Stages
  <1> QED BY <1>1, <1>2, <1>3, <1>4

LEMMA NextIInv ==
  ASSUME LabelsInside
  PROVE  IInv /\ [Next]_vars => IInv'
  BY StartStep, DecideStep, UnlinkStep, WipedStep, BuildInstrumentedStep,
     LabelStep, ClearRawsStep, LogStep, TrainingEnds, MergeStep, SignStep,
     UnpendStep, OptimizedStep, DiskUntouched
     DEF Next, Script, Faulty

-----------------------------------------------------------------------------
(* As long as both fingerprint files lie in PGO_BUILD, what they claim is   *)
(* true whatever was killed, failed or edited; PGO_PROFILE may be moved.   *)
THEOREM TrueLabels ==
  ASSUME LabelsInside
  PROVE  Spec => []LabelsAreTrue
  <1>1. IInv => LabelsAreTrue
    BY DEF IInv
  <1> QED BY InitIInv, NextIInv, <1>1, PTL DEF Spec

THEOREM TypeCorrect ==
  ASSUME LabelsInside
  PROVE  Spec => []TypeOK
  <1>1. IInv => TypeOK
    BY DEF IInv
  <1> QED BY InitIInv, NextIInv, <1>1, PTL DEF Spec

(* A finished invocation that was not edited under leaves a simulator of   *)
(* the sources it was started for, and compiled, object by object, with a  *)
(* complete profile of those sources if the binary that was trained was    *)
(* not built under an edit either.                                         *)
THEOREM CurrentBuild ==
  ASSUME LabelsInside
  PROVE  Spec => FinishedBuildIsCurrent
  <1>1. IInv /\ [Next]_vars =>
          [ (BuildOptimized /\ ~edited) =>
              /\ disk'.sim.of = fp
              /\ ~tainted =>
                   disk'.sim.profiles = {[of |-> fp, kind |-> "whole"]} ]_vars
    <2> SUFFICES ASSUME IInv, BuildOptimized, ~edited
                 PROVE  /\ disk'.sim.of = fp
                        /\ ~tainted => disk'.sim.profiles = {GoodProfile(fp)}
      BY DEF GoodProfile
    <2>1. PICK b \in Compiled(TRUE) : b.profiles # {} /\ Put("sim", b)
      BY DEF BuildOptimized
    <2>2. pc = "final" /\ fp \in Versions
      BY DEF BuildOptimized, Goto, IInv, TypeOK
    <2>3. /\ b \in Builds /\ b.of = src
          /\ ~tainted => b.profiles \subseteq {GoodProfile(fp)}
      BY <2>1, <2>2, CompiledFacts DEF Trusted
    <2>4. disk'.sim = b
      BY <2>1, <2>3, Put_sim DEF IInv, TypeOK, Maybe
    <2>5. src = fp
      BY <2>2 DEF IInv, Unedited
    <2> QED BY <2>1, <2>3, <2>4, <2>5
  <1> QED BY InitIInv, NextIInv, <1>1, PTL DEF Spec, FinishedBuildIsCurrent

-----------------------------------------------------------------------------
(* What Decide found, where it matters until the step it chose is done: it *)
(* wipes only what is of no use, and clears only unfinished training.      *)
Decided ==
  /\ pc = "wipe" =>
       /\ ~(disk.profile # None /\ disk.fingerprint = fp)
       /\ ~(disk.pending = fp /\ disk.binary # None)
  /\ pc = "clear" => disk.raws = {} \/ log # "completed"

LEMMA UnlinkFacts ==
  ASSUME IInv, NEW f \in DOMAIN Empty, Unlink(f)
  PROVE  /\ disk'.profile \in {disk.profile, None}
         /\ disk'.fingerprint \in {disk.fingerprint, None}
         /\ disk'.pending \in {disk.pending, None}
         /\ disk'.binary \in {disk.binary, None}
  <1>1. f \in {"profile", "fingerprint", "pending", "binary", "raws", "sim"}
    BY DEF Empty
  <1>2. disk \in DiskType /\ Put(f, Empty[f])
    BY DEF Unlink, IInv, TypeOK
  <1>3. /\ Empty.profile = None /\ Empty.fingerprint = None
        /\ Empty.pending = None /\ Empty.binary = None
    BY DEF Empty
  <1> QED BY <1>1, <1>2, <1>3 DEF Put, DiskType

LEMMA NextDecided ==
  ASSUME IInv, Decided, [Next]_vars
  PROVE  Decided'
  <1>1. ASSUME NEW f \in DOMAIN Empty, Unlink(f)
        PROVE  Decided'
    <2>1. pc = "wipe" /\ pc' = "wipe" /\ fp' = fp /\ fp \in Versions
      BY <1>1 DEF Unlink, IInv, TypeOK
    <2>2. fp # None
      BY <2>1, NoneAssumption
    <2> QED BY <1>1, <2>1, <2>2, UnlinkFacts DEF Decided
  <1>2. CASE Decide
    BY <1>2 DEF Decide, Goto, Decided, ProfileIsCurrent, PendingIsCurrent,
                TrainingCompleted
  <1>3. CASE Label
    <2>1. pc' = "clear" /\ disk.raws = {} /\ disk \in DiskType
      BY <1>3 DEF Label, Goto, IInv, Stages, TypeOK
    <2>2. disk'.raws = disk.raws
      BY <1>3, <2>1 DEF Label, Put, DiskType
    <2> QED BY <2>1, <2>2 DEF Decided
  <1>4. CASE \/ Start \/ Wiped \/ BuildInstrumented \/ ClearRaws \/ Launch
            \/ ReachLastCycle \/ TrainingExits \/ Merge \/ MergeFails \/ Sign
            \/ Unpend \/ BuildOptimized \/ Faulty
    <2>1. pc' \notin {"wipe", "clear"}
      BY <1>4 DEF Start, Wiped, BuildInstrumented, ClearRaws, Launch,
           ReachLastCycle, TrainingExits, Merge, MergeFails, Sign, Unpend,
           BuildOptimized, Faulty, Killed, TrainingFails, ExitFails,
           OptimizedBuildFails, MakeClean, Stop, Goto
    <2> QED BY <2>1 DEF Decided
  <1>5. CASE Edit \/ UNCHANGED vars
    BY <1>5 DEF Edit, vars, Decided
  <1> QED BY <1>1, <1>2, <1>3, <1>4, <1>5 DEF Next, Script

(* The steps of an invocation for the present sources keep what is trained. *)
LEMMA StepsKeep ==
  ASSUME IInv, Decided, [Next]_vars, Trained(src), src' = src,
         pc = "idle" \/ fp = src, ~MakeClean
  PROVE  Trained(src)'
  <1>0. /\ disk \in DiskType /\ src \in Versions /\ src # None
    BY NoneAssumption DEF IInv, TypeOK
  <1>1. ASSUME UNCHANGED <<disk, log>>
        PROVE  Trained(src)'
    BY <1>1 DEF Trained
  <1>2. CASE Start \/ Decide \/ Wiped \/ MergeFails \/ Killed \/ UNCHANGED vars
    <2>1. UNCHANGED <<disk, log>>
      BY <1>2 DEF Start, Decide, Wiped, MergeFails, Killed, vars
    <2> QED BY <1>1, <2>1
  <1>3. CASE Edit
    BY <1>3 DEF Edit
  <1>4. ASSUME NEW f \in DOMAIN Empty, Unlink(f)
        PROVE  FALSE
    BY <1>4 DEF Unlink, Decided, Trained
  <1>5. CASE BuildInstrumented \/ Label
    BY <1>0, <1>5 DEF BuildInstrumented, Label, Goto, IInv, Stages, Trained
  (* Before the training is over there is no whole profile to lose, and    *)
  (* what is signed stays signed.                                          *)
  <1>6. CASE \/ ClearRaws \/ Launch \/ ReachLastCycle \/ TrainingExits
            \/ TrainingFails \/ ExitFails
    <2>1. disk'.profile = disk.profile /\ disk'.fingerprint = disk.fingerprint
      BY <1>0, <1>6 DEF ClearRaws, Launch, ReachLastCycle, TrainingExits,
           TrainingFails, ExitFails, Put, DiskType
    <2>2. disk.raws = {} \/ log # "completed"
      BY <1>6 DEF ClearRaws, Launch, ReachLastCycle, TrainingExits,
           TrainingFails, ExitFails, Goto, IInv, Stages, Decided
    <2>3. disk.profile # None /\ disk.fingerprint = src
      BY <2>2 DEF Trained
    <2> QED BY <2>1, <2>3 DEF Trained
  <1>7. CASE Merge
    <2>1. PICK r \in disk.raws : Put("profile", r)
      BY <1>7 DEF Merge
    <2>2. r # None
      BY <1>0, <2>1, NoneAssumption DEF DiskType
    <2>3. /\ disk'.profile = r /\ disk'.fingerprint = disk.fingerprint
          /\ disk'.pending = disk.pending /\ disk'.binary = disk.binary
          /\ disk'.raws = disk.raws /\ log' = log
      BY <1>0, <1>7, <2>1 DEF Merge, Put, DiskType
    <2> QED BY <2>2, <2>3 DEF Trained
  <1>8. CASE Sign
    <2>1. pc = "sign" /\ fp = src /\ disk.profile # None
      BY <1>8 DEF Sign, Goto, IInv, Stages
    <2>2. disk'.profile = disk.profile /\ disk'.fingerprint = fp
      BY <1>0, <1>8 DEF Sign, Put, DiskType
    <2> QED BY <2>1, <2>2 DEF Trained
  <1>9. CASE Unpend
    <2>1. fp = src /\ disk.profile # None /\ disk.fingerprint = fp
      BY <1>9 DEF Unpend, Goto, IInv, Stages
    <2>2. disk'.profile = disk.profile /\ disk'.fingerprint = disk.fingerprint
      BY <1>0, <1>9 DEF Unpend, Put, DiskType
    <2> QED BY <2>1, <2>2 DEF Trained
  <1>10. CASE BuildOptimized \/ OptimizedBuildFails
    <2>1. /\ disk'.profile = disk.profile /\ disk'.fingerprint = disk.fingerprint
          /\ disk'.pending = disk.pending /\ disk'.binary = disk.binary
          /\ disk'.raws = disk.raws /\ log' = log
      BY <1>0, <1>10 DEF BuildOptimized, OptimizedBuildFails, Put, DiskType
    <2> QED BY <2>1 DEF Trained
  <1> QED BY <1>2, <1>3, <1>4, <1>5, <1>6, <1>7, <1>8, <1>9, <1>10
          DEF Next, Script, Faulty

(* No step but an edit or make clean loses a completed training run.       *)
THEOREM KeepsTraining ==
  ASSUME LabelsInside
  PROVE  Spec => TrainingIsKept
  <1> DEFINE DInv == IInv /\ Decided
  <1>1. Init => DInv
    BY InitIInv DEF Init, Decided
  <1>2. DInv /\ [Next]_vars => DInv'
    BY NextIInv, NextDecided
  <1>3. DInv /\ [Next]_vars =>
          [ (Trained(src) /\ src' = src /\ (pc = "idle" \/ fp = src)
               /\ ~MakeClean) => Trained(src)' ]_vars
    BY StepsKeep
  <1> HIDE DEF DInv
  <1> QED BY <1>1, <1>2, <1>3, PTL DEF Spec, TrainingIsKept
=================================================================================
