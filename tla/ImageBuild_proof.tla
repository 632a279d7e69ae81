---------------------------- MODULE ImageBuild_proof ----------------------------
(***************************************************************************)
(* Proofs about ImageBuild, for any number of kills, failing tools, wrong  *)
(* downloads and edits.                                                    *)
(***************************************************************************)
EXTENDS ImageBuild, TLAPS

USE VersionsAssumption, BoundsAssumption

(* The steps with both archives verified, those with an unpacked           *)
(* Buildroot, and those with all that make needs.                          *)
Late      == Artifacts \cup {"build", "check"}
Patching  == {"patch", "patching", "stamp"}
Unpacking == {"unpack", "unpacking"}
HasBuildroot ==
  pc \in Late \cup Patching \/ (pc \in Unpacking /\ pkg = "opensbi")

(* An archive that was verified stays as it is.                            *)
Archives ==
  /\ pc = "verify" => archive[pkg] # "absent"
  /\ pc \in {"fetch", "verify"} /\ pkg = "opensbi" => archive["buildroot"] = "good"
  /\ pc \in Late \cup Patching \cup Unpacking =>
       \A p \in Packages : archive[p] = "good"

(* A tree with a Makefile is whole, is being unpacked, or was cut off.     *)
Trees ==
  /\ pc = "unpacking" => tree[pkg] \in {"dir", "makefile"}
  /\ pc \in Patching => pkg = "buildroot"
  /\ ~cut =>
       /\ \A p \in Packages : tree[p] = "makefile" => pc = "unpacking" /\ pkg = p
       /\ HasBuildroot => tree["buildroot"] = "whole"
       /\ pc \in Late => tree["opensbi"] = "whole"

(* The stamp follows a complete patch and is never taken back.             *)
Stamps ==
  /\ stamp => patched \in Versions
  /\ pc = "patching" => ~stamp
  /\ pc = "stamp" => patched \in Versions
  /\ HasBuildroot /\ pc \notin Patching => stamp

(* The artifacts before the present one are copies of the present outputs. *)
Copies ==
  /\ pc \in Artifacts \cup {"check"} =>
       /\ out \in Outputs
       /\ out.patch = patched /\ out.taken = taken
       /\ ~edited => out.src = src
  /\ pc \in {"Image", "zircon-2026.dtb", "check"} => copied["fw_payload.elf"] = out
  /\ pc \in {"zircon-2026.dtb", "check"} => copied["Image"] = out
  /\ pc = "check" => copied["zircon-2026.dtb"] = out

IInv == TypeOK /\ Archives /\ Trees /\ Stamps /\ Copies

-----------------------------------------------------------------------------
LEMMA InitIInv == Init => IInv
  <1> SUFFICES ASSUME Init PROVE IInv
    OBVIOUS
  <1>1. TypeOK
    <2>1. archive \in [Packages -> {"absent", "good", "wrong", "partial"}]
      BY DEF Init
    <2>2. tree \in [Packages -> {"none", "dir", "makefile", "whole"}]
      BY DEF Init
    <2>3. copied \in [Artifacts -> Outputs \cup {None}]
      BY DEF Init
    <2>4. edits \in 0..MaxEdits /\ faults \in 0..MaxFaults
      BY DEF Init
    <2>5. pkg \in Packages
      BY DEF Init, Packages
    <2>6. taken \in [Stampable -> Versions \cup {None}]
      BY DEF Init
    <2> QED
      BY <2>1, <2>2, <2>3, <2>4, <2>5, <2>6 DEF Init, TypeOK
  <1>2. pc = "idle" /\ stamp = FALSE /\ \A p \in Packages : tree[p] = "none"
    BY DEF Init
  <1>3. Archives /\ Trees /\ Stamps /\ Copies
    BY <1>2 DEF Archives, Trees, Stamps, Copies, HasBuildroot,
                Artifacts, Late, Patching, Unpacking
  <1> QED BY <1>1, <1>3 DEF IInv

LEMMA NextIInv == IInv /\ [Next]_vars => IInv'
  <1> SUFFICES ASSUME IInv, [Next]_vars
               PROVE  IInv'
    OBVIOUS
  <1> USE DEF IInv, TypeOK, Archives, Trees, Stamps, Copies, HasBuildroot,
              Packages, Artifacts, Late, Patching, Unpacking,
              Goto, Same, NoFault, Fault, disk
  <1>1. CASE Start
    BY <1>1 DEF Start
  <1>2. CASE Fetched
    BY <1>2 DEF Fetched
  <1>3. CASE Download("good")
    BY <1>3 DEF Download
  <1>4. CASE Verify
    BY <1>4 DEF Verify, Verified
  <1>5. CASE Unpacked
    BY <1>5 DEF Unpacked, HasMakefile, AfterUnpack
  <1>6. CASE Unpack
    BY <1>6 DEF Unpack, HasMakefile
  <1>7. CASE ExtractMakefile
    BY <1>7 DEF ExtractMakefile
  <1>8. CASE ExtractRest
    BY <1>8 DEF ExtractRest, AfterUnpack
  <1>9. CASE Stamped
    BY <1>9 DEF Stamped
  <1>10. CASE Patch
    BY <1>10 DEF Patch
  <1>11. CASE PatchRejected
    BY <1>11 DEF PatchRejected
  <1>12. CASE PatchRest
    BY <1>12 DEF PatchRest
  <1>13. CASE Stamp
    BY <1>13 DEF Stamp
  <1>14. CASE Build
    <2>1. \A b \in Stampable : taken[b] \in Versions
      BY <1>14 DEF Build
    <2>2. taken \in [Stampable -> Versions]
      BY <2>1
    <2>3. pc = "build" /\ patched \in Versions
      BY <1>14 DEF Build
    <2>4. out' \in Outputs
      BY <1>14, <2>2, <2>3 DEF Build, Outputs
    <2> QED BY <1>14, <2>4 DEF Build
  <1>15. CASE Copy
    BY <1>15 DEF Copy, Copied, AfterCopy
  <1>16. CASE Finish
    BY <1>16 DEF Finish
  <1>17. CASE Download("wrong")
    BY <1>17 DEF Download
  <1>18. CASE DownloadStops
    BY <1>18 DEF DownloadStops, Interrupted
  <1>19. CASE PatchFails
    BY <1>19 DEF PatchFails
  <1>20. CASE BuildFails
    BY <1>20 DEF BuildFails
  <1>21. CASE Killed
    <2>1. cut' \in BOOLEAN /\ (~cut' => ~cut /\ ~(pc = "unpacking" /\ tree[pkg] = "makefile"))
      BY <1>21 DEF Killed
    <2>2. /\ pc' = "idle" /\ faults' \in 0..MaxFaults
          /\ UNCHANGED <<src, pkg, archive, tree, patched, stamp, taken, out, edited, edits>>
      BY <1>21 DEF Killed
    <2>3. copied' \in [Artifacts -> Outputs \cup {None}]
      BY <1>21 DEF Killed
    <2>4. TypeOK'
      BY <2>1, <2>2, <2>3
    <2>5. (Archives /\ Stamps /\ Copies)'
      BY <2>2
    <2>6. Trees'
      BY <2>1, <2>2
    <2> QED BY <2>4, <2>5, <2>6
  <1>22. CASE Edit
    BY <1>22 DEF Edit
  <1>23. ASSUME NEW b \in Stampable, Take(b)
         PROVE  IInv'
    <2>1. taken' \in [Stampable -> Versions \cup {None}]
      BY <1>23 DEF Take
    <2> QED BY <1>23, <2>1 DEF Take
  <1>24. CASE MakeClean
    <2>1. /\ archive' \in [Packages -> {"absent", "good", "wrong", "partial"}]
          /\ tree' \in [Packages -> {"none", "dir", "makefile", "whole"}]
          /\ copied' \in [Artifacts -> Outputs \cup {None}]
          /\ taken' \in [Stampable -> Versions \cup {None}]
      BY <1>24 DEF MakeClean
    <2>2. /\ pc' = "idle" /\ ~stamp' /\ faults' \in 0..MaxFaults
          /\ \A p \in Packages : tree'[p] = "none"
      BY <1>24 DEF MakeClean
    <2>3. TypeOK'
      BY <1>24, <2>1, <2>2 DEF MakeClean
    <2> QED BY <2>2, <2>3
  <1>25. CASE UNCHANGED vars
    BY <1>25 DEF vars
  <1> QED
    BY <1>1, <1>2, <1>3, <1>4, <1>5, <1>6, <1>7, <1>8, <1>9, <1>10, <1>11,
       <1>12, <1>13, <1>14, <1>15, <1>16, <1>17, <1>18, <1>19, <1>20, <1>21,
       <1>22, <1>23, <1>24, <1>25
       DEF Next, Script, Faulty

-----------------------------------------------------------------------------
(* What is on disk is never but what the type says: in particular no make  *)
(* was ever started on a tree patched in part.                             *)
THEOREM TypeCorrect == Spec => []TypeOK
  <1>1. IInv => TypeOK
    BY DEF IInv
  <1> QED BY InitIInv, NextIInv, <1>1, PTL DEF Spec

(* make is started on verified archives, unpacked as a whole (unless an    *)
(* unpacking was killed past the Makefile) and patched once and in full.   *)
THEOREM TheSourcesAreBuilt == Spec => []BuildsTheSources
  <1>1. IInv => BuildsTheSources
    <2> SUFFICES ASSUME IInv, pc \in Late
                 PROVE  /\ \A p \in Packages : archive[p] = "good"
                        /\ cut \/ \A p \in Packages : tree[p] = "whole"
                        /\ stamp /\ patched \in Versions
      BY DEF BuildsTheSources, Late
    <2>1. HasBuildroot /\ pc \notin Patching
      BY DEF HasBuildroot, Late, Patching, Artifacts
    <2>2. \A p \in Packages : archive[p] = "good"
      BY DEF IInv, Archives
    <2>3. cut \/ \A p \in Packages : tree[p] = "whole"
      BY <2>1 DEF IInv, Trees, Packages
    <2>4. stamp /\ patched \in Versions
      BY <2>1 DEF IInv, Stamps
    <2> QED BY <2>2, <2>3, <2>4
  <1> QED BY InitIInv, NextIInv, <1>1, PTL DEF Spec

(* An invocation that ends well leaves three artifacts of one build, of the *)
(* kernel and overlay it was started on and of the packages and the patch  *)
(* that the trees on disk were filled with, whatever an earlier invocation *)
(* left behind.                                                            *)
THEOREM AgreeingArtifacts == Spec => ArtifactsAgree
  <1> DEFINE Agree ==
        Finish /\ ~edited =>
          \A a \in Artifacts :
            copied[a] = [src |-> src, patch |-> patched, taken |-> taken]
  <1>1. IInv => Agree
    BY DEF IInv, Copies, Finish, Goto, Artifacts, Outputs
  <1>2. IInv /\ [Next]_vars => [Agree]_vars
    BY <1>1
  <1> QED BY InitIInv, NextIInv, <1>2, PTL DEF Spec, ArtifactsAgree
=================================================================================
