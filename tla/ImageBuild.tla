------------------------------- MODULE ImageBuild -------------------------------
(***************************************************************************)
(* linux-system/scripts/fetch-sources.sh and build-image.sh: two source    *)
(* archives are downloaded and verified, each is unpacked unless its tree  *)
(* has a Makefile, one tree is patched unless it has a stamp, everything   *)
(* is built with make, and three artifacts are copied and checked.         *)
(*                                                                         *)
(* make is incremental.  The kernel, its device tree, the root file system *)
(* overlay and the firmware follow the repository on every run, but        *)
(* Buildroot keeps a stamp for every package in buildroot-out: what the    *)
(* repository contributes to a package, the options it is compiled with    *)
(* included, is taken once and never again.                                *)
(*                                                                         *)
(* An invocation can be killed between any two steps and inside a download, *)
(* an unpacking and a patching; what it leaves decides what the next one   *)
(* skips.  A version stands for all that the repository contributes: the   *)
(* patch, the packages, the configuration and the kernel.  A kill inside   *)
(* one of Buildroot's own steps is left to Buildroot, and a question that  *)
(* patch asks on a terminal is answered with its default.                  *)
(***************************************************************************)
EXTENDS Naturals

CONSTANTS
  Versions,   (* Contents of the repository.                               *)
  None,
  MaxEdits,   (* Bounds the model: edits of the repository.                *)
  MaxFaults   (* Bounds the model: kills, failing tools, wrong downloads.  *)

ASSUME VersionsAssumption ==
  Versions # {} /\ None \notin Versions /\ {"plain", "partly"} \cap Versions = {}
ASSUME BoundsAssumption   == MaxEdits \in Nat /\ MaxFaults \in Nat

Packages  == {"buildroot", "opensbi"}
Artifacts == {"fw_payload.elf", "Image", "zircon-2026.dtb"}

(* The packages of Buildroot that the repository contributes to:           *)
(* external/patches/musl, and external/package/zircon-validation, whose    *)
(* SITE_METHOD is local.                                                   *)
Stampable == {"musl", "zircon-validation"}

VARIABLES
  src,       (* The version of the repository.                             *)
  pc,        (* The next step of the invocation, "idle" when none runs.    *)
  pkg,       (* The package it is about, in the steps that have one.       *)
  archive,   (* $destination of each: absent, or what is in it.            *)
  tree,      (* How far each tree is unpacked: "none", "dir", "makefile"   *)
             (* (the Makefile is there, other files are not), or "whole".  *)
  patched,   (* Buildroot: "plain", "partly", or the version of the patch. *)
  stamp,     (* $buildroot_patch_stamp exists.                             *)
  taken,     (* buildroot-out: the version of the repository each package  *)
             (* was taken from, None as long as it has no stamp.           *)
  out,       (* What make built last, see Outputs, or None.                *)
  copied,    (* The artifacts in $build_dir: the outputs each was copied   *)
             (* from, None when it is not there or cut off.                *)
  cut,       (* History: an unpacking was killed past the Makefile.        *)
  edited,    (* History: the sources changed under this invocation.        *)
  edits, faults

disk == <<archive, tree, patched, stamp, taken, out, copied>>
vars == <<src, pc, pkg, disk, cut, edited, edits, faults>>

Outputs == [src : Versions, patch : Versions, taken : [Stampable -> Versions]]

TypeOK ==
  /\ src \in Versions
  /\ pc \in {"idle", "fetch", "verify", "unpack", "unpacking", "patch",
             "patching", "stamp", "build", "check"} \cup Artifacts
  /\ pkg \in Packages
  /\ archive \in [Packages -> {"absent", "good", "wrong", "partial"}]
  /\ tree \in [Packages -> {"none", "dir", "makefile", "whole"}]
  /\ patched \in {"plain", "partly"} \cup Versions
  /\ stamp \in BOOLEAN
  /\ taken \in [Stampable -> Versions \cup {None}]
  /\ out \in Outputs \cup {None}
  /\ copied \in [Artifacts -> Outputs \cup {None}]
  /\ cut \in BOOLEAN /\ edited \in BOOLEAN
  /\ edits \in 0..MaxEdits /\ faults \in 0..MaxFaults

Init ==
  /\ src \in Versions
  /\ pc = "idle" /\ pkg = "buildroot"
  /\ archive = [p \in Packages |-> "absent"]
  /\ tree = [p \in Packages |-> "none"]
  /\ patched = "plain" /\ stamp = FALSE
  /\ taken = [b \in Stampable |-> None]
  /\ out = None /\ copied = [a \in Artifacts |-> None]
  /\ cut = FALSE /\ edited = FALSE /\ edits = 0 /\ faults = 0

-----------------------------------------------------------------------------
Goto(from, to) == pc = from /\ pc' = to
Same    == UNCHANGED <<src, cut, edited, edits>>
NoFault == UNCHANGED faults
Fault   == faults < MaxFaults /\ faults' = faults + 1

Start ==
  /\ Goto("idle", "fetch")
  /\ pkg' = "buildroot"
  /\ edited' = FALSE
  /\ UNCHANGED <<src, disk, cut, edits, faults>>

(* fetch: a download has its name only when it is complete.                *)
Fetched ==
  /\ Goto("fetch", "verify")
  /\ archive[pkg] # "absent"
  /\ Same /\ NoFault /\ UNCHANGED <<pkg, disk>>

Download(contents) ==
  /\ Goto("fetch", "verify")
  /\ archive[pkg] = "absent"
  /\ archive' = [archive EXCEPT ![pkg] = contents]
  /\ IF contents = "good" THEN NoFault ELSE Fault
  /\ Same /\ UNCHANGED <<pkg, tree, patched, stamp, taken, out, copied>>

(* A mutant: the download is written in place.                             *)
InterruptedInPlace == IF archive[pkg] = "absent" THEN "partial" ELSE archive[pkg]

(* What a killed curl leaves under the name of the archive: nothing.       *)
Interrupted == archive[pkg]

DownloadStops ==
  /\ Goto("fetch", "idle")
  /\ archive' = [archive EXCEPT ![pkg] = Interrupted]
  /\ Same /\ Fault /\ UNCHANGED <<pkg, tree, patched, stamp, taken, out, copied>>

Verified == archive[pkg] = "good"

Verify ==
  /\ pc = "verify"
  /\ \/ ~Verified /\ pc' = "idle" /\ UNCHANGED pkg
     \/ Verified /\ pkg = "buildroot" /\ pc' = "fetch" /\ pkg' = "opensbi"
     \/ Verified /\ pkg = "opensbi" /\ pc' = "unpack" /\ pkg' = "buildroot"
  /\ Same /\ NoFault /\ UNCHANGED disk

HasMakefile == tree[pkg] \in {"makefile", "whole"}

AfterUnpack == IF pkg = "buildroot" THEN "patch" ELSE "build"

Unpacked ==
  /\ Goto("unpack", AfterUnpack)
  /\ HasMakefile
  /\ Same /\ NoFault /\ UNCHANGED <<pkg, disk>>

Unpack ==
  /\ Goto("unpack", "unpacking")
  /\ ~HasMakefile
  /\ tree' = [tree EXCEPT ![pkg] = "dir"]
  /\ Same /\ NoFault /\ UNCHANGED <<pkg, archive, patched, stamp, taken, out, copied>>

ExtractMakefile ==
  /\ pc = "unpacking" /\ tree[pkg] = "dir"
  /\ tree' = [tree EXCEPT ![pkg] = "makefile"]
  /\ Same /\ NoFault /\ UNCHANGED <<pc, pkg, archive, patched, stamp, taken, out, copied>>

ExtractRest ==
  /\ Goto("unpacking", AfterUnpack)
  /\ tree[pkg] = "makefile"
  /\ tree' = [tree EXCEPT ![pkg] = "whole"]
  /\ Same /\ NoFault /\ UNCHANGED <<pkg, archive, patched, stamp, taken, out, copied>>

-----------------------------------------------------------------------------
(* The patch of Buildroot.  patch fails on a tree that has part of it, also *)
(* if it adds the rest.                                                    *)
Stamped ==
  /\ Goto("patch", "unpack")
  /\ stamp
  /\ pkg' = "opensbi"
  /\ Same /\ NoFault /\ UNCHANGED disk

(* A mutant: the stamp is set before the patch.                            *)
PatchStamped ==
  /\ Goto("patch", "patching")
  /\ ~stamp /\ patched = "plain"
  /\ patched' = "partly" /\ stamp' = TRUE
  /\ Same /\ NoFault /\ UNCHANGED <<pkg, archive, tree, taken, out, copied>>

Patch ==
  /\ Goto("patch", "patching")
  /\ ~stamp /\ patched = "plain"
  /\ patched' = "partly"
  /\ Same /\ NoFault /\ UNCHANGED <<pkg, archive, tree, stamp, taken, out, copied>>

PatchRejected ==
  /\ Goto("patch", "idle")
  /\ ~stamp /\ patched # "plain"
  /\ Same /\ NoFault /\ UNCHANGED <<pkg, disk>>

PatchRest ==
  /\ Goto("patching", "stamp")
  /\ patched' = src
  /\ Same /\ NoFault /\ UNCHANGED <<pkg, archive, tree, stamp, taken, out, copied>>

(* A file to be patched is missing in a tree that was cut off.             *)
PatchFails ==
  /\ Goto("patching", "idle")
  /\ tree["buildroot"] # "whole"
  /\ Same /\ NoFault /\ UNCHANGED <<pkg, disk>>

Stamp ==
  /\ Goto("stamp", "unpack")
  /\ stamp' = TRUE
  /\ pkg' = "opensbi"
  /\ Same /\ NoFault /\ UNCHANGED <<archive, tree, patched, taken, out, copied>>

-----------------------------------------------------------------------------
(* make (external).  Buildroot takes a package up when it comes to it for   *)
(* the first time, one package after the other, musl before what is linked *)
(* with it.                                                                *)
Take(b) ==
  /\ pc = "build"
  /\ taken[b] = None
  /\ b = "zircon-validation" => taken["musl"] # None
  /\ taken' = [taken EXCEPT ![b] = src]
  /\ Same /\ NoFault /\ UNCHANGED <<pc, pkg, archive, tree, patched, stamp, out, copied>>

(* The rest is brought up to date: the overlay, kernel and firmware.       *)
Build ==
  /\ Goto("build", "fw_payload.elf")
  /\ \A b \in Stampable : taken[b] # None
  /\ out' = [src |-> src, patch |-> patched, taken |-> taken]
  /\ Same /\ NoFault /\ UNCHANGED <<pkg, archive, tree, patched, stamp, taken, copied>>

(* A compiler or a check fails; a tree that was cut off may not build.     *)
BuildFails ==
  /\ pc \in {"build", "check"} /\ pc' = "idle"
  /\ IF cut THEN NoFault ELSE Fault
  /\ Same /\ UNCHANGED <<pkg, disk>>

(* A mutant: an artifact that is there is not copied again.                *)
CopiedIfMissing(a) == IF copied[a] = None THEN out ELSE copied[a]

(* cp, one artifact after the other.                                       *)
Copied(a) == out

AfterCopy(a) ==
  CASE a = "fw_payload.elf"  -> "Image"
    [] a = "Image"           -> "zircon-2026.dtb"
    [] a = "zircon-2026.dtb" -> "check"

Copy ==
  /\ pc \in Artifacts
  /\ copied' = [copied EXCEPT ![pc] = Copied(pc)]
  /\ pc' = AfterCopy(pc)
  /\ Same /\ NoFault /\ UNCHANGED <<pkg, archive, tree, patched, stamp, taken, out>>

(* check-isa.sh, check-image.py and the check of zircon-validation pass.   *)
Finish ==
  /\ Goto("check", "idle")
  /\ Same /\ NoFault /\ UNCHANGED <<pkg, disk>>

(* Between two steps, inside one of several actions, or inside a cp.       *)
Killed ==
  /\ pc # "idle" /\ pc' = "idle"
  /\ Fault
  /\ \/ UNCHANGED copied
     \/ pc \in Artifacts /\ copied' = [copied EXCEPT ![pc] = None]
  /\ cut' = (cut \/ (pc = "unpacking" /\ tree[pkg] = "makefile"))
  /\ UNCHANGED <<src, pkg, archive, tree, patched, stamp, taken, out, edited, edits>>

(* make clean removes linux-system/build with everything in it.            *)
MakeClean ==
  /\ pc = "idle"
  /\ Fault
  /\ archive' = [p \in Packages |-> "absent"]
  /\ tree' = [p \in Packages |-> "none"]
  /\ patched' = "plain" /\ stamp' = FALSE
  /\ taken' = [b \in Stampable |-> None]
  /\ out' = None /\ copied' = [a \in Artifacts |-> None]
  /\ cut' = FALSE
  /\ UNCHANGED <<src, pc, pkg, edited, edits>>

Edit ==
  /\ edits < MaxEdits
  /\ edits' = edits + 1
  /\ src' \in Versions \ {src}
  /\ edited' = TRUE
  /\ UNCHANGED <<pc, pkg, disk, cut, faults>>

-----------------------------------------------------------------------------
Script ==
  \/ Fetched \/ Download("good") \/ Verify
  \/ Unpacked \/ Unpack \/ ExtractMakefile \/ ExtractRest
  \/ Stamped \/ Patch \/ PatchRejected \/ PatchRest \/ Stamp
  \/ (\E b \in Stampable : Take(b)) \/ Build \/ Copy \/ Finish

Faulty ==
  \/ Download("wrong") \/ DownloadStops \/ PatchFails \/ BuildFails \/ Killed
  \/ MakeClean

Next == Start \/ Script \/ Faulty \/ Edit

Spec == Init /\ [][Next]_vars

(* The script runs on once started, and its user reruns it when it stopped. *)
FairSpec == Spec /\ WF_vars(Start) /\ WF_vars(Script)

-----------------------------------------------------------------------------
(* What make is started on, after whatever kills and reruns, is unpacked   *)
(* from archives with the expected checksums, it is the whole of them      *)
(* unless an unpacking was killed at a bad moment (between the Makefile    *)
(* and the last file), and it is patched, once and in full: a stamp is     *)
(* never the stamp of a tree that was patched in part.                     *)
BuildsTheSources ==
  pc \in Artifacts \cup {"build", "check"} =>
    /\ \A p \in Packages : archive[p] = "good"
    /\ cut \/ \A p \in Packages : tree[p] = "whole"
    /\ stamp /\ patched \in Versions

(* An invocation that ends well leaves three artifacts of one and the same *)
(* build, also if an earlier invocation was killed when it had copied some *)
(* of them.  That build is of the kernel, device tree and overlay that the *)
(* invocation was started on, but of the packages and the patch that were  *)
(* taken when buildroot-out and the tree were first filled: an edit of     *)
(* zircon-validation.c since then is not in it.                            *)
ArtifactsAgree ==
  [][ Finish /\ ~edited =>
        \A a \in Artifacts :
          copied[a] = [src |-> src, patch |-> patched, taken |-> taken] ]_vars

(* Reruns converge: once edits and faults cease, the artifacts are of the  *)
(* present sources for good, but for five ways to be stuck: a download     *)
(* that was complete and wrong is kept, a tree that was cut off is not     *)
(* completed, a tree that was patched without a stamp is rejected, a tree  *)
(* with a stamp is never patched with an edited patch, and a package with  *)
(* a stamp in buildroot-out is never taken from the edited repository.     *)
(* Only make clean leads out of them.                                      *)
Current ==
  [src |-> src, patch |-> src, taken |-> [b \in Stampable |-> src]]

UpToDate == \A a \in Artifacts : copied[a] = Current

Outdated ==
  \/ patched \in Versions \ {src}
  \/ \E b \in Stampable : taken[b] \in Versions \ {src}

Wedged ==
  \/ \E p \in Packages : archive[p] = "wrong"
  \/ cut
  \/ ~stamp /\ patched # "plain"
  \/ Outdated

Converges == <>[](UpToDate \/ Wedged)
=================================================================================
