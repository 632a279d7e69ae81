---------------------------- MODULE DescriptorChannel ----------------------------
(***************************************************************************)
(* device-test/src/store-combine.c (run_descriptor_writes) and             *)
(* taclebench/ports/lift-write-combine.c (submit_actuator_state): a hart   *)
(* fills a descriptor in device memory word by word, executes              *)
(* `fence w,w` and writes the doorbell; after the last round of a run it   *)
(* executes one more fence.  Nothing waits for the device, and nothing     *)
(* separates doorbell k from the words of round k + 1.                     *)
(*                                                                         *)
(* Stores are posted: a store leaves the hart in program order and reaches *)
(* the device later.  How they may be reordered on the way is external     *)
(* (the memory system of the core): a fence separates what was posted      *)
(* before it from what is posted after it, stores to one address stay in   *)
(* order, stores to ORDERED_BASE and to the doorbell stay in order, and    *)
(* stores to WC_BASE move freely between fences.                           *)
(***************************************************************************)
EXTENDS Integers, Sequences

CONSTANTS
  Slots,    (* Words of a descriptor: WC_WORDS (32), or 8 for the lift.    *)
  Rounds,   (* Doorbells of a run: ROUNDS (16), or the steps of the lift.  *)
  Runs      (* The bases of the consecutive runs of main.                  *)

ASSUME SlotsAssumption  == Slots \in Nat \ {0}
ASSUME RoundsAssumption == Rounds \in Nat \ {0}
ASSUME RunsAssumption   == Runs \in Seq({"ram", "ordered", "wc"})

VARIABLES
  run,      (* The run of main, an index of Runs; Len(Runs) + 1 at its end. *)
  round,    (* The local round (or i) of that run.                         *)
  slot,     (* Words of this round stored so far.                          *)
  pc,       (* "words", "doorbell" or "last" (before the fence of a run).  *)
  serial,   (* History: rounds submitted since main began.                 *)
  epoch,    (* Fences executed so far.                                     *)
  posted,   (* The stores on their way to the device.                      *)
  words,    (* Device: the round (its serial) each descriptor word is from. *)
  rung      (* Device: doorbells received.                                 *)

hart   == <<run, round, slot, pc, serial, epoch>>
device == <<words, rung>>
vars   == <<hart, posted, device>>

Bases     == {"ordered", "wc"}
WordSlots == 0..(Slots - 1)
Doorbell  == Slots                    (* The slot that stands for the doorbell. *)
Running   == run <= Len(Runs)
Base      == Runs[run]
Never     == -1

(* A store carries its round; the doorbell's value is the round.           *)
Store(s) == [round |-> round, serial |-> serial, slot |-> s,
             epoch |-> epoch, base |-> Base]

TypeOK ==
  /\ run \in 1..(Len(Runs) + 1)
  /\ round \in 0..(Rounds - 1)
  /\ slot \in 0..Slots
  /\ pc \in {"words", "doorbell", "last"}
  /\ serial \in Nat
  /\ epoch \in Nat
  /\ posted \subseteq
       [round : 0..(Rounds - 1), serial : Nat, slot : 0..Slots,
        epoch : Nat, base : Bases]
  /\ words \in [Bases -> [WordSlots -> Int]]
  /\ rung \in Nat

Init ==
  /\ run = 1 /\ round = 0 /\ slot = 0 /\ pc = "words"
  /\ serial = 0 /\ epoch = 0
  /\ posted = {}
  /\ words = [b \in Bases |-> [s \in WordSlots |-> Never]]
  /\ rung = 0

-----------------------------------------------------------------------------
(* The hart, in program order.                                             *)
StoreWord ==
  /\ Running /\ Base # "ram"
  /\ pc = "words" /\ slot < Slots
  /\ posted' = posted \cup {Store(slot)}
  /\ slot' = slot + 1
  /\ UNCHANGED <<run, round, pc, serial, epoch, device>>

(* A mutant: the doorbell follows the words without a fence.               *)
FenceMissing ==
  /\ Running /\ Base # "ram"
  /\ pc = "words" /\ slot = Slots
  /\ pc' = "doorbell"
  /\ UNCHANGED <<run, round, slot, serial, epoch, posted, device>>

Fence ==
  /\ Running /\ Base # "ram"
  /\ pc = "words" /\ slot = Slots
  /\ pc' = "doorbell"
  /\ epoch' = epoch + 1
  /\ UNCHANGED <<run, round, slot, serial, posted, device>>

(* A mutant: the last round of a run is not announced.                     *)
RingDoorbellButLast ==
  /\ pc = "doorbell"
  /\ posted' = IF round < Rounds - 1 THEN posted \cup {Store(Doorbell)} ELSE posted
  /\ serial' = serial + 1
  /\ slot' = 0
  /\ \/ round < Rounds - 1 /\ round' = round + 1 /\ pc' = "words"
     \/ round = Rounds - 1 /\ round' = round /\ pc' = "last"
  /\ UNCHANGED <<run, epoch, device>>

RingDoorbell ==
  /\ pc = "doorbell"
  /\ posted' = posted \cup {Store(Doorbell)}
  /\ serial' = serial + 1
  /\ slot' = 0
  /\ \/ round < Rounds - 1 /\ round' = round + 1 /\ pc' = "words"
     \/ round = Rounds - 1 /\ round' = round /\ pc' = "last"
  /\ UNCHANGED <<run, epoch, device>>

NextRun == run' = run + 1 /\ round' = 0

(* A mutant: a run ends without a fence.                                   *)
LastFenceMissing ==
  /\ pc = "last"
  /\ pc' = "words"
  /\ NextRun
  /\ UNCHANGED <<slot, serial, epoch, posted, device>>

LastFence ==
  /\ pc = "last"
  /\ pc' = "words"
  /\ epoch' = epoch + 1
  /\ NextRun
  /\ UNCHANGED <<slot, serial, posted, device>>

(* RUN_RAM_ONLY: no descriptor, no doorbell, no fence.                     *)
RamRun ==
  /\ Running /\ Base = "ram"
  /\ pc = "words"
  /\ NextRun
  /\ UNCHANGED <<slot, pc, serial, epoch, posted, device>>

-----------------------------------------------------------------------------
(* The memory system (external): which posted store may arrive next.       *)
Earlier(v, w) ==
  v.serial < w.serial \/ (v.serial = w.serial /\ v.slot < w.slot)

StronglyOrdered(w) == w.base = "ordered" \/ w.slot = Doorbell

SameAddress(v, w) ==
  v.slot = w.slot /\ (v.slot = Doorbell \/ v.base = w.base)

MustPrecede(v, w) ==
  \/ v.epoch < w.epoch
  \/ Earlier(v, w) /\ SameAddress(v, w)
  \/ Earlier(v, w) /\ StronglyOrdered(v) /\ StronglyOrdered(w)

CanArrive(w) == \A v \in posted : ~MustPrecede(v, w)

WordArrives(w) ==
  /\ w.slot # Doorbell
  /\ CanArrive(w)
  /\ posted' = posted \ {w}
  /\ words' = [words EXCEPT ![w.base][w.slot] = w.serial]
  /\ UNCHANGED <<hart, rung>>

DoorbellArrives(w) ==
  /\ w.slot = Doorbell
  /\ CanArrive(w)
  /\ posted' = posted \ {w}
  /\ rung' = rung + 1
  /\ UNCHANGED <<hart, words>>

-----------------------------------------------------------------------------
Hart == StoreWord \/ Fence \/ RingDoorbell \/ LastFence \/ RamRun

MemorySystem == \E w \in posted : WordArrives(w) \/ DoorbellArrives(w)

Next == Hart \/ MemorySystem

Spec == Init /\ [][Next]_vars

(* The hart is not starved and the memory system loses no store.           *)
FairSpec == Spec /\ WF_vars(Hart) /\ WF_vars(MemorySystem)

-----------------------------------------------------------------------------
(* Rounds of the WC region may overtake one doorbell, no others overtake.  *)
Ahead(b) == IF b = "wc" THEN 1 ELSE 0

(* Doorbells arrive in the order of the rounds, and when doorbell k does,  *)
(* every word of its descriptor has arrived: none is left over from an     *)
(* earlier round.  The code has no fence after the doorbell, so a word may *)
(* already be from the next round in the write-combining region, but not   *)
(* in the ordered region and never from a later one.                       *)
NoStaleDescriptor ==
  [][ \A w \in posted : DoorbellArrives(w) =>
        /\ w.serial = rung
        /\ \A s \in WordSlots :
             words[w.base][s] \in rung..(rung + Ahead(w.base)) ]_vars

(* The fence that ends a run: the doorbell of its last round finds its     *)
(* descriptor exactly as that round left it, in every region.  A later run *)
(* on the same base starts without waiting for the device, and were it not *)
(* for that fence its first words could overwrite the result of the run    *)
(* before it was announced.  Nothing is said of time: doorbells of a run   *)
(* may still be on their way while the next run reads mcycle.              *)
LastDescriptorIsWhole ==
  [][ \A w \in posted : (DoorbellArrives(w) /\ w.round = Rounds - 1) =>
        \A s \in WordSlots : words[w.base][s] = w.serial ]_vars

(* Every run ends with all its rounds announced: the hart waits for        *)
(* nothing, and no word of a descriptor holds back its doorbell for ever,  *)
(* however the two may be reordered.                                       *)
AllDoorbellsArrive == <>(~Running /\ rung = serial /\ posted = {})

-----------------------------------------------------------------------------
(* The device sees a bounded run-ahead buffer.                             *)
Delivery == INSTANCE DescriptorDelivery

ImplementsDelivery == Delivery!Spec
=================================================================================
