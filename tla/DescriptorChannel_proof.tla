------------------------- MODULE DescriptorChannel_proof -------------------------
(***************************************************************************)
(* Proofs about DescriptorChannel for every descriptor size, every number  *)
(* of rounds and every sequence of runs.                                   *)
(***************************************************************************)
EXTENDS DescriptorChannel, TLAPS

(* Where the hart is: a descriptor is only under construction in a run     *)
(* that has one, and the doorbell follows a full descriptor and a fence.   *)
HartPlace ==
  /\ slot > 0 => Running /\ Base \in Bases
  /\ pc = "doorbell" => slot = Slots /\ \A w \in posted : w.epoch < epoch
  /\ pc = "last" => slot = 0 /\ Running

(* What is posted was issued earlier in program order.                     *)
Issued ==
  /\ \A w \in posted :
       /\ w.epoch <= epoch /\ w.serial <= serial
       /\ w.serial = serial => w.slot < slot /\ w.base = Base
  /\ \A v, w \in posted : v.serial = w.serial /\ v.slot = w.slot => v = w

(* Fences keep the words of a round before its doorbell and a doorbell     *)
(* before the round after the next.                                        *)
Fenced ==
  /\ \A d \in posted : d.slot = Doorbell =>
       /\ \A w \in posted :
            w.slot # Doorbell /\ w.serial <= d.serial => w.epoch < d.epoch
       /\ \A w \in posted : w.serial >= d.serial + 2 => d.epoch < w.epoch
       /\ serial >= d.serial + 2 => d.epoch < epoch

(* The doorbells on their way are those of the rounds rung .. serial - 1.  *)
Queued ==
  /\ rung <= serial
  /\ \A d \in posted : d.slot = Doorbell => rung <= d.serial /\ d.serial < serial
  /\ \A k \in rung..(serial - 1) :
       \E d \in posted : d.slot = Doorbell /\ d.serial = k

(* A word of round k is at the device, or overwritten, or on its way.      *)
Supplied(b, s, k) ==
  \/ words[b][s] >= k
  \/ \E w \in posted : w.serial = k /\ w.slot = s /\ w.base = b

Filled ==
  /\ \A d \in posted : d.slot = Doorbell =>
       \A s \in WordSlots : Supplied(d.base, s, d.serial)
  /\ \A s \in WordSlots : s < slot => Supplied(Base, s, serial)

(* What the device holds: no word is further ahead of the doorbells than   *)
(* its region allows, and a word on its way is newer than the one it       *)
(* replaces.                                                               *)
Bounded ==
  /\ \A b \in Bases, s \in WordSlots :
       /\ words[b][s] <= rung + Ahead(b)
       /\ words[b][s] <= serial
       /\ words[b][s] = serial => s < slot /\ b = Base
  /\ \A w \in posted : w.slot # Doorbell => words[w.base][w.slot] < w.serial

(* The last doorbell of a run is kept before everything later by the fence *)
(* that ends the run, so the device has nothing later as long as it waits. *)
Ended ==
  \A d \in posted : d.slot = Doorbell /\ d.round = Rounds - 1 =>
    /\ \A w \in posted : d.serial < w.serial => d.epoch < w.epoch
    /\ pc # "last" => d.epoch < epoch
    /\ \A b \in Bases, s \in WordSlots : words[b][s] <= d.serial

IInv == /\ TypeOK
        /\ HartPlace
        /\ Issued
        /\ Fenced
        /\ Queued
        /\ Filled
        /\ Bounded
        /\ Ended

LEMMA RunsAreModes ==
  ASSUME NEW r \in 1..Len(Runs)
  PROVE  Runs[r] \in {"ram"} \cup Bases
  BY RunsAssumption DEF Bases

LEMMA InitIInv == Init => IInv
  BY SlotsAssumption, RoundsAssumption, RunsAssumption
     DEF Init, IInv, TypeOK, HartPlace, Issued, Fenced, Queued, Filled,
         Bounded, Ended, Running, Never, Ahead, Bases, WordSlots, Doorbell

(* The numbers among the variables and the fields of the posted stores.    *)
Numbers ==
  /\ {run, slot, serial, epoch, rung, Slots} \subseteq Nat /\ Slots > 0
  /\ \A w \in posted :
       /\ {w.round, w.serial, w.slot, w.epoch} \subseteq Nat
       /\ w.slot <= Slots /\ w.base \in Bases
  /\ \A b \in Bases, s \in WordSlots : words[b][s] \in Int

LEMMA TypedNumbers == TypeOK => Numbers
  BY SlotsAssumption, RoundsAssumption, RunsAssumption
     DEF TypeOK, Numbers

-----------------------------------------------------------------------------
LEMMA StoreWordStep == IInv /\ StoreWord => IInv'
  <1> SUFFICES ASSUME IInv, StoreWord
               PROVE  IInv'
    OBVIOUS
  <1> USE DEF IInv
  <1> DEFINE new == Store(slot)
  <1>1. /\ Running /\ Base \in Bases /\ run \in 1..Len(Runs)
        /\ pc = "words" /\ slot < Slots
    BY RunsAreModes, RunsAssumption DEF StoreWord, TypeOK, Running, Base
  <1>2. /\ new.round = round /\ new.serial = serial /\ new.slot = slot
        /\ new.epoch = epoch /\ new.base = Base
    BY DEF Store
  <1>3. /\ posted' = posted \cup {new} /\ slot' = slot + 1
        /\ UNCHANGED <<run, round, pc, serial, epoch, words, rung>>
        /\ Base' = Base
    BY DEF StoreWord, device, Base
  <1>4. TypeOK'
    <2>1. new \in [round : 0..(Rounds - 1), serial : Nat, slot : 0..Slots,
                   epoch : Nat, base : Bases]
      BY <1>1, SlotsAssumption DEF Store, TypeOK
    <2> QED
      BY <1>1, <1>3, <2>1, SlotsAssumption DEF TypeOK
  <1>5. Numbers /\ Numbers'
    BY <1>4, TypedNumbers, PTL
  <1> HIDE DEF new
  <1>6. HartPlace'
    BY <1>1, <1>3 DEF HartPlace, Running
  <1>7. Issued'
    BY <1>1, <1>2, <1>3, <1>5 DEF Issued, Numbers, Base
  <1>8. Fenced'
    BY <1>1, <1>2, <1>3, <1>5 DEF Fenced, Issued, Queued, Numbers, Doorbell
  <1>9. Queued'
    BY <1>1, <1>2, <1>3, <1>5 DEF Queued, Numbers, Doorbell
  <1>10. Filled'
    BY <1>1, <1>2, <1>3, <1>5
       DEF Filled, Supplied, Numbers, Doorbell, WordSlots
  <1>11. Bounded'
    BY <1>1, <1>2, <1>3, <1>5 DEF Bounded, Numbers, Doorbell, WordSlots
  <1>12. Ended'
    BY <1>1, <1>2, <1>3, <1>5 DEF Ended, Issued, Numbers, Doorbell, WordSlots
  <1> QED BY <1>4, <1>6, <1>7, <1>8, <1>9, <1>10, <1>11, <1>12

LEMMA FenceStep == IInv /\ Fence => IInv'
  <1> SUFFICES ASSUME IInv, Fence
               PROVE  IInv'
    OBVIOUS
  <1> USE DEF IInv
  <1>1. /\ slot = Slots /\ pc' = "doorbell" /\ epoch' = epoch + 1
        /\ UNCHANGED <<run, round, slot, serial, posted, words, rung>>
        /\ Base' = Base /\ Running /\ Base \in Bases
    BY RunsAreModes, RunsAssumption
       DEF Fence, device, Base, Running, TypeOK
  <1>2. TypeOK'
    BY <1>1 DEF TypeOK
  <1>3. Numbers /\ Numbers'
    BY <1>2, TypedNumbers, PTL
  <1>4. HartPlace'
    BY <1>1, <1>3 DEF HartPlace, Running, Issued, Numbers
  <1>5. Issued'
    BY <1>1, <1>3 DEF Issued, Numbers
  <1>6. Fenced'
    BY <1>1, <1>3 DEF Fenced, Issued, Numbers, Doorbell
  <1>7. Queued' /\ Filled' /\ Bounded'
    BY <1>1 DEF Queued, Filled, Supplied, Bounded, Doorbell, Ahead
  <1>8. Ended'
    BY <1>1, <1>3 DEF Ended, Issued, Numbers, Doorbell, WordSlots
  <1> QED BY <1>2, <1>4, <1>5, <1>6, <1>7, <1>8

LEMMA RingDoorbellStep == IInv /\ RingDoorbell => IInv'
  <1> SUFFICES ASSUME IInv, RingDoorbell
               PROVE  IInv'
    OBVIOUS
  <1> USE DEF IInv
  <1> DEFINE new == Store(Doorbell)
  <1>1. /\ slot = Slots /\ Running /\ Base \in Bases /\ run \in 1..Len(Runs)
        /\ \A w \in posted : w.epoch < epoch
    BY SlotsAssumption, RunsAssumption
       DEF RingDoorbell, HartPlace, Running, TypeOK
  <1>2. /\ new.round = round /\ new.serial = serial /\ new.slot = Doorbell
        /\ new.epoch = epoch /\ new.base = Base
    BY DEF Store
  <1>3. /\ posted' = posted \cup {new} /\ slot' = 0 /\ serial' = serial + 1
        /\ pc' \in {"words", "last"}
        /\ round = Rounds - 1 => pc' = "last"
        /\ UNCHANGED <<run, epoch, words, rung>>
        /\ Base' = Base
    BY RoundsAssumption DEF RingDoorbell, device, Base
  <1>4. TypeOK'
    <2>1. new \in [round : 0..(Rounds - 1), serial : Nat, slot : 0..Slots,
                   epoch : Nat, base : Bases]
      BY <1>1, SlotsAssumption DEF Store, TypeOK, Doorbell
    <2>2. round' \in 0..(Rounds - 1)
      BY RoundsAssumption DEF RingDoorbell, TypeOK
    <2> QED
      BY <1>1, <1>3, <2>1, <2>2, SlotsAssumption DEF TypeOK
  <1>5. Numbers /\ Numbers'
    BY <1>4, TypedNumbers, PTL
  <1> HIDE DEF new
  <1>6. HartPlace'
    BY <1>1, <1>3 DEF HartPlace, Running
  <1>7. Issued'
    BY <1>1, <1>2, <1>3, <1>5 DEF Issued, Numbers, Doorbell, Base
  <1>8. Fenced'
    BY <1>1, <1>2, <1>3, <1>5 DEF Fenced, Issued, Queued, Numbers, Doorbell
  <1>9. Queued'
    <2>1. \A k \in rung'..(serial' - 1) : k \in rung..(serial - 1) \/ k = serial
      BY <1>3, <1>5 DEF Numbers
    <2> QED
      BY <1>1, <1>2, <1>3, <1>5, <2>1 DEF Queued, Numbers, Doorbell
  <1>10. Filled'
    <2>1. \A b \in Bases, s \in WordSlots, k \in Nat :
            Supplied(b, s, k) => Supplied(b, s, k)'
      BY <1>3 DEF Supplied
    <2>2. \A s \in WordSlots : s < slot
      BY <1>1, <1>5 DEF Numbers, WordSlots
    <2>3. \A d \in posted' : d.slot = Doorbell =>
            \A s \in WordSlots : Supplied(d.base, s, d.serial)
      BY <1>2, <1>3, <2>2 DEF Filled
    <2>4. \A d \in posted' : d.base \in Bases /\ d.serial \in Nat
      BY <1>5 DEF Numbers
    <2>5. \A d \in posted' : d.slot = Doorbell =>
            \A s \in WordSlots : Supplied(d.base, s, d.serial)'
      BY <2>1, <2>3, <2>4
    <2> QED
      BY <1>3, <1>5, <2>5 DEF Filled, Supplied, Doorbell, WordSlots
  <1>11. Bounded'
    BY <1>1, <1>2, <1>3, <1>5 DEF Bounded, Numbers, Doorbell, WordSlots
  <1>12. Ended'
    BY <1>1, <1>2, <1>3, <1>5
       DEF Ended, Issued, Bounded, Numbers, Doorbell, WordSlots
  <1> QED BY <1>4, <1>6, <1>7, <1>8, <1>9, <1>10, <1>11, <1>12

(* The end of a run that had doorbells, and a run that has none.           *)
LEMMA NextRunStep ==
  ASSUME IInv, NextRun, slot = 0, slot' = 0, pc' = "words", Running,
         UNCHANGED <<serial, posted, words, rung>>,
         epoch' \in Nat, epoch <= epoch',
         pc = "last" => \A w \in posted : w.epoch < epoch'
  PROVE  IInv'
  <1> USE DEF IInv
  <1>1. TypeOK'
    BY RoundsAssumption, RunsAssumption DEF TypeOK, NextRun, Running
  <1>2. Numbers /\ Numbers'
    BY <1>1, TypedNumbers, PTL
  <1>3. HartPlace'
    BY <1>2 DEF HartPlace, Numbers
  <1>4. Issued'
    BY <1>2 DEF Issued, Numbers, NextRun
  <1>5. Fenced'
    BY <1>2 DEF Fenced, Issued, Numbers, NextRun, Doorbell
  <1>6. Queued' /\ Filled'
    BY <1>2 DEF Queued, Filled, Supplied, Doorbell, Numbers, WordSlots
  <1>7. Bounded'
    BY <1>2 DEF Bounded, Numbers, Doorbell, WordSlots, Ahead
  <1>8. Ended'
    BY <1>2 DEF Ended, Numbers, Doorbell, WordSlots
  <1> QED BY <1>1, <1>3, <1>4, <1>5, <1>6, <1>7, <1>8

LEMMA LastFenceStep == IInv /\ LastFence => IInv'
  <1> SUFFICES ASSUME IInv, LastFence
               PROVE  IInv'
    OBVIOUS
  <1>1. Numbers
    BY TypedNumbers DEF IInv
  <1>2. \A w \in posted : w.epoch < epoch'
    BY <1>1 DEF IInv, Issued, LastFence, Numbers
  <1>3. slot = 0 /\ Running
    BY DEF IInv, HartPlace, LastFence
  <1> QED
    BY <1>1, <1>2, <1>3, NextRunStep DEF LastFence, device, Numbers

LEMMA RamRunStep == IInv /\ RamRun => IInv'
  <1> SUFFICES ASSUME IInv, RamRun
               PROVE  IInv'
    OBVIOUS
  <1>1. Numbers
    BY TypedNumbers DEF IInv
  <1>2. slot = 0
    BY <1>1 DEF IInv, HartPlace, RamRun, Numbers, Bases
  <1> QED
    BY <1>1, <1>2, NextRunStep DEF RamRun, device, Numbers

-----------------------------------------------------------------------------
(* What the ordering rules of the memory system imply at an arrival.       *)
LEMMA DoorbellsInOrder ==
  ASSUME IInv, NEW d \in posted, d.slot = Doorbell, CanArrive(d)
  PROVE  /\ d.serial = rung
         /\ \A s \in WordSlots :
              words[d.base][s] \in rung..(rung + Ahead(d.base))
  <1> USE DEF IInv
  <1>1. Numbers
    BY TypedNumbers
  <1>2. d.serial = rung
    <2>1. rung <= d.serial /\ d.serial < serial
      BY DEF Queued
    <2>2. PICK e \in posted : e.slot = Doorbell /\ e.serial = rung
      BY <1>1, <2>1 DEF Queued, Numbers
    <2>3. ~(e.serial < d.serial)
      BY <2>2 DEF CanArrive, MustPrecede, Earlier, SameAddress
    <2> QED BY <1>1, <2>1, <2>2, <2>3 DEF Numbers
  <1>3. ASSUME NEW s \in WordSlots
        PROVE  words[d.base][s] >= d.serial
    <2>1. s # Doorbell
      BY SlotsAssumption DEF WordSlots, Doorbell
    <2>2. ASSUME NEW w \in posted, w.serial = d.serial, w.slot = s
          PROVE  FALSE
      <3>1. w.epoch < d.epoch
        BY <1>1, <2>1, <2>2 DEF Fenced, Numbers
      <3> QED BY <3>1 DEF CanArrive, MustPrecede
    <2> QED BY <2>2 DEF Filled, Supplied
  <1>4. \A s \in WordSlots : words[d.base][s] <= rung + Ahead(d.base)
    BY <1>1 DEF Bounded, Numbers
  <1> QED
    BY <1>1, <1>2, <1>3, <1>4 DEF Numbers, Ahead

LEMMA WordsNotFarAhead ==
  ASSUME IInv, NEW w \in posted, w.slot # Doorbell, CanArrive(w)
  PROVE  w.serial <= rung + Ahead(w.base)
  <1> USE DEF IInv
  <1>1. Numbers
    BY TypedNumbers
  <1>2. ASSUME NEW d \in posted, d.slot = Doorbell, d.serial + 2 <= w.serial
        PROVE  FALSE
    <2>1. d.epoch < w.epoch
      BY <1>1, <1>2 DEF Fenced, Numbers
    <2> QED BY <2>1 DEF CanArrive, MustPrecede
  <1>3. ASSUME NEW d \in posted, d.slot = Doorbell, d.serial < w.serial,
               w.base = "ordered"
        PROVE  FALSE
    BY <1>3 DEF CanArrive, MustPrecede, Earlier, StronglyOrdered
  <1>4. SUFFICES ASSUME rung + Ahead(w.base) < w.serial
                 PROVE  FALSE
    BY <1>1 DEF Numbers, Ahead
  <1>5. rung < w.serial /\ w.serial <= serial
    BY <1>1, <1>4 DEF Issued, Numbers, Ahead
  <1>6. PICK d \in posted : d.slot = Doorbell /\ d.serial = rung
    BY <1>1, <1>5 DEF Queued, Numbers
  <1> QED
    BY <1>1, <1>2, <1>3, <1>4, <1>5, <1>6 DEF Numbers, Ahead, Bases

LEMMA WordArrivesStep ==
  ASSUME IInv, NEW w \in posted, WordArrives(w)
  PROVE  IInv'
  <1> USE DEF IInv
  <1>1. /\ w.slot # Doorbell /\ CanArrive(w)
        /\ posted' = posted \ {w}
        /\ words' = [words EXCEPT ![w.base][w.slot] = w.serial]
        /\ UNCHANGED <<run, round, slot, pc, serial, epoch, rung>>
        /\ Base' = Base
    BY DEF WordArrives, hart, Base
  <1>2. w.slot \in WordSlots /\ w.base \in Bases
    BY <1>1, SlotsAssumption DEF TypeOK, WordSlots, Doorbell
  <1>3. TypeOK'
    BY <1>1, <1>2 DEF TypeOK
  <1>4. Numbers /\ Numbers'
    BY <1>3, TypedNumbers, PTL
  <1>5. \A b \in Bases, s \in WordSlots :
          words'[b][s] = IF b = w.base /\ s = w.slot THEN w.serial
                         ELSE words[b][s]
    BY <1>1, <1>2 DEF TypeOK
  <1>6. words[w.base][w.slot] < w.serial
    BY <1>1 DEF Bounded
  <1>7. w.serial <= rung + Ahead(w.base)
    BY <1>1, WordsNotFarAhead
  <1>8. ASSUME NEW v \in posted, v # w, v.slot = w.slot, v.base = w.base
        PROVE  w.serial < v.serial
    <2>1. ~(v.serial < w.serial)
      BY <1>1, <1>8 DEF CanArrive, MustPrecede, Earlier, SameAddress
    <2>2. v.serial # w.serial
      BY <1>8 DEF Issued
    <2> QED BY <1>4, <2>1, <2>2 DEF Numbers
  <1>9. HartPlace' /\ Issued' /\ Fenced'
    BY <1>1 DEF HartPlace, Running, Issued, Fenced, Doorbell
  <1>10. Queued'
    BY <1>1 DEF Queued, Doorbell
  <1>11. Filled'
    <2>1. ASSUME NEW b \in Bases, NEW s \in WordSlots, NEW k \in Nat,
                 Supplied(b, s, k)
          PROVE  Supplied(b, s, k)'
      <3>1. CASE words[b][s] >= k
        BY <1>4, <1>5, <1>6, <3>1 DEF Supplied, Numbers
      <3>2. CASE \E v \in posted : v.serial = k /\ v.slot = s /\ v.base = b
        BY <1>1, <1>4, <1>5, <3>2 DEF Supplied, Numbers
      <3> QED BY <2>1, <3>1, <3>2 DEF Supplied
    <2>2. ASSUME NEW d \in posted', d.slot = Doorbell, NEW s \in WordSlots
          PROVE  Supplied(d.base, s, d.serial)'
      BY <1>1, <1>4, <2>1, <2>2 DEF Filled, Numbers
    <2>3. ASSUME NEW s \in WordSlots, s < slot
          PROVE  Supplied(Base, s, serial)'
      <3>1. Base \in Bases /\ Supplied(Base, s, serial)
        BY <1>4, <2>3 DEF Filled, Numbers, HartPlace, WordSlots
      <3>2. \A b \in Bases, k \in Nat : Supplied(b, s, k) => Supplied(b, s, k)'
        BY <2>1
      <3> QED BY <1>1, <1>4, <3>1, <3>2 DEF Supplied, Numbers
    <2> QED BY <1>1, <2>2, <2>3 DEF Filled, Doorbell, WordSlots, Supplied
  <1>12. Bounded'
    <2>1. w.serial <= serial /\ (w.serial = serial => w.slot < slot /\ w.base = Base)
      BY DEF Issued
    <2>2. \A v \in posted' : v.slot # Doorbell => words'[v.base][v.slot] < v.serial
      <3> SUFFICES ASSUME NEW v \in posted', v.slot # Doorbell
                   PROVE  words'[v.base][v.slot] < v.serial
        OBVIOUS
      <3>1. v \in posted /\ v # w
        BY <1>1
      <3>2. v.slot \in WordSlots /\ v.base \in Bases
        <4> HIDE DEF IInv
        <4>1. v.slot \in 0..Slots /\ v.base \in Bases
          BY <3>1 DEF IInv, TypeOK
        <4> QED BY <3>1, <4>1, SlotsAssumption DEF WordSlots, Doorbell
      <3> QED BY <1>5, <1>8, <3>1, <3>2 DEF Bounded
    <2>3. \A b \in Bases, s \in WordSlots :
            /\ words'[b][s] <= rung + Ahead(b)
            /\ words'[b][s] <= serial
            /\ words'[b][s] = serial => s < slot /\ b = Base
      BY <1>5, <1>7, <2>1 DEF Bounded
    <2> QED BY <1>1, <2>2, <2>3 DEF Bounded, Doorbell, WordSlots, Ahead
  <1>13. Ended'
    <2>1. ASSUME NEW d \in posted, d.slot = Doorbell, d.round = Rounds - 1
          PROVE  w.serial <= d.serial
      <3>1. ~(d.epoch < w.epoch)
        BY <1>1 DEF CanArrive, MustPrecede
      <3> QED BY <1>4, <2>1, <3>1 DEF Ended, Numbers
    <2> QED BY <1>1, <1>5, <2>1 DEF Ended, Doorbell, WordSlots
  <1> QED BY <1>3, <1>9, <1>10, <1>11, <1>12, <1>13

LEMMA DoorbellArrivesStep ==
  ASSUME IInv, NEW d \in posted, DoorbellArrives(d)
  PROVE  IInv'
  <1> USE DEF IInv
  <1>1. /\ d.slot = Doorbell /\ CanArrive(d)
        /\ posted' = posted \ {d}
        /\ rung' = rung + 1
        /\ UNCHANGED <<run, round, slot, pc, serial, epoch, words>>
        /\ Base' = Base
    BY DEF DoorbellArrives, hart, Base
  <1>2. TypeOK'
    BY <1>1 DEF TypeOK
  <1>3. Numbers /\ Numbers'
    BY <1>2, TypedNumbers, PTL
  <1>4. d.serial = rung
    BY <1>1, DoorbellsInOrder
  <1>5. HartPlace' /\ Issued' /\ Fenced'
    BY <1>1 DEF HartPlace, Running, Issued, Fenced, Doorbell
  <1>6. Queued'
    <2>1. \A e \in posted' : e.slot = Doorbell => e.serial # rung
      BY <1>1, <1>4 DEF Issued
    <2> QED BY <1>1, <1>3, <1>4, <2>1 DEF Queued, Numbers, Doorbell
  <1>7. Filled'
    <2>1. ASSUME NEW b \in Bases, NEW s \in WordSlots, NEW k \in Nat,
                 Supplied(b, s, k)
          PROVE  Supplied(b, s, k)'
      BY <1>1, <2>1, SlotsAssumption DEF Supplied, WordSlots, Doorbell
    <2>2. ASSUME NEW e \in posted', e.slot = Doorbell, NEW s \in WordSlots
          PROVE  Supplied(e.base, s, e.serial)'
      BY <1>1, <1>3, <2>1, <2>2 DEF Filled, Numbers
    <2>3. ASSUME NEW s \in WordSlots, s < slot
          PROVE  Supplied(Base, s, serial)'
      <3>1. Base \in Bases /\ Supplied(Base, s, serial)
        BY <1>3, <2>3 DEF Filled, Numbers, HartPlace, WordSlots
      <3>2. \A b \in Bases, k \in Nat : Supplied(b, s, k) => Supplied(b, s, k)'
        BY <2>1
      <3> QED BY <1>1, <1>3, <3>1, <3>2 DEF Supplied, Numbers
    <2> QED BY <1>1, <2>2, <2>3 DEF Filled, Doorbell, WordSlots, Supplied
  <1>8. Bounded'
    BY <1>1, <1>3 DEF Bounded, Numbers, Doorbell, WordSlots, Ahead
  <1>9. Ended'
    BY <1>1 DEF Ended, Doorbell, WordSlots
  <1> QED BY <1>2, <1>5, <1>6, <1>7, <1>8, <1>9

LEMMA NextIInv == IInv /\ [Next]_vars => IInv'
  <1> SUFFICES ASSUME IInv, [Next]_vars
               PROVE  IInv'
    OBVIOUS
  <1>1. CASE Hart
    BY <1>1, StoreWordStep, FenceStep, RingDoorbellStep, LastFenceStep,
       RamRunStep DEF Hart
  <1>2. CASE MemorySystem
    BY <1>2, WordArrivesStep, DoorbellArrivesStep DEF MemorySystem
  <1>3. CASE UNCHANGED vars
    BY <1>3 DEF vars, hart, device, IInv, TypeOK, HartPlace, Issued, Fenced,
                Queued, Filled, Supplied, Bounded, Ended, Running, Base, Ahead,
                Doorbell, WordSlots
  <1> QED BY <1>1, <1>2, <1>3 DEF Next

-----------------------------------------------------------------------------
(* The stores on their way and the words at the device keep their types.   *)
THEOREM TypeCorrect == Spec => []TypeOK
  <1>1. IInv => TypeOK
    BY DEF IInv
  <1> QED BY InitIInv, NextIInv, <1>1, PTL DEF Spec

(* A doorbell never finds a word of an earlier round, and finds a word of a *)
(* later round only in the write-combining region and only of the next.    *)
THEOREM NoStale == Spec => NoStaleDescriptor
  <1>1. IInv /\ [Next]_vars =>
          [ \A w \in posted : DoorbellArrives(w) =>
              /\ w.serial = rung
              /\ \A s \in WordSlots :
                   words[w.base][s] \in rung..(rung + Ahead(w.base)) ]_vars
    BY DoorbellsInOrder DEF DoorbellArrives
  <1> QED BY InitIInv, NextIInv, <1>1, PTL DEF Spec, NoStaleDescriptor

(* The doorbell of the last round of a run finds its descriptor whole: the *)
(* fence that ends the run holds back every word of the runs after it.     *)
THEOREM LastIsWhole == Spec => LastDescriptorIsWhole
  <1>1. IInv /\ [Next]_vars =>
          [ \A w \in posted : (DoorbellArrives(w) /\ w.round = Rounds - 1) =>
              \A s \in WordSlots : words[w.base][s] = w.serial ]_vars
    <2> SUFFICES ASSUME IInv, NEW d \in posted, DoorbellArrives(d),
                        d.round = Rounds - 1, NEW s \in WordSlots
                 PROVE  words[d.base][s] = d.serial
      OBVIOUS
    <2>1. Numbers
      BY TypedNumbers DEF IInv
    <2>2. d.slot = Doorbell /\ CanArrive(d)
      BY DEF DoorbellArrives
    <2>3. d.serial = rung /\ words[d.base][s] \in rung..(rung + Ahead(d.base))
      BY <2>2, DoorbellsInOrder
    <2>4. words[d.base][s] <= d.serial
      BY <2>1, <2>2 DEF IInv, Ended, Numbers
    <2> QED BY <2>1, <2>3, <2>4 DEF Numbers, Ahead
  <1> QED BY InitIInv, NextIInv, <1>1, PTL DEF Spec, LastDescriptorIsWhole

-----------------------------------------------------------------------------
LEMMA InitDelivery == Init => Delivery!Init
  BY DEF Init, Delivery!Init, Delivery!Bases, Delivery!WordSlots,
         Bases, WordSlots, Never

LEMMA StepDelivery == IInv /\ [Next]_vars => [Delivery!Next]_(Delivery!vars)
  <1> SUFFICES ASSUME IInv, [Next]_vars
               PROVE  [Delivery!Next]_(Delivery!vars)
    OBVIOUS
  <1> USE DEF Delivery!vars, Delivery!Bases, Delivery!WordSlots,
              Delivery!Ahead
  <1>1. Numbers
    BY TypedNumbers DEF IInv
  <1>2. ASSUME NEW w \in posted, WordArrives(w)
        PROVE  Delivery!Update
    <2>1. w.slot \in WordSlots /\ w.base \in Bases
      BY <1>2, SlotsAssumption DEF IInv, TypeOK, WordSlots, Doorbell, WordArrives
    <2>2. w.serial \in 0..(rung + Ahead(w.base))
      BY <1>1, <1>2, WordsNotFarAhead DEF WordArrives, Numbers, Ahead
    <2>3. words[w.base][w.slot] < w.serial
      BY <1>2 DEF IInv, Bounded, WordArrives
    <2> QED
      BY <1>2, <2>1, <2>2, <2>3
         DEF WordArrives, Delivery!Update, Ahead, Bases, WordSlots
  <1>3. ASSUME NEW d \in posted, DoorbellArrives(d)
        PROVE  Delivery!Ring
    <2>1. d.base \in Bases
      BY DEF IInv, TypeOK
    <2>2. \A s \in WordSlots : words[d.base][s] \in rung..(rung + Ahead(d.base))
      BY <1>3, DoorbellsInOrder DEF DoorbellArrives
    <2> QED
      BY <1>3, <2>1, <2>2
         DEF DoorbellArrives, Delivery!Ring, Ahead, Bases, WordSlots
  <1>4. CASE UNCHANGED device
    BY <1>4 DEF device
  <1> QED
    BY <1>2, <1>3, <1>4
       DEF Next, Hart, MemorySystem, StoreWord, Fence, RingDoorbell,
           LastFence, RamRun, Delivery!Next, vars

(* The device may rely on DescriptorDelivery.                              *)
THEOREM Refinement == Spec => ImplementsDelivery
  BY InitIInv, NextIInv, InitDelivery, StepDelivery, PTL
     DEF Spec, Delivery!Spec, ImplementsDelivery
=================================================================================
