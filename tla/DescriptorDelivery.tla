--------------------------- MODULE DescriptorDelivery ---------------------------
(***************************************************************************)
(* What the device on the other end of DescriptorChannel may rely on: it   *)
(* sees descriptor words change and doorbells ring, and each doorbell finds *)
(* one base whose words are all from its own round, or, in the             *)
(* write-combining region, partly from the next.                           *)
(***************************************************************************)
EXTENDS Integers

CONSTANT Slots

VARIABLES
  words,   (* The round each word of each base is from.                    *)
  rung     (* Doorbells received.                                          *)

vars == <<words, rung>>

Bases     == {"ordered", "wc"}
WordSlots == 0..(Slots - 1)
Ahead(b)  == IF b = "wc" THEN 1 ELSE 0

Init ==
  /\ words = [b \in Bases |-> [s \in WordSlots |-> -1]]
  /\ rung = 0

(* A word is replaced by a newer round, at most Ahead(b) past the doorbell. *)
Update ==
  \E b \in Bases, s \in WordSlots :
    /\ \E k \in 0..(rung + Ahead(b)) :
         /\ words[b][s] < k
         /\ words' = [words EXCEPT ![b][s] = k]
    /\ UNCHANGED rung

Ring ==
  /\ \E b \in Bases : \A s \in WordSlots :
       words[b][s] \in rung..(rung + Ahead(b))
  /\ rung' = rung + 1
  /\ UNCHANGED words

Next == Update \/ Ring

Spec == Init /\ [][Next]_vars
=================================================================================
