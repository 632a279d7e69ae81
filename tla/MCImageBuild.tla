------------------------------ MODULE MCImageBuild ------------------------------
(* Two versions, an edit and its reversal, and faults enough to be killed  *)
(* in one invocation and again in the one that takes up what it left.      *)
EXTENDS ImageBuild
=================================================================================
