-------------------------- MODULE MCDescriptorChannel --------------------------
(* main of store-combine.c: a run on each base, then a run on the first     *)
(* base again over the words the earlier run left there.                   *)
EXTENDS DescriptorChannel

MCRuns == <<"ordered", "wc", "ram", "wc">>
=================================================================================
