------------------------------- MODULE MCQemuCheck -------------------------------
(* A few polls before the deadline; QEMU leaves with success or failure.    *)
EXTENDS QemuCheck
=================================================================================
