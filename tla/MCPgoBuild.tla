------------------------------- MODULE MCPgoBuild -------------------------------
(* Two versions, so that an edit can be taken back, and enough faults to    *)
(* be killed on the way to the recovery and inside it.                     *)
EXTENDS PgoBuild

(* The defaults of the Makefile.                                           *)
DefaultPaths == {"profile", "fingerprint", "pending"}
=================================================================================
