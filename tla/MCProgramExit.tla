----------------------------- MODULE MCProgramExit -----------------------------
(* All exit codes of a narrow int, both halves of it, and ports on both     *)
(* sides of the last one the table names.                                  *)
EXTENDS ProgramExit
=================================================================================
