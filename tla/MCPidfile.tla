----------------------------- MODULE MCPidfile ------------------------------
(* Instances of Pidfile for TLC; the bounds are in the .cfg files.          *)
EXTENDS Pidfile
=============================================================================
