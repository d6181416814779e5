----------------------------- MODULE MCSchedule -----------------------------
(* Instances of Schedule for TLC; the bounds are in the .cfg files.         *)
EXTENDS Schedule
=============================================================================
