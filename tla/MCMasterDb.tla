----------------------------- MODULE MCMasterDb -----------------------------
(* Instances of MasterDb for TLC; the bounds are in the .cfg files.         *)
EXTENDS MasterDb
=============================================================================
