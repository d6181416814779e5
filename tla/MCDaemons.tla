------------------------------ MODULE MCDaemons ------------------------------
(* Instances of Daemons for TLC; the bounds are given in the .cfg files. *)
EXTENDS Daemons
=============================================================================
