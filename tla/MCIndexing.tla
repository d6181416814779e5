----------------------------- MODULE MCIndexing -----------------------------
(* Instances of Indexing for TLC; the bounds are in the .cfg files.         *)
EXTENDS Indexing

(* The first object is a directory, and all others are in it.               *)
NestedNames == [o \in Oid |-> IF o = 1 THEN 0 ELSE 1]

(* lossy only grows: behind these failures nothing is claimed any more, and *)
(* the run with failures need not go on.                                    *)
Claims == lossy \cap {"new", "build"} = {}
=============================================================================
