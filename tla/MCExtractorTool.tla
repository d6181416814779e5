--------------------------- MODULE MCExtractorTool ---------------------------
(* Instances of ExtractorTool for TLC; the bounds are in the .cfg files. *)
EXTENDS ExtractorTool
=============================================================================
