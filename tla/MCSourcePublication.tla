------------------------- MODULE MCSourcePublication -------------------------
(* Instances of SourcePublication for TLC.                                 *)
EXTENDS SourcePublication

CONSTANTS w1, w2, e1
==============================================================================
