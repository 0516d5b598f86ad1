---------------------------- MODULE MCRetention ----------------------------
(* An instance of Retention for TLC.                                       *)
EXTENDS Retention, TLC

CONSTANTS s1, s2, t1, f1, a1, x1, x2

MCSymmetry == Permutations({s1, s2}) \cup Permutations({x1, x2})
=============================================================================
