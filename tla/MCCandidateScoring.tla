------------------------- MODULE MCCandidateScoring -------------------------
(* An instance of CandidateScoring for TLC: each kind of check fails alone, *)
(* and two together.                                                        *)
EXTENDS CandidateScoring

MCFailures == {{}, {"type"}, {"lint"}, {"build"}, {"test"}, {"regression"}, {"type", "regression"}}
=============================================================================
