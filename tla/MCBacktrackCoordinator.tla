----------------------- MODULE MCBacktrackCoordinator -----------------------
(* Instance of BacktrackCoordinator for TLC. *)
EXTENDS BacktrackCoordinator, TLC

MCPaths == {1, 2}
MCDeltas == {{}, {1, 2}}
MCGrades == {1}
MCProcs == Permutations(Procs)
MCEdits == {<<1, "head">>, <<2, "user">>}
=============================================================================
