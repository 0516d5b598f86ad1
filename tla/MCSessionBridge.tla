-------------------------- MODULE MCSessionBridge --------------------------
(* Instances of SessionBridge for TLC.                                     *)
EXTENDS SessionBridge, TLC

CONSTANTS src, p1, p2, n1, pi, d1, d2

Budget(forks, edits, removals, checkpoints, crashes, steps, chats, moves) ==
  [forks |-> forks, edits |-> edits, removals |-> removals, checkpoints |-> checkpoints,
   crashes |-> crashes, steps |-> steps, chats |-> chats, moves |-> moves]

(* Calls of the fork action against each other, beside a run, and beside   *)
(* the session; the user moving and forking, with a crash, a removed       *)
(* worktree or another process in the way.                                 *)
MCBudgets ==
  {Budget(3, 0, 0, 0, 1, 0, 0, 0), Budget(2, 1, 0, 1, 1, 0, 0, 0), Budget(2, 0, 0, 1, 0, 1, 0, 0),
   Budget(1, 0, 0, 1, 0, 1, 0, 1), Budget(0, 0, 0, 0, 1, 1, 1, 2), Budget(0, 0, 0, 0, 0, 0, 1, 3),
   Budget(0, 0, 1, 0, 0, 1, 1, 2), Budget(0, 1, 1, 1, 0, 1, 0, 2)}
MCSymmetry == Permutations({d1, d2}) \cup Permutations({p1, p2})
=============================================================================
