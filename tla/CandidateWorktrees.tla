------------------------- MODULE CandidateWorktrees -------------------------
(***************************************************************************)
(* The two worktrees in which recovery candidates run                      *)
(* (src/workspace/candidate-worktree-manager.ts, -cleanup.ts, -format.ts): *)
(* their creation as a pair, the manifest with status, pin and lease, and  *)
(* the cleanup of expired losers.  One request, so one pair.  The module   *)
(* holds the manager's actions; BacktrackCoordinator composes them.        *)
(***************************************************************************)
EXTENDS Naturals, FiniteSets

CONSTANTS Procs,   \* processes that dispatch workflows on the repository
          Paths    \* repository paths, numbered in the order of their names

None == "none"

ASSUME WorktreeConstants ==
  /\ Paths \subseteq Nat /\ IsFiniteSet(Paths)
  /\ None \notin Procs

VARIABLES
  tree,      \* the source repository: path -> content
  pc,        \* control point of each process
  ret,       \* where a cleanup of the process goes on
  mlock,     \* the process that holds the manager's file lock
  man,       \* the pair's manifest
  wt,        \* the worktrees on disk: existence and files
  thr,       \* the candidates' checkpoint threads
  expired    \* TRUE once the leases of the pair are over

wtVars == <<mlock, man, wt, thr>>

Candidates == {0, 1}
Other(c) == 1 - c

Contents == {"head", "work", "user", "cand0", "cand1"}
Cand(c) == IF c = 0 THEN "cand0" ELSE "cand1"
Tree == [Paths -> Contents]
HeadTree == [x \in Paths |-> "head"]

Statuses == {"active", "winner", "finalized", "loser", "completed", "cleanup_failed"}

NoManifest ==
  [exists |-> FALSE, status |-> [c \in Candidates |-> "active"],
   pinned |-> [c \in Candidates |-> TRUE], removed |-> [c \in Candidates |-> FALSE]]
NoWorktree == [exists |-> FALSE, files |-> HeadTree]

At(p, l) == pc[p] = l
Goto(p, l) == pc' = [pc EXCEPT ![p] = l]

\* A cleanup that goes on at l, and its end.
CallCleanup(p, l) == Goto(p, "cleanup") /\ ret' = [ret EXCEPT ![p] = l]
EndCleanup(p) == Goto(p, ret[p]) /\ ret' = [ret EXCEPT ![p] = "idle"]

WtTypeOK ==
  /\ tree \in Tree
  /\ mlock \in Procs \cup {None}
  /\ man \in [exists : BOOLEAN, status : [Candidates -> Statuses],
              pinned : [Candidates -> BOOLEAN], removed : [Candidates -> BOOLEAN]]
  /\ wt \in [Candidates -> [exists : BOOLEAN, files : Tree]]
  /\ thr \in [Candidates -> {None, "cloned", "ran"}]
  /\ expired \in BOOLEAN

WtInit ==
  /\ mlock = None
  /\ man = NoManifest
  /\ wt = [c \in Candidates |-> NoWorktree]
  /\ thr = [c \in Candidates |-> None]
  /\ expired = FALSE

-----------------------------------------------------------------------------
\* createPair

\* The manifest on disk still describes two registered, present worktrees.
PairMatches == \A c \in Candidates : ~man.removed[c] /\ wt[c].exists

\* Under the lock: the source must still be the captured one; an intact pair
\* is returned, anything else that is already there is a conflict.
CreatePair(p, snapshot) ==
  /\ At(p, "create") /\ mlock = None
  /\ LET conflict == \/ tree # snapshot
                     \/ man.exists /\ ~PairMatches
                     \/ ~man.exists /\ \E c \in Candidates : wt[c].exists
     IN  CASE conflict -> Goto(p, "throw") /\ UNCHANGED mlock
           [] ~conflict /\ man.exists -> Goto(p, "created") /\ UNCHANGED mlock
           [] OTHER -> Goto(p, "add0") /\ mlock' = p
  /\ UNCHANGED <<tree, ret, man, wt, thr, expired>>

\* git worktree add at the baseline commit, then the captured files.
AddWorktree(p, c, snapshot) ==
  /\ At(p, IF c = 0 THEN "add0" ELSE "add1")
  /\ wt' = [wt EXCEPT ![c] = [exists |-> TRUE, files |-> snapshot]]
  /\ Goto(p, IF c = 0 THEN "add1" ELSE "manifest")
  /\ UNCHANGED <<tree, ret, mlock, man, thr, expired>>

\* Any failure removes what was created, in reverse order.
AddFails(p) ==
  /\ pc[p] \in {"add0", "add1", "manifest"}
  /\ wt' = [c \in Candidates |-> NoWorktree]
  /\ mlock' = None
  /\ Goto(p, "throw")
  /\ UNCHANGED <<tree, ret, man, thr, expired>>

WriteManifest(p) ==
  /\ At(p, "manifest")
  /\ man' = [NoManifest EXCEPT !.exists = TRUE]
  /\ mlock' = None
  /\ Goto(p, "created")
  /\ UNCHANGED <<tree, ret, wt, thr, expired>>

-----------------------------------------------------------------------------
\* setStatus and setPinned: one locked rewrite of the manifest each

SetStatus(p, from, c, status, to) ==
  /\ At(p, from) /\ mlock = None
  /\ man' = [man EXCEPT !.status[c] = status]
  /\ Goto(p, to)
  /\ UNCHANGED <<tree, ret, mlock, wt, thr, expired>>

Unpin(p, c) ==
  /\ At(p, "unpin") /\ mlock = None
  /\ man' = [man EXCEPT !.pinned[c] = FALSE]
  /\ CallCleanup(p, "cleaned")
  /\ UNCHANGED <<tree, mlock, wt, thr, expired>>

\* getPairForPromotion: the worktree is the manager's, registered and present.
Promotable(c) == man.exists /\ ~man.removed[c] /\ wt[c].exists

-----------------------------------------------------------------------------
\* cleanupExpired, called at the start of every dispatch, before a backtrack
\* and at its end; the thread of a removed worktree is deleted after it

\* Mutant: the pin of the recovery in progress is not looked at.
RemovablePinned(c) ==
  /\ man.exists /\ ~man.removed[c]
  /\ man.status[c] = "loser" /\ expired
  /\ wt[c].exists /\ wt[c].files = HeadTree

\* removalDecision: only an unpinned loser whose lease is over, still
\* registered, and without any difference to its baseline commit.
Removable(c) ==
  /\ man.exists /\ ~man.removed[c]
  /\ man.status[c] = "loser" /\ ~man.pinned[c] /\ expired
  /\ wt[c].exists /\ wt[c].files = HeadTree

Kept(p) ==
  /\ At(p, "cleanup") /\ mlock = None
  /\ \A c \in Candidates : ~Removable(c)
  /\ EndCleanup(p)
  /\ UNCHANGED <<tree, expired, wtVars>>

RemoveWorktree(p) ==
  /\ At(p, "cleanup") /\ mlock = None
  /\ \E c \in Candidates :
       /\ Removable(c)
       /\ wt' = [wt EXCEPT ![c] = NoWorktree]
  /\ mlock' = p
  /\ Goto(p, "removed")
  /\ UNCHANGED <<tree, ret, man, thr, expired>>

RemoveFails(p) ==
  /\ At(p, "cleanup") /\ mlock = None
  /\ \E c \in Candidates :
       Removable(c) /\ man' = [man EXCEPT !.status[c] = "cleanup_failed"]
  /\ EndCleanup(p)
  /\ UNCHANGED <<tree, mlock, wt, thr, expired>>

RecordRemoved(p) ==
  /\ At(p, "removed")
  /\ man' = [man EXCEPT !.removed =
               [c \in Candidates |-> man.removed[c] \/ man.status[c] = "loser"]]
  /\ mlock' = None
  /\ Goto(p, "release")
  /\ UNCHANGED <<tree, ret, wt, thr, expired>>

\* The manifest cannot say so: the catch block marks the candidate instead,
\* and its thread is not released.
RecordRemovedFails(p) ==
  /\ At(p, "removed")
  /\ man' = [man EXCEPT !.status =
               [c \in Candidates |-> IF man.status[c] = "loser" THEN "cleanup_failed"
                                     ELSE man.status[c]]]
  /\ mlock' = None
  /\ EndCleanup(p)
  /\ UNCHANGED <<tree, wt, thr, expired>>

ReleaseOwner(p) ==
  /\ At(p, "release")
  /\ thr' = [c \in Candidates |-> IF man.removed[c] THEN None ELSE thr[c]]
  /\ EndCleanup(p)
  /\ UNCHANGED <<tree, mlock, man, wt, expired>>

Cleanup(p) ==
  \/ Kept(p) \/ RemoveWorktree(p) \/ RemoveFails(p)
  \/ RecordRemoved(p) \/ RecordRemovedFails(p) \/ ReleaseOwner(p)

\* The 24 hours of the leases pass.
LeaseExpires ==
  /\ ~expired /\ man.exists
  /\ expired' = TRUE
  /\ UNCHANGED <<tree, pc, ret, wtVars>>
=============================================================================
