--------------------- MODULE BacktrackCoordinatorProofs ---------------------
(***************************************************************************)
(* Theorems about BacktrackCoordinator with the pair of worktrees and the  *)
(* promotion it is composed of, for any number of processes, paths, edits  *)
(* and crashes: a candidate is run once, a winner promoted once, the       *)
(* outcome says what happened, and no cleanup touches a recovery that is   *)
(* in progress.  And about CandidateScoring, which is the detail of the    *)
(* coordinator's grades: the best candidate wins, and promotion agrees.    *)
(***************************************************************************)
EXTENDS BacktrackCoordinator, FiniteSetTheorems, WellFoundedInduction, TLAPS

-----------------------------------------------------------------------------
\* The inductive invariant

\* Control points at which runLocked works towards an outcome, at which it has
\* one, and those of a cleanup, which every dispatch calls.
Working == {"create", "add0", "add1", "manifest", "created", "clone", "copied", "run",
            "winner", "loser", "record", "recordScored", "promoting", "open", "verify",
            "guard", "publish", "rename", "rollback", "restore", "demote", "recordPromoted",
             "reread"}
Ending == {"finalize", "finWinner", "finLoser", "unpin", "done0", "done1", "cleaned", "return"}
Cleaning == {"cleanup", "removed", "release"}
Promoting == {"winner", "loser", "record", "recordScored", "promoting", "open", "verify",
              "guard", "publish", "rename", "rollback", "restore", "demote", "recordPromoted",
             "reread"}

Concludes(p) == pc[p] \in Ending \/ (pc[p] \in Cleaning /\ ret[p] = "cleaned")
Locked(p) == pc[p] \in Working \cup {"throw"} \/ Concludes(p)

\* The request's lock covers runLocked up to its return, the last cleanup
\* included; there is no outcome before finalizeTerminal, and one from there on.
LockInv ==
  /\ ~st.exists => st.terminal = None
  /\ \A p \in Procs :
       /\ Locked(p) => lock = p
       /\ ret[p] \in {"idle", "resume", "lock", "cleaned"}
       /\ pc[p] \in Working => st.exists /\ st.terminal = None
       /\ Concludes(p) => st.terminal # None
       /\ pc[p] \in {"finWinner", "finLoser", "unpin"} => st.terminal = "promoted"

\* A candidate that has been run is not pending, and running only where its
\* run is remembered; threads are run when both are cloned.  What goes on
\* without the lock belongs to a candidate that stays interrupted.
RunInv ==
  \A c \in Candidates :
    /\ runs[c] <= 1
    /\ st.cand[c] = "pending" => runs[c] = 0
    /\ thr[c] = "ran" => st.cloned[c]
    /\ \A p \in Procs : pc[p] = "run" =>
         st.cloned[c] /\ (st.cand[c] = "running" /\ c \notin worked => runs[c] = 0)
    /\ c \in stray => /\ st.cand[c] = "running" /\ runs[c] = 0 /\ st.cloned[c]
                      /\ \A p \in Procs : pc[p] # "run"

\* A winner was scored best of two completed candidates, and only a winner is
\* promoted.
ScoreInv ==
  /\ Winner # NoWinner => Winner \in Best /\ \A c \in Candidates : st.cand[c] = "completed"
  /\ Winner = NoWinner => rec = None /\ st.terminal # "promoted"
  /\ st.terminal \in BeforePromotion => Winner = NoWinner
  /\ \A p \in Procs : pc[p] \in Promoting => Winner # NoWinner

\* The record says what has been published, and the outcome what the record
\* said.
RecordInv ==
  /\ lost <= pubs /\ pubs <= lost + 1
  /\ rec \in {None, "scored"} => pubs = lost
  /\ rec = "promoted" => pubs = lost + 1
  /\ rec = None => lost = 0
  /\ \A p \in Procs :
       /\ pc[p] = "recordScored" => rec \in {None, "scored"}
       /\ pc[p] = "promoting" => rec = "scored"
       /\ pc[p] \in {"open", "verify", "guard", "publish", "rename", "rollback", "restore"} =>
            rec = "promoting" /\ pubs = lost
       /\ pc[p] = "demote" => rec \in {"promoting", "promoted"}
       /\ pc[p] = "recordPromoted" => rec = "promoting" /\ pubs = lost + 1
       /\ pc[p] = "reread" => rec \in {"scored", "promoted"}
  /\ st.terminal = "promoted" => rec = "promoted"
  /\ st.terminal \in NeedsAttention =>
       /\ rec # "promoted"
       /\ pubs > lost => st.terminal = "promotion_incomplete"
       /\ lost > 0 => st.terminal \in {"promotion_incomplete", "promotion_failed"}

\* No file of t is a candidate's.
Clean(t) == \A x \in Paths : t[x] \notin {"cand0", "cand1"}

\* The source holds nothing of a candidate before a publication and, as long as
\* no rollback failed and no publication was forgotten, after it was taken
\* back; in between only what the rollback would recognise, or has still to do.
Traceable == lost = 0 /\ ~torn
TreeInv ==
  /\ rec = None => Clean(tree)
  /\ \A p \in Procs : pc[p] = "rename" => todo[p] # {}
  /\ Traceable =>
       /\ rec = "scored" => Clean(tree)
       /\ st.terminal = "promotion_failed" => Clean(tree)
       /\ \A p \in Procs :
            /\ pc[p] \in {"open", "verify", "guard"} => Clean(tree)
            /\ pc[p] = "demote" => Clean(tree) \/ pubs = 1
            /\ pc[p] \in {"verify", "guard", "publish", "rename", "rollback", "restore"} =>
                 Clean(base[p])
            /\ pc[p] \in {"guard", "publish", "rename"} =>
                 \A x \in todo[p] : base[p][x] # wt[Winner].files[x]
            /\ pc[p] \in {"publish", "rename", "rollback"} =>
                 \A x \in Paths : tree[x] \in {"cand0", "cand1"} =>
                   tree[x] = wt[Winner].files[x] /\ base[p][x] # wt[Winner].files[x]
            /\ pc[p] = "restore" =>
                 \A x \in Paths : tree[x] \in {"cand0", "cand1"} => x \in todo[p]

\* Only the loser of a durable promotion is unpinned; what is marked removed is
\* gone, under the manager's lock as soon as the worktree is.
PairInv ==
  /\ \A c \in Candidates :
       /\ man.removed[c] => man.exists /\ ~wt[c].exists
       /\ ~man.pinned[c] => st.terminal = "promoted" /\ c # Winner
       /\ man.status[c] = "loser" => Winner # NoWinner /\ c # Winner
  /\ \A p \in Procs :
       /\ pc[p] \in {"add0", "add1", "manifest"} => mlock = p /\ ~man.exists
       /\ pc[p] = "removed" =>
            /\ mlock = p /\ man.exists
            /\ \A c \in Candidates : man.status[c] = "loser" => ~wt[c].exists

IInv == TypeOK /\ LockInv /\ RunInv /\ ScoreInv /\ RecordInv /\ TreeInv /\ PairInv

-----------------------------------------------------------------------------
\* The steps of a dispatch

\* Before the request's lock
Begins(p) ==
  \/ Dispatch(p, "resume") \/ Dispatch(p, "idle")
  \/ Resume(p) \/ Preflight(p) \/ PreflightRejects(p)
\* createPair and cleanupExpired of the worktree manager
Creates(p) ==
  /\ \/ CreatePair(p, st.snapshot) \/ \E c \in Candidates : AddWorktree(p, c, st.snapshot)
     \/ AddFails(p) \/ WriteManifest(p)
  /\ UNCHANGED <<promotionVars, coordVars, st>>
Cleans(p) == Cleanup(p) /\ UNCHANGED <<promotionVars, coordVars, st>>
\* From the created pair to the run of both candidates, and their scoring
Prepares(p) ==
  \/ WriteCreated(p) \/ CloneThread(p) \/ WriteCloned(p)
  \/ CheckInterrupted(p) \/ StartCandidates(p) \/ RecordFails(p)
Judges(p) == CandidatesFailed(p) \/ Score(p)
\* Marks in the manifest, and the two reads of the promotion record
Marks(p) == MarkPair(p) \/ FinalizePair(p) \/ FinalizeSecond(p)
Reads(p) == ReadRecord(p) \/ RereadRecord(p)
Ends(p) == Finalize(p) \/ WriteCleanup(p) \/ Return(p)

\* Every step is one of these.
LEMMA StepKinds ==
  ASSUME [Next]_vars
  PROVE  \/ \E p \in Procs : \/ Begins(p) \/ AcquireRequest(p) \/ Creates(p) \/ Cleans(p)
                             \/ Prepares(p) \/ Judges(p) \/ Marks(p) \/ Reads(p)
                             \/ PromoteWinner(p) \/ Ends(p) \/ Crash(p)
                             \/ \E c \in Candidates : Candidate(p, c)
         \/ \E c \in Candidates : StrayWorks(c)
         \/ \E e \in Edits : Edit(e[1], e[2])
         \/ LeaseExpires /\ UNCHANGED <<promotionVars, coordVars, st>>
         \/ UNCHANGED vars
<1>1. ASSUME NEW p \in Procs, Step(p)
      PROVE  \/ Begins(p) \/ AcquireRequest(p) \/ Creates(p) \/ Cleans(p)
             \/ Prepares(p) \/ Judges(p) \/ Marks(p) \/ Reads(p)
             \/ PromoteWinner(p) \/ Ends(p)
  BY <1>1, Zenon
  DEF Step, Manager, Begins, Creates, Cleans, Prepares, Judges, Marks, Reads, Ends
<1> QED
  BY <1>1, Zenon DEF Next, Begins

\* The lock is taken: nothing durable changes but the birth of the state.
LEMMA Acquires ==
  ASSUME TypeOK, NEW p \in Procs, AcquireRequest(p)
  PROVE  /\ pc[p] = "lock" /\ lock = None /\ lock' = p
         /\ \A q \in Procs \ {p} : pc'[q] = pc[q]
         /\ st'.terminal = st.terminal /\ st'.winner = st.winner /\ st'.cand = st.cand
         /\ st'.receipt = st.receipt /\ st'.cloned = st.cloned
         /\ st.exists => st'.exists
         /\ \/ pc'[p] = "create" /\ ~st.exists /\ st'.exists
            \/ pc'[p] = "throw" /\ st' = st
            \/ pc'[p] = "finalize" /\ st.terminal # None /\ st' = st
            \/ pc'[p] \in {"create", "clone"} /\ st.terminal = None /\ st.exists /\ st' = st
         /\ UNCHANGED <<tree, ret, expired, wtVars, promotionVars, bound, worked, stray, runs>>
<1> USE DEF TypeOK, WtTypeOK, At, Goto
<1>1. CASE ~st.exists /\ tree = pre[p] /\ st' = [st EXCEPT !.exists = TRUE, !.snapshot = pre[p]]
           /\ Goto(p, "create")
  BY <1>1 DEF AcquireRequest
<1>2. CASE Goto(p, "throw") /\ UNCHANGED st
  BY <1>2 DEF AcquireRequest
<1>3. CASE st.exists /\ UNCHANGED st
           /\ Goto(p, IF st.terminal # None THEN "finalize"
                      ELSE IF st.created THEN "clone" ELSE "create")
  BY <1>3 DEF AcquireRequest
<1> QED
  BY <1>1, <1>2, <1>3 DEF AcquireRequest

\* The least path that is left is one that is left.
LEMMA NextInTodo ==
  ASSUME NEW p \in Procs, todo[p] \in SUBSET Paths, todo[p] # {}
  PROVE  NextPath(p) \in todo[p]
<1> DEFINE Less == OpToRel(<, Nat)
<1>1. IsWellFoundedOn(Less, Nat)
  BY NatLessThanWellFounded
<1>2. \A x, y \in Nat : x < y => <<x, y>> \in Less
  BY DEF OpToRel
<1> HIDE DEF Less
<1>3. todo[p] \subseteq Nat
  BY WorktreeConstants
<1>4. PICK x \in todo[p] : \A y \in todo[p] : ~(<<y, x>> \in Less)
  BY <1>1, <1>3, WFMin
<1>5. \A y \in todo[p] : ~(y < x)
  BY <1>2, <1>3, <1>4
<1>6. \A y \in todo[p] : x <= y
  BY <1>3, <1>5
<1> QED
  BY <1>4, <1>6 DEF NextPath

\* The best candidates are read off the receipts.
LEMMA BestStays ==
  /\ st'.receipt = st.receipt => Best' = Best
  /\ Best \subseteq Candidates
BY DEF Best, Eligible

\* TreeInv is about the control points of a publication.
LEMMA TreeFrame ==
  ASSUME TreeInv, UNCHANGED <<tree, base, todo, wt, rec, pubs, lost, torn>>,
         st'.winner = st.winner, st'.terminal = st.terminal,
         \A q \in Procs : pc'[q] = pc[q] \/ pc'[q] \notin
            {"open", "verify", "guard", "demote", "publish", "rename", "rollback", "restore"}
  PROVE  TreeInv'
BY DEF TreeInv, Traceable, Clean, Winner

-----------------------------------------------------------------------------
\* Types

PcType == pc \in [Procs -> Labels] /\ ret \in [Procs -> Labels]
LocksType ==
  /\ mlock \in Procs \cup {None} /\ lock \in Procs \cup {None} /\ expired \in BOOLEAN
  /\ thr \in [Candidates -> {None, "cloned", "ran"}]
  /\ worked \subseteq Candidates /\ stray \subseteq Candidates
  /\ runs \in [Candidates -> Nat]
  /\ edits \in 0..MaxEdits /\ crashes \in 0..MaxCrashes
TreeType ==
  /\ tree \in Tree /\ bound \in Tree /\ pre \in [Procs -> Tree]
  /\ rec \in {None, "scored", "promoting", "promoted"}
  /\ base \in [Procs -> Tree] /\ todo \in [Procs -> SUBSET Paths]
  /\ pubs \in Nat /\ lost \in Nat /\ torn \in BOOLEAN
WtType == wt \in [Candidates -> [exists : BOOLEAN, files : Tree]]
ManifestType ==
  man \in [exists : BOOLEAN, status : [Candidates -> Statuses],
           pinned : [Candidates -> BOOLEAN], removed : [Candidates -> BOOLEAN]]
StateType ==
  st \in [exists : BOOLEAN, snapshot : Tree, created : BOOLEAN,
          cloned : [Candidates -> BOOLEAN],
          cand : [Candidates -> {"pending", "running", "completed", "failed"}],
          receipt : [Candidates -> [delta : SUBSET Paths, grade : Grades \cup {Ineligible}]],
          winner : Candidates \cup {NoWinner},
          terminal : NeedsAttention \cup {None, "promoted"},
          attempted : BOOLEAN, cleaned : BOOLEAN]

\* TypeOK in parts
LEMMA TypeParts ==
  /\ TypeOK <=> PcType /\ LocksType /\ TreeType /\ WtType /\ ManifestType /\ StateType
  /\ TypeOK' <=> PcType' /\ LocksType' /\ TreeType' /\ WtType' /\ ManifestType' /\ StateType'
BY DEF TypeOK, WtTypeOK, PromotionTypeOK, PcType, LocksType, TreeType, WtType, ManifestType,
  StateType

\* Control points stay control points.
LEMMA PcTypeStep ==
  ASSUME PcType, [Next]_vars
  PROVE  PcType'
<1> USE WorktreeConstants, CoordinatorConstants DEF At, Goto, wtVars, promotionVars, coordVars,
  PcType, Labels
<1>1. ASSUME NEW p \in Procs, Begins(p) PROVE PcType'
  BY <1>1 DEF Begins, Dispatch, CallCleanup, Resume, Unchanged, Preflight, PreflightRejects
<1>2. ASSUME NEW p \in Procs, AcquireRequest(p) PROVE PcType'
  BY <1>2 DEF AcquireRequest
<1>3. ASSUME NEW p \in Procs, Creates(p) PROVE PcType'
  BY <1>3 DEF Creates, CreatePair, AddWorktree, AddFails, NoWorktree, HeadTree, WriteManifest,
    NoManifest
<1>4. ASSUME NEW p \in Procs, Cleans(p) PROVE PcType'
  BY <1>4 DEF Cleans, Cleanup, Kept, EndCleanup, RemoveWorktree, Removable, NoWorktree,
    HeadTree, RemoveFails, RecordRemoved, RecordRemovedFails, ReleaseOwner
<1>5. ASSUME NEW p \in Procs, Prepares(p) PROVE PcType'
  BY <1>5 DEF Prepares, Unchanged, WriteCreated, CloneThread, NextClone, WriteCloned,
    CheckInterrupted, Interrupted, Terminalize, StartCandidates, RecordFails
<1>6. ASSUME NEW p \in Procs, NEW c \in Candidates, Candidate(p, c) PROVE PcType'
  BY <1>6 DEF Candidate, CandidateWorks, CandidateCompletes, Unchanged, CandidateFails
<1>7. ASSUME NEW p \in Procs, Judges(p) PROVE PcType'
  BY <1>7 DEF Judges, Terminalize, Unchanged, CandidatesFailed, Settled, Score
<1>8. ASSUME NEW p \in Procs, Marks(p) PROVE PcType'
  BY <1>8 DEF Marks, MarkPair, FinalizePair, SetStatus, Other, Unpin, CallCleanup,
    FinalizeSecond
<1>9. ASSUME NEW p \in Procs, Reads(p) PROVE PcType'
  BY <1>9 DEF Reads, Terminalize, Unchanged, ReadRecord, RereadRecord
<1>10. ASSUME NEW p \in Procs, PromoteWinner(p) PROVE PcType'
  BY <1>10 DEF PromoteWinner, Promote, RecordScored, MarkPromoting, OpenTransaction,
    VerifySource, Delta, GuardPublication, RecheckPath, ReplacePath, ReplaceFails,
    ComparePublished, RollBack, RestorePath, Restored, RollbackFails, Demote, CloseTransaction,
    RecordPromoted, RecordPromotedFails
<1>11. ASSUME NEW p \in Procs, Ends(p) PROVE PcType'
  BY <1>11 DEF Ends, Finalize, Unchanged, WriteCleanup, Return
<1>12. ASSUME NEW p \in Procs, Crash(p) PROVE PcType'
  BY <1>12 DEF Crash, CloseTransaction
<1>13. ASSUME NEW e \in Edits, Edit(e[1], e[2]) PROVE PcType'
  BY <1>13 DEF Edit
<1>14. ASSUME LeaseExpires /\ UNCHANGED <<promotionVars, coordVars, st>> PROVE PcType'
  BY <1>14 DEF LeaseExpires
<1>15. CASE UNCHANGED vars
  BY <1>15 DEF vars
<1>16. ASSUME NEW c \in Candidates, StrayWorks(c) PROVE PcType'
  BY <1>16 DEF StrayWorks
<1> HIDE DEF PcType
<1> QED
  BY StepKinds, <1>1, <1>2, <1>3, <1>4, <1>5, <1>6, <1>7, <1>8, <1>9, <1>10, <1>11, <1>12,
    <1>13, <1>14, <1>15, <1>16

\* Locks, threads and counters keep their types.
LEMMA LocksTypeStep ==
  ASSUME LocksType, [Next]_vars
  PROVE  LocksType'
<1> USE WorktreeConstants, CoordinatorConstants DEF At, Goto, wtVars, promotionVars, coordVars,
  LocksType, Candidates
<1>1. ASSUME NEW p \in Procs, Begins(p) PROVE LocksType'
  BY <1>1 DEF Begins, Dispatch, CallCleanup, Resume, Unchanged, Preflight, PreflightRejects
<1>2. ASSUME NEW p \in Procs, AcquireRequest(p) PROVE LocksType'
  BY <1>2 DEF AcquireRequest
<1>3. ASSUME NEW p \in Procs, Creates(p) PROVE LocksType'
  BY <1>3 DEF Creates, CreatePair, AddWorktree, AddFails, NoWorktree, HeadTree, WriteManifest,
    NoManifest
<1>4. ASSUME NEW p \in Procs, Cleans(p) PROVE LocksType'
  BY <1>4 DEF Cleans, Cleanup, Kept, EndCleanup, RemoveWorktree, Removable, NoWorktree,
    HeadTree, RemoveFails, RecordRemoved, RecordRemovedFails, ReleaseOwner
<1>5. ASSUME NEW p \in Procs, Prepares(p) PROVE LocksType'
  BY <1>5 DEF Prepares, Unchanged, WriteCreated, CloneThread, NextClone, WriteCloned,
    CheckInterrupted, Interrupted, Terminalize, StartCandidates, RecordFails
<1>6. ASSUME NEW p \in Procs, NEW c \in Candidates, Candidate(p, c) PROVE LocksType'
  <2>1. CASE CandidateWorks(p, c)
    BY <2>1 DEF CandidateWorks
  <2>2. CASE CandidateCompletes(p, c)
    BY <2>2 DEF CandidateCompletes, Unchanged
  <2>3. CASE CandidateFails(p, c)
    BY <2>3 DEF CandidateFails, Unchanged
  <2> QED
    BY <1>6, <2>1, <2>2, <2>3 DEF Candidate
<1>7. ASSUME NEW p \in Procs, Judges(p) PROVE LocksType'
  BY <1>7 DEF Judges, Terminalize, Unchanged, CandidatesFailed, Settled, Score
<1>8. ASSUME NEW p \in Procs, Marks(p) PROVE LocksType'
  BY <1>8 DEF Marks, MarkPair, FinalizePair, SetStatus, Other, Unpin, CallCleanup,
    FinalizeSecond
<1>9. ASSUME NEW p \in Procs, Reads(p) PROVE LocksType'
  BY <1>9 DEF Reads, Terminalize, Unchanged, ReadRecord, RereadRecord
<1>10. ASSUME NEW p \in Procs, PromoteWinner(p) PROVE LocksType'
  BY <1>10 DEF PromoteWinner, Promote, RecordScored, MarkPromoting, OpenTransaction,
    VerifySource, Delta, GuardPublication, RecheckPath, ReplacePath, ReplaceFails,
    ComparePublished, RollBack, RestorePath, Restored, RollbackFails, Demote, CloseTransaction,
    RecordPromoted, RecordPromotedFails
<1>11. ASSUME NEW p \in Procs, Ends(p) PROVE LocksType'
  BY <1>11 DEF Ends, Finalize, Unchanged, WriteCleanup, Return
<1>12. ASSUME NEW p \in Procs, Crash(p) PROVE LocksType'
  <2>1. lock' \in Procs \cup {None} /\ mlock' \in Procs \cup {None} /\ worked' \subseteq Candidates
    BY <1>12 DEF Crash
  <2>2. crashes' \in 0..MaxCrashes
    BY <1>12 DEF Crash
  <2>3. UNCHANGED <<expired, thr, stray, runs, edits>>
    BY <1>12 DEF Crash
  <2> QED
    BY <2>1, <2>2, <2>3
<1>13. ASSUME NEW e \in Edits, Edit(e[1], e[2]) PROVE LocksType'
  BY <1>13 DEF Edit
<1>14. ASSUME LeaseExpires /\ UNCHANGED <<promotionVars, coordVars, st>> PROVE LocksType'
  BY <1>14 DEF LeaseExpires
<1>15. CASE UNCHANGED vars
  BY <1>15 DEF vars
<1>16. ASSUME NEW c \in Candidates, StrayWorks(c) PROVE LocksType'
  BY <1>16 DEF StrayWorks
<1> HIDE DEF LocksType
<1> QED
  BY StepKinds, <1>1, <1>2, <1>3, <1>4, <1>5, <1>6, <1>7, <1>8, <1>9, <1>10, <1>11, <1>12,
    <1>13, <1>14, <1>15, <1>16

\* The source, the transactions and the record keep their types.
LEMMA TreeTypeStep ==
  ASSUME TreeType, WtType, StateType, TreeInv, [Next]_vars
  PROVE  TreeType'
<1> USE WorktreeConstants, CoordinatorConstants DEF At, Goto, wtVars, promotionVars, coordVars,
  TreeType, WtType, Winner, Tree, Contents, HeadTree
<1>1. ASSUME NEW p \in Procs, Begins(p) PROVE TreeType'
  BY <1>1 DEF Begins, Dispatch, CallCleanup, Resume, Unchanged, Preflight, PreflightRejects
<1>2. ASSUME NEW p \in Procs, AcquireRequest(p) PROVE TreeType'
  BY <1>2 DEF AcquireRequest
<1>3. ASSUME NEW p \in Procs, Creates(p) PROVE TreeType'
  BY <1>3 DEF Creates, CreatePair, AddWorktree, AddFails, NoWorktree, HeadTree, WriteManifest,
    NoManifest
<1>4. ASSUME NEW p \in Procs, Cleans(p) PROVE TreeType'
  BY <1>4 DEF Cleans, Cleanup, Kept, EndCleanup, RemoveWorktree, Removable, NoWorktree,
    HeadTree, RemoveFails, RecordRemoved, RecordRemovedFails, ReleaseOwner
<1>5. ASSUME NEW p \in Procs, Prepares(p) PROVE TreeType'
  BY <1>5 DEF Prepares, Unchanged, WriteCreated, CloneThread, NextClone, WriteCloned,
    CheckInterrupted, Interrupted, Terminalize, StartCandidates, RecordFails
<1>6. ASSUME NEW p \in Procs, NEW c \in Candidates, Candidate(p, c) PROVE TreeType'
  BY <1>6 DEF Candidate, CandidateWorks, CandidateCompletes, Unchanged, CandidateFails
<1>7. ASSUME NEW p \in Procs, Judges(p) PROVE TreeType'
  BY <1>7 DEF Judges, Terminalize, Unchanged, CandidatesFailed, Settled, Score
<1>8. ASSUME NEW p \in Procs, Marks(p) PROVE TreeType'
  BY <1>8 DEF Marks, MarkPair, FinalizePair, SetStatus, Other, Unpin, CallCleanup,
    FinalizeSecond
<1>9. ASSUME NEW p \in Procs, Reads(p) PROVE TreeType'
  BY <1>9 DEF Reads, Terminalize, Unchanged, ReadRecord, RereadRecord
<1>10. ASSUME NEW p \in Procs, PromoteWinner(p) PROVE TreeType'
  <2>0. UNCHANGED <<coordVars, st>>
    BY <1>10 DEF PromoteWinner
  <2>1. CASE RecordScored(p, Winner)
    BY <2>0, <2>1 DEF RecordScored
  <2>2. CASE MarkPromoting(p)
    BY <2>0, <2>2 DEF MarkPromoting
  <2>3. CASE OpenTransaction(p, Winner)
    BY <2>0, <2>3 DEF OpenTransaction
  <2>4. CASE VerifySource(p, Winner, st.snapshot, st.receipt[Winner].delta)
    BY <2>0, <2>4 DEF VerifySource, Delta
  <2>5. CASE GuardPublication(p)
    BY <2>0, <2>5 DEF GuardPublication
  <2>6. CASE RecheckPath(p)
    BY <2>0, <2>6 DEF RecheckPath
  <2>7. CASE ReplacePath(p, Winner)
    <3>1. NextPath(p) \in Paths
      BY <2>7, NextInTodo DEF ReplacePath, TreeInv
    <3>2. Winner \in Candidates
      BY <1>10 DEF PromoteWinner
    <3>3. wt[Winner].files \in [Paths -> Contents]
      BY <3>2
    <3>4. wt[Winner].files[NextPath(p)] \in Contents
      BY <3>1, <3>3
    <3> QED
      BY <2>0, <2>7, <3>1, <3>4 DEF ReplacePath
  <2>8. CASE ReplaceFails(p)
    BY <2>0, <2>8 DEF ReplaceFails
  <2>9. CASE ComparePublished(p, Winner)
    BY <2>0, <2>9 DEF ComparePublished
  <2>10. CASE RollBack(p, Winner)
    BY <2>0, <2>10 DEF RollBack
  <2>11. CASE Demote(p)
    BY <2>0, <2>11 DEF Demote, CloseTransaction
  <2>12. CASE RecordPromoted(p)
    BY <2>0, <2>12 DEF RecordPromoted, CloseTransaction
  <2>13. CASE RecordPromotedFails(p)
    BY <2>0, <2>13 DEF RecordPromotedFails
  <2>14. CASE RestorePath(p)
    <3>1. NextPath(p) \in Paths
      BY <2>14, NextInTodo DEF RestorePath
    <3>2. base[p] \in [Paths -> Contents]
      OBVIOUS
    <3>3. base[p][NextPath(p)] \in Contents
      BY <3>1, <3>2
    <3> QED
      BY <2>0, <2>14, <3>1, <3>3 DEF RestorePath
  <2>15. CASE Restored(p)
    BY <2>0, <2>15 DEF Restored
  <2>16. CASE RollbackFails(p)
    BY <2>0, <2>16 DEF RollbackFails
  <2> QED
    BY <1>10, <2>1, <2>2, <2>3, <2>4, <2>5, <2>6, <2>7, <2>8, <2>9, <2>10, <2>11, <2>12,
      <2>13, <2>14, <2>15, <2>16 DEF PromoteWinner, Promote
<1>11. ASSUME NEW p \in Procs, Ends(p) PROVE TreeType'
  BY <1>11 DEF Ends, Finalize, Unchanged, WriteCleanup, Return
<1>12. ASSUME NEW p \in Procs, Crash(p) PROVE TreeType'
  BY <1>12 DEF Crash, CloseTransaction
<1>13. ASSUME NEW e \in Edits, Edit(e[1], e[2]) PROVE TreeType'
  BY <1>13 DEF Edit
<1>14. ASSUME LeaseExpires /\ UNCHANGED <<promotionVars, coordVars, st>> PROVE TreeType'
  BY <1>14 DEF LeaseExpires
<1>15. CASE UNCHANGED vars
  BY <1>15 DEF vars
<1>16. ASSUME NEW c \in Candidates, StrayWorks(c) PROVE TreeType'
  BY <1>16 DEF StrayWorks
<1> HIDE DEF TreeType
<1> QED
  BY StepKinds, <1>1, <1>2, <1>3, <1>4, <1>5, <1>6, <1>7, <1>8, <1>9, <1>10, <1>11, <1>12,
    <1>13, <1>14, <1>15, <1>16

\* The worktrees keep their types.
LEMMA WtTypeStep ==
  ASSUME WtType, StateType, [Next]_vars
  PROVE  WtType'
<1> USE WorktreeConstants, CoordinatorConstants DEF At, Goto, wtVars, promotionVars, coordVars,
  WtType, StateType, NoWorktree, HeadTree, Tree, Contents
<1>1. ASSUME NEW p \in Procs, Begins(p) PROVE WtType'
  BY <1>1 DEF Begins, Dispatch, CallCleanup, Resume, Unchanged, Preflight, PreflightRejects
<1>2. ASSUME NEW p \in Procs, AcquireRequest(p) PROVE WtType'
  BY <1>2 DEF AcquireRequest
<1>3. ASSUME NEW p \in Procs, Creates(p) PROVE WtType'
  <2>1. CASE CreatePair(p, st.snapshot)
    BY <2>1 DEF CreatePair
  <2>2. CASE \E c \in Candidates : AddWorktree(p, c, st.snapshot)
    BY <2>2 DEF AddWorktree
  <2>3. CASE AddFails(p)
    BY <2>3 DEF AddFails, NoWorktree, HeadTree
  <2>4. CASE WriteManifest(p)
    BY <2>4 DEF WriteManifest, NoManifest
  <2> QED
    BY <1>3, <2>1, <2>2, <2>3, <2>4 DEF Creates
<1>4. ASSUME NEW p \in Procs, Cleans(p) PROVE WtType'
  <2>0. UNCHANGED <<promotionVars, coordVars, st>>
    BY <1>4 DEF Cleans
  <2>1. CASE Kept(p)
    BY <2>0, <2>1 DEF Kept, EndCleanup
  <2>2. CASE RemoveWorktree(p)
    BY <2>0, <2>2 DEF RemoveWorktree, Removable, NoWorktree, HeadTree
  <2>3. CASE RemoveFails(p)
    BY <2>0, <2>3 DEF RemoveFails, EndCleanup
  <2>4. CASE RecordRemoved(p)
    BY <2>0, <2>4 DEF RecordRemoved
  <2>5. CASE ReleaseOwner(p)
    BY <2>0, <2>5 DEF ReleaseOwner, EndCleanup
  <2>6. CASE RecordRemovedFails(p)
    BY <2>0, <2>6 DEF RecordRemovedFails, EndCleanup
  <2> QED
    BY <1>4, <2>1, <2>2, <2>3, <2>4, <2>5, <2>6 DEF Cleans, Cleanup
<1>5. ASSUME NEW p \in Procs, Prepares(p) PROVE WtType'
  BY <1>5 DEF Prepares, Unchanged, WriteCreated, CloneThread, NextClone, WriteCloned,
    CheckInterrupted, Interrupted, Terminalize, StartCandidates, RecordFails
<1>6. ASSUME NEW p \in Procs, NEW c \in Candidates, Candidate(p, c) PROVE WtType'
  <2>1. CASE CandidateWorks(p, c)
    <3>1. PICK d \in Deltas :
            wt' = [wt EXCEPT ![c].files = [x \in Paths |-> IF x \in d THEN Cand(c) ELSE @[x]]]
      BY <2>1 DEF CandidateWorks
    <3> DEFINE files == [x \in Paths |-> IF x \in d THEN Cand(c) ELSE wt[c].files[x]]
    <3>2. wt' = [wt EXCEPT ![c].files = files]
      BY <3>1
    <3>3. wt[c].files \in Tree /\ Cand(c) \in Contents
      BY DEF Cand
    <3>4. files \in Tree
      BY <3>3
    <3> HIDE DEF files, Tree
    <3>5. [wt[c] EXCEPT !.files = files] \in [exists : BOOLEAN, files : Tree]
      BY <3>4
    <3>6. wt' = [wt EXCEPT ![c] = [wt[c] EXCEPT !.files = files]]
      BY <3>2
    <3> QED
      BY <3>5, <3>6
  <2>2. CASE CandidateCompletes(p, c) \/ CandidateFails(p, c)
    BY <2>2 DEF CandidateCompletes, CandidateFails, Unchanged
  <2> QED
    BY <1>6, <2>1, <2>2 DEF Candidate
<1>7. ASSUME NEW p \in Procs, Judges(p) PROVE WtType'
  BY <1>7 DEF Judges, Terminalize, Unchanged, CandidatesFailed, Settled, Score
<1>8. ASSUME NEW p \in Procs, Marks(p) PROVE WtType'
  BY <1>8 DEF Marks, MarkPair, FinalizePair, SetStatus, Other, Unpin, CallCleanup,
    FinalizeSecond
<1>9. ASSUME NEW p \in Procs, Reads(p) PROVE WtType'
  BY <1>9 DEF Reads, Terminalize, Unchanged, ReadRecord, RereadRecord
<1>10. ASSUME NEW p \in Procs, PromoteWinner(p) PROVE WtType'
  BY <1>10 DEF PromoteWinner, Promote, RecordScored, MarkPromoting, OpenTransaction,
    VerifySource, Delta, GuardPublication, RecheckPath, ReplacePath, ReplaceFails,
    ComparePublished, RollBack, RestorePath, Restored, RollbackFails, Demote, CloseTransaction,
    RecordPromoted, RecordPromotedFails
<1>11. ASSUME NEW p \in Procs, Ends(p) PROVE WtType'
  BY <1>11 DEF Ends, Finalize, Unchanged, WriteCleanup, Return
<1>12. ASSUME NEW p \in Procs, Crash(p) PROVE WtType'
  BY <1>12 DEF Crash, CloseTransaction
<1>13. ASSUME NEW e \in Edits, Edit(e[1], e[2]) PROVE WtType'
  BY <1>13 DEF Edit
<1>14. ASSUME LeaseExpires /\ UNCHANGED <<promotionVars, coordVars, st>> PROVE WtType'
  BY <1>14 DEF LeaseExpires
<1>15. CASE UNCHANGED vars
  BY <1>15 DEF vars
<1>16. ASSUME NEW c \in Candidates, StrayWorks(c) PROVE WtType'
  <2>1. PICK d \in Deltas :
          wt' = [wt EXCEPT ![c].files = [x \in Paths |-> IF x \in d THEN Cand(c) ELSE @[x]]]
    BY <1>16 DEF StrayWorks
  <2> DEFINE files == [x \in Paths |-> IF x \in d THEN Cand(c) ELSE wt[c].files[x]]
  <2>2. wt' = [wt EXCEPT ![c].files = files]
    BY <2>1
  <2>3. wt[c].files \in Tree /\ Cand(c) \in Contents
    BY DEF Cand
  <2>4. files \in Tree
    BY <2>3
  <2> HIDE DEF files, Tree
  <2>5. [wt[c] EXCEPT !.files = files] \in [exists : BOOLEAN, files : Tree]
    BY <2>4
  <2>6. wt' = [wt EXCEPT ![c] = [wt[c] EXCEPT !.files = files]]
    BY <2>2
  <2> QED
    BY <2>5, <2>6
<1> HIDE DEF WtType
<1> QED
  BY StepKinds, <1>1, <1>2, <1>3, <1>4, <1>5, <1>6, <1>7, <1>8, <1>9, <1>10, <1>11, <1>12,
    <1>13, <1>14, <1>15, <1>16

\* The manifest keeps its type.
LEMMA ManifestTypeStep ==
  ASSUME ManifestType, [Next]_vars
  PROVE  ManifestType'
<1> USE WorktreeConstants, CoordinatorConstants DEF At, Goto, wtVars, promotionVars, coordVars,
  ManifestType, Statuses, Candidates
<1>1. ASSUME NEW p \in Procs, Begins(p) PROVE ManifestType'
  BY <1>1 DEF Begins, Dispatch, CallCleanup, Resume, Unchanged, Preflight, PreflightRejects
<1>2. ASSUME NEW p \in Procs, AcquireRequest(p) PROVE ManifestType'
  BY <1>2 DEF AcquireRequest
<1>3. ASSUME NEW p \in Procs, Creates(p) PROVE ManifestType'
  <2>1. CASE CreatePair(p, st.snapshot)
    BY <2>1 DEF CreatePair
  <2>2. CASE \E c \in Candidates : AddWorktree(p, c, st.snapshot)
    BY <2>2 DEF AddWorktree
  <2>3. CASE AddFails(p)
    BY <2>3 DEF AddFails, NoWorktree, HeadTree
  <2>4. CASE WriteManifest(p)
    BY <2>4 DEF WriteManifest, NoManifest
  <2> QED
    BY <1>3, <2>1, <2>2, <2>3, <2>4 DEF Creates
<1>4. ASSUME NEW p \in Procs, Cleans(p) PROVE ManifestType'
  <2>0. UNCHANGED <<promotionVars, coordVars, st>>
    BY <1>4 DEF Cleans
  <2>1. CASE Kept(p)
    BY <2>0, <2>1 DEF Kept, EndCleanup
  <2>2. CASE RemoveWorktree(p)
    BY <2>0, <2>2 DEF RemoveWorktree, Removable, NoWorktree, HeadTree
  <2>3. CASE RemoveFails(p)
    BY <2>0, <2>3 DEF RemoveFails, EndCleanup
  <2>4. CASE RecordRemoved(p)
    BY <2>0, <2>4 DEF RecordRemoved
  <2>5. CASE ReleaseOwner(p)
    BY <2>0, <2>5 DEF ReleaseOwner, EndCleanup
  <2>6. CASE RecordRemovedFails(p)
    BY <2>0, <2>6 DEF RecordRemovedFails, EndCleanup
  <2> QED
    BY <1>4, <2>1, <2>2, <2>3, <2>4, <2>5, <2>6 DEF Cleans, Cleanup
<1>5. ASSUME NEW p \in Procs, Prepares(p) PROVE ManifestType'
  BY <1>5 DEF Prepares, Unchanged, WriteCreated, CloneThread, NextClone, WriteCloned,
    CheckInterrupted, Interrupted, Terminalize, StartCandidates, RecordFails
<1>6. ASSUME NEW p \in Procs, NEW c \in Candidates, Candidate(p, c) PROVE ManifestType'
  BY <1>6 DEF Candidate, CandidateWorks, CandidateCompletes, Unchanged, CandidateFails
<1>7. ASSUME NEW p \in Procs, Judges(p) PROVE ManifestType'
  BY <1>7 DEF Judges, Terminalize, Unchanged, CandidatesFailed, Settled, Score
<1>8. ASSUME NEW p \in Procs, Marks(p) PROVE ManifestType'
  <2>1. CASE SetStatus(p, "winner", Winner, "winner", "loser")
    BY <2>1 DEF SetStatus
  <2>2. CASE SetStatus(p, "loser", Other(Winner), "loser", "record")
    BY <2>2 DEF SetStatus, Other
  <2>3. CASE SetStatus(p, "finWinner", Winner, "finalized", "finLoser")
    BY <2>3 DEF SetStatus
  <2>4. CASE SetStatus(p, "finLoser", Other(Winner), "loser", "unpin")
    BY <2>4 DEF SetStatus, Other
  <2>5. CASE SetStatus(p, "done0", 0, "completed", "done1")
    BY <2>5 DEF SetStatus
  <2>6. CASE Unpin(p, Other(Winner))
    BY <2>6 DEF Unpin, Other, CallCleanup
  <2>7. CASE FinalizeSecond(p)
    BY <2>7 DEF FinalizeSecond, CallCleanup
  <2> QED
    BY <1>8, <2>1, <2>2, <2>3, <2>4, <2>5, <2>6, <2>7 DEF Marks, MarkPair, FinalizePair
<1>9. ASSUME NEW p \in Procs, Reads(p) PROVE ManifestType'
  BY <1>9 DEF Reads, Terminalize, Unchanged, ReadRecord, RereadRecord
<1>10. ASSUME NEW p \in Procs, PromoteWinner(p) PROVE ManifestType'
  BY <1>10 DEF PromoteWinner, Promote, RecordScored, MarkPromoting, OpenTransaction,
    VerifySource, Delta, GuardPublication, RecheckPath, ReplacePath, ReplaceFails,
    ComparePublished, RollBack, RestorePath, Restored, RollbackFails, Demote, CloseTransaction,
    RecordPromoted, RecordPromotedFails
<1>11. ASSUME NEW p \in Procs, Ends(p) PROVE ManifestType'
  BY <1>11 DEF Ends, Finalize, Unchanged, WriteCleanup, Return
<1>12. ASSUME NEW p \in Procs, Crash(p) PROVE ManifestType'
  BY <1>12 DEF Crash, CloseTransaction
<1>13. ASSUME NEW e \in Edits, Edit(e[1], e[2]) PROVE ManifestType'
  BY <1>13 DEF Edit
<1>14. ASSUME LeaseExpires /\ UNCHANGED <<promotionVars, coordVars, st>> PROVE ManifestType'
  BY <1>14 DEF LeaseExpires
<1>15. CASE UNCHANGED vars
  BY <1>15 DEF vars
<1>16. ASSUME NEW c \in Candidates, StrayWorks(c) PROVE ManifestType'
  BY <1>16 DEF StrayWorks
<1> HIDE DEF ManifestType
<1> QED
  BY StepKinds, <1>1, <1>2, <1>3, <1>4, <1>5, <1>6, <1>7, <1>8, <1>9, <1>10, <1>11, <1>12,
    <1>13, <1>14, <1>15, <1>16

\* The durable state keeps its type.
LEMMA StateTypeStep ==
  ASSUME StateType, TreeType, [Next]_vars
  PROVE  StateType'
<1> USE WorktreeConstants, CoordinatorConstants DEF At, Goto, wtVars, promotionVars, coordVars,
  StateType, NeedsAttention
<1>1. ASSUME NEW p \in Procs, Begins(p) PROVE StateType'
  BY <1>1 DEF Begins, Dispatch, CallCleanup, Resume, Unchanged, Preflight, PreflightRejects
<1>2. ASSUME NEW p \in Procs, AcquireRequest(p) PROVE StateType'
  <2>1. pre[p] \in Tree
    BY DEF TreeType
  <2> QED
    BY <1>2, <2>1 DEF AcquireRequest
<1>3. ASSUME NEW p \in Procs, Creates(p) PROVE StateType'
  BY <1>3 DEF Creates, CreatePair, AddWorktree, AddFails, NoWorktree, HeadTree, WriteManifest,
    NoManifest
<1>4. ASSUME NEW p \in Procs, Cleans(p) PROVE StateType'
  BY <1>4 DEF Cleans, Cleanup, Kept, EndCleanup, RemoveWorktree, Removable, NoWorktree,
    HeadTree, RemoveFails, RecordRemoved, RecordRemovedFails, ReleaseOwner
<1>5. ASSUME NEW p \in Procs, Prepares(p) PROVE StateType'
  <2>1. CASE WriteCreated(p)
    BY <2>1 DEF Unchanged, WriteCreated
  <2>2. CASE CloneThread(p)
    BY <2>2 DEF Unchanged, CloneThread, NextClone
  <2>3. CASE WriteCloned(p)
    BY <2>3 DEF Unchanged, WriteCloned, NextClone
  <2>4. CASE CheckInterrupted(p)
    BY <2>4 DEF Unchanged, CheckInterrupted, Interrupted, Terminalize
  <2>5. CASE StartCandidates(p)
    BY <2>5 DEF Unchanged, StartCandidates, Interrupted
  <2>6. CASE RecordFails(p)
    BY <2>6 DEF RecordFails
  <2> QED
    BY <1>5, <2>1, <2>2, <2>3, <2>4, <2>5, <2>6 DEF Prepares, Unchanged
<1>6. ASSUME NEW p \in Procs, NEW c \in Candidates, Candidate(p, c) PROVE StateType'
  <2>1. CASE CandidateWorks(p, c)
    BY <2>1 DEF CandidateWorks
  <2>2. CASE CandidateCompletes(p, c)
    <3>1. PICK g \in Grades \cup {Ineligible} :
            st' = [st EXCEPT !.cand[c] = "completed",
                             !.receipt[c] = [delta |-> Delta(c), grade |-> g]]
      BY <2>2 DEF CandidateCompletes
    <3> DEFINE receipt == [delta |-> Delta(c), grade |-> g]
    <3>2. receipt \in [delta : SUBSET Paths, grade : Grades \cup {Ineligible}]
      BY DEF Delta
    <3>3. st' = [st EXCEPT !.cand[c] = "completed", !.receipt[c] = receipt]
      BY <3>1
    <3> HIDE DEF receipt
    <3> QED
      BY <3>2, <3>3
  <2>3. CASE CandidateFails(p, c)
    BY <2>3 DEF CandidateFails, Unchanged
  <2> QED
    BY <1>6, <2>1, <2>2, <2>3 DEF Candidate
<1>7. ASSUME NEW p \in Procs, Judges(p) PROVE StateType'
  <2>1. CASE CandidatesFailed(p)
    BY <2>1 DEF CandidatesFailed, Terminalize, Unchanged
  <2>2. CASE Score(p)
    <3>1. CASE UNCHANGED st
      BY <3>1
    <3>2. CASE \E w \in Candidates : st' = [st EXCEPT !.winner = w]
      BY <3>2
    <3>3. CASE \E k \in NeedsAttention : st' = [st EXCEPT !.terminal = k]
      BY <3>3
    <3> HIDE DEF StateType
    <3> QED
      BY <2>2, <3>1, <3>2, <3>3, BestStays DEF Score, Terminalize, Unchanged
  <2> QED
    BY <1>7, <2>1, <2>2 DEF Judges
<1>8. ASSUME NEW p \in Procs, Marks(p) PROVE StateType'
  BY <1>8 DEF Marks, MarkPair, FinalizePair, SetStatus, Other, Unpin, CallCleanup,
    FinalizeSecond
<1>9. ASSUME NEW p \in Procs, Reads(p) PROVE StateType'
  <2>1. CASE ReadRecord(p)
    BY <2>1 DEF Terminalize, Unchanged, ReadRecord
  <2>2. CASE RereadRecord(p)
    BY <2>2 DEF Terminalize, Unchanged, RereadRecord
  <2> QED
    BY <1>9, <2>1, <2>2 DEF Reads, Terminalize, Unchanged
<1>10. ASSUME NEW p \in Procs, PromoteWinner(p) PROVE StateType'
  BY <1>10 DEF PromoteWinner, Promote, RecordScored, MarkPromoting, OpenTransaction,
    VerifySource, Delta, GuardPublication, RecheckPath, ReplacePath, ReplaceFails,
    ComparePublished, RollBack, RestorePath, Restored, RollbackFails, Demote, CloseTransaction,
    RecordPromoted, RecordPromotedFails
<1>11. ASSUME NEW p \in Procs, Ends(p) PROVE StateType'
  BY <1>11 DEF Ends, Finalize, Unchanged, WriteCleanup, Return
<1>12. ASSUME NEW p \in Procs, Crash(p) PROVE StateType'
  BY <1>12 DEF Crash, CloseTransaction
<1>13. ASSUME NEW e \in Edits, Edit(e[1], e[2]) PROVE StateType'
  BY <1>13 DEF Edit
<1>14. ASSUME LeaseExpires /\ UNCHANGED <<promotionVars, coordVars, st>> PROVE StateType'
  BY <1>14 DEF LeaseExpires
<1>15. CASE UNCHANGED vars
  BY <1>15 DEF vars
<1>16. ASSUME NEW c \in Candidates, StrayWorks(c) PROVE StateType'
  BY <1>16 DEF StrayWorks
<1> HIDE DEF StateType
<1> QED
  BY StepKinds, <1>1, <1>2, <1>3, <1>4, <1>5, <1>6, <1>7, <1>8, <1>9, <1>10, <1>11, <1>12,
    <1>13, <1>14, <1>15, <1>16

-----------------------------------------------------------------------------
\* Preservation of the invariant

\* The lock covers runLocked, and the outcome appears at its end.
LEMMA LockInvStep ==
  ASSUME TypeOK, LockInv, ScoreInv, RecordInv, [Next]_vars
  PROVE  LockInv'
<1> USE WorktreeConstants, CoordinatorConstants DEF At, Goto, TypeOK, WtTypeOK,
  PromotionTypeOK, wtVars, promotionVars, coordVars, LockInv, Locked, Concludes, Working,
  Ending, Cleaning, None, NeedsAttention
<1>1. ASSUME NEW p \in Procs, Begins(p) PROVE LockInv'
  BY <1>1 DEF Begins, Dispatch, CallCleanup, Resume, Unchanged, Preflight, PreflightRejects
<1>2. ASSUME NEW p \in Procs, AcquireRequest(p) PROVE LockInv'
  BY <1>2, Acquires
<1>3. ASSUME NEW p \in Procs, Creates(p) PROVE LockInv'
  BY <1>3 DEF Creates, CreatePair, AddWorktree, AddFails, NoWorktree, HeadTree, WriteManifest,
    NoManifest
<1>4. ASSUME NEW p \in Procs, Cleans(p) PROVE LockInv'
  BY <1>4 DEF Cleans, Cleanup, Kept, EndCleanup, RemoveWorktree, Removable, NoWorktree,
    HeadTree, RemoveFails, RecordRemoved, RecordRemovedFails, ReleaseOwner
<1>5. ASSUME NEW p \in Procs, Prepares(p) PROVE LockInv'
  <2>1. CASE WriteCreated(p)
    BY <2>1 DEF Unchanged, WriteCreated
  <2>2. CASE CloneThread(p)
    BY <2>2 DEF Unchanged, CloneThread, NextClone
  <2>3. CASE WriteCloned(p)
    BY <2>3 DEF Unchanged, WriteCloned, NextClone
  <2>4. CASE CheckInterrupted(p)
    BY <2>4 DEF Unchanged, CheckInterrupted, Interrupted, Terminalize
  <2>5. CASE StartCandidates(p)
    BY <2>5 DEF Unchanged, StartCandidates, Interrupted
  <2>6. CASE RecordFails(p)
    BY <2>6 DEF RecordFails
  <2> QED
    BY <1>5, <2>1, <2>2, <2>3, <2>4, <2>5, <2>6 DEF Prepares, Unchanged
<1>6. ASSUME NEW p \in Procs, NEW c \in Candidates, Candidate(p, c) PROVE LockInv'
  <2>1. CASE CandidateWorks(p, c)
    BY <2>1 DEF CandidateWorks
  <2>2. CASE CandidateCompletes(p, c)
    BY <2>2 DEF CandidateCompletes, Unchanged
  <2>3. CASE CandidateFails(p, c)
    BY <2>3 DEF CandidateFails, Unchanged
  <2> QED
    BY <1>6, <2>1, <2>2, <2>3 DEF Candidate
<1>7. ASSUME NEW p \in Procs, Judges(p) PROVE LockInv'
  <2>1. CASE CandidatesFailed(p)
    BY <2>1 DEF Terminalize, Unchanged, CandidatesFailed
  <2>2. CASE Score(p)
    <3>1. \/ /\ pc'[p] = "winner" /\ st'.terminal = st.terminal
          \/ /\ pc'[p] = "finalize" /\ st'.terminal \in NeedsAttention
      BY <2>2 DEF Score, Terminalize, Unchanged
    <3>2. /\ pc[p] = "run" /\ pc' = [pc EXCEPT ![p] = pc'[p]] /\ st'.exists = st.exists
          /\ UNCHANGED <<lock, ret>>
      BY <2>2 DEF Score, Terminalize, Unchanged
    <3> QED
      BY <3>1, <3>2
  <2> QED
    BY <1>7, <2>1, <2>2 DEF Judges
<1>8. ASSUME NEW p \in Procs, Marks(p) PROVE LockInv'
  BY <1>8 DEF Marks, MarkPair, FinalizePair, SetStatus, Other, Unpin, CallCleanup,
    FinalizeSecond
<1>9. ASSUME NEW p \in Procs, Reads(p) PROVE LockInv'
  <2>1. CASE ReadRecord(p)
    BY <2>1 DEF Terminalize, Unchanged, ReadRecord
  <2>2. CASE RereadRecord(p)
    BY <2>2 DEF Terminalize, Unchanged, RereadRecord
  <2> QED
    BY <1>9, <2>1, <2>2 DEF Reads
<1>10. ASSUME NEW p \in Procs, PromoteWinner(p) PROVE LockInv'
  BY <1>10 DEF PromoteWinner, Promote, RecordScored, MarkPromoting, OpenTransaction,
    VerifySource, Delta, GuardPublication, RecheckPath, ReplacePath, ReplaceFails,
    ComparePublished, RollBack, RestorePath, Restored, RollbackFails, Demote, CloseTransaction,
    RecordPromoted, RecordPromotedFails
<1>11. ASSUME NEW p \in Procs, Ends(p) PROVE LockInv'
  <2>1. CASE Finalize(p)
    BY <2>1 DEF Finalize, Unchanged
  <2>2. CASE WriteCleanup(p)
    BY <2>2 DEF WriteCleanup, Unchanged
  <2>3. CASE Return(p)
    BY <2>3 DEF Return
  <2> QED
    BY <1>11, <2>1, <2>2, <2>3 DEF Ends
<1>12. ASSUME NEW p \in Procs, Crash(p) PROVE LockInv'
  BY <1>12 DEF Crash, CloseTransaction
<1>13. ASSUME NEW e \in Edits, Edit(e[1], e[2]) PROVE LockInv'
  BY <1>13 DEF Edit
<1>14. ASSUME LeaseExpires /\ UNCHANGED <<promotionVars, coordVars, st>> PROVE LockInv'
  BY <1>14 DEF LeaseExpires
<1>15. CASE UNCHANGED vars
  BY <1>15 DEF vars
<1>16. ASSUME NEW c \in Candidates, StrayWorks(c) PROVE LockInv'
  BY <1>16 DEF StrayWorks
<1> HIDE DEF LockInv
<1> QED
  BY StepKinds, <1>1, <1>2, <1>3, <1>4, <1>5, <1>6, <1>7, <1>8, <1>9, <1>10, <1>11, <1>12,
    <1>13, <1>14, <1>15, <1>16

\* A candidate that has been run is never started again.
LEMMA RunInvStep ==
  ASSUME TypeOK, LockInv, RunInv, [Next]_vars
  PROVE  RunInv'
<1> USE WorktreeConstants, CoordinatorConstants DEF At, Goto, TypeOK, WtTypeOK,
  PromotionTypeOK, wtVars, promotionVars, coordVars, LockInv, Locked, Concludes, Working,
  Ending, Cleaning, None, RunInv, Candidates
<1>1. ASSUME NEW p \in Procs, Begins(p) PROVE RunInv'
  BY <1>1 DEF Begins, Dispatch, CallCleanup, Resume, Unchanged, Preflight, PreflightRejects
<1>2. ASSUME NEW p \in Procs, AcquireRequest(p) PROVE RunInv'
  BY <1>2, Acquires
<1>3. ASSUME NEW p \in Procs, Creates(p) PROVE RunInv'
  BY <1>3 DEF Creates, CreatePair, AddWorktree, AddFails, NoWorktree, HeadTree, WriteManifest,
    NoManifest
<1>4. ASSUME NEW p \in Procs, Cleans(p) PROVE RunInv'
  BY <1>4 DEF Cleans, Cleanup, Kept, EndCleanup, RemoveWorktree, Removable, NoWorktree,
    HeadTree, RemoveFails, RecordRemoved, RecordRemovedFails, ReleaseOwner
<1>5. ASSUME NEW p \in Procs, Prepares(p) PROVE RunInv'
  BY <1>5 DEF Prepares, Unchanged, WriteCreated, CloneThread, NextClone, WriteCloned,
    CheckInterrupted, Interrupted, Terminalize, StartCandidates, RecordFails
<1>6. ASSUME NEW p \in Procs, NEW c \in Candidates, Candidate(p, c) PROVE RunInv'
  <2>1. CASE CandidateWorks(p, c)
    BY <2>1 DEF CandidateWorks
  <2>2. CASE CandidateCompletes(p, c)
    BY <2>2 DEF CandidateCompletes, Unchanged
  <2>3. CASE CandidateFails(p, c)
    BY <2>3 DEF CandidateFails, Unchanged
  <2> QED
    BY <1>6, <2>1, <2>2, <2>3 DEF Candidate
<1>7. ASSUME NEW p \in Procs, Judges(p) PROVE RunInv'
  BY <1>7 DEF Judges, Terminalize, Unchanged, CandidatesFailed, Settled, Score
<1>8. ASSUME NEW p \in Procs, Marks(p) PROVE RunInv'
  BY <1>8 DEF Marks, MarkPair, FinalizePair, SetStatus, Other, Unpin, CallCleanup,
    FinalizeSecond
<1>9. ASSUME NEW p \in Procs, Reads(p) PROVE RunInv'
  BY <1>9 DEF Reads, Terminalize, Unchanged, ReadRecord, RereadRecord
<1>10. ASSUME NEW p \in Procs, PromoteWinner(p) PROVE RunInv'
  BY <1>10 DEF PromoteWinner, Promote, RecordScored, MarkPromoting, OpenTransaction,
    VerifySource, Delta, GuardPublication, RecheckPath, ReplacePath, ReplaceFails,
    ComparePublished, RollBack, RestorePath, Restored, RollbackFails, Demote, CloseTransaction,
    RecordPromoted, RecordPromotedFails
<1>11. ASSUME NEW p \in Procs, Ends(p) PROVE RunInv'
  <2>1. CASE Finalize(p)
    BY <2>1 DEF Finalize, Unchanged
  <2>2. CASE WriteCleanup(p)
    BY <2>2 DEF WriteCleanup, Unchanged
  <2>3. CASE Return(p)
    BY <2>3 DEF Return
  <2> QED
    BY <1>11, <2>1, <2>2, <2>3 DEF Ends
<1>12. ASSUME NEW p \in Procs, Crash(p) PROVE RunInv'
  BY <1>12 DEF Crash, CloseTransaction
<1>13. ASSUME NEW e \in Edits, Edit(e[1], e[2]) PROVE RunInv'
  BY <1>13 DEF Edit
<1>14. ASSUME LeaseExpires /\ UNCHANGED <<promotionVars, coordVars, st>> PROVE RunInv'
  BY <1>14 DEF LeaseExpires
<1>15. CASE UNCHANGED vars
  BY <1>15 DEF vars
<1>16. ASSUME NEW c \in Candidates, StrayWorks(c) PROVE RunInv'
  BY <1>16 DEF StrayWorks
<1> HIDE DEF RunInv
<1> QED
  BY StepKinds, <1>1, <1>2, <1>3, <1>4, <1>5, <1>6, <1>7, <1>8, <1>9, <1>10, <1>11, <1>12,
    <1>13, <1>14, <1>15, <1>16

\* Receipts, and with them the winner, stay once they are complete.
LEMMA ScoreInvStep ==
  ASSUME TypeOK, LockInv, ScoreInv, [Next]_vars
  PROVE  ScoreInv'
<1> USE WorktreeConstants, CoordinatorConstants, BestStays DEF At, Goto, TypeOK, WtTypeOK,
  PromotionTypeOK, wtVars, promotionVars, coordVars, LockInv, Locked, Concludes, Working,
  Ending, Cleaning, None, NeedsAttention, BeforePromotion, ScoreInv, Promoting, Candidates,
  Winner, NoWinner
<1>1. ASSUME NEW p \in Procs, Begins(p) PROVE ScoreInv'
  BY <1>1 DEF Begins, Dispatch, CallCleanup, Resume, Unchanged, Preflight, PreflightRejects
<1>2. ASSUME NEW p \in Procs, AcquireRequest(p) PROVE ScoreInv'
  BY <1>2, Acquires
<1>3. ASSUME NEW p \in Procs, Creates(p) PROVE ScoreInv'
  BY <1>3 DEF Creates, CreatePair, AddWorktree, AddFails, NoWorktree, HeadTree, WriteManifest,
    NoManifest
<1>4. ASSUME NEW p \in Procs, Cleans(p) PROVE ScoreInv'
  BY <1>4 DEF Cleans, Cleanup, Kept, EndCleanup, RemoveWorktree, Removable, NoWorktree,
    HeadTree, RemoveFails, RecordRemoved, RecordRemovedFails, ReleaseOwner
<1>5. ASSUME NEW p \in Procs, Prepares(p) PROVE ScoreInv'
  BY <1>5 DEF Prepares, Unchanged, WriteCreated, CloneThread, NextClone, WriteCloned,
    CheckInterrupted, Interrupted, Terminalize, StartCandidates, RecordFails
<1>6. ASSUME NEW p \in Procs, NEW c \in Candidates, Candidate(p, c) PROVE ScoreInv'
  <2>1. CASE CandidateWorks(p, c)
    BY <2>1 DEF CandidateWorks
  <2>2. CASE CandidateCompletes(p, c)
    BY <2>2 DEF CandidateCompletes, Unchanged
  <2>3. CASE CandidateFails(p, c)
    BY <2>3 DEF CandidateFails, Unchanged
  <2> QED
    BY <1>6, <2>1, <2>2, <2>3 DEF Candidate
<1>7. ASSUME NEW p \in Procs, Judges(p) PROVE ScoreInv'
  <2>1. CASE CandidatesFailed(p)
    BY <2>1 DEF Terminalize, Unchanged, CandidatesFailed, Settled
  <2>2. CASE Score(p)
    <3>1. /\ UNCHANGED <<rec>> /\ pc' = [pc EXCEPT ![p] = pc'[p]] /\ pc[p] = "run"
          /\ \A c \in Candidates : st.cand[c] = "completed"
      BY <2>2 DEF Score, Terminalize, Unchanged
    <3>2. CASE st.winner # NoWinner
      BY <2>2, <3>1, <3>2 DEF Score, Terminalize, Unchanged
    <3>3. CASE st.winner = NoWinner
      <4>1. CASE pc'[p] = "winner" /\ \E w \in Best : st' = [st EXCEPT !.winner = w]
        BY <3>1, <3>3, <4>1
      <4>2. CASE /\ pc'[p] = "finalize"
                 /\ \E k \in NeedsAttention : st' = [st EXCEPT !.terminal = k]
        BY <3>1, <3>3, <4>2
      <4> QED
        BY <2>2, <3>3, <4>1, <4>2 DEF Score, Terminalize, Unchanged
    <3> QED
      BY <3>2, <3>3
  <2> QED
    BY <1>7, <2>1, <2>2 DEF Judges
<1>8. ASSUME NEW p \in Procs, Marks(p) PROVE ScoreInv'
  BY <1>8 DEF Marks, MarkPair, FinalizePair, SetStatus, Other, Unpin, CallCleanup,
    FinalizeSecond
<1>9. ASSUME NEW p \in Procs, Reads(p) PROVE ScoreInv'
  BY <1>9 DEF Reads, Terminalize, Unchanged, ReadRecord, RereadRecord
<1>10. ASSUME NEW p \in Procs, PromoteWinner(p) PROVE ScoreInv'
  BY <1>10 DEF PromoteWinner, Promote, RecordScored, MarkPromoting, OpenTransaction,
    VerifySource, Delta, GuardPublication, RecheckPath, ReplacePath, ReplaceFails,
    ComparePublished, RollBack, RestorePath, Restored, RollbackFails, Demote, CloseTransaction,
    RecordPromoted, RecordPromotedFails
<1>11. ASSUME NEW p \in Procs, Ends(p) PROVE ScoreInv'
  <2>1. CASE Finalize(p)
    BY <2>1 DEF Finalize, Unchanged
  <2>2. CASE WriteCleanup(p)
    BY <2>2 DEF WriteCleanup, Unchanged
  <2>3. CASE Return(p)
    BY <2>3 DEF Return
  <2> QED
    BY <1>11, <2>1, <2>2, <2>3 DEF Ends
<1>12. ASSUME NEW p \in Procs, Crash(p) PROVE ScoreInv'
  BY <1>12 DEF Crash, CloseTransaction
<1>13. ASSUME NEW e \in Edits, Edit(e[1], e[2]) PROVE ScoreInv'
  BY <1>13 DEF Edit
<1>14. ASSUME LeaseExpires /\ UNCHANGED <<promotionVars, coordVars, st>> PROVE ScoreInv'
  BY <1>14 DEF LeaseExpires
<1>15. CASE UNCHANGED vars
  BY <1>15, BestStays DEF vars
<1>16. ASSUME NEW c \in Candidates, StrayWorks(c) PROVE ScoreInv'
  BY <1>16 DEF StrayWorks
<1> HIDE DEF ScoreInv
<1> QED
  BY StepKinds, <1>1, <1>2, <1>3, <1>4, <1>5, <1>6, <1>7, <1>8, <1>9, <1>10, <1>11, <1>12,
    <1>13, <1>14, <1>15, <1>16

\* The promotion record keeps count of the publications.
LEMMA RecordInvStep ==
  ASSUME TypeOK, LockInv, ScoreInv, RecordInv, [Next]_vars
  PROVE  RecordInv'
<1> USE WorktreeConstants, CoordinatorConstants DEF At, Goto, TypeOK, WtTypeOK,
  PromotionTypeOK, wtVars, promotionVars, coordVars, LockInv, Locked, Concludes, Working,
  Ending, Cleaning, None, NeedsAttention, BeforePromotion, ScoreInv, Promoting, Candidates,
  Winner, NoWinner,
  RecordInv
<1>1. ASSUME NEW p \in Procs, Begins(p) PROVE RecordInv'
  BY <1>1 DEF Begins, Dispatch, CallCleanup, Resume, Unchanged, Preflight, PreflightRejects
<1>2. ASSUME NEW p \in Procs, AcquireRequest(p) PROVE RecordInv'
  BY <1>2, Acquires
<1>3. ASSUME NEW p \in Procs, Creates(p) PROVE RecordInv'
  BY <1>3 DEF Creates, CreatePair, AddWorktree, AddFails, NoWorktree, HeadTree, WriteManifest,
    NoManifest
<1>4. ASSUME NEW p \in Procs, Cleans(p) PROVE RecordInv'
  BY <1>4 DEF Cleans, Cleanup, Kept, EndCleanup, RemoveWorktree, Removable, NoWorktree,
    HeadTree, RemoveFails, RecordRemoved, RecordRemovedFails, ReleaseOwner
<1>5. ASSUME NEW p \in Procs, Prepares(p) PROVE RecordInv'
  BY <1>5 DEF Prepares, Unchanged, WriteCreated, CloneThread, NextClone, WriteCloned,
    CheckInterrupted, Interrupted, Terminalize, StartCandidates, RecordFails
<1>6. ASSUME NEW p \in Procs, NEW c \in Candidates, Candidate(p, c) PROVE RecordInv'
  <2>1. CASE CandidateWorks(p, c)
    BY <2>1 DEF CandidateWorks
  <2>2. CASE CandidateCompletes(p, c)
    BY <2>2 DEF CandidateCompletes, Unchanged
  <2>3. CASE CandidateFails(p, c)
    BY <2>3 DEF CandidateFails, Unchanged
  <2> QED
    BY <1>6, <2>1, <2>2, <2>3 DEF Candidate
<1>7. ASSUME NEW p \in Procs, Judges(p) PROVE RecordInv'
  BY <1>7 DEF Judges, Terminalize, Unchanged, CandidatesFailed, Settled, Score
<1>8. ASSUME NEW p \in Procs, Marks(p) PROVE RecordInv'
  BY <1>8 DEF Marks, MarkPair, FinalizePair, SetStatus, Other, Unpin, CallCleanup,
    FinalizeSecond
<1>9. ASSUME NEW p \in Procs, Reads(p) PROVE RecordInv'
  BY <1>9 DEF Reads, Terminalize, Unchanged, ReadRecord, RereadRecord
<1>10. ASSUME NEW p \in Procs, PromoteWinner(p) PROVE RecordInv'
  BY <1>10 DEF PromoteWinner, Promote, RecordScored, MarkPromoting, OpenTransaction,
    VerifySource, Delta, GuardPublication, RecheckPath, ReplacePath, ReplaceFails,
    ComparePublished, RollBack, RestorePath, Restored, RollbackFails, Demote, CloseTransaction,
    RecordPromoted, RecordPromotedFails
<1>11. ASSUME NEW p \in Procs, Ends(p) PROVE RecordInv'
  <2>1. CASE Finalize(p)
    BY <2>1 DEF Finalize, Unchanged
  <2>2. CASE WriteCleanup(p)
    BY <2>2 DEF WriteCleanup, Unchanged
  <2>3. CASE Return(p)
    BY <2>3 DEF Return
  <2> QED
    BY <1>11, <2>1, <2>2, <2>3 DEF Ends
<1>12. ASSUME NEW p \in Procs, Crash(p) PROVE RecordInv'
  BY <1>12 DEF Crash, CloseTransaction
<1>13. ASSUME NEW e \in Edits, Edit(e[1], e[2]) PROVE RecordInv'
  BY <1>13 DEF Edit
<1>14. ASSUME LeaseExpires /\ UNCHANGED <<promotionVars, coordVars, st>> PROVE RecordInv'
  BY <1>14 DEF LeaseExpires
<1>15. CASE UNCHANGED vars
  BY <1>15 DEF vars
<1>16. ASSUME NEW c \in Candidates, StrayWorks(c) PROVE RecordInv'
  BY <1>16 DEF StrayWorks
<1> HIDE DEF RecordInv
<1> QED
  BY StepKinds, <1>1, <1>2, <1>3, <1>4, <1>5, <1>6, <1>7, <1>8, <1>9, <1>10, <1>11, <1>12,
    <1>13, <1>14, <1>15, <1>16

\* A publication that fails is taken back from every path.
LEMMA TreeInvStep ==
  ASSUME TypeOK, LockInv, RunInv, ScoreInv, RecordInv, TreeInv, PairInv, [Next]_vars
  PROVE  TreeInv'
<1> USE WorktreeConstants, CoordinatorConstants, NextInTodo DEF At, Goto, TypeOK, WtTypeOK,
  PromotionTypeOK, wtVars, promotionVars, coordVars, LockInv, Locked, Concludes, Working,
  Ending, Cleaning, None, NeedsAttention, BeforePromotion, ScoreInv, Promoting, Candidates,
  Winner, NoWinner,
  RecordInv, TreeInv, Traceable, PairInv, Clean, Tree
<1>1. ASSUME NEW p \in Procs, Begins(p) PROVE TreeInv'
  <2>1. /\ pc' = [pc EXCEPT ![p] = pc'[p]] /\ pc'[p] \in {"idle", "preflight", "cleanup"}
        /\ UNCHANGED <<tree, base, todo, wt, rec, pubs, lost, torn, st>>
    BY <1>1 DEF Begins, Dispatch, CallCleanup, Resume, Unchanged, Preflight, PreflightRejects
  <2> QED
    BY <2>1, TreeFrame
<1>2. ASSUME NEW p \in Procs, AcquireRequest(p) PROVE TreeInv'
  <2>1. \A q \in Procs : pc'[q] = pc[q] \/ pc'[q] \in {"create", "clone", "finalize", "throw"}
    BY <1>2, Acquires
  <2>2. /\ UNCHANGED <<tree, base, todo, wt, rec, pubs, lost, torn>>
        /\ st'.winner = st.winner /\ st'.terminal = st.terminal
    BY <1>2, Acquires
  <2> QED
    BY <2>1, <2>2, TreeFrame
<1>3. ASSUME NEW p \in Procs, Creates(p) PROVE TreeInv'
  BY <1>3 DEF Creates, CreatePair, AddWorktree, AddFails, NoWorktree, HeadTree, WriteManifest,
    NoManifest
<1>4. ASSUME NEW p \in Procs, Cleans(p) PROVE TreeInv'
  <2>0. UNCHANGED <<promotionVars, coordVars, st>>
    BY <1>4 DEF Cleans
  <2>1. CASE RemoveWorktree(p)
    BY <2>0, <2>1 DEF RemoveWorktree, Removable, NoWorktree, HeadTree
  <2>2. CASE Kept(p) \/ RemoveFails(p) \/ RecordRemoved(p) \/ RecordRemovedFails(p)
            \/ ReleaseOwner(p)
    <3>1. /\ pc' = [pc EXCEPT ![p] = pc'[p]] /\ pc'[p] \in {ret[p], "release"}
          /\ UNCHANGED <<tree, wt>>
      BY <2>2 DEF Kept, RemoveFails, RecordRemoved, RecordRemovedFails, ReleaseOwner, EndCleanup
    <3>2. \A q \in Procs : pc'[q] = pc[q] \/
            pc'[q] \in {"idle", "resume", "lock", "cleaned", "release"}
      BY <3>1
    <3>3. UNCHANGED <<base, todo, rec, pubs, lost, torn, st>>
      BY <2>0
    <3> QED
      BY <3>1, <3>2, <3>3, TreeFrame
  <2> QED
    BY <1>4, <2>1, <2>2 DEF Cleans, Cleanup
<1>5. ASSUME NEW p \in Procs, Prepares(p) PROVE TreeInv'
  BY <1>5 DEF Prepares, Unchanged, WriteCreated, CloneThread, NextClone, WriteCloned,
    CheckInterrupted, Interrupted, Terminalize, StartCandidates, RecordFails
<1>6. ASSUME NEW p \in Procs, NEW c \in Candidates, Candidate(p, c) PROVE TreeInv'
  <2>1. CASE CandidateWorks(p, c)
    BY <2>1 DEF CandidateWorks
  <2>2. CASE CandidateCompletes(p, c)
    BY <2>2 DEF CandidateCompletes, Unchanged
  <2>3. CASE CandidateFails(p, c)
    BY <2>3 DEF CandidateFails, Unchanged
  <2> QED
    BY <1>6, <2>1, <2>2, <2>3 DEF Candidate
<1>7. ASSUME NEW p \in Procs, Judges(p) PROVE TreeInv'
  BY <1>7 DEF Judges, Terminalize, Unchanged, CandidatesFailed, Settled, Score
<1>8. ASSUME NEW p \in Procs, Marks(p) PROVE TreeInv'
  BY <1>8 DEF Marks, MarkPair, FinalizePair, SetStatus, Other, Unpin, CallCleanup,
    FinalizeSecond
<1>9. ASSUME NEW p \in Procs, Reads(p) PROVE TreeInv'
  BY <1>9 DEF Reads, Terminalize, Unchanged, ReadRecord, RereadRecord
<1>10. ASSUME NEW p \in Procs, PromoteWinner(p) PROVE TreeInv'
  <2>0. UNCHANGED <<coordVars, st>>
    BY <1>10 DEF PromoteWinner
  <2>1. CASE RecordScored(p, Winner)
    BY <2>0, <2>1 DEF RecordScored
  <2>2. CASE MarkPromoting(p)
    BY <2>0, <2>2 DEF MarkPromoting
  <2>3. CASE OpenTransaction(p, Winner)
    <3>0. /\ UNCHANGED <<tree, wt, rec, todo, pubs, lost, torn, st>>
          /\ pc[p] = "open" /\ pc' = [pc EXCEPT ![p] = pc'[p]]
          /\ \A q \in Procs \ {p} : base'[q] = base[q]
      BY <2>0, <2>3 DEF OpenTransaction
    <3>3. \A q \in Procs \ {p} : pc'[q] \notin Promoting /\ pc'[q] = pc[q]
      BY <3>0
    <3>4. rec = "promoting" /\ Traceable' = Traceable
      BY <3>0
    <3>1. CASE pc'[p] = "demote" /\ UNCHANGED base
      BY <3>0, <3>1, <3>3, <3>4
    <3>2. CASE pc'[p] = "verify" /\ base'[p] = tree
      BY <3>0, <3>2, <3>3, <3>4
    <3> QED
      BY <2>0, <2>3, <3>1, <3>2 DEF OpenTransaction
  <2>4. CASE VerifySource(p, Winner, st.snapshot, st.receipt[Winner].delta)
    <3>0. /\ UNCHANGED <<tree, wt, base, rec, pubs, lost, torn, st>>
          /\ pc[p] = "verify" /\ pc' = [pc EXCEPT ![p] = pc'[p]]
          /\ \A q \in Procs \ {p} : todo'[q] = todo[q]
      BY <2>0, <2>4 DEF VerifySource
    <3>3. \A q \in Procs \ {p} : pc'[q] \notin Promoting /\ pc'[q] = pc[q]
      BY <3>0
    <3>4. rec = "promoting" /\ Traceable' = Traceable
      BY <3>0
    <3>1. CASE pc'[p] = "demote" /\ UNCHANGED todo
      BY <3>0, <3>1, <3>3, <3>4
    <3>2. CASE /\ pc'[p] = "guard" /\ tree = base[p]
               /\ todo'[p] = {x \in Paths : wt[Winner].files[x] # tree[x]}
      BY <3>0, <3>2, <3>3, <3>4
    <3> QED
      BY <2>0, <2>4, <3>1, <3>2 DEF VerifySource, Delta
  <2>5. CASE GuardPublication(p)
    BY <2>0, <2>5 DEF GuardPublication
  <2>6. CASE RecheckPath(p)
    BY <2>0, <2>6 DEF RecheckPath
  <2>7. CASE ReplacePath(p, Winner)
    BY <2>0, <2>7 DEF ReplacePath
  <2>8. CASE ReplaceFails(p)
    BY <2>0, <2>8 DEF ReplaceFails
  <2>9. CASE ComparePublished(p, Winner)
    BY <2>0, <2>9 DEF ComparePublished
  <2>10. CASE RollBack(p, Winner)
    BY <2>0, <2>10 DEF RollBack
  <2>11. CASE Demote(p)
    BY <2>0, <2>11 DEF Demote, CloseTransaction
  <2>12. CASE RecordPromoted(p)
    BY <2>0, <2>12 DEF RecordPromoted, CloseTransaction
  <2>13. CASE RecordPromotedFails(p)
    BY <2>0, <2>13 DEF RecordPromotedFails
  <2>14. CASE RestorePath(p)
    BY <2>0, <2>14, NextInTodo DEF RestorePath
  <2>15. CASE Restored(p)
    BY <2>0, <2>15 DEF Restored
  <2>16. CASE RollbackFails(p)
    BY <2>0, <2>16 DEF RollbackFails
  <2> QED
    BY <1>10, <2>1, <2>2, <2>3, <2>4, <2>5, <2>6, <2>7, <2>8, <2>9, <2>10, <2>11, <2>12,
      <2>13, <2>14, <2>15, <2>16 DEF PromoteWinner, Promote
<1>11. ASSUME NEW p \in Procs, Ends(p) PROVE TreeInv'
  <2>1. CASE Finalize(p)
    BY <2>1 DEF Finalize, Unchanged
  <2>2. CASE WriteCleanup(p)
    BY <2>2 DEF WriteCleanup, Unchanged
  <2>3. CASE Return(p)
    BY <2>3 DEF Return
  <2> QED
    BY <1>11, <2>1, <2>2, <2>3 DEF Ends
<1>12. ASSUME NEW p \in Procs, Crash(p) PROVE TreeInv'
  BY <1>12 DEF Crash, CloseTransaction
<1>13. ASSUME NEW e \in Edits, Edit(e[1], e[2]) PROVE TreeInv'
  <2>1. /\ e[1] \in Paths /\ e[2] \notin {"cand0", "cand1"}
        /\ tree' = [tree EXCEPT ![e[1]] = e[2]]
        /\ UNCHANGED <<pc, base, todo, wt, rec, pubs, lost, torn, st>>
    BY <1>13 DEF Edit
  <2>2. \A x \in Paths : tree'[x] = tree[x] \/ tree'[x] \notin {"cand0", "cand1"}
    BY <2>1
  <2>3. Clean(tree) => Clean(tree')
    BY <2>2
  <2> QED
    BY <2>1, <2>2, <2>3
<1>14. ASSUME LeaseExpires /\ UNCHANGED <<promotionVars, coordVars, st>> PROVE TreeInv'
  BY <1>14 DEF LeaseExpires
<1>15. CASE UNCHANGED vars
  BY <1>15 DEF vars
<1>16. ASSUME NEW c \in Candidates, StrayWorks(c) PROVE TreeInv'
  <2>1. \A q \in Procs : pc[q] \notin Promoting
    BY <1>16 DEF StrayWorks, RunInv
  <2> QED
    BY <1>16, <2>1 DEF StrayWorks
<1> HIDE DEF TreeInv
<1> QED
  BY StepKinds, <1>1, <1>2, <1>3, <1>4, <1>5, <1>6, <1>7, <1>8, <1>9, <1>10, <1>11, <1>12,
    <1>13, <1>14, <1>15, <1>16

\* Pins keep the pair until the promotion is durable.
LEMMA PairInvStep ==
  ASSUME TypeOK, LockInv, ScoreInv, PairInv, [Next]_vars
  PROVE  PairInv'
<1> USE WorktreeConstants, CoordinatorConstants DEF At, Goto, TypeOK, WtTypeOK,
  PromotionTypeOK, wtVars, promotionVars, coordVars, LockInv, Locked, Concludes, Working,
  Ending, Cleaning, None, NeedsAttention, BeforePromotion, ScoreInv, Promoting, Candidates,
  Winner, NoWinner,
  PairInv
<1>1. ASSUME NEW p \in Procs, Begins(p) PROVE PairInv'
  BY <1>1 DEF Begins, Dispatch, CallCleanup, Resume, Unchanged, Preflight, PreflightRejects
<1>2. ASSUME NEW p \in Procs, AcquireRequest(p) PROVE PairInv'
  BY <1>2, Acquires
<1>3. ASSUME NEW p \in Procs, Creates(p) PROVE PairInv'
  BY <1>3 DEF Creates, CreatePair, AddWorktree, AddFails, NoWorktree, HeadTree, WriteManifest,
    NoManifest
<1>4. ASSUME NEW p \in Procs, Cleans(p) PROVE PairInv'
  BY <1>4 DEF Cleans, Cleanup, Kept, EndCleanup, RemoveWorktree, Removable, NoWorktree,
    HeadTree, RemoveFails, RecordRemoved, RecordRemovedFails, ReleaseOwner
<1>5. ASSUME NEW p \in Procs, Prepares(p) PROVE PairInv'
  BY <1>5 DEF Prepares, Unchanged, WriteCreated, CloneThread, NextClone, WriteCloned,
    CheckInterrupted, Interrupted, Terminalize, StartCandidates, RecordFails
<1>6. ASSUME NEW p \in Procs, NEW c \in Candidates, Candidate(p, c) PROVE PairInv'
  <2>1. CASE CandidateWorks(p, c)
    BY <2>1 DEF CandidateWorks
  <2>2. CASE CandidateCompletes(p, c)
    BY <2>2 DEF CandidateCompletes, Unchanged
  <2>3. CASE CandidateFails(p, c)
    BY <2>3 DEF CandidateFails, Unchanged
  <2> QED
    BY <1>6, <2>1, <2>2, <2>3 DEF Candidate
<1>7. ASSUME NEW p \in Procs, Judges(p) PROVE PairInv'
  BY <1>7 DEF Judges, Terminalize, Unchanged, CandidatesFailed, Settled, Score
<1>8. ASSUME NEW p \in Procs, Marks(p) PROVE PairInv'
  BY <1>8 DEF Marks, MarkPair, FinalizePair, SetStatus, Other, Unpin, CallCleanup,
    FinalizeSecond
<1>9. ASSUME NEW p \in Procs, Reads(p) PROVE PairInv'
  BY <1>9 DEF Reads, Terminalize, Unchanged, ReadRecord, RereadRecord
<1>10. ASSUME NEW p \in Procs, PromoteWinner(p) PROVE PairInv'
  BY <1>10 DEF PromoteWinner, Promote, RecordScored, MarkPromoting, OpenTransaction,
    VerifySource, Delta, GuardPublication, RecheckPath, ReplacePath, ReplaceFails,
    ComparePublished, RollBack, RestorePath, Restored, RollbackFails, Demote, CloseTransaction,
    RecordPromoted, RecordPromotedFails
<1>11. ASSUME NEW p \in Procs, Ends(p) PROVE PairInv'
  <2>1. CASE Finalize(p)
    BY <2>1 DEF Finalize, Unchanged
  <2>2. CASE WriteCleanup(p)
    BY <2>2 DEF WriteCleanup, Unchanged
  <2>3. CASE Return(p)
    BY <2>3 DEF Return
  <2> QED
    BY <1>11, <2>1, <2>2, <2>3 DEF Ends
<1>12. ASSUME NEW p \in Procs, Crash(p) PROVE PairInv'
  BY <1>12 DEF Crash, CloseTransaction
<1>13. ASSUME NEW e \in Edits, Edit(e[1], e[2]) PROVE PairInv'
  BY <1>13 DEF Edit
<1>14. ASSUME LeaseExpires /\ UNCHANGED <<promotionVars, coordVars, st>> PROVE PairInv'
  BY <1>14 DEF LeaseExpires
<1>15. CASE UNCHANGED vars
  BY <1>15 DEF vars
<1>16. ASSUME NEW c \in Candidates, StrayWorks(c) PROVE PairInv'
  BY <1>16 DEF StrayWorks
<1> HIDE DEF PairInv
<1> QED
  BY StepKinds, <1>1, <1>2, <1>3, <1>4, <1>5, <1>6, <1>7, <1>8, <1>9, <1>10, <1>11, <1>12,
    <1>13, <1>14, <1>15, <1>16

-----------------------------------------------------------------------------
\* Theorems

\* The inductive invariant holds of every run of recoveries.
THEOREM CoordinatorInvariant == Spec => []IInv
<1>1. Init => IInv
  <2> SUFFICES ASSUME Init PROVE IInv
    OBVIOUS
  <2> USE WorktreeConstants, CoordinatorConstants
        DEF Init, WtInit, PromotionInit, Candidates, NoState, NoManifest, NoWorktree, NoReceipt
  <2>1. HeadTree \in Tree
    BY DEF HeadTree, Tree, Contents
  <2>2. tree \in Tree /\ Clean(tree)
    BY DEF HeadTree, Tree, Contents, Clean
  <2>3. PcType /\ \A p \in Procs : pc[p] \in {"preflight", "idle"} /\ ret[p] = "idle"
    BY DEF PcType, Labels
  <2>4. LocksType
    <3>1. expired \in BOOLEAN /\ mlock = None /\ lock = None /\ worked = {} /\ stray = {}
      BY Zenon
    <3>2. thr \in [Candidates -> {None, "cloned", "ran"}] /\ runs \in [Candidates -> Nat]
      OBVIOUS
    <3>3. edits \in 0..MaxEdits /\ crashes \in 0..MaxCrashes
      OBVIOUS
    <3> QED
      BY <3>1, <3>2, <3>3 DEF LocksType
  <2>5. TreeType
    BY <2>1, <2>2 DEF TreeType
  <2>6. WtType /\ ManifestType
    BY <2>1 DEF WtType, ManifestType, Statuses
  <2>7. StateType
    BY <2>1 DEF StateType
  <2>8. LockInv
    BY <2>3 DEF LockInv, Locked, Concludes, Working, Ending, Cleaning
  <2>9. RunInv
    BY <2>3 DEF RunInv, None
  <2>10. ScoreInv /\ RecordInv
    BY <2>3 DEF ScoreInv, RecordInv, Winner, NoWinner, NeedsAttention, BeforePromotion, None,
      Promoting
  <2>11. TreeInv
    BY <2>2, <2>3 DEF TreeInv
  <2>12. PairInv
    BY <2>3 DEF PairInv
  <2> HIDE DEF Init
  <2> QED
    BY <2>3, <2>4, <2>5, <2>6, <2>7, <2>8, <2>9, <2>10, <2>11, <2>12, TypeParts DEF IInv
<1>2. IInv /\ [Next]_vars => IInv'
  <2> SUFFICES ASSUME IInv, [Next]_vars PROVE IInv'
    OBVIOUS
  <2>1. PcType /\ LocksType /\ TreeType /\ WtType /\ ManifestType /\ StateType
    BY TypeParts DEF IInv
  <2>2. TypeOK'
    BY <2>1, TypeParts, PcTypeStep, LocksTypeStep, TreeTypeStep, WtTypeStep, ManifestTypeStep,
       StateTypeStep DEF IInv
  <2> QED
    BY <2>2, LockInvStep, RunInvStep, ScoreInvStep, RecordInvStep, TreeInvStep, PairInvStep
    DEF IInv
<1> QED
  BY <1>1, <1>2, PTL DEF Spec

\* Every variable keeps its type.
THEOREM TypeCorrect == Spec => []TypeOK
<1>1. IInv => TypeOK
  BY DEF IInv
<1> QED
  BY <1>1, CoordinatorInvariant, PTL

\* However dispatches crash, rerun and overlap, a candidate's workflow is run
\* at most once (runCandidatePair, candidate_interrupted).
THEOREM CandidatesRunOnce == Spec => []CandidateRunsOnce
<1>1. IInv => CandidateRunsOnce
  BY DEF IInv, RunInv, CandidateRunsOnce
<1> QED
  BY <1>1, CoordinatorInvariant, PTL

\* One publication of a candidate is accepted, and another one only for each
\* whose record could not be written (promoteLocked).
THEOREM OnePromotion == Spec => []PromotesOnce
<1>1. IInv => PromotesOnce
  BY DEF IInv, RecordInv, PromotesOnce
<1> QED
  BY <1>1, CoordinatorInvariant, PTL

\* The durable outcome agrees with record and publication, and the promoted
\* candidate is a best one.  A publication the record has forgotten is reported
\* as promotion_failed, one that a crash cut short as promotion_incomplete.
THEOREM OutcomeIsTrue == Spec => []OutcomeMatchesRecord
<1>1. IInv => OutcomeMatchesRecord
  BY DEF IInv, RecordInv, ScoreInv, OutcomeMatchesRecord, Winner, NeedsAttention
<1> QED
  BY <1>1, CoordinatorInvariant, PTL

\* A failed recovery leaves nothing of its candidates in the source, whatever
\* the user edited while the winner was published and rolled back, unless the
\* rollback itself or the record of an accepted publication failed.
THEOREM FailureIsClean == Spec => []FailureLeavesNoCandidate
<1>1. IInv => FailureLeavesNoCandidate
  BY DEF IInv, ScoreInv, TreeInv, Traceable, Clean, FailureLeavesNoCandidate
<1> QED
  BY <1>1, CoordinatorInvariant, PTL

\* A worktree of a recorded pair goes only as the clean loser of a durable
\* promotion whose lease is over, and a thread only after its worktree.
THEOREM OnlyLosersAreRemoved == Spec => RemovesOnlyLosers
<1> DEFINE Allowed(c) ==
      /\ man.exists /\ wt[c].exists /\ ~wt'[c].exists =>
           /\ expired /\ st.terminal = "promoted" /\ c # Winner
           /\ \A x \in Paths : wt[c].files[x] = "head"
      /\ thr[c] = "ran" /\ thr'[c] # "ran" => man.removed[c] /\ ~wt[c].exists
<1>1. ASSUME IInv, [Next]_vars, NEW c \in Candidates PROVE Allowed(c)
  <2> USE <1>1 DEF IInv, TypeOK, WtTypeOK, Candidates, wtVars, At
  <2>1. CASE UNCHANGED <<wt, thr>>
    BY <2>1
  <2>2. ASSUME NEW p \in Procs, Creates(p), ~UNCHANGED <<wt, thr>> PROVE Allowed(c)
    <3>1. pc[p] \in {"add0", "add1", "manifest"} /\ thr' = thr
      BY <2>2 DEF Creates, CreatePair, AddWorktree, AddFails, WriteManifest
    <3> QED
      BY <3>1 DEF PairInv
  <2>3. ASSUME NEW p \in Procs, Cleans(p) PROVE Allowed(c)
    <3>1. CASE RemoveWorktree(p)
      BY <3>1 DEF RemoveWorktree, Removable, NoWorktree, HeadTree, PairInv
    <3>2. CASE ReleaseOwner(p)
      BY <3>2 DEF ReleaseOwner, PairInv
    <3>3. CASE Kept(p) \/ RemoveFails(p) \/ RecordRemoved(p) \/ RecordRemovedFails(p)
      BY <2>1, <3>3 DEF Kept, RemoveFails, RecordRemoved, RecordRemovedFails
    <3> QED
      BY <2>3, <3>1, <3>2, <3>3 DEF Cleans, Cleanup
  <2>4. ASSUME NEW p \in Procs, CloneThread(p) PROVE Allowed(c)
    BY <2>4 DEF CloneThread, NextClone, RunInv
  <2>5. ASSUME NEW p \in Procs, NEW d \in Candidates, CandidateWorks(p, d) PROVE Allowed(c)
    BY <2>5 DEF CandidateWorks
  <2>6. ASSUME NEW p \in Procs, Begins(p) \/ AcquireRequest(p) \/ Judges(p) \/ Marks(p)
                                \/ Reads(p) \/ Ends(p) \/ Crash(p)
        PROVE  UNCHANGED <<wt, thr>>
    BY <2>6 DEF Begins, Dispatch, Resume, Preflight, PreflightRejects, AcquireRequest, Judges,
       CandidatesFailed, Score, Marks, MarkPair, FinalizePair, FinalizeSecond, SetStatus, Unpin,
       Reads, ReadRecord, RereadRecord, Ends, Finalize, WriteCleanup, Return, Crash,
       Terminalize, Unchanged
  <2>7. ASSUME NEW p \in Procs, PromoteWinner(p) PROVE UNCHANGED <<wt, thr>>
    BY <2>7 DEF PromoteWinner, Promote, RecordScored, MarkPromoting, OpenTransaction,
       VerifySource, GuardPublication, RecheckPath, ReplacePath, ReplaceFails,
       ComparePublished, RollBack, RestorePath, Restored, RollbackFails, Demote, RecordPromoted,
       RecordPromotedFails
  <2>8. ASSUME NEW p \in Procs, Prepares(p), ~CloneThread(p) PROVE UNCHANGED <<wt, thr>>
    BY <2>8 DEF Prepares, WriteCreated, WriteCloned, CheckInterrupted, StartCandidates,
       RecordFails, Terminalize, Unchanged
  <2>9. ASSUME NEW p \in Procs, NEW d \in Candidates, Candidate(p, d), ~CandidateWorks(p, d)
        PROVE  UNCHANGED <<wt, thr>>
    BY <2>9 DEF Candidate, CandidateCompletes, CandidateFails, Unchanged
  <2>10. ASSUME NEW e \in Edits, Edit(e[1], e[2]) PROVE UNCHANGED <<wt, thr>>
    BY <2>10 DEF Edit
  <2>12. ASSUME NEW d \in Candidates, StrayWorks(d) PROVE Allowed(c)
    BY <2>12 DEF StrayWorks
  <2>11. ASSUME LeaseExpires \/ UNCHANGED vars PROVE UNCHANGED <<wt, thr>>
    BY <2>11 DEF LeaseExpires, vars
  <2> HIDE DEF Allowed
  <2> QED
    BY StepKinds, <2>1, <2>2, <2>3, <2>4, <2>5, <2>6, <2>7, <2>8, <2>9, <2>10, <2>11, <2>12
<1>2. IInv /\ [Next]_vars => [\A c \in Candidates : Allowed(c)]_vars
  BY <1>1
<1> QED
  BY <1>2, CoordinatorInvariant, PTL DEF Spec, RemovesOnlyLosers
-----------------------------------------------------------------------------
(***************************************************************************)
(* The grades of the coordinator are the scores of CandidateScoring.  The  *)
(* recovery it describes has the paths and the bound on crashes of this    *)
(* one, and variables of its own.                                          *)
(***************************************************************************)
CONSTANTS MaxRisks, MaxBytes, Failures, Nothing
VARIABLES stage, attested, delivery, results, receipts, found, score, outcome, restarts

Scoring == INSTANCE CandidateScoring WITH
  pc <- stage, crashes <- restarts, None <- Nothing

\* Both candidates have run, and the receipts are those of their results.
Compared ==
  /\ results \in [{0, 1} -> Scoring!Results]
  /\ receipts = [c \in {0, 1} |-> Scoring!Receipt(results[c])]

Lead == Scoring!Leaders(Scoring!Scored)

\* A score names a leader: the only one, or the one of two the critic chose.
Chosen(s) ==
  /\ Compared /\ s.receipts = Scoring!Scored
  /\ \/ Lead = {s.winner}
     \/ Lead = {0, 1} /\ s.winner \in {0, 1} /\ s.tie = s.winner

\* The inductive invariant: a score, computed or durable, names a leader of the
\* receipts both candidates have.
ScoringInv ==
  /\ stage \in {"score", "critic", "persist", "promote"} => Compared
  /\ stage \in {"decide", "run"} => score = Nothing
  /\ stage = "critic" => Lead = {0, 1}
  /\ stage = "persist" => Chosen(found)
  /\ stage = "promote" \/ score # Nothing => Chosen(score)
  /\ outcome # "promotion_failed"

\* Sets are counted alike inside the instance.
LEMMA SameCounting ==
  \A S : Scoring!Cardinality(S) = Cardinality(S) /\ Scoring!IsFiniteSet(S) = IsFiniteSet(S)
BY DEF Cardinality, IsFiniteSet, Scoring!Cardinality, Scoring!IsFiniteSet

\* A subset of the candidates by its number of elements.
LEMMA PairSizes ==
  ASSUME NEW S \in SUBSET {0, 1}
  PROVE  /\ Cardinality(S) = 1 <=> \E x \in {0, 1} : S = {x}
         /\ Cardinality(S) = 2 <=> S = {0, 1}
         /\ Cardinality(S) \in {0, 1, 2} /\ (Cardinality(S) = 0 <=> S = {})
<1>1. /\ IsFiniteSet({}) /\ Cardinality({}) = 0
      /\ IsFiniteSet({0}) /\ Cardinality({0}) = 1
      /\ IsFiniteSet({1}) /\ Cardinality({1}) = 1
  BY FS_EmptySet, FS_Singleton
<1>2. Cardinality({0} \cup {1}) = 2
  BY <1>1, FS_AddElement
<1>3. {0} \cup {1} = {0, 1}
  OBVIOUS
<1>4. S = {} \/ S = {0} \/ S = {1} \/ S = {0, 1}
  OBVIOUS
<1>5. CASE S = {}
  BY <1>1, <1>5
<1>6. CASE S = {0, 1}
  <2>1. Cardinality(S) = 2 /\ 0 \in S /\ 1 \in S
    BY <1>2, <1>3, <1>6
  <2> QED BY <1>6, <2>1
<1>7. CASE S = {0} \/ S = {1}
  <2>1. Cardinality(S) = 1 /\ S # {} /\ (0 \notin S \/ 1 \notin S)
    BY <1>1, <1>7
  <2> QED BY <1>7, <2>1
<1> QED BY <1>4, <1>5, <1>6, <1>7

\* What an eligible receipt says: its delivery completed with known effects, so
\* that no check is left to fail and risks, paths and bytes are all there is.
LEMMA EligibleScore ==
  ASSUME Scoring!ScoringConstants, NEW x \in Scoring!Results,
         Scoring!ToReceipt(Scoring!Receipt(x)).eligible
  PROVE  /\ attested /\ x.status = "completed"
         /\ Scoring!ToReceipt(Scoring!Receipt(x)).score =
              <<0, 0, 0, 0, 0, 0, 0, 0, x.risks, Cardinality(x.delta.paths), x.delta.bytes>>
         /\ x.risks \in Nat /\ Cardinality(x.delta.paths) \in Nat /\ x.delta.bytes \in Nat
<1> DEFINE r == Scoring!Receipt(x)
<1>1. r.fullyKnown = Scoring!Safe /\ r.deliveryCompleted = (x.status = "completed")
  BY DEF Scoring!Receipt
<1>2. Scoring!Safe /\ x.status = "completed"
  BY <1>1 DEF Scoring!ToReceipt
<1>3. attested
  BY <1>2 DEF Scoring!Safe, Scoring!Ledger
<1>4. /\ x.checked /\ x.failed = {} /\ x.risks \in 0..MaxRisks /\ x.delta \in Scoring!Deltas
  BY <1>2 DEF Scoring!Results
<1>5. x.delta.bytes \in 0..MaxBytes /\ x.delta.paths \in SUBSET Paths
  BY <1>4 DEF Scoring!Deltas
<1>6. Cardinality(x.delta.paths) \in Nat
  BY <1>5, FS_Subset, FS_CardinalityType, SameCounting DEF Scoring!ScoringConstants
<1>7. \A kinds : Scoring!Count(x, kinds) = 0
  <2> TAKE kinds
  <2>1. x.failed \cap kinds = {}
    BY <1>4
  <2> QED BY <2>1, FS_EmptySet, SameCounting DEF Scoring!Count
<1>8. /\ r.failedChecks = 0 /\ r.test = 0 /\ r.typecheck = 0 /\ r.lint = 0 /\ r.build = 0
      /\ r.unmet = 0 /\ r.regressions = 0 /\ r.risks = x.risks
      /\ r.changedPaths = x.delta.paths /\ r.changedBytes = x.delta.bytes
  BY <1>2, <1>4, <1>7, FS_EmptySet, SameCounting DEF Scoring!Receipt
<1> HIDE DEF r
<1>9. Scoring!ToReceipt(r).score =
        <<0, 0, 0, 0, 0, 0, 0, 0, x.risks, Cardinality(x.delta.paths), x.delta.bytes>>
  BY <1>8, SameCounting DEF Scoring!ToReceipt
<1> QED BY <1>2, <1>3, <1>4, <1>5, <1>6, <1>9 DEF r, Scoring!ScoringConstants

\* The comparison of two eligible candidates is the one of a reader.
LEMMA BeforeIsBetter ==
  ASSUME Scoring!ScoringConstants, Compared, NEW c \in {0, 1}, NEW d \in {0, 1},
         Scoring!Scored[c].eligible, Scoring!Scored[d].eligible
  PROVE  /\ Scoring!Sound(c)
         /\ Scoring!Before(Scoring!Scored[c], Scoring!Scored[d]) <=> Scoring!Better(c, d)
         /\ \/ Scoring!Better(c, d) \/ Scoring!Better(d, c)
            \/ Scoring!Scored[c].score = Scoring!Scored[d].score
         /\ Scoring!Better(c, d) => /\ ~Scoring!Better(d, c)
                                    /\ Scoring!Scored[c].score # Scoring!Scored[d].score
<1>1. ASSUME NEW e \in {0, 1}, Scoring!Scored[e].eligible
      PROVE  /\ Scoring!Scored[e] = Scoring!ToReceipt(Scoring!Receipt(results[e]))
             /\ results[e] \in Scoring!Results /\ Scoring!Sound(e)
             /\ Scoring!Scored[e].score =
                  <<0, 0, 0, 0, 0, 0, 0, 0, results[e].risks,
                    Cardinality(results[e].delta.paths), results[e].delta.bytes>>
             /\ results[e].risks \in Nat /\ Cardinality(results[e].delta.paths) \in Nat
             /\ results[e].delta.bytes \in Nat
  <2>1. Scoring!Scored[e] = Scoring!ToReceipt(Scoring!Receipt(results[e]))
    BY DEF Compared, Scoring!Scored, Scoring!Candidates
  <2>2. results[e] \in Scoring!Results
    BY DEF Compared
  <2>3. Scoring!ToReceipt(Scoring!Receipt(results[e])).eligible
    BY <1>1, <2>1
  <2> QED BY <2>1, <2>2, <2>3, EligibleScore DEF Scoring!Sound
<1> DEFINE a == Scoring!Scored[c]  b == Scoring!Scored[d]
           x == results[c].risks  y == Cardinality(results[c].delta.paths)
           z == results[c].delta.bytes
           u == results[d].risks  v == Cardinality(results[d].delta.paths)
           w == results[d].delta.bytes
           Less == x < u \/ (x = u /\ y < v) \/ (x = u /\ y = v /\ z < w)
           More == u < x \/ (u = x /\ v < y) \/ (u = x /\ v = y /\ w < z)
<1>2. /\ a.score = <<0, 0, 0, 0, 0, 0, 0, 0, x, y, z>>
      /\ b.score = <<0, 0, 0, 0, 0, 0, 0, 0, u, v, w>>
      /\ x \in Nat /\ y \in Nat /\ z \in Nat /\ u \in Nat /\ v \in Nat /\ w \in Nat
  BY <1>1
<1>3. Scoring!Better(c, d) <=> Less
  BY SameCounting DEF Scoring!Better
<1>4. Scoring!Better(d, c) <=> More
  BY SameCounting DEF Scoring!Better
<1> HIDE DEF a, b, x, y, z, u, v, w
<1>5. DOMAIN a.score = 1..11
  BY <1>2
<1>6. /\ \A i \in 1..8 : a.score[i] = 0 /\ b.score[i] = 0
      /\ a.score[9] = x /\ a.score[10] = y /\ a.score[11] = z
      /\ b.score[9] = u /\ b.score[10] = v /\ b.score[11] = w
  BY <1>2
<1> DEFINE s == a.score  t == b.score
<1>7. Scoring!Before(a, b) <=>
        \E i \in 1..11 : s[i] < t[i] /\ \A j \in 1..i-1 : s[j] = t[j]
  BY <1>5 DEF Scoring!Before
<1>8. \A i \in 1..11 : i \in 1..8 \/ i = 9 \/ i = 10 \/ i = 11
  OBVIOUS
<1>9. (\E i \in 1..11 : s[i] < t[i] /\ \A j \in 1..i-1 : s[j] = t[j]) <=> Less
  <2> HIDE DEF s, t
  <2>0. /\ \A i \in 1..8 : s[i] = 0 /\ t[i] = 0
        /\ s[9] = x /\ s[10] = y /\ s[11] = z /\ t[9] = u /\ t[10] = v /\ t[11] = w
    BY <1>6 DEF s, t
  <2>1. ASSUME NEW i \in 1..11, s[i] < t[i], \A j \in 1..i-1 : s[j] = t[j] PROVE Less
    <3>1. i \notin 1..8
      BY <2>0, <2>1
    <3>2. CASE i = 9
      BY <2>0, <2>1, <3>2
    <3>3. CASE i = 10
      BY <2>0, <2>1, <3>3
    <3>4. CASE i = 11
      BY <2>0, <2>1, <3>4
    <3> QED BY <3>1, <3>2, <3>3, <3>4, <1>8
  <2>2. CASE x < u
    BY <2>0, <2>2
  <2>3. CASE x = u /\ y < v
    <3>1. \A j \in 1..9 : s[j] = t[j]
      BY <2>0, <2>3
    <3> QED BY <2>0, <2>3, <3>1
  <2>4. CASE x = u /\ y = v /\ z < w
    <3>1. \A j \in 1..10 : s[j] = t[j]
      BY <2>0, <2>4
    <3> QED BY <2>0, <2>4, <3>1
  <2> QED BY <2>1, <2>2, <2>3, <2>4
<1>10. a.score = b.score <=> x = u /\ y = v /\ z = w
  BY <1>2, <1>6
<1>11. /\ Less \/ More \/ (x = u /\ y = v /\ z = w)
       /\ Less => ~More /\ ~(x = u /\ y = v /\ z = w)
  BY <1>2
<1>12. Scoring!Before(a, b) <=> Less
  BY <1>7, <1>9
<1>13. Scoring!Sound(c)
  BY <1>1
<1> QED
  <2> HIDE DEF Less, More
  <2> QED BY <1>3, <1>4, <1>10, <1>11, <1>12, <1>13 DEF a, b


\* A score that names a leader names the best of the sound candidates, and
\* promotion's comparison agrees with it.
LEMMA ChosenIsBest ==
  ASSUME Scoring!ScoringConstants, NEW s, Chosen(s)
  PROVE  /\ Scoring!Sound(s.winner) /\ Scoring!AssertSafeScore(s)
         /\ \A c \in Scoring!Candidates : Scoring!Sound(c) => ~Scoring!Better(c, s.winner)
<1> DEFINE rs == Scoring!Scored
<1>1. DOMAIN rs = {0, 1}
  BY DEF Scoring!Scored, Scoring!Candidates
<1>2. /\ Scoring!Eligible(rs) = {c \in {0, 1} : rs[c].eligible}
      /\ Lead = {c \in Scoring!Eligible(rs) :
                   \A d \in Scoring!Eligible(rs) : ~Scoring!Before(rs[d], rs[c])}
  BY <1>1 DEF Lead, Scoring!Eligible, Scoring!Leaders
<1>3. s.winner \in Lead /\ s.winner \in {0, 1} /\ rs[s.winner].eligible
  BY <1>2 DEF Chosen
<1>4. ASSUME NEW c \in {0, 1}, Scoring!Sound(c) PROVE rs[c].eligible
  <2>1. rs[c] = Scoring!ToReceipt(Scoring!Receipt(results[c])) /\ results[c] \in Scoring!Results
    BY DEF Chosen, Compared, Scoring!Scored, Scoring!Candidates
  <2>2. Scoring!Safe
    BY <1>4 DEF Scoring!Sound, Scoring!Safe, Scoring!Ledger
  <2>3. results[c].status = "completed" /\ results[c].checked /\ results[c].failed = {}
    BY <1>4, <2>1 DEF Scoring!Sound, Scoring!Results
  <2> DEFINE r == Scoring!Receipt(results[c])
  <2>4. /\ r.replayCompatible /\ r.fullyKnown /\ r.fullyCompensable
        /\ r.deliveryCompleted /\ r.passed
    BY <2>2, <2>3 DEF Scoring!Receipt
  <2> HIDE DEF r
  <2>5. Scoring!ToReceipt(r).eligible
    BY <2>4 DEF Scoring!ToReceipt
  <2> QED BY <2>1, <2>5 DEF r
<1>5. Scoring!Sound(s.winner) /\ Scoring!Safe
  <2>1. Scoring!Sound(s.winner)
    BY <1>3, BeforeIsBetter DEF Chosen
  <2> QED BY <2>1 DEF Scoring!Sound, Scoring!Safe, Scoring!Ledger
<1>6. ASSUME NEW c \in {0, 1}, rs[c].eligible PROVE ~Scoring!Better(c, s.winner)
  <2>1. ~Scoring!Before(rs[c], rs[s.winner])
    BY <1>2, <1>3, <1>6
  <2> QED BY <1>3, <1>6, <2>1, BeforeIsBetter DEF Chosen
<1>7. \A c \in Scoring!Candidates : Scoring!Sound(c) => ~Scoring!Better(c, s.winner)
  BY <1>4, <1>6 DEF Scoring!Candidates
<1> DEFINE Ties(w) == {d \in Scoring!Eligible(rs) : rs[d].score = rs[w].score}
<1>8. SUFFICES \E w \in Scoring!Eligible(rs) :
                 /\ \A d \in Scoring!Eligible(rs) \ {w} : Scoring!PromotionBefore(rs, w, d)
                 /\ \/ Cardinality(Ties(w)) = 1 /\ w = s.winner
                    \/ Cardinality(Ties(w)) = 2 /\ s.tie # Nothing /\ s.tie = s.winner
  BY <1>5, <1>7, SameCounting DEF Scoring!AssertSafeScore, Chosen
<1>9. CASE Lead = {s.winner}
  <2>1. ASSUME NEW d \in Scoring!Eligible(rs) \ {s.winner}
        PROVE  Scoring!Before(rs[s.winner], rs[d]) /\ rs[d].score # rs[s.winner].score
    <3>1. d \in {0, 1} /\ rs[d].eligible /\ d \notin Lead
      BY <1>2, <1>9, <2>1
    <3>2. PICK e \in {0, 1} : rs[e].eligible /\ Scoring!Before(rs[e], rs[d])
      BY <1>2, <2>1, <3>1
    <3>3. Scoring!Better(e, d)
      BY <3>1, <3>2, BeforeIsBetter DEF Chosen
    <3>4. e # d
      BY <3>1, <3>3, BeforeIsBetter DEF Chosen
    <3>5. e = s.winner
      BY <1>3, <2>1, <3>1, <3>2, <3>4
    <3>6. rs[s.winner].score # rs[d].score
      BY <1>3, <3>1, <3>3, <3>5, BeforeIsBetter DEF Chosen
    <3> QED BY <3>2, <3>5, <3>6
  <2>2. Ties(s.winner) = {s.winner}
    BY <1>2, <1>3, <2>1
  <2>3. Cardinality(Ties(s.winner)) = 1
    BY <2>2, FS_Singleton
  <2>4. \A d \in Scoring!Eligible(rs) \ {s.winner} : Scoring!PromotionBefore(rs, s.winner, d)
    BY <2>1 DEF Scoring!PromotionBefore
  <2> QED BY <1>2, <1>3, <2>3, <2>4
<1>10. CASE Lead = {0, 1} /\ s.tie = s.winner
  <2>1. Scoring!Eligible(rs) = {0, 1} /\ rs[0].eligible /\ rs[1].eligible
    BY <1>2, <1>10
  <2>2. ~Scoring!Before(rs[0], rs[1]) /\ ~Scoring!Before(rs[1], rs[0])
    BY <1>2, <1>10, <2>1
  <2>3. rs[0].score = rs[1].score
    BY <2>1, <2>2, BeforeIsBetter DEF Chosen
  <2>4. Ties(0) = {0, 1}
    BY <2>1, <2>3
  <2>5. Cardinality(Ties(0)) = 2
    BY <2>4, PairSizes
  <2>6. Scoring!PromotionBefore(rs, 0, 1)
    BY <2>3 DEF Scoring!PromotionBefore
  <2>7. s.tie # Nothing
    BY <1>3, <1>10 DEF Scoring!ScoringConstants, Scoring!Candidates
  <2>8. \A d \in Scoring!Eligible(rs) \ {0} : d = 1
    BY <2>1
  <2> HIDE DEF Ties, rs
  <2> QED BY <1>10, <2>1, <2>5, <2>6, <2>7, <2>8
<1> QED BY <1>9, <1>10 DEF Chosen

\* There is no score at first.
LEMMA ScoringInit == Scoring!ScoringConstants /\ Scoring!Init => ScoringInv
BY DEF Scoring!ScoringConstants, Scoring!Init, ScoringInv

\* Leaders stay what they are while candidates, receipts and effects do.
LEMMA ScoringFrame ==
  ASSUME UNCHANGED <<attested, delivery, results, receipts>>
  PROVE  Compared' = Compared /\ Lead' = Lead /\ Scoring!Scored' = Scoring!Scored
<1>1. Compared' = Compared
  BY DEF Compared, Scoring!Receipt, Scoring!Safe, Scoring!Ledger
<1>2. Scoring!Scored' = Scoring!Scored
  BY DEF Scoring!Scored
<1>3. Lead' = Lead
  BY <1>2 DEF Lead, Scoring!Leaders, Scoring!Eligible
<1> QED BY <1>1, <1>2, <1>3

\* Every step of policy, runs, comparison, critic, write and promotion keeps it.
LEMMA ScoringStep ==
  Scoring!ScoringConstants /\ ScoringInv /\ [Scoring!Next]_(Scoring!vars) => ScoringInv'
<1> SUFFICES ASSUME Scoring!ScoringConstants, ScoringInv, [Scoring!Next]_(Scoring!vars)
             PROVE  ScoringInv'
  OBVIOUS
<1>1. CASE Scoring!Decide
  <2>1. /\ stage = "decide" /\ stage' \in {"run", "done"} /\ score' = score
        /\ outcome' # "promotion_failed"
    BY <1>1 DEF ScoringInv, Scoring!Decide, Scoring!Goto, Scoring!Stop
  <2> QED BY <2>1 DEF ScoringInv
<1>2. CASE Scoring!CandidatesRun
  <2>1. /\ stage = "run" /\ stage' = "score" /\ score' = score /\ outcome' = outcome
        /\ results' \in [{0, 1} -> Scoring!Results] /\ attested' = attested
        /\ receipts' = [c \in {0, 1} |-> Scoring!Receipt(results'[c])]
    BY <1>2 DEF Scoring!CandidatesRun, Scoring!Goto, Scoring!Candidates
  <2>2. Compared'
    BY <2>1 DEF Compared, Scoring!Receipt, Scoring!Safe, Scoring!Ledger
  <2> QED BY <2>1, <2>2 DEF ScoringInv
<1>3. ASSUME UNCHANGED <<attested, delivery, results, receipts, score>>, Chosen(score)
      PROVE  Chosen(score)'
  BY <1>3, ScoringFrame DEF Chosen
<1>4. CASE Scoring!Resolve
  <2>1. /\ stage = "score" /\ Compared /\ score' = score
        /\ UNCHANGED <<attested, delivery, results, receipts>>
    BY <1>4 DEF Scoring!Resolve, Scoring!inputs, ScoringInv
  <2>2. Compared' /\ Lead' = Lead
    BY <2>1, ScoringFrame
  <2>3. Lead \in SUBSET {0, 1}
    BY DEF Lead, Scoring!Leaders, Scoring!Eligible, Scoring!Scored, Scoring!Candidates
  <2>4. score # Nothing => Chosen(score)'
    BY <1>3, <2>1 DEF ScoringInv
  <2>5. CASE score # Nothing /\ stage' = "promote" /\ outcome' = outcome
    BY <2>1, <2>2, <2>4, <2>5 DEF ScoringInv
  <2>6. CASE score = Nothing /\ stage' = "done" /\ outcome' = "no_eligible_candidate"
    BY <2>1, <2>6 DEF ScoringInv
  <2>7. CASE /\ score = Nothing /\ Scoring!Cardinality(Lead) = 2
             /\ stage' = "critic" /\ outcome' = outcome
    <3>1. Lead = {0, 1}
      BY <2>3, <2>7, PairSizes, SameCounting
    <3> QED BY <2>1, <2>2, <2>7, <3>1 DEF ScoringInv
  <2>8. CASE /\ score = Nothing /\ Scoring!Cardinality(Lead) = 1 /\ stage' = "persist"
             /\ outcome' = outcome
             /\ found' = [winner |-> CHOOSE c \in Lead : TRUE, receipts |-> Scoring!Scored,
                          tie |-> Nothing]
    <3>1. PICK x \in {0, 1} : Lead = {x}
      BY <2>3, <2>8, PairSizes, SameCounting
    <3>2. Lead = {found'.winner} /\ found'.receipts = Scoring!Scored
      BY <2>8, <3>1
    <3>3. Chosen(found)'
      BY <2>1, <3>2, ScoringFrame DEF Chosen
    <3> QED BY <2>1, <2>2, <2>8, <3>3 DEF ScoringInv
  <2> QED BY <1>4, <2>5, <2>6, <2>7, <2>8 DEF Scoring!Resolve, Scoring!Goto, Scoring!Stop, Lead
<1>5. CASE \E c \in Scoring!Candidates : Scoring!CriticDecides(c)
  <2>1. PICK c \in {0, 1} : Scoring!CriticDecides(c)
    BY <1>5 DEF Scoring!Candidates
  <2>2. /\ stage = "critic" /\ stage' = "persist" /\ score' = score /\ outcome' = outcome
        /\ UNCHANGED <<attested, delivery, results, receipts>>
        /\ found'.winner = c /\ found'.receipts = Scoring!Scored /\ found'.tie = c
    BY <2>1 DEF Scoring!CriticDecides, Scoring!Goto, Scoring!inputs
  <2>3. Compared' /\ Lead' = {0, 1} /\ found'.receipts = Scoring!Scored'
    BY <2>2, ScoringFrame DEF ScoringInv
  <2>4. Chosen(found)'
    BY <2>2, <2>3 DEF Chosen
  <2>5. score # Nothing => Chosen(score)'
    BY <1>3, <2>2 DEF ScoringInv
  <2> QED BY <2>2, <2>3, <2>4, <2>5 DEF ScoringInv
<1>6. CASE Scoring!CriticFails
  <2>1. /\ stage' = "done" /\ score' = score /\ outcome' # "promotion_failed"
        /\ UNCHANGED <<attested, delivery, results, receipts>>
    BY <1>6 DEF Scoring!CriticFails, Scoring!Goto, Scoring!Stop, Scoring!inputs
  <2>2. score # Nothing => Chosen(score)'
    BY <1>3, <2>1 DEF ScoringInv
  <2> QED BY <2>1, <2>2 DEF ScoringInv
<1>7. CASE Scoring!Persist
  <2>1. /\ stage = "persist" /\ stage' = "promote" /\ score' = found /\ outcome' = outcome
        /\ UNCHANGED <<attested, delivery, results, receipts>>
    BY <1>7 DEF Scoring!Persist, Scoring!Goto, Scoring!inputs
  <2>2. Compared' /\ Chosen(score)'
    BY <2>1, ScoringFrame DEF ScoringInv, Chosen
  <2> QED BY <2>1, <2>2 DEF ScoringInv
<1>8. CASE Scoring!Promote
  <2>1. Scoring!AssertSafeScore(score)
    BY <1>8, ChosenIsBest DEF Scoring!Promote, ScoringInv
  <2>2. /\ stage = "promote" /\ stage' = "done" /\ score' = score /\ outcome' = "promoted"
        /\ UNCHANGED <<attested, delivery, results, receipts>>
    BY <1>8, <2>1 DEF Scoring!Promote, Scoring!Goto, Scoring!Stop, Scoring!inputs
  <2>3. Chosen(score)'
    BY <1>3, <2>2 DEF ScoringInv
  <2> QED BY <2>2, <2>3 DEF ScoringInv
<1>9. CASE Scoring!Crash
  <2>1. /\ stage \in {"critic", "persist", "promote"} /\ stage' = "score" /\ score' = score
        /\ outcome' = outcome /\ UNCHANGED <<attested, delivery, results, receipts>>
    BY <1>9 DEF Scoring!Crash, Scoring!Goto, Scoring!inputs
  <2>2. Compared'
    BY <2>1, ScoringFrame DEF ScoringInv
  <2>3. score # Nothing => Chosen(score)'
    BY <1>3, <2>1 DEF ScoringInv
  <2> QED BY <2>1, <2>2, <2>3 DEF ScoringInv
<1>10. CASE UNCHANGED Scoring!vars
  BY <1>10, ScoringFrame DEF Scoring!vars, ScoringInv, Chosen
<1> QED BY <1>1, <1>2, <1>4, <1>5, <1>6, <1>7, <1>8, <1>9, <1>10
    DEF Scoring!Next, Scoring!Own, Scoring!Awaited, Scoring!Done

\* A score names a leader of the comparison from the moment it is computed, and a
\* crash loses it or keeps it whole (scoreCompletedCandidates, runLocked).
THEOREM ScoringInvariant ==
  ASSUME Scoring!ScoringConstants
  PROVE  Scoring!Spec => []ScoringInv
<1> QED BY ScoringInit, ScoringStep, PTL DEF Scoring!Spec

\* The candidate that a durable score names completed with known effects, and no
\* such candidate is better by risks, paths and bytes (scoreCandidates).
THEOREM BestCandidateWins ==
  ASSUME Scoring!ScoringConstants
  PROVE  Scoring!Spec => []Scoring!WinnerIsBest
<1>1. ScoringInv => Scoring!WinnerIsBest
  BY ChosenIsBest DEF ScoringInv, Scoring!WinnerIsBest
<1> QED BY <1>1, ScoringInvariant, PTL

\* Promotion's own comparison never refuses the coordinator's winner
\* (assertSafeScore).
THEOREM PromotionAccepts ==
  ASSUME Scoring!ScoringConstants
  PROVE  Scoring!Spec => []Scoring!PromotionAgrees
<1>1. ScoringInv => Scoring!PromotionAgrees
  BY DEF ScoringInv, Scoring!PromotionAgrees
<1> QED BY <1>1, ScoringInvariant, PTL
=============================================================================
