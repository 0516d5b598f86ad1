------------------------ MODULE BacktrackCoordinator ------------------------
(***************************************************************************)
(* Automatic recovery of a failed delivery                                 *)
(* (src/runtime/automatic-backtrack.ts, workflow-dispatcher-run.ts,        *)
(* candidate-runner.ts, src/workflow/backtrack-coordinator*.ts): two       *)
(* candidates run in worktrees of their own, are scored, and the winner is *)
(* promoted.  Every step is durable, so a later dispatch of the same       *)
(* request goes on where an earlier one stopped.  Processes crash, the     *)
(* user edits the source, leases expire, and several processes dispatch    *)
(* the same request at once.                                               *)
(*                                                                         *)
(* The coordinator writes its state before it acts on it and works under   *)
(* the lock of the request, so its copy in memory is the durable state.    *)
(***************************************************************************)
EXTENDS CandidatePromotion

CONSTANTS
  Deltas,       \* path sets a candidate may change
  Grades,       \* scores of eligible candidates, smaller is better
  Edits,        \* contents <<path, content>> the user may write
  MaxEdits,     \* bound: edits of the source by the user
  MaxCrashes    \* bound: process crashes

ASSUME CoordinatorConstants ==
  /\ Deltas \subseteq SUBSET Paths
  /\ Grades \subseteq Nat \ {0}
  /\ Edits \subseteq Paths \X {"user", "head", "work"}
  /\ MaxEdits \in Nat /\ MaxCrashes \in Nat

VARIABLES
  bound,    \* snapshot bound to the thread's last checkpoint
  pre,      \* source snapshot at the acceptance of each process's preflight
  lock,     \* the process that holds the request's lock
  st,       \* the durable coordinator state
  worked,   \* candidates whose workflow the holder of the lock has run
  stray,    \* candidates whose workflow goes on after the lock was released
  runs,     \* how often each candidate's workflow was run
  edits, crashes

vars == <<tree, pc, ret, expired, wtVars, promotionVars,
          bound, pre, lock, st, worked, stray, runs, edits, crashes>>
coordVars == <<bound, pre, lock, worked, stray, runs, edits, crashes>>

Ineligible == 0
NoReceipt == [delta |-> {}, grade |-> Ineligible]
NoWinner == 2
NeedsAttention == {"candidate_failed", "candidate_interrupted", "no_eligible_candidate",
                   "tie_critic_failed", "promotion_failed", "promotion_incomplete"}

NoState ==
  [exists |-> FALSE, snapshot |-> HeadTree, created |-> FALSE,
   cloned |-> [c \in Candidates |-> FALSE],
   cand |-> [c \in Candidates |-> "pending"],
   receipt |-> [c \in Candidates |-> NoReceipt],
   winner |-> NoWinner, terminal |-> None, attempted |-> FALSE, cleaned |-> FALSE]

Labels == {"idle", "resume", "preflight", "lock", "create", "add0", "add1", "manifest",
           "created", "clone", "copied", "run", "score", "winner", "loser",
           "record", "recordScored", "promoting", "open", "verify", "guard", "publish",
           "rename", "rollback", "restore", "demote", "recordPromoted", "reread", "finalize",
           "finWinner", "finLoser", "unpin", "done0", "done1", "cleanup", "removed",
           "release", "cleaned", "return", "throw"}

\* Every variable holds values of its type.
TypeOK ==
  /\ WtTypeOK /\ PromotionTypeOK
  /\ pc \in [Procs -> Labels] /\ ret \in [Procs -> Labels]
  /\ bound \in Tree /\ pre \in [Procs -> Tree]
  /\ lock \in Procs \cup {None}
  /\ st \in [exists : BOOLEAN, snapshot : Tree, created : BOOLEAN,
             cloned : [Candidates -> BOOLEAN],
             cand : [Candidates -> {"pending", "running", "completed", "failed"}],
             receipt : [Candidates -> [delta : SUBSET Paths, grade : Grades \cup {Ineligible}]],
             winner : Candidates \cup {NoWinner},
             terminal : NeedsAttention \cup {None, "promoted"},
             attempted : BOOLEAN, cleaned : BOOLEAN]
  /\ worked \subseteq Candidates /\ stray \subseteq Candidates
  /\ runs \in [Candidates -> Nat]
  /\ edits \in 0..MaxEdits /\ crashes \in 0..MaxCrashes

\* One dispatch has just ended its workflow with needs_attention.  Its changes
\* may be in the tree, and the bound snapshot may be older than they are.
Init ==
  /\ tree \in {HeadTree, [HeadTree EXCEPT ![CHOOSE x \in Paths : TRUE] = "work"]}
  /\ bound \in {tree, HeadTree}
  /\ \E first \in Procs : pc = [p \in Procs |-> IF p = first THEN "preflight" ELSE "idle"]
  /\ ret = [p \in Procs |-> "idle"]
  /\ pre = [p \in Procs |-> HeadTree]
  /\ lock = None
  /\ st = NoState
  /\ worked = {} /\ stray = {} /\ runs = [c \in Candidates |-> 0]
  /\ edits = 0 /\ crashes = 0
  /\ WtInit /\ PromotionInit

Unchanged(p, l) ==
  Goto(p, l) /\ UNCHANGED <<tree, ret, expired, wtVars, promotionVars, coordVars>>

Winner == st.winner

-----------------------------------------------------------------------------
\* Dispatches

\* Every dispatch starts with a cleanup; one resumes the failed thread, the
\* others do something else.
Dispatch(p, next) ==
  /\ At(p, "idle")
  /\ CallCleanup(p, next)
  /\ UNCHANGED <<tree, expired, wtVars, promotionVars, coordVars, st>>

\* assertResumeReplayCompatible stands before the backtrack of a resumed
\* thread; the graph has ended, so the resume gives the same failed result.
Resume(p) ==
  /\ At(p, "resume")
  /\ Unchanged(p, IF tree = bound THEN "preflight" ELSE "idle")
  /\ UNCHANGED st

Preflight(p) ==
  /\ At(p, "preflight")
  /\ pre' = [pre EXCEPT ![p] = tree]
  /\ CallCleanup(p, "lock")
  /\ UNCHANGED <<tree, expired, wtVars, promotionVars, bound, lock, st, worked, stray, runs, edits, crashes>>

\* A missing checkpoint, an unsafe effect, a moved head.
PreflightRejects(p) ==
  /\ At(p, "preflight")
  /\ Unchanged(p, "idle")
  /\ UNCHANGED st

-----------------------------------------------------------------------------
\* runLocked

\* The request's lock is taken and the durable state read; a new one is written
\* (initializeCoordinatorState); a state of another snapshot is a conflict.
AcquireRequest(p) ==
  /\ At(p, "lock") /\ lock = None
  /\ lock' = p
  /\ pre' = [pre EXCEPT ![p] = HeadTree]
  /\ \/ /\ ~st.exists /\ tree = pre[p]
        /\ st' = [st EXCEPT !.exists = TRUE, !.snapshot = pre[p]]
        /\ Goto(p, "create")
     \/ /\ IF st.exists THEN st.snapshot # pre[p] ELSE tree # pre[p]
        /\ Goto(p, "throw") /\ UNCHANGED st
     \/ /\ st.exists /\ st.snapshot = pre[p]
        /\ Goto(p, IF st.terminal # None THEN "finalize"
                   ELSE IF st.created THEN "clone" ELSE "create")
        /\ UNCHANGED st
  /\ UNCHANGED <<tree, ret, expired, wtVars, promotionVars, bound, worked, stray, runs, edits, crashes>>

WriteCreated(p) ==
  /\ At(p, "created")
  /\ st' = [st EXCEPT !.created = TRUE]
  /\ Unchanged(p, "clone")

NextClone == IF ~st.cloned[0] THEN 0 ELSE 1

\* cloneWorkflowCheckpoint deletes a populated target and copies again; it
\* deletes what it copied when it fails (module WorkflowFork).
CloneThread(p) ==
  /\ At(p, "clone") /\ \E c \in Candidates : ~st.cloned[c]
  /\ \/ thr' = [thr EXCEPT ![NextClone] = "cloned"] /\ Goto(p, "copied")
     \/ thr' = [thr EXCEPT ![NextClone] = None] /\ Goto(p, "throw")
  /\ UNCHANGED <<tree, ret, expired, mlock, man, wt, promotionVars, coordVars, st>>

WriteCloned(p) ==
  /\ At(p, "copied")
  /\ st' = [st EXCEPT !.cloned[NextClone] = TRUE]
  /\ Unchanged(p, "clone")

Terminalize(p, kind) ==
  /\ st' = [st EXCEPT !.terminal = kind]
  /\ Unchanged(p, "finalize")

\* Mutant: a candidate without a receipt is simply run again.
InterruptedIgnored == FALSE

\* A candidate that ran in a dead process is not run again.
Interrupted == \E c \in Candidates : st.cand[c] = "running"

CheckInterrupted(p) ==
  /\ At(p, "clone") /\ \A c \in Candidates : st.cloned[c]
  /\ Interrupted
  /\ Terminalize(p, "candidate_interrupted")

\* runCandidatePair: both pending candidates become running in one write.
StartCandidates(p) ==
  /\ At(p, "clone") /\ \A c \in Candidates : st.cloned[c]
  /\ ~Interrupted
  /\ st' = [st EXCEPT !.cand =
              [c \in Candidates |-> IF st.cand[c] = "pending" THEN "running" ELSE st.cand[c]]]
  /\ Unchanged(p, "run")

\* The workflow of the candidate works on its thread and its worktree.
CandidateWorks(p, c) ==
  /\ At(p, "run") /\ st.cand[c] = "running" /\ c \notin worked
  /\ \E d \in Deltas :
       wt' = [wt EXCEPT ![c].files = [x \in Paths |-> IF x \in d THEN Cand(c) ELSE @[x]]]
  /\ thr' = [thr EXCEPT ![c] = "ran"]
  /\ worked' = worked \cup {c} /\ runs' = [runs EXCEPT ![c] = @ + 1]
  /\ UNCHANGED <<tree, pc, ret, expired, mlock, man, promotionVars,
                 bound, pre, lock, st, stray, edits, crashes>>

\* candidateReceipt takes the delta against the source as it is now.
CandidateCompletes(p, c) ==
  /\ At(p, "run") /\ st.cand[c] = "running" /\ c \in worked
  /\ \E g \in Grades \cup {Ineligible} :
       st' = [st EXCEPT !.cand[c] = "completed",
                        !.receipt[c] = [delta |-> Delta(c), grade |-> g]]
  /\ Unchanged(p, "run")

CandidateFails(p, c) ==
  /\ At(p, "run") /\ st.cand[c] = "running"
  /\ st' = [st EXCEPT !.cand[c] = "failed"]
  /\ Unchanged(p, "run")

\* A receipt cannot be written: Promise.all rejects, and with it run, while the
\* workflow of the other candidate goes on without the request's lock; what it
\* would record is chained to the write that failed.
RecordFails(p) ==
  /\ At(p, "run") /\ \E c \in Candidates : st.cand[c] = "running"
  /\ stray' = {c \in Candidates \ worked : st.cand[c] = "running"}
  /\ Goto(p, "throw")
  /\ UNCHANGED <<tree, ret, expired, wtVars, promotionVars,
                 bound, pre, lock, st, worked, runs, edits, crashes>>

StrayWorks(c) ==
  /\ c \in stray
  /\ \E d \in Deltas :
       wt' = [wt EXCEPT ![c].files = [x \in Paths |-> IF x \in d THEN Cand(c) ELSE @[x]]]
  /\ thr' = [thr EXCEPT ![c] = "ran"]
  /\ stray' = stray \ {c} /\ runs' = [runs EXCEPT ![c] = @ + 1]
  /\ UNCHANGED <<tree, pc, ret, expired, mlock, man, promotionVars,
                 bound, pre, lock, st, worked, edits, crashes>>

Settled == \A c \in Candidates : st.cand[c] # "running"

CandidatesFailed(p) ==
  /\ At(p, "run") /\ Settled
  /\ \E c \in Candidates : st.cand[c] = "failed"
  /\ Terminalize(p, "candidate_failed")

\* resolveCandidateScore: the best eligible candidate; a critic breaks a tie.
Eligible == {c \in Candidates : st.receipt[c].grade # Ineligible}
Best == {c \in Eligible : \A d \in Eligible : st.receipt[c].grade <= st.receipt[d].grade}

Score(p) ==
  /\ At(p, "run") /\ Settled
  /\ \A c \in Candidates : st.cand[c] = "completed"
  /\ \/ /\ st.winner # NoWinner
        /\ Unchanged(p, "winner") /\ UNCHANGED st
     \/ /\ st.winner = NoWinner
        /\ \E w \in Best : st' = [st EXCEPT !.winner = w]
        /\ Unchanged(p, "winner")
     \/ /\ st.winner = NoWinner /\ Eligible = {}
        /\ Terminalize(p, "no_eligible_candidate")
     \/ /\ st.winner = NoWinner /\ Cardinality(Best) = 2
        /\ Terminalize(p, "tie_critic_failed")

\* promote: the durable record decides.
MarkPair(p) ==
  /\ \/ SetStatus(p, "winner", Winner, "winner", "loser")
     \/ SetStatus(p, "loser", Other(Winner), "loser", "record")
  /\ UNCHANGED <<promotionVars, coordVars, st>>

ReadRecord(p) ==
  /\ At(p, "record")
  /\ CASE rec = "promoted"  -> Terminalize(p, "promoted")
       [] rec = "promoting" -> Terminalize(p, "promotion_incomplete")
       [] OTHER             -> Unchanged(p, "recordScored") /\ UNCHANGED st

PromoteWinner(p) ==
  /\ Winner \in Candidates
  /\ Promote(p, Winner, st.snapshot, st.receipt[Winner].delta)
  /\ UNCHANGED <<coordVars, st>>

\* Mutant: whatever the record says, the end of promote is taken for an error.
RereadIgnored(p) ==
  /\ At(p, "reread")
  /\ Terminalize(p, "promotion_failed")

RereadRecord(p) ==
  /\ At(p, "reread")
  /\ Terminalize(p, IF rec = "promoted" THEN "promoted" ELSE "promotion_failed")

-----------------------------------------------------------------------------
\* finalizeTerminal

Finalize(p) ==
  /\ At(p, "finalize")
  /\ Unchanged(p, CASE st.cleaned -> "return"
                    [] ~st.cleaned /\ st.terminal = "promoted" -> "finWinner"
                    [] OTHER -> "done0")
  /\ UNCHANGED st

FinalizePair(p) ==
  /\ \/ SetStatus(p, "finWinner", Winner, "finalized", "finLoser")
     \/ SetStatus(p, "finLoser", Other(Winner), "loser", "unpin")
     \/ SetStatus(p, "done0", 0, "completed", "done1")
     \/ Unpin(p, Other(Winner))
  /\ UNCHANGED <<promotionVars, coordVars, st>>

FinalizeSecond(p) ==
  /\ At(p, "done1") /\ mlock = None
  /\ man' = [man EXCEPT !.status[1] = "completed"]
  /\ CallCleanup(p, "cleaned")
  /\ UNCHANGED <<tree, mlock, wt, thr, expired, promotionVars, coordVars, st>>

WriteCleanup(p) ==
  /\ At(p, "cleaned")
  /\ st' = [st EXCEPT !.attempted = TRUE,
                      !.cleaned = st.terminal # "promoted" \/ man.removed[Other(Winner)]]
  /\ Unchanged(p, "return")

\* The outcome is returned, or an error thrown: the request's lock is released.
Return(p) ==
  /\ pc[p] \in {"return", "throw"}
  /\ lock' = None /\ worked' = {}
  /\ Goto(p, "idle")
  /\ UNCHANGED <<tree, ret, expired, wtVars, promotionVars, bound, pre, st, stray, runs, edits, crashes>>

-----------------------------------------------------------------------------
\* Environment

\* The user changes a path of the source, or changes it back.
Edit(x, v) ==
  /\ edits < MaxEdits /\ tree[x] # v
  /\ tree' = [tree EXCEPT ![x] = v]
  /\ edits' = edits + 1
  /\ UNCHANGED <<pc, ret, expired, wtVars, promotionVars, bound, pre, lock, st, worked, stray, runs, crashes>>

\* The process dies; its locks are taken over as those of a dead owner.  A
\* candidate that dies with it is one that does no work any more.
Crash(p) ==
  /\ crashes < MaxCrashes /\ ~At(p, "idle")
  /\ crashes' = crashes + 1
  /\ Goto(p, "idle")
  /\ ret' = [ret EXCEPT ![p] = "idle"] /\ pre' = [pre EXCEPT ![p] = HeadTree]
  /\ CloseTransaction(p)
  /\ lock' = IF lock = p THEN None ELSE lock
  /\ worked' = IF lock = p THEN {} ELSE worked
  /\ mlock' = IF mlock = p THEN None ELSE mlock
  /\ UNCHANGED <<tree, expired, man, wt, thr, rec, pubs, lost, torn, bound, st, stray, runs, edits>>

-----------------------------------------------------------------------------
Manager(p) ==
  /\ \/ CreatePair(p, st.snapshot)
     \/ \E c \in Candidates : AddWorktree(p, c, st.snapshot)
     \/ AddFails(p) \/ WriteManifest(p) \/ Cleanup(p)
  /\ UNCHANGED <<promotionVars, coordVars, st>>

Candidate(p, c) == CandidateWorks(p, c) \/ CandidateCompletes(p, c) \/ CandidateFails(p, c)

Step(p) ==
  \/ Resume(p) \/ Preflight(p) \/ PreflightRejects(p) \/ AcquireRequest(p)
  \/ Manager(p) \/ WriteCreated(p) \/ CloneThread(p) \/ WriteCloned(p)
  \/ CheckInterrupted(p) \/ StartCandidates(p) \/ RecordFails(p) \/ CandidatesFailed(p) \/ Score(p)
  \/ MarkPair(p) \/ ReadRecord(p) \/ PromoteWinner(p) \/ RereadRecord(p)
  \/ Finalize(p) \/ FinalizePair(p) \/ FinalizeSecond(p) \/ WriteCleanup(p) \/ Return(p)

Next ==
  \/ \E p \in Procs : \/ Dispatch(p, "resume") \/ Dispatch(p, "idle")
                      \/ Step(p) \/ Crash(p)
                      \/ \E c \in Candidates : Candidate(p, c)
  \/ \E c \in Candidates : StrayWorks(c)
  \/ \E e \in Edits : Edit(e[1], e[2])
  \/ LeaseExpires /\ UNCHANGED <<promotionVars, coordVars, st>>

Spec == Init /\ [][Next]_vars

-----------------------------------------------------------------------------
\* Properties

\* Safety, over crashes, reruns and concurrent dispatches: the workflow of a
\* candidate is run at most once (backtrack-coordinator.ts:87).
CandidateRunsOnce == \A c \in Candidates : runs[c] <= 1

\* However often the request is rerun, a publication is accepted again only
\* when the record of the one before could not be written
\* (candidate-promotion.ts:116-135).
PromotesOnce == pubs <= lost + 1

\* The outcome agrees with what happened: promoted is only reported of a
\* published best candidate, and a publication is reported as a failure only
\* when it is incomplete or its record could not be written; then the outcome
\* is promotion_failed (backtrack-coordinator.ts:113-162).
OutcomeMatchesRecord ==
  /\ st.terminal = "promoted" => rec = "promoted" /\ pubs = lost + 1 /\ Winner \in Best
  /\ st.terminal \in NeedsAttention =>
       /\ rec # "promoted"
       /\ pubs > lost => st.terminal = "promotion_incomplete"
       /\ lost > 0 => st.terminal \in {"promotion_incomplete", "promotion_failed"}

\* A failed recovery leaves nothing of a candidate in the source, unless it
\* says that a promotion stopped half-way, or that the promotion failed and it
\* was the rollback or the record of a publication that failed
\* (source-tree-transaction.ts:94-141, candidate-promotion.ts:124-133).
BeforePromotion ==
  {"candidate_failed", "candidate_interrupted", "no_eligible_candidate", "tie_critic_failed"}
FailureLeavesNoCandidate ==
  \/ st.terminal \in BeforePromotion
  \/ st.terminal = "promotion_failed" /\ lost = 0 /\ ~torn
  => \A x \in Paths : tree[x] \notin {"cand0", "cand1"}

\* Cleanup of one dispatch beside the recovery of another removes a worktree
\* only when it lost a promotion that is durable, and a thread only after its
\* worktree (candidate-worktree-cleanup.ts:90, automatic-backtrack.ts:199).
RemovesOnlyLosers ==
  [][\A c \in Candidates :
       /\ man.exists /\ wt[c].exists /\ ~wt'[c].exists =>
            /\ expired /\ st.terminal = "promoted" /\ c # Winner
            /\ \A x \in Paths : wt[c].files[x] = "head"
       /\ thr[c] = "ran" /\ thr'[c] # "ran" => man.removed[c] /\ ~wt[c].exists]_vars
=============================================================================
