---------------------------- MODULE WorkflowFork ----------------------------
(***************************************************************************)
(* Forking a workflow at a checkpoint (src/workflow/forks.ts and           *)
(* src/workspace/worktree-manager.ts): the lineage of the checkpoint is    *)
(* copied into a new thread beside a new Git worktree, and both are taken  *)
(* back when a later step fails.  Several calls may name the same fork     *)
(* thread, and processes die between any two steps.                        *)
(*                                                                         *)
(* A thread is the sequence of its checkpoints; a fork keeps the           *)
(* identities of those it copies, and the ancestors of a checkpoint are    *)
(* those before it.  Pending writes go with their checkpoint, interrupts   *)
(* excepted; namespaces of subgraphs are left out.                         *)
(*                                                                         *)
(* FileCheckpointSaver answers reads from memory: it reads every thread    *)
(* when it is opened, and a thread again when it writes that thread.       *)
(***************************************************************************)
EXTENDS Naturals, Sequences, SequencesExt, FiniteSets

CONSTANTS
  Src,          \* the thread that is there from the start
  PiForks,      \* fresh thread identities of forks made by the session bridge
  NamedForks,   \* fork threads that users name in the fork action
  Pi,           \* the caller behind the session bridge
  Dispatchers,  \* callers of the fork action
  None          \* no thread, manifest or path

Callers == {Pi} \cup Dispatchers
Forks == PiForks \cup NamedForks
Threads == {Src} \cup Forks

ASSUME ForkConstants ==
  /\ Src \notin Forks /\ PiForks \cap NamedForks = {}
  /\ Pi \notin Dispatchers /\ None \notin Threads \cup Callers
  /\ None \notin [src : Threads, last : Threads \X Nat, path : Callers]

VARIABLES
  thr,        \* the checkpoint threads
  seen,       \* the threads as the saver of each caller last read them
  made,       \* how many checkpoints each thread's runs have put, deleted ones
              \* included: an identity is never used again
  man,        \* the manifest of each fork: its call's source and checkpoint
  wt,         \* the worktrees of each fork, named by the call that adds them
  dirty,      \* the source repository has uncommitted changes
  call,       \* control point and arguments of each caller
  returned,   \* what each successful call promised: fork -> lineage
  orphaned,   \* forks that a call which could not undo itself left something of
  disturbed,  \* forks that were joined by a second call, run or read by the session
              \* bridge before they were whole, that a process died in, or whose
              \* worktree a user removed
  budget      \* what may still happen: bounds of the environment

forkVars == <<thr, seen, made, man, wt, dirty, call, returned, orphaned, disturbed>>

Idle == [pc |-> "idle", src |-> Src, fork |-> None, lineage |-> <<>>, path |-> None,
         copied |-> 0]

At(c, l) == call[c].pc = l
Goto(c, l) == call' = [call EXCEPT ![c].pc = l]
Throw(c) == call' = [call EXCEPT ![c] = Idle]
ForkOf(c) == call[c].fork

\* A run of a thread puts a new checkpoint.
NewCheckpoint(t) == <<t, made[t] + 1>>
Put(t) ==
  /\ thr' = [thr EXCEPT ![t] = Append(@, NewCheckpoint(t))]
  /\ made' = [made EXCEPT ![t] = @ + 1]

\* One unit of an environment budget is used.
Spend(kind) == budget[kind] > 0 /\ budget' = [budget EXCEPT ![kind] = @ - 1]

ForkInit ==
  /\ thr = [t \in Threads |-> IF t = Src THEN << <<Src, 1>> >> ELSE <<>>]
  /\ seen = [c \in Callers |-> thr]
  /\ made = [t \in Threads |-> IF t = Src THEN 1 ELSE 0]
  /\ man = [f \in Forks |-> None]
  /\ wt = [f \in Forks |-> {}]
  /\ dirty = FALSE
  /\ call = [c \in Callers |-> Idle]
  /\ returned = [f \in Forks |-> <<>>]
  /\ orphaned = {} /\ disturbed = {}

ForkTypeOK ==
  LET ids == Threads \X Nat
      lineages == Seq(ids)
  IN  /\ thr \in [Threads -> lineages] /\ seen \in [Callers -> [Threads -> lineages]]
      /\ made \in [Threads -> Nat]
      /\ man \in [Forks -> [src : Threads, last : ids, path : Callers] \cup {None}]
      /\ wt \in [Forks -> SUBSET Callers]
      /\ dirty \in BOOLEAN
      /\ call \in [Callers ->
           [pc : {"idle", "create", "publish", "add", "recheck", "capture", "copy",
                  "retain", "undo", "cleanup", "unlink", "done"},
            src : Threads, fork : Forks \cup {None}, lineage : lineages,
            path : Callers \cup {None}, copied : Nat]]
      /\ returned \in [Forks -> lineages]
      /\ orphaned \subseteq Forks /\ disturbed \subseteq Forks

-----------------------------------------------------------------------------
\* checkpointTree: the checkpoint and its ancestors, parents first.
Lineage(c, s, k) == SubSeq(seen[c][s], 1, k)

\* The saver of c has thread t in memory as it is in its file.
Refresh(c, t) == seen' = [seen EXCEPT ![c][t] = thr'[t]]

\* prepareClone: a fork thread with checkpoints is refused, and the ancestors
\* of the selected checkpoint are read, both as the caller's saver knows them.
PrepareClone(c, s, k, f) ==
  /\ At(c, "idle")
  /\ s # f /\ k \in 1..Len(seen[c][s])
  /\ seen[c][f] = <<>>
  /\ call' = [call EXCEPT ![c] = [Idle EXCEPT !.pc = "create", !.src = s, !.fork = f,
                                              !.lineage = Lineage(c, s, k)]]

\* createFork: the source must be clean.  An intact fork of the same source and
\* checkpoint is returned as it is, any other is a conflict.
CreateFork(c) ==
  /\ At(c, "create")
  /\ LET f == ForkOf(c)
         same == /\ man[f].src = call[c].src
                 /\ man[f].last = Last(call[c].lineage)
                 /\ man[f].path \in wt[f]
     IN  \/ /\ ~dirty /\ man[f] = None
            /\ Goto(c, "publish") /\ UNCHANGED disturbed
         \/ /\ ~dirty /\ man[f] # None /\ same
            /\ call' = [call EXCEPT ![c].pc = "capture", ![c].path = man[f].path]
            /\ disturbed' = disturbed \cup {f}
         \/ /\ dirty \/ (man[f] # None /\ ~same)
            /\ Throw(c) /\ UNCHANGED disturbed
  /\ UNCHANGED <<thr, seen, made, man, wt, dirty, returned, orphaned, budget>>

OverwriteManifest(c) ==
  /\ At(c, "publish")
  /\ man' = [man EXCEPT ![ForkOf(c)] = [src |-> call[c].src,
                                        last |-> Last(call[c].lineage), path |-> c]]
  /\ call' = [call EXCEPT ![c].pc = "add", ![c].path = c]
  /\ UNCHANGED <<thr, seen, made, wt, dirty, returned, orphaned, disturbed, budget>>

\* publishManifest: link(2) fails if somebody else's manifest came first.
PublishManifest(c) ==
  /\ At(c, "publish")
  /\ LET f == ForkOf(c)
     IN  IF man[f] = None
         THEN /\ man' = [man EXCEPT ![f] = [src |-> call[c].src,
                                            last |-> Last(call[c].lineage), path |-> c]]
              /\ call' = [call EXCEPT ![c].pc = "add", ![c].path = c]
         ELSE Throw(c) /\ UNCHANGED man
  /\ UNCHANGED <<thr, seen, made, wt, dirty, returned, orphaned, disturbed, budget>>

AddWorktree(c) ==
  /\ At(c, "add")
  /\ wt' = [wt EXCEPT ![ForkOf(c)] = @ \cup {c}]
  /\ Goto(c, "recheck")
  /\ UNCHANGED <<thr, seen, made, man, dirty, returned, orphaned, disturbed, budget>>

\* git leaves no directory behind when it fails; the manifest is unlinked.
AddFails(c) ==
  /\ At(c, "add")
  /\ man' = [man EXCEPT ![ForkOf(c)] = None]
  /\ Throw(c)
  /\ UNCHANGED <<thr, seen, made, wt, dirty, returned, orphaned, disturbed, budget>>

\* A call fails and leaves its fork as far as it has come.
Abandon(c) ==
  /\ Throw(c)
  /\ orphaned' = orphaned \cup {ForkOf(c)}
  /\ UNCHANGED <<thr, seen, made, man, wt, dirty, returned, disturbed, budget>>

\* createFork throws behind its manifest and takes nothing back: the manifest
\* could not be synced or unlinked, or the source not be looked at again.
CreateFails(c) == call[c].pc \in {"add", "recheck"} /\ Abandon(c)

\* The source changed while the worktree was added: createFork cleans up itself.
RecheckSource(c) ==
  /\ At(c, "recheck")
  /\ Goto(c, IF dirty THEN "cleanup" ELSE "capture")
  /\ UNCHANGED <<thr, seen, made, man, wt, dirty, returned, orphaned, disturbed, budget>>

\* The fork's snapshot is captured from its worktree and bound to the thread.
CaptureSnapshot(c) ==
  /\ At(c, "capture")
  /\ Goto(c, IF call[c].path \in wt[ForkOf(c)] THEN "copy" ELSE "undo")
  /\ UNCHANGED <<thr, seen, made, man, wt, dirty, returned, orphaned, disturbed, budget>>

\* copyPreparedClone: parents first; the saver refuses a checkpoint whose
\* parent is missing.
CopyCheckpoint(c) ==
  /\ At(c, "copy")
  /\ LET f == ForkOf(c)
         next == call[c].lineage[call[c].copied + 1]
         orphan == call[c].copied > 0 /\ call[c].lineage[call[c].copied] \notin Range(thr[f])
     IN  IF orphan
         THEN Goto(c, "undo") /\ UNCHANGED thr
         ELSE /\ thr' = [thr EXCEPT ![f] = IF next \in Range(@) THEN @ ELSE Append(@, next)]
              /\ call' = [call EXCEPT ![c].copied = @ + 1,
                            ![c].pc = IF call[c].copied + 1 = Len(call[c].lineage)
                                      THEN "retain" ELSE "copy"]
  /\ Refresh(c, ForkOf(c))
  /\ UNCHANGED <<made, man, wt, dirty, returned, orphaned, disturbed, budget>>

\* retainArtifacts is the last step that can fail; then the call returns.
RetainArtifacts(c) ==
  /\ At(c, "retain")
  /\ Goto(c, "done")
  /\ returned' = [returned EXCEPT ![ForkOf(c)] = call[c].lineage]
  /\ UNCHANGED <<thr, seen, made, man, wt, dirty, orphaned, disturbed, budget>>

CallFails(c) ==
  /\ call[c].pc \in {"capture", "copy", "retain"}
  /\ Goto(c, "undo")
  /\ UNCHANGED <<thr, seen, made, man, wt, dirty, returned, orphaned, disturbed, budget>>

UndoSource(c) ==
  /\ At(c, "undo")
  /\ thr' = [thr EXCEPT ![call[c].src] = <<>>] /\ Refresh(c, call[c].src)
  /\ Goto(c, "cleanup")
  /\ UNCHANGED <<made, man, wt, dirty, returned, orphaned, disturbed, budget>>

KeepThread(c) ==
  /\ At(c, "undo")
  /\ Goto(c, "cleanup")
  /\ UNCHANGED <<thr, seen, made, man, wt, dirty, returned, orphaned, disturbed, budget>>

\* The error path: the thread is deleted first, then the worktree cleaned up.
UndoThread(c) ==
  /\ At(c, "undo")
  /\ thr' = [thr EXCEPT ![ForkOf(c)] = <<>>] /\ Refresh(c, ForkOf(c))
  /\ Goto(c, "cleanup")
  /\ UNCHANGED <<made, man, wt, dirty, returned, orphaned, disturbed, budget>>

\* cleanup removes the worktree of the manifest that is there now.
CleanupWorktree(c) ==
  /\ At(c, "cleanup")
  /\ LET f == ForkOf(c)
     IN  IF man[f] = None
         THEN Throw(c) /\ UNCHANGED wt
         ELSE wt' = [wt EXCEPT ![f] = @ \ {man[f].path}] /\ Goto(c, "unlink")
  /\ UNCHANGED <<thr, seen, made, man, dirty, returned, orphaned, disturbed, budget>>

CleanupManifest(c) ==
  /\ At(c, "unlink")
  /\ man' = [man EXCEPT ![ForkOf(c)] = None]
  /\ Throw(c)
  /\ UNCHANGED <<thr, seen, made, wt, dirty, returned, orphaned, disturbed, budget>>

\* deleteThread or cleanup throws: the rest of the error path is left out.
UndoFails(c) == call[c].pc \in {"undo", "cleanup", "unlink"} /\ Abandon(c)

\* The fork action answers its user.
DispatcherReturns(c) ==
  /\ c \in Dispatchers /\ At(c, "done")
  /\ Throw(c)
  /\ UNCHANGED <<thr, seen, made, man, wt, dirty, returned, orphaned, disturbed, budget>>

\* A dispatcher's process ends and another takes its place.
DispatcherOpens(c) ==
  /\ c \in Dispatchers /\ At(c, "idle")
  /\ seen[c] # thr
  /\ seen' = [seen EXCEPT ![c] = thr]
  /\ UNCHANGED <<thr, made, man, wt, dirty, call, returned, orphaned, disturbed, budget>>

\* A user asks for a fork of some thread.
DispatcherForks(c, s, k, f) ==
  /\ c \in Dispatchers /\ f \in NamedForks
  /\ Spend("forks")
  /\ PrepareClone(c, s, k, f)
  /\ UNCHANGED <<thr, seen, made, man, wt, dirty, returned, orphaned, disturbed>>

-----------------------------------------------------------------------------
\* Environment: the user edits or commits, and removes worktrees by hand; other
\* processes run threads.
UserTouchesSource ==
  /\ Spend("edits")
  /\ dirty' = ~dirty
  /\ UNCHANGED <<thr, seen, made, man, wt, call, returned, orphaned, disturbed>>

UserRemovesWorktree(f) ==
  /\ Spend("removals")
  /\ man[f] # None /\ wt[f] # {}
  /\ wt' = [wt EXCEPT ![f] = {}]
  /\ disturbed' = disturbed \cup {f}
  /\ UNCHANGED <<thr, seen, made, man, dirty, call, returned, orphaned>>

\* A thread can be run as soon as it has a checkpoint, a half-copied fork too.
RunsUnfinished(t) == disturbed \cup {f \in Forks : f = t /\ returned[f] = <<>>}

OtherProcessRuns(t) ==
  /\ Spend("checkpoints")
  /\ thr[t] # <<>>
  /\ Put(t)
  /\ disturbed' = RunsUnfinished(t)
  /\ UNCHANGED <<seen, man, wt, dirty, call, returned, orphaned>>

CallerCrashes(c) ==
  /\ ~At(c, "idle")
  /\ Spend("crashes")
  /\ Throw(c)
  /\ seen' = [seen EXCEPT ![c] = thr]
  /\ disturbed' = disturbed \cup {ForkOf(c)}
  /\ UNCHANGED <<thr, made, man, wt, dirty, returned, orphaned>>

CallStep(c) ==
  \/ CreateFork(c) \/ PublishManifest(c)
  \/ AddWorktree(c) \/ AddFails(c) \/ CreateFails(c) \/ RecheckSource(c)
  \/ CaptureSnapshot(c) \/ CopyCheckpoint(c) \/ RetainArtifacts(c) \/ CallFails(c)
  \/ UndoThread(c) \/ CleanupWorktree(c) \/ CleanupManifest(c) \/ UndoFails(c)

ForkNext ==
  \/ \E c \in Callers : CallStep(c)
  \/ \E c \in Dispatchers :
       \/ DispatcherReturns(c)
       \/ DispatcherOpens(c)
       \/ CallerCrashes(c)
       \/ \E s \in Threads, f \in NamedForks : \E k \in 1..Len(seen[c][s]) :
            DispatcherForks(c, s, k, f)
  \/ UserTouchesSource
  \/ \E f \in Forks : UserRemovesWorktree(f)
  \/ \E t \in Threads : OtherProcessRuns(t)

-----------------------------------------------------------------------------
\* What a successful call returned stays: the whole lineage in its own thread
\* and the worktree of its manifest (forks.ts, worktree-manager.ts), whatever
\* calls for the same fork thread fail beside it.
ForkIsWhole ==
  \A f \in Forks \ disturbed :
    returned[f] # <<>> =>
      /\ IsPrefix(returned[f], thr[f])
      /\ man[f] # None
      /\ man[f].path \in wt[f]

\* A fork that failed leaves no thread, no manifest and no worktree (the catch
\* of forkWorkflowCheckpoint and createFork's own cleanup).  Only a call that
\* could not undo itself leaves something, under a manifest that names it: the
\* fork's name stays taken, and cleanup finds what is left.
FailedForkLeavesNothing ==
  \A f \in Forks \ disturbed :
    returned[f] = <<>> /\ (\A c \in Callers : ForkOf(c) # f) =>
      IF f \in orphaned
      THEN man[f] # None /\ wt[f] \subseteq {man[f].path}
      ELSE thr[f] = <<>> /\ man[f] = None /\ wt[f] = {}
=============================================================================
