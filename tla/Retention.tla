----------------------------- MODULE Retention -----------------------------
(***************************************************************************)
(* What a repository keeps of its workflows                                *)
(* (src/runtime/repository-services.ts, src/persistence/artifact-store.ts  *)
(* and reachability.ts, src/cache/read-only-cache.ts).  Evidence and       *)
(* worker outputs are content-addressed artifacts.  A running workflow     *)
(* owns the evidence it stores; its result makes threads and checkpoints   *)
(* the owners and compacts the rest.  Every operation on artifacts and     *)
(* retention index runs under one lock, so it is one step here; a dispatch *)
(* is a sequence of such steps and may die between them.  The cache is a   *)
(* file that each dispatch reads when it opens and writes as a whole.      *)
(* Repository memory, a file of the same kind that holds the summaries of  *)
(* completed runs, is left out.  Simplified: one store, where the code has *)
(* one per repository root, so that a dispatch in a fork's worktree has a  *)
(* store of its own; and one cached task at a time in each dispatch, where *)
(* the specialists of a dispatch run in parallel on one copy of the cache. *)
(***************************************************************************)
EXTENDS Naturals

CONSTANTS
  Services,    \* dispatches: each has its own RepositoryServices
  Threads,     \* threads of workflows
  Forks,       \* threads made by the fork action
  Artifacts,   \* digests
  Snapshots,   \* repository snapshots
  MaxDispatches, \* bound on the dispatches opened
  None         \* no thread, no artifact

AllThreads == Threads \cup Forks

ASSUME RetentionConstants ==
  /\ Threads \cap Forks = {}
  /\ None \notin AllThreads /\ None \notin Artifacts
  /\ Snapshots # {}
  /\ MaxDispatches \in Nat

VARIABLES
  blobs,        \* stored artifacts
  active,       \* owner active:<thread> of the artifact manifest
  cacheOwned,   \* artifacts owned by cache:<digest>
  threadRefs,   \* retention owner thread:<thread>
  checkRefs,    \* owners checkpoint:<id> and mutation:<id> of the thread, which
                \*   are added and never released
  pausedRefs,   \* owner interrupt:<thread>
  forkRefs,     \* owner fork:<thread>
  evidence,     \* references in the checkpoints of each thread
  cacheFile,    \* artifact of each key
  repo,         \* the repository's snapshot now
  pc, on,       \* control point and thread of each dispatch
  target,       \* the fork a dispatch makes
  put,          \* evidence stored but not yet in a checkpoint
  refs,         \* references of the result, or of the forked checkpoint
  status,       \* status of the result
  key, out,     \* cache key and output of the read-only task in progress
  cache,        \* the dispatch's copy of the cache
  shared,       \* threads that two dispatches had open at once
  origin,       \* the thread a fork was made from
  left          \* dispatches still to come

stores == <<blobs, active, cacheOwned, threadRefs, checkRefs, pausedRefs, forkRefs>>
locals == <<on, target, put, refs, status, key, out, cache>>
ghosts == <<shared, origin, left>>
vars == <<stores, evidence, cacheFile, repo, pc, locals, ghosts>>

NoEntries == [x \in Snapshots |-> None]

Labels == {"idle", "run", "work", "store", "unpin", "compact",
           "reconcile", "copy", "retain"}

Init ==
  /\ blobs = {} /\ cacheOwned = {}
  /\ active = [t \in AllThreads |-> {}]
  /\ threadRefs = [t \in AllThreads |-> {}]
  /\ checkRefs = [t \in AllThreads |-> {}]
  /\ pausedRefs = [t \in AllThreads |-> {}]
  /\ forkRefs = [f \in Forks |-> {}]
  /\ evidence = [t \in AllThreads |-> {}]
  /\ cacheFile = NoEntries
  /\ repo \in Snapshots
  /\ pc = [s \in Services |-> "idle"]
  /\ on = [s \in Services |-> None]
  /\ target = [s \in Services |-> None]
  /\ put = [s \in Services |-> {}]
  /\ refs = [s \in Services |-> {}]
  /\ status = [s \in Services |-> "none"]
  /\ key = [s \in Services |-> None]
  /\ out = [s \in Services |-> None]
  /\ cache = [s \in Services |-> NoEntries]
  /\ shared = {}
  /\ origin = [f \in Forks |-> None]
  /\ left = MaxDispatches

\* Every variable holds values of its type.
TypeOK ==
  /\ blobs \subseteq Artifacts /\ cacheOwned \subseteq Artifacts
  /\ active \in [AllThreads -> SUBSET Artifacts]
  /\ threadRefs \in [AllThreads -> SUBSET Artifacts]
  /\ checkRefs \in [AllThreads -> SUBSET Artifacts]
  /\ pausedRefs \in [AllThreads -> SUBSET Artifacts]
  /\ forkRefs \in [Forks -> SUBSET Artifacts]
  /\ evidence \in [AllThreads -> SUBSET Artifacts]
  /\ cacheFile \in [Snapshots -> Artifacts \cup {None}]
  /\ repo \in Snapshots
  /\ pc \in [Services -> Labels]
  /\ on \in [Services -> AllThreads \cup {None}]
  /\ \A s \in Services : pc[s] # "idle" => on[s] \in AllThreads
  /\ target \in [Services -> Forks \cup {None}]
  /\ \A s \in Services : pc[s] \in {"copy", "retain"} => target[s] \in Forks
  /\ put \in [Services -> SUBSET Artifacts]
  /\ refs \in [Services -> SUBSET Artifacts]
  /\ status \in [Services -> {"none", "completed", "needs_attention", "awaiting_approval"}]
  /\ key \in [Services -> Snapshots \cup {None}]
  /\ out \in [Services -> Artifacts \cup {None}]
  /\ \A s \in Services : (pc[s] = "store" => out[s] \in Artifacts)
       /\ (pc[s] \in {"work", "store"} => key[s] \in Snapshots)
  /\ cache \in [Services -> [Snapshots -> Artifacts \cup {None}]]
  /\ shared \subseteq AllThreads
  /\ origin \in [Forks -> AllThreads \cup {None}]
  /\ left \in 0..MaxDispatches

At(s, l) == pc[s] = l
Goto(s, l) == pc' = [pc EXCEPT ![s] = l]

\* The dispatch is over: what it held in memory is gone.
Ends(s) ==
  /\ Goto(s, "idle")
  /\ on' = [on EXCEPT ![s] = None]
  /\ target' = [target EXCEPT ![s] = None]
  /\ put' = [put EXCEPT ![s] = {}]
  /\ refs' = [refs EXCEPT ![s] = {}]
  /\ status' = [status EXCEPT ![s] = "none"]
  /\ key' = [key EXCEPT ![s] = None]
  /\ out' = [out EXCEPT ![s] = None]
  /\ cache' = [cache EXCEPT ![s] = NoEntries]

-----------------------------------------------------------------------------
\* A workflow is started or resumed: the services are opened.
Open(s, t) ==
  /\ At(s, "idle")
  /\ Goto(s, "run")
  /\ left > 0 /\ left' = left - 1
  /\ on' = [on EXCEPT ![s] = t]
  /\ cache' = [cache EXCEPT ![s] = cacheFile]
  /\ shared' = shared \cup {x \in {t} : \E r \in Services : pc[r] # "idle" /\ on[r] = x}
  /\ UNCHANGED <<stores, evidence, cacheFile, repo, target, put, refs, status, key, out, origin>>

\* cachedExecutor: a discovery or specialist task is answered from the cache,
\* keyed by the repository as it is now ...
Hit(s, x) == cache[s][x] # None /\ cache[s][x] \in blobs

CacheHit(s) ==
  /\ At(s, "run")
  /\ Hit(s, repo)
  /\ UNCHANGED vars

CacheMiss(s) ==
  /\ At(s, "run")
  /\ cache[s][repo] = None
  /\ key' = [key EXCEPT ![s] = repo]
  /\ Goto(s, "work")
  /\ UNCHANGED <<stores, evidence, cacheFile, repo, on, target, put, refs, status, out,
                 cache, ghosts>>

\* put() without an owner in place of putOwned().
WorkDoneUnowned(s, a) ==
  /\ At(s, "work")
  /\ blobs' = blobs \cup {a}
  /\ out' = [out EXCEPT ![s] = a]
  /\ Goto(s, "store")
  /\ UNCHANGED <<cacheOwned, active, threadRefs, checkRefs, pausedRefs, forkRefs, evidence, cacheFile,
                 repo, on, target, put, refs, status, key, cache, ghosts>>

\* ... or its output is stored, owned by the cache, ...
WorkDone(s, a) ==
  /\ At(s, "work")
  /\ blobs' = blobs \cup {a}
  /\ cacheOwned' = cacheOwned \cup {a}
  /\ out' = [out EXCEPT ![s] = a]
  /\ Goto(s, "store")
  /\ UNCHANGED <<active, threadRefs, checkRefs, pausedRefs, forkRefs, evidence, cacheFile, repo,
                 on, target, put, refs, status, key, cache, ghosts>>

\* ... and the dispatch's whole copy of the cache is written.
CacheSet(s) ==
  /\ At(s, "store")
  /\ cache' = [cache EXCEPT ![s] = [cache[s] EXCEPT ![key[s]] = out[s]]]
  /\ cacheFile' = cache'[s]
  /\ key' = [key EXCEPT ![s] = None]
  /\ out' = [out EXCEPT ![s] = None]
  /\ Goto(s, "run")
  /\ UNCHANGED <<stores, evidence, repo, on, target, put, refs, status, ghosts>>

\* The host stores evidence under the owner of the running thread.
PutEvidence(s, a) ==
  /\ At(s, "run")
  /\ blobs' = blobs \cup {a}
  /\ active' = [active EXCEPT ![on[s]] = @ \cup {a}]
  /\ put' = [put EXCEPT ![s] = @ \cup {a}]
  /\ UNCHANGED <<cacheOwned, threadRefs, checkRefs, pausedRefs, forkRefs, evidence, cacheFile, repo, pc,
                 on, target, refs, status, key, out, cache, ghosts>>

\* The node ends: its references are in the thread's next checkpoint.
Checkpoint(s) ==
  /\ At(s, "run") /\ put[s] # {}
  /\ evidence' = [evidence EXCEPT ![on[s]] = @ \cup put[s]]
  /\ put' = [put EXCEPT ![s] = {}]
  /\ UNCHANGED <<stores, cacheFile, repo, pc, on, target, refs, status, key, out,
                 cache, ghosts>>

-----------------------------------------------------------------------------
\* recordWorkflowResult and recordResult

RunEnds(s, result) ==
  /\ At(s, "run")
  /\ refs' = [refs EXCEPT ![s] = evidence[on[s]]]
  /\ status' = [status EXCEPT ![s] = result]
  /\ Goto(s, "reconcile")
  /\ UNCHANGED <<stores, evidence, cacheFile, repo, on, target, put, key, out,
                 cache, ghosts>>

\* A result that is not final replaces no owner.
ReconcilePausedOnly(s) ==
  /\ At(s, "reconcile")
  /\ pausedRefs' = [pausedRefs EXCEPT ![on[s]] =
                      IF status[s] = "awaiting_approval" THEN refs[s] ELSE {}]
  /\ refs' = [refs EXCEPT ![s] = {}]
  /\ Goto(s, "unpin")
  /\ UNCHANGED <<blobs, active, cacheOwned, threadRefs, checkRefs, forkRefs, evidence, cacheFile, repo,
                 on, target, put, status, key, out, cache, ghosts>>

\* Threads, checkpoints and mutations become owners; the interrupt is owned
\* while the thread is paused.
Reconcile(s) ==
  /\ At(s, "reconcile")
  /\ threadRefs' = [threadRefs EXCEPT ![on[s]] = refs[s]]
  /\ checkRefs' = [checkRefs EXCEPT ![on[s]] = @ \cup refs[s]]
  /\ pausedRefs' = [pausedRefs EXCEPT ![on[s]] =
                      IF status[s] = "awaiting_approval" THEN refs[s] ELSE {}]
  /\ refs' = [refs EXCEPT ![s] = {}]
  /\ Goto(s, "unpin")
  /\ UNCHANGED <<blobs, active, cacheOwned, forkRefs, evidence, cacheFile, repo, on, target, put, status, key, out, cache, ghosts>>

\* The result owns its evidence now; a completed run also puts its summary into
\* the repository memory.
Unpin(s) ==
  /\ At(s, "unpin")
  /\ active' = [active EXCEPT ![on[s]] = {}]
  /\ status' = [status EXCEPT ![s] = "none"]
  /\ Goto(s, "compact")
  /\ UNCHANGED <<blobs, cacheOwned, threadRefs, checkRefs, pausedRefs, forkRefs, evidence, cacheFile,
                 repo, on, target, put, refs, key, out, cache, ghosts>>

Reachable ==
  cacheOwned \cup
  (UNION {active[t] \cup threadRefs[t] \cup checkRefs[t] \cup pausedRefs[t] : t \in AllThreads}) \cup
  (UNION {forkRefs[f] : f \in Forks})

Compact(s) ==
  /\ At(s, "compact")
  /\ blobs' = blobs \cap Reachable
  /\ Ends(s)
  /\ UNCHANGED <<active, cacheOwned, threadRefs, checkRefs, pausedRefs, forkRefs, evidence, cacheFile,
                 repo, ghosts>>

-----------------------------------------------------------------------------
\* The fork action: the source's checkpoints are read, copied, and then their
\* artifacts retained.
ForkReads(s, t, f) ==
  /\ At(s, "idle") /\ t # f /\ origin[f] = None
  /\ left > 0 /\ left' = left - 1
  /\ on' = [on EXCEPT ![s] = t]
  /\ target' = [target EXCEPT ![s] = f]
  /\ refs' = [refs EXCEPT ![s] = evidence[t]]
  /\ origin' = [origin EXCEPT ![f] = t]
  /\ Goto(s, "copy")
  /\ UNCHANGED <<stores, evidence, cacheFile, repo, put, status, key, out, cache, shared>>

ForkCopies(s) ==
  /\ At(s, "copy")
  /\ evidence' = [evidence EXCEPT ![target[s]] = @ \cup refs[s]]
  /\ Goto(s, "retain")
  /\ UNCHANGED <<stores, cacheFile, repo, locals, ghosts>>

ForkRetains(s) ==
  /\ At(s, "retain")
  /\ forkRefs' = [forkRefs EXCEPT ![target[s]] = refs[s]]
  /\ Ends(s)
  /\ UNCHANGED <<blobs, active, cacheOwned, threadRefs, checkRefs, pausedRefs, evidence, cacheFile, repo, ghosts>>

\* The run throws or its process dies: nothing is recorded.
Abandon(s) ==
  /\ pc[s] # "idle"
  /\ Ends(s)
  /\ UNCHANGED <<stores, evidence, cacheFile, repo, ghosts>>

\* The user edits or commits, or a worker publishes.
RepositoryChanges(x) ==
  /\ repo' = x
  /\ UNCHANGED <<stores, evidence, cacheFile, pc, locals, ghosts>>

Next ==
  \/ \E s \in Services :
       \/ \E t \in AllThreads : Open(s, t)
       \/ CacheHit(s) \/ CacheMiss(s) \/ CacheSet(s)
       \/ \E a \in Artifacts : WorkDone(s, a) \/ PutEvidence(s, a)
       \/ Checkpoint(s)
       \/ \E r \in {"completed", "needs_attention", "awaiting_approval"} : RunEnds(s, r)
       \/ Reconcile(s) \/ Unpin(s) \/ Compact(s)
       \/ \E t \in AllThreads, f \in Forks : ForkReads(s, t, f)
       \/ ForkCopies(s) \/ ForkRetains(s)
       \/ Abandon(s)
  \/ \E x \in Snapshots : RepositoryChanges(x)

Spec == Init /\ [][Next]_vars

-----------------------------------------------------------------------------
\* A set of threads that no two dispatches had open at once and that holds, with
\* a fork, the thread it was made from.
Lineage(A) ==
  /\ A \subseteq AllThreads \ shared
  /\ \A f \in A \cap Forks : origin[f] \in A \cup {None}

\* Threads that, like the thread they were forked from, and so on, were open in
\* one dispatch at a time.
Apart == {t \in AllThreads : \E A \in SUBSET AllThreads : t \in A /\ Lineage(A)}

\* Evidence named by a checkpoint can be read, whatever other dispatches record
\* and compact, and wherever a dispatch or a fork dies (recordResult, compact,
\* retainFork).
EvidenceReadable == \A t \in Apart : evidence[t] \subseteq blobs

\* A cache entry can be read: its artifact outlives the dispatch that stored it
\* (cachedExecutor, putOwned).
CacheReadable ==
  /\ \A x \in Snapshots : cacheFile[x] # None => cacheFile[x] \in blobs
  /\ \A s \in Services, x \in Snapshots :
       pc[s] # "idle" /\ cache[s][x] # None => cache[s][x] \in blobs
=============================================================================
