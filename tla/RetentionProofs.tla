-------------------------- MODULE RetentionProofs ---------------------------
(***************************************************************************)
(* Proofs about Retention: whatever the interleaving of dispatches, forks, *)
(* compactions and deaths, cache entries can be read, and so can the       *)
(* evidence of every thread whose lineage was never open twice at once.    *)
(***************************************************************************)
EXTENDS Retention, TLAPS

\* A dispatch that runs a workflow, and one that can still add to its evidence.
Running == {"run", "work", "store", "reconcile", "unpin", "compact"}
Working == {"run", "work", "store"}
Forking == {"copy", "retain"}

\* The owners that lose nothing: checkpoints, forks and the cache.
Durable(a) ==
  \/ a \in cacheOwned
  \/ \E t \in AllThreads : a \in checkRefs[t]
  \/ \E f \in Forks : a \in forkRefs[f]

\* An artifact that its thread owns while it runs, or since it died, and that
\* the result of a run in progress will name before the owner is released.
Anchor(a, u) ==
  /\ a \in active[u] /\ a \in evidence[u]
  /\ \A s \in Services :
       pc[s] \in Running /\ on[s] = u =>
         pc[s] \in Working \/ (pc[s] = "reconcile" /\ a \in refs[s])

\* The artifact is stored, and a compaction will keep it.
Safe(a, A) == a \in blobs /\ (Durable(a) \/ \E u \in A : Anchor(a, u))

\* What the cache names, in the file or in memory, the cache owns.
CacheInv ==
  /\ cacheOwned \subseteq blobs
  /\ \A x \in Snapshots : cacheFile[x] # None => cacheFile[x] \in cacheOwned
  /\ \A s \in Services, x \in Snapshots : cache[s][x] # None => cache[s][x] \in cacheOwned
  /\ \A s \in Services : pc[s] = "store" => out[s] \in cacheOwned

\* Two dispatches that run one thread have marked it.
SharedInv ==
  \A s, r \in Services :
    s # r /\ pc[s] \in Running /\ pc[r] \in Running /\ on[s] = on[r] => on[s] \in shared

\* A fork is made once, and its owner is empty until then.
ForkInv ==
  /\ \A f \in Forks : origin[f] = None => forkRefs[f] = {}
  /\ \A s \in Services : pc[s] \in Forking =>
       origin[target[s]] # None /\ forkRefs[target[s]] = {}
  /\ \A s, r \in Services :
       s # r /\ pc[s] \in Forking /\ pc[r] \in Forking => target[s] # target[r]

\* Evidence not yet in a checkpoint is stored and owned by the running thread.
PutInv ==
  \A s \in Services :
    /\ pc[s] = "idle" => put[s] = {}
    /\ pc[s] \in Working /\ on[s] \notin shared =>
         put[s] \subseteq active[on[s]] /\ put[s] \subseteq blobs

\* In a lineage, what a checkpoint names or a fork copies is safe.
EvidenceInv ==
  \A A \in SUBSET AllThreads : Lineage(A) =>
    /\ \A t \in A : \A a \in evidence[t] : Safe(a, A)
    /\ \A s \in Services : pc[s] \in Forking /\ target[s] \in A =>
         \A a \in refs[s] : Safe(a, A)

IInv == TypeOK /\ CacheInv /\ SharedInv /\ ForkInv /\ PutInv /\ EvidenceInv

-----------------------------------------------------------------------------
\* Types

Results == {"completed", "needs_attention", "awaiting_approval"}

\* Every action of every dispatch keeps the types.
LEMMA TypeStep == TypeOK /\ [Next]_vars => TypeOK'
<1> SUFFICES ASSUME TypeOK, [Next]_vars PROVE TypeOK'
  OBVIOUS
<1> USE RetentionConstants DEF TypeOK, Labels, stores, locals, ghosts
<1>1. ASSUME NEW s \in Services, NEW t \in AllThreads, Open(s, t) PROVE TypeOK'
  BY <1>1 DEF Open, At, Goto
<1>2. ASSUME NEW s \in Services, CacheHit(s) PROVE TypeOK'
  BY <1>2 DEF CacheHit, vars
<1>3. ASSUME NEW s \in Services, CacheMiss(s) PROVE TypeOK'
  BY <1>3 DEF CacheMiss, At, Goto
<1>4. ASSUME NEW s \in Services, CacheSet(s) PROVE TypeOK'
  BY <1>4 DEF CacheSet, At, Goto
<1>5. ASSUME NEW s \in Services, NEW a \in Artifacts, WorkDone(s, a) PROVE TypeOK'
  BY <1>5 DEF WorkDone, At, Goto
<1>6. ASSUME NEW s \in Services, NEW a \in Artifacts, PutEvidence(s, a) PROVE TypeOK'
  BY <1>6 DEF PutEvidence, At
<1>7. ASSUME NEW s \in Services, Checkpoint(s) PROVE TypeOK'
  BY <1>7 DEF Checkpoint, At
<1>8. ASSUME NEW s \in Services, NEW r \in Results, RunEnds(s, r) PROVE TypeOK'
  BY <1>8 DEF RunEnds, At, Goto, Results
<1>9. ASSUME NEW s \in Services, Reconcile(s) PROVE TypeOK'
  BY <1>9 DEF Reconcile, At, Goto
<1>10. ASSUME NEW s \in Services, Unpin(s) PROVE TypeOK'
  BY <1>10 DEF Unpin, At, Goto
<1>11. ASSUME NEW s \in Services, Compact(s) PROVE TypeOK'
  BY <1>11 DEF Compact, At, Goto, Ends, NoEntries
<1>12. ASSUME NEW s \in Services, NEW t \in AllThreads, NEW f \in Forks, ForkReads(s, t, f)
       PROVE  TypeOK'
  BY <1>12 DEF ForkReads, At, Goto
<1>13. ASSUME NEW s \in Services, ForkCopies(s) PROVE TypeOK'
  BY <1>13 DEF ForkCopies, At, Goto
<1>14. ASSUME NEW s \in Services, ForkRetains(s) PROVE TypeOK'
  BY <1>14 DEF ForkRetains, At, Goto, Ends, NoEntries
<1>15. ASSUME NEW s \in Services, Abandon(s) PROVE TypeOK'
  BY <1>15 DEF Abandon, Goto, Ends, NoEntries
<1>16. ASSUME NEW x \in Snapshots, RepositoryChanges(x) PROVE TypeOK'
  BY <1>16 DEF RepositoryChanges
<1>17. CASE UNCHANGED vars
  BY <1>17 DEF vars
<1> HIDE DEF TypeOK
<1> QED
  BY <1>1, <1>2, <1>3, <1>4, <1>5, <1>6, <1>7, <1>8, <1>9, <1>10, <1>11, <1>12,
     <1>13, <1>14, <1>15, <1>16, <1>17 DEF Next, Results

-----------------------------------------------------------------------------
\* Evidence: what a step may not do

\* A lineage after the step was one before it.
KeepsLineage == \A A \in SUBSET AllThreads : Lineage(A)' => Lineage(A)

\* Durable owners stay; an anchor stays or has become durable.
KeepsOwners ==
  /\ \A a \in Artifacts : Durable(a) => Durable(a)'
  /\ \A u \in AllThreads, a \in Artifacts :
       u \notin shared' /\ Anchor(a, u) => Anchor(a, u)' \/ Durable(a)'

\* Compaction takes nothing that is safe.
KeepsBlobs == \A A \in SUBSET AllThreads, a \in Artifacts : Safe(a, A) => a \in blobs'

\* What a checkpoint names anew is safe, and so is what a fork reads.
NewIsSafe ==
  \A A \in SUBSET AllThreads, a \in Artifacts : Lineage(A)' =>
    /\ \A t \in AllThreads : t \in A /\ a \in evidence'[t] =>
         a \in evidence[t] \/ Safe(a, A) \/ Safe(a, A)'
    /\ \A s \in Services :
         pc'[s] \in Forking /\ target'[s] \in A /\ a \in refs'[s] => Safe(a, A)

\* A step that respects these keeps the evidence of every lineage safe.
LEMMA EvidenceKept ==
  ASSUME TypeOK, TypeOK', EvidenceInv, KeepsLineage, KeepsOwners, KeepsBlobs, NewIsSafe
  PROVE  EvidenceInv'
<1>1. ASSUME NEW A \in SUBSET AllThreads, Lineage(A)', NEW a \in Artifacts, Safe(a, A)
      PROVE  Safe(a, A)'
  <2>1. a \in blobs'
    BY <1>1 DEF KeepsBlobs
  <2>2. A \cap shared' = {}
    BY <1>1 DEF Lineage
  <2>3. CASE Durable(a)
    BY <2>1, <2>3 DEF Safe, KeepsOwners
  <2>4. CASE \E u \in A : Anchor(a, u)
    BY <2>1, <2>2, <2>4 DEF Safe, KeepsOwners
  <2> QED
    BY <1>1, <2>3, <2>4 DEF Safe
<1>2. ASSUME NEW A \in SUBSET AllThreads, Lineage(A)', NEW t \in A, NEW a \in evidence'[t]
      PROVE  Safe(a, A)'
  <2>1. t \in AllThreads /\ a \in Artifacts
    BY <1>2 DEF TypeOK
  <2>2. a \in evidence[t] => Safe(a, A)
    BY <1>2 DEF EvidenceInv, KeepsLineage
  <2> QED
    BY <1>1, <1>2, <2>1, <2>2 DEF NewIsSafe
<1>3. ASSUME NEW A \in SUBSET AllThreads, Lineage(A)', NEW s \in Services,
             pc'[s] \in Forking, target'[s] \in A, NEW a \in refs'[s]
      PROVE  Safe(a, A)'
  BY <1>1, <1>3 DEF TypeOK, NewIsSafe
<1> QED
  BY <1>2, <1>3 DEF EvidenceInv

\* What compaction follows: the cache, and the owners of threads and forks.
LEMMA OwnersAreReachable ==
  /\ cacheOwned \subseteq Reachable
  /\ \A t \in AllThreads : active[t] \subseteq Reachable /\ checkRefs[t] \subseteq Reachable
  /\ \A f \in Forks : forkRefs[f] \subseteq Reachable
  BY DEF Reachable

\* What a lineage keeps safe is named by an owner that compaction follows.
LEMMA SafeIsReachable ==
  ASSUME NEW A \in SUBSET AllThreads, NEW a, Safe(a, A)
  PROVE  a \in Reachable
<1>1. CASE a \in cacheOwned
  BY <1>1 DEF Reachable
<1>2. CASE \E t \in AllThreads : a \in checkRefs[t] \/ a \in active[t]
  BY <1>2, OwnersAreReachable
<1>3. CASE \E f \in Forks : a \in forkRefs[f]
  BY <1>3, OwnersAreReachable
<1> QED
  BY <1>1, <1>2, <1>3 DEF Safe, Durable, Anchor

-----------------------------------------------------------------------------
\* Every action keeps the invariant.
LEMMA InvStep == IInv /\ [Next]_vars => IInv'
<1> SUFFICES ASSUME IInv, [Next]_vars PROVE IInv'
  OBVIOUS
<1> DEFINE Rest == CacheInv /\ SharedInv /\ ForkInv /\ PutInv /\ EvidenceInv
<1>0. TypeOK /\ TypeOK' /\ CacheInv /\ SharedInv /\ ForkInv /\ PutInv /\ EvidenceInv
  BY TypeStep DEF IInv
<1> USE DEF stores, locals, ghosts
<1>1. ASSUME NEW s \in Services, NEW t \in AllThreads, Open(s, t) PROVE Rest'
  <2>1. CacheInv'
    BY <1>0, <1>1, RetentionConstants DEF Open, At, Goto, TypeOK, CacheInv, NoEntries
  <2>2. SharedInv'
    BY <1>0, <1>1 DEF Open, At, Goto, TypeOK, SharedInv, Running
  <2>3. ForkInv'
    BY <1>0, <1>1, RetentionConstants DEF Open, At, Goto, TypeOK, ForkInv, Forking
  <2>4. PutInv'
    BY <1>0, <1>1 DEF Open, At, Goto, TypeOK, PutInv, SharedInv, Working, Running
  <2>5. EvidenceInv'
    <3>1. KeepsLineage
      BY <1>0, <1>1, RetentionConstants
         DEF Open, At, Goto, TypeOK, KeepsLineage, Lineage
    <3>2. KeepsOwners
      BY <1>0, <1>1
         DEF Open, At, Goto, TypeOK, KeepsOwners, Anchor, Durable, Running, Working
    <3>3. KeepsBlobs
      BY <1>1 DEF Open, KeepsBlobs, Safe
    <3>4. NewIsSafe
      BY <1>0, <1>1, <3>1
         DEF Open, At, Goto, TypeOK, NewIsSafe, EvidenceInv, KeepsLineage, Forking
    <3> QED
      BY <1>0, <3>1, <3>2, <3>3, <3>4, EvidenceKept
  <2> QED
    BY <2>1, <2>2, <2>3, <2>4, <2>5
<1>2. ASSUME NEW s \in Services, CacheMiss(s) PROVE Rest'
  <2>1. CacheInv'
    BY <1>0, <1>2, RetentionConstants
       DEF CacheMiss, At, Goto, TypeOK, CacheInv, NoEntries
  <2>2. SharedInv'
    BY <1>0, <1>2 DEF CacheMiss, At, Goto, TypeOK, SharedInv, Running
  <2>3. ForkInv'
    BY <1>0, <1>2, RetentionConstants DEF CacheMiss, At, Goto, TypeOK, ForkInv, Forking
  <2>4. PutInv'
    BY <1>0, <1>2 DEF CacheMiss, At, Goto, TypeOK, PutInv, SharedInv, Working, Running
  <2>5. EvidenceInv'
    <3>1. KeepsLineage
      BY <1>0, <1>2, RetentionConstants
         DEF CacheMiss, At, Goto, TypeOK, KeepsLineage, Lineage
    <3>2. KeepsOwners
      BY <1>0, <1>2
         DEF CacheMiss, At, Goto, TypeOK, KeepsOwners, Anchor, Durable, Running, Working
    <3>3. KeepsBlobs
      BY <1>2 DEF CacheMiss, KeepsBlobs, Safe
    <3>4. NewIsSafe
      BY <1>0, <1>2, <3>1
         DEF CacheMiss, At, Goto, TypeOK, NewIsSafe, EvidenceInv, KeepsLineage, Forking
    <3> QED
      BY <1>0, <3>1, <3>2, <3>3, <3>4, EvidenceKept
  <2> QED
    BY <2>1, <2>2, <2>3, <2>4, <2>5
<1>3. ASSUME NEW s \in Services, CacheSet(s) PROVE Rest'
  <2>1. CacheInv'
    BY <1>0, <1>3, RetentionConstants
       DEF CacheSet, At, Goto, TypeOK, CacheInv, NoEntries
  <2>2. SharedInv'
    BY <1>0, <1>3 DEF CacheSet, At, Goto, TypeOK, SharedInv, Running
  <2>3. ForkInv'
    BY <1>0, <1>3, RetentionConstants DEF CacheSet, At, Goto, TypeOK, ForkInv, Forking
  <2>4. PutInv'
    BY <1>0, <1>3 DEF CacheSet, At, Goto, TypeOK, PutInv, SharedInv, Working, Running
  <2>5. EvidenceInv'
    <3>1. KeepsLineage
      BY <1>0, <1>3, RetentionConstants
         DEF CacheSet, At, Goto, TypeOK, KeepsLineage, Lineage
    <3>2. KeepsOwners
      BY <1>0, <1>3
         DEF CacheSet, At, Goto, TypeOK, KeepsOwners, Anchor, Durable, Running, Working
    <3>3. KeepsBlobs
      BY <1>3 DEF CacheSet, KeepsBlobs, Safe
    <3>4. NewIsSafe
      BY <1>0, <1>3, <3>1
         DEF CacheSet, At, Goto, TypeOK, NewIsSafe, EvidenceInv, KeepsLineage, Forking
    <3> QED
      BY <1>0, <3>1, <3>2, <3>3, <3>4, EvidenceKept
  <2> QED
    BY <2>1, <2>2, <2>3, <2>4, <2>5
<1>4. ASSUME NEW s \in Services, NEW a \in Artifacts, WorkDone(s, a) PROVE Rest'
  <2>1. CacheInv'
    BY <1>0, <1>4, RetentionConstants
       DEF WorkDone, At, Goto, TypeOK, CacheInv, NoEntries
  <2>2. SharedInv'
    BY <1>0, <1>4 DEF WorkDone, At, Goto, TypeOK, SharedInv, Running
  <2>3. ForkInv'
    BY <1>0, <1>4, RetentionConstants DEF WorkDone, At, Goto, TypeOK, ForkInv, Forking
  <2>4. PutInv'
    BY <1>0, <1>4 DEF WorkDone, At, Goto, TypeOK, PutInv, SharedInv, Working, Running
  <2>5. EvidenceInv'
    <3>1. KeepsLineage
      BY <1>0, <1>4, RetentionConstants
         DEF WorkDone, At, Goto, TypeOK, KeepsLineage, Lineage
    <3>2. KeepsOwners
      BY <1>0, <1>4
         DEF WorkDone, At, Goto, TypeOK, KeepsOwners, Anchor, Durable, Running, Working
    <3>3. KeepsBlobs
      BY <1>4 DEF WorkDone, KeepsBlobs, Safe
    <3>4. NewIsSafe
      BY <1>0, <1>4, <3>1
         DEF WorkDone, At, Goto, TypeOK, NewIsSafe, EvidenceInv, KeepsLineage, Forking
    <3> QED
      BY <1>0, <3>1, <3>2, <3>3, <3>4, EvidenceKept
  <2> QED
    BY <2>1, <2>2, <2>3, <2>4, <2>5
<1>5. ASSUME NEW s \in Services, NEW a \in Artifacts, PutEvidence(s, a) PROVE Rest'
  <2>1. CacheInv'
    BY <1>0, <1>5, RetentionConstants DEF PutEvidence, At, TypeOK, CacheInv, NoEntries
  <2>2. SharedInv'
    BY <1>0, <1>5 DEF PutEvidence, At, TypeOK, SharedInv, Running
  <2>3. ForkInv'
    BY <1>0, <1>5, RetentionConstants DEF PutEvidence, At, TypeOK, ForkInv, Forking
  <2>4. PutInv'
    BY <1>0, <1>5 DEF PutEvidence, At, TypeOK, PutInv, SharedInv, Working, Running
  <2>5. EvidenceInv'
    <3>1. KeepsLineage
      BY <1>0, <1>5, RetentionConstants
         DEF PutEvidence, At, TypeOK, KeepsLineage, Lineage
    <3>2. KeepsOwners
      BY <1>0, <1>5
         DEF PutEvidence, At, TypeOK, KeepsOwners, Anchor, Durable, Running, Working
    <3>3. KeepsBlobs
      BY <1>5 DEF PutEvidence, KeepsBlobs, Safe
    <3>4. NewIsSafe
      BY <1>0, <1>5, <3>1
         DEF PutEvidence, At, TypeOK, NewIsSafe, EvidenceInv, KeepsLineage, Forking
    <3> QED
      BY <1>0, <3>1, <3>2, <3>3, <3>4, EvidenceKept
  <2> QED
    BY <2>1, <2>2, <2>3, <2>4, <2>5
<1>6. ASSUME NEW s \in Services, Checkpoint(s) PROVE Rest'
  <2>1. CacheInv'
    BY <1>0, <1>6, RetentionConstants DEF Checkpoint, At, TypeOK, CacheInv, NoEntries
  <2>2. SharedInv'
    BY <1>0, <1>6 DEF Checkpoint, At, TypeOK, SharedInv, Running
  <2>3. ForkInv'
    BY <1>0, <1>6, RetentionConstants DEF Checkpoint, At, TypeOK, ForkInv, Forking
  <2>4. PutInv'
    BY <1>0, <1>6 DEF Checkpoint, At, TypeOK, PutInv, SharedInv, Working, Running
  <2>5. EvidenceInv'
    <3>1. KeepsLineage
      BY <1>0, <1>6, RetentionConstants
         DEF Checkpoint, At, TypeOK, KeepsLineage, Lineage
    <3>2. KeepsOwners
      BY <1>0, <1>6
         DEF Checkpoint, At, TypeOK, KeepsOwners, Anchor, Durable, Running, Working
    <3>3. KeepsBlobs
      BY <1>6 DEF Checkpoint, KeepsBlobs, Safe
    <3>4. NewIsSafe
      <4>1. ASSUME NEW A \in SUBSET AllThreads, Lineage(A)', NEW u \in A,
                   NEW b \in evidence'[u], b \notin evidence[u]
            PROVE  Safe(b, A)'
        <5>1. /\ u = on[s] /\ b \in put[s] /\ pc[s] \in Working
              /\ u \in AllThreads \ shared
          BY <1>0, <1>6, <4>1 DEF Checkpoint, At, TypeOK, Lineage, Working
        <5>2. b \in active[u] /\ b \in blobs
          BY <1>0, <5>1 DEF PutInv
        <5>3. \A q \in Services : pc[q] \in Running /\ on[q] = u => pc[q] \in Working
          BY <1>0, <5>1 DEF SharedInv, Running, Working
        <5>4. UNCHANGED <<active, blobs, pc, on>>
          BY <1>6 DEF Checkpoint
        <5>5. Anchor(b, u)'
          BY <4>1, <5>2, <5>3, <5>4 DEF Anchor
        <5> QED
          BY <4>1, <5>2, <5>4, <5>5 DEF Safe
      <4>2. ASSUME NEW A \in SUBSET AllThreads, Lineage(A)', NEW q \in Services,
                   pc'[q] \in Forking, target'[q] \in A, NEW b \in refs'[q]
            PROVE  Safe(b, A)
        BY <1>0, <1>6, <3>1, <4>2 DEF Checkpoint, EvidenceInv, KeepsLineage
      <4> QED
        BY <4>1, <4>2 DEF NewIsSafe
    <3> QED
      BY <1>0, <3>1, <3>2, <3>3, <3>4, EvidenceKept
  <2> QED
    BY <2>1, <2>2, <2>3, <2>4, <2>5
<1>7. ASSUME NEW s \in Services, NEW r \in Results, RunEnds(s, r) PROVE Rest'
  <2>1. CacheInv'
    BY <1>0, <1>7, RetentionConstants DEF RunEnds, At, Goto, TypeOK, CacheInv, NoEntries
  <2>2. SharedInv'
    BY <1>0, <1>7 DEF RunEnds, At, Goto, TypeOK, SharedInv, Running
  <2>3. ForkInv'
    BY <1>0, <1>7, RetentionConstants DEF RunEnds, At, Goto, TypeOK, ForkInv, Forking
  <2>4. PutInv'
    BY <1>0, <1>7 DEF RunEnds, At, Goto, TypeOK, PutInv, SharedInv, Working, Running
  <2>5. EvidenceInv'
    <3>1. KeepsLineage
      BY <1>0, <1>7, RetentionConstants
         DEF RunEnds, At, Goto, TypeOK, KeepsLineage, Lineage
    <3>2. KeepsOwners
      BY <1>0, <1>7
         DEF RunEnds, At, Goto, TypeOK, KeepsOwners, Anchor, Durable, Running, Working
    <3>3. KeepsBlobs
      BY <1>7 DEF RunEnds, KeepsBlobs, Safe
    <3>4. NewIsSafe
      BY <1>0, <1>7, <3>1
         DEF RunEnds, At, Goto, TypeOK, NewIsSafe, EvidenceInv, KeepsLineage, Forking
    <3> QED
      BY <1>0, <3>1, <3>2, <3>3, <3>4, EvidenceKept
  <2> QED
    BY <2>1, <2>2, <2>3, <2>4, <2>5
<1>8. ASSUME NEW s \in Services, Reconcile(s) PROVE Rest'
  <2>1. CacheInv'
    BY <1>0, <1>8, RetentionConstants
       DEF Reconcile, At, Goto, TypeOK, CacheInv, NoEntries
  <2>2. SharedInv'
    BY <1>0, <1>8 DEF Reconcile, At, Goto, TypeOK, SharedInv, Running
  <2>3. ForkInv'
    BY <1>0, <1>8, RetentionConstants DEF Reconcile, At, Goto, TypeOK, ForkInv, Forking
  <2>4. PutInv'
    BY <1>0, <1>8 DEF Reconcile, At, Goto, TypeOK, PutInv, SharedInv, Working, Running
  <2>5. EvidenceInv'
    <3>1. KeepsLineage
      BY <1>0, <1>8, RetentionConstants
         DEF Reconcile, At, Goto, TypeOK, KeepsLineage, Lineage
    <3>2. KeepsOwners
      BY <1>0, <1>8
         DEF Reconcile, At, Goto, TypeOK, KeepsOwners, Anchor, Durable, Running, Working
    <3>3. KeepsBlobs
      BY <1>8 DEF Reconcile, KeepsBlobs, Safe
    <3>4. NewIsSafe
      BY <1>0, <1>8, <3>1
         DEF Reconcile, At, Goto, TypeOK, NewIsSafe, EvidenceInv, KeepsLineage, Forking
    <3> QED
      BY <1>0, <3>1, <3>2, <3>3, <3>4, EvidenceKept
  <2> QED
    BY <2>1, <2>2, <2>3, <2>4, <2>5
<1>9. ASSUME NEW s \in Services, Unpin(s) PROVE Rest'
  <2>1. CacheInv'
    BY <1>0, <1>9, RetentionConstants DEF Unpin, At, Goto, TypeOK, CacheInv, NoEntries
  <2>2. SharedInv'
    BY <1>0, <1>9 DEF Unpin, At, Goto, TypeOK, SharedInv, Running
  <2>3. ForkInv'
    BY <1>0, <1>9, RetentionConstants DEF Unpin, At, Goto, TypeOK, ForkInv, Forking
  <2>4. PutInv'
    BY <1>0, <1>9 DEF Unpin, At, Goto, TypeOK, PutInv, SharedInv, Working, Running
  <2>5. EvidenceInv'
    <3>1. KeepsLineage
      BY <1>0, <1>9, RetentionConstants
         DEF Unpin, At, Goto, TypeOK, KeepsLineage, Lineage
    <3>2. KeepsOwners
      BY <1>0, <1>9
         DEF Unpin, At, Goto, TypeOK, KeepsOwners, Anchor, Durable, Running, Working
    <3>3. KeepsBlobs
      BY <1>9 DEF Unpin, KeepsBlobs, Safe
    <3>4. NewIsSafe
      BY <1>0, <1>9, <3>1
         DEF Unpin, At, Goto, TypeOK, NewIsSafe, EvidenceInv, KeepsLineage, Forking
    <3> QED
      BY <1>0, <3>1, <3>2, <3>3, <3>4, EvidenceKept
  <2> QED
    BY <2>1, <2>2, <2>3, <2>4, <2>5
<1>10. ASSUME NEW s \in Services, Compact(s) PROVE Rest'
  <2>0. /\ cacheOwned \subseteq Reachable
        /\ \A t \in AllThreads : active[t] \subseteq Reachable
    BY OwnersAreReachable
  <2>1. CacheInv'
    BY <1>0, <1>10, <2>0, RetentionConstants
       DEF Compact, At, Goto, Ends, TypeOK, CacheInv, NoEntries
  <2>2. SharedInv'
    BY <1>0, <1>10 DEF Compact, At, Goto, Ends, TypeOK, SharedInv, Running
  <2>3. ForkInv'
    BY <1>0, <1>10, RetentionConstants
       DEF Compact, At, Goto, Ends, TypeOK, ForkInv, Forking
  <2>4. PutInv'
    <3>1. \A q \in Services : pc'[q] \in Working =>
            /\ pc[q] = pc'[q] /\ on'[q] = on[q] /\ put'[q] = put[q]
            /\ on[q] \in AllThreads
      BY <1>0, <1>10 DEF Compact, At, Goto, Ends, TypeOK, Working
    <3>2. \A q \in Services : pc'[q] = "idle" => put'[q] = {}
      BY <1>0, <1>10 DEF Compact, At, Goto, Ends, TypeOK, PutInv
    <3>3. blobs' = blobs \cap Reachable /\ UNCHANGED <<active, shared>>
      BY <1>10 DEF Compact, At, Goto, Ends
    <3> QED
      BY <1>0, <2>0, <3>1, <3>2, <3>3 DEF PutInv
  <2>5. EvidenceInv'
    <3>1. KeepsLineage
      BY <1>0, <1>10, RetentionConstants
         DEF Compact, At, Goto, Ends, TypeOK, KeepsLineage, Lineage
    <3>2. KeepsOwners
      BY <1>0, <1>10
         DEF Compact, At, Goto, Ends, TypeOK, KeepsOwners, Anchor, Durable, Running,
             Working
    <3>3. KeepsBlobs
      BY <1>0, <1>10, SafeIsReachable DEF Compact, KeepsBlobs, Safe
    <3>4. NewIsSafe
      BY <1>0, <1>10, <3>1
         DEF Compact, At, Goto, Ends, TypeOK, NewIsSafe, EvidenceInv, KeepsLineage,
             Forking
    <3> QED
      BY <1>0, <3>1, <3>2, <3>3, <3>4, EvidenceKept
  <2> QED
    BY <2>1, <2>2, <2>3, <2>4, <2>5
<1>11. ASSUME NEW s \in Services, NEW t \in AllThreads, NEW f \in Forks, ForkReads(s, t, f)
      PROVE  Rest'
  <2>1. CacheInv'
    BY <1>0, <1>11, RetentionConstants
       DEF ForkReads, At, Goto, TypeOK, CacheInv, NoEntries
  <2>2. SharedInv'
    BY <1>0, <1>11 DEF ForkReads, At, Goto, TypeOK, SharedInv, Running
  <2>3. ForkInv'
    BY <1>0, <1>11, RetentionConstants DEF ForkReads, At, Goto, TypeOK, ForkInv, Forking
  <2>4. PutInv'
    BY <1>0, <1>11 DEF ForkReads, At, Goto, TypeOK, PutInv, SharedInv, Working, Running
  <2>5. EvidenceInv'
    <3>1. KeepsLineage
      BY <1>0, <1>11, RetentionConstants
         DEF ForkReads, At, Goto, TypeOK, KeepsLineage, Lineage
    <3>2. KeepsOwners
      BY <1>0, <1>11
         DEF ForkReads, At, Goto, TypeOK, KeepsOwners, Anchor, Durable, Running, Working
    <3>3. KeepsBlobs
      BY <1>11 DEF ForkReads, KeepsBlobs, Safe
    <3>4. NewIsSafe
      <4>1. ASSUME NEW A \in SUBSET AllThreads, Lineage(A)', NEW q \in Services,
                   pc'[q] \in Forking, target'[q] \in A, NEW b \in refs'[q]
            PROVE  Safe(b, A)
        <5>1. CASE q = s
          <6>1. f \in A /\ origin'[f] = t /\ b \in evidence[t]
            BY <1>0, <1>11, <4>1, <5>1 DEF ForkReads, TypeOK
          <6>2. t \in A
            BY <4>1, <6>1, RetentionConstants DEF Lineage
          <6> QED
            BY <1>0, <3>1, <4>1, <6>1, <6>2 DEF EvidenceInv, KeepsLineage
        <5>2. CASE q # s
          BY <1>0, <1>11, <3>1, <4>1, <5>2
             DEF ForkReads, Goto, TypeOK, EvidenceInv, KeepsLineage
        <5> QED
          BY <5>1, <5>2
      <4>2. evidence' = evidence
        BY <1>11 DEF ForkReads
      <4> QED
        BY <4>1, <4>2 DEF NewIsSafe
    <3> QED
      BY <1>0, <3>1, <3>2, <3>3, <3>4, EvidenceKept
  <2> QED
    BY <2>1, <2>2, <2>3, <2>4, <2>5
<1>12. ASSUME NEW s \in Services, ForkCopies(s) PROVE Rest'
  <2>1. CacheInv'
    BY <1>0, <1>12, RetentionConstants
       DEF ForkCopies, At, Goto, TypeOK, CacheInv, NoEntries
  <2>2. SharedInv'
    BY <1>0, <1>12 DEF ForkCopies, At, Goto, TypeOK, SharedInv, Running
  <2>3. ForkInv'
    BY <1>0, <1>12, RetentionConstants
       DEF ForkCopies, At, Goto, TypeOK, ForkInv, Forking
  <2>4. PutInv'
    BY <1>0, <1>12 DEF ForkCopies, At, Goto, TypeOK, PutInv, SharedInv, Working, Running
  <2>5. EvidenceInv'
    <3>1. KeepsLineage
      BY <1>0, <1>12, RetentionConstants
         DEF ForkCopies, At, Goto, TypeOK, KeepsLineage, Lineage
    <3>2. KeepsOwners
      BY <1>0, <1>12
         DEF ForkCopies, At, Goto, TypeOK, KeepsOwners, Anchor, Durable, Running,
             Working
    <3>3. KeepsBlobs
      BY <1>12 DEF ForkCopies, KeepsBlobs, Safe
    <3>4. NewIsSafe
      <4>1. ASSUME NEW A \in SUBSET AllThreads, Lineage(A)', NEW u \in A,
                   NEW b \in evidence'[u], b \notin evidence[u]
            PROVE  Safe(b, A)
        <5>1. u = target[s] /\ b \in refs[s] /\ pc[s] \in Forking
          BY <1>0, <1>12, <4>1 DEF ForkCopies, At, TypeOK, Forking
        <5> QED
          BY <1>0, <3>1, <4>1, <5>1 DEF EvidenceInv, KeepsLineage
      <4>2. ASSUME NEW A \in SUBSET AllThreads, Lineage(A)', NEW q \in Services,
                   pc'[q] \in Forking, target'[q] \in A, NEW b \in refs'[q]
            PROVE  Safe(b, A)
        BY <1>0, <1>12, <3>1, <4>2
           DEF ForkCopies, At, Goto, TypeOK, EvidenceInv, KeepsLineage, Forking
      <4> QED
        BY <4>1, <4>2 DEF NewIsSafe
    <3> QED
      BY <1>0, <3>1, <3>2, <3>3, <3>4, EvidenceKept
  <2> QED
    BY <2>1, <2>2, <2>3, <2>4, <2>5
<1>13. ASSUME NEW s \in Services, ForkRetains(s) PROVE Rest'
  <2>1. CacheInv'
    BY <1>0, <1>13, RetentionConstants
       DEF ForkRetains, At, Goto, Ends, TypeOK, CacheInv, NoEntries
  <2>2. SharedInv'
    BY <1>0, <1>13 DEF ForkRetains, At, Goto, Ends, TypeOK, SharedInv, Running
  <2>3. ForkInv'
    BY <1>0, <1>13, RetentionConstants
       DEF ForkRetains, At, Goto, Ends, TypeOK, ForkInv, Forking
  <2>4. PutInv'
    BY <1>0, <1>13
       DEF ForkRetains, At, Goto, Ends, TypeOK, PutInv, SharedInv, Working, Running
  <2>5. EvidenceInv'
    <3>1. KeepsLineage
      BY <1>0, <1>13, RetentionConstants
         DEF ForkRetains, At, Goto, Ends, TypeOK, KeepsLineage, Lineage
    <3>2. KeepsOwners
      BY <1>0, <1>13
         DEF ForkRetains, At, Goto, Ends, TypeOK, KeepsOwners, Anchor, Durable, Running,
             Working, ForkInv, Forking
    <3>3. KeepsBlobs
      BY <1>13 DEF ForkRetains, KeepsBlobs, Safe
    <3>4. NewIsSafe
      BY <1>0, <1>13, <3>1
         DEF ForkRetains, At, Goto, Ends, TypeOK, NewIsSafe, EvidenceInv, KeepsLineage,
             Forking
    <3> QED
      BY <1>0, <3>1, <3>2, <3>3, <3>4, EvidenceKept
  <2> QED
    BY <2>1, <2>2, <2>3, <2>4, <2>5
<1>14. ASSUME NEW s \in Services, Abandon(s) PROVE Rest'
  <2>1. CacheInv'
    BY <1>0, <1>14, RetentionConstants
       DEF Abandon, Goto, Ends, TypeOK, CacheInv, NoEntries
  <2>2. SharedInv'
    BY <1>0, <1>14 DEF Abandon, Goto, Ends, TypeOK, SharedInv, Running
  <2>3. ForkInv'
    BY <1>0, <1>14, RetentionConstants DEF Abandon, Goto, Ends, TypeOK, ForkInv, Forking
  <2>4. PutInv'
    BY <1>0, <1>14 DEF Abandon, Goto, Ends, TypeOK, PutInv, SharedInv, Working, Running
  <2>5. EvidenceInv'
    <3>1. KeepsLineage
      BY <1>0, <1>14, RetentionConstants
         DEF Abandon, Goto, Ends, TypeOK, KeepsLineage, Lineage
    <3>2. KeepsOwners
      BY <1>0, <1>14
         DEF Abandon, Goto, Ends, TypeOK, KeepsOwners, Anchor, Durable, Running, Working
    <3>3. KeepsBlobs
      BY <1>14 DEF Abandon, KeepsBlobs, Safe
    <3>4. NewIsSafe
      BY <1>0, <1>14, <3>1
         DEF Abandon, Goto, Ends, TypeOK, NewIsSafe, EvidenceInv, KeepsLineage, Forking
    <3> QED
      BY <1>0, <3>1, <3>2, <3>3, <3>4, EvidenceKept
  <2> QED
    BY <2>1, <2>2, <2>3, <2>4, <2>5
<1>15. ASSUME NEW x \in Snapshots, RepositoryChanges(x) PROVE Rest'
  <2>1. CacheInv'
    BY <1>0, <1>15, RetentionConstants
       DEF RepositoryChanges, TypeOK, CacheInv, NoEntries
  <2>2. SharedInv'
    BY <1>0, <1>15 DEF RepositoryChanges, TypeOK, SharedInv, Running
  <2>3. ForkInv'
    BY <1>0, <1>15, RetentionConstants DEF RepositoryChanges, TypeOK, ForkInv, Forking
  <2>4. PutInv'
    BY <1>0, <1>15 DEF RepositoryChanges, TypeOK, PutInv, SharedInv, Working, Running
  <2>5. EvidenceInv'
    <3>1. KeepsLineage
      BY <1>0, <1>15, RetentionConstants
         DEF RepositoryChanges, TypeOK, KeepsLineage, Lineage
    <3>2. KeepsOwners
      BY <1>0, <1>15
         DEF RepositoryChanges, TypeOK, KeepsOwners, Anchor, Durable, Running, Working
    <3>3. KeepsBlobs
      BY <1>15 DEF RepositoryChanges, KeepsBlobs, Safe
    <3>4. NewIsSafe
      BY <1>0, <1>15, <3>1
         DEF RepositoryChanges, TypeOK, NewIsSafe, EvidenceInv, KeepsLineage, Forking
    <3> QED
      BY <1>0, <3>1, <3>2, <3>3, <3>4, EvidenceKept
  <2> QED
    BY <2>1, <2>2, <2>3, <2>4, <2>5
<1>16. ASSUME UNCHANGED vars PROVE Rest'
  <2>1. CacheInv' /\ SharedInv' /\ ForkInv' /\ PutInv'
    BY <1>0, <1>16 DEF vars, CacheInv, SharedInv, ForkInv, PutInv
  <2>2. KeepsLineage /\ KeepsOwners /\ KeepsBlobs
    BY <1>16 DEF vars, KeepsLineage, KeepsOwners, KeepsBlobs, Lineage, Anchor, Durable, Safe
  <2>3. NewIsSafe
    BY <1>0, <1>16, <2>2 DEF vars, NewIsSafe, EvidenceInv, KeepsLineage
  <2> QED
    BY <1>0, <2>1, <2>2, <2>3, EvidenceKept
<1> HIDE DEF Rest
<1>17. Rest'
  <2>1. CASE \E s \in Services : CacheHit(s)
    BY <1>16, <2>1 DEF CacheHit
  <2> QED
    BY <1>1, <1>2, <1>3, <1>4, <1>5, <1>6, <1>7, <1>8, <1>9, <1>10, <1>11, <1>12,
       <1>13, <1>14, <1>15, <1>16, <2>1 DEF Next, Results
<1> QED
  BY <1>0, <1>17 DEF IInv, Rest

-----------------------------------------------------------------------------
\* The inductive invariant holds for any number of dispatches, threads, forks
\* and artifacts.
THEOREM RetentionInvariant == Spec => []IInv
<1>1. Init => IInv
  BY RetentionConstants
     DEF Init, NoEntries, IInv, TypeOK, Labels, CacheInv, SharedInv, ForkInv, PutInv,
         EvidenceInv, Running, Working, Forking
<1> QED
  BY <1>1, InvStep, PTL DEF Spec

\* Every variable keeps its type.
THEOREM TypeCorrect == Spec => []TypeOK
<1>1. IInv => TypeOK
  BY DEF IInv
<1> QED
  BY <1>1, RetentionInvariant, PTL

\* A cache entry can be read, in the file and in the copy of every dispatch:
\* no compaction takes an artifact that putOwned gave to the cache.
THEOREM CacheStaysReadable == Spec => []CacheReadable
<1>1. IInv => CacheReadable
  BY DEF IInv, CacheInv, CacheReadable
<1> QED
  BY <1>1, RetentionInvariant, PTL

\* Evidence named by a checkpoint can be read, wherever dispatches and forks
\* died and whatever was compacted, as long as no two dispatches had the thread,
\* or a thread it descends from, open at once.
THEOREM EvidenceStaysReadable == Spec => []EvidenceReadable
<1>1. IInv => EvidenceReadable
  <2> SUFFICES ASSUME IInv, NEW t \in Apart PROVE evidence[t] \subseteq blobs
    BY DEF EvidenceReadable
  <2>1. PICK A \in SUBSET AllThreads : t \in A /\ Lineage(A)
    BY DEF Apart
  <2> QED
    BY <2>1 DEF IInv, EvidenceInv, Safe
<1> QED
  BY <1>1, RetentionInvariant, PTL
=============================================================================
