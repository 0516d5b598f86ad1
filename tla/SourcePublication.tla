-------------------------- MODULE SourcePublication --------------------------
(***************************************************************************)
(* runInIsolatedRepository and SourceTreeTransaction of src/repository:    *)
(* mutating workers run in isolated copies of the repository and publish   *)
(* their delta under the publication lock of the source root, while the    *)
(* user edits the repository without taking that lock.                     *)
(*                                                                         *)
(* One action reads or writes one path, so an edit may land between any    *)
(* two of them.  A path has a content or is missing; directories, modes    *)
(* and links are part of the content.  The lock is the one of FileLock.    *)
(***************************************************************************)
EXTENDS Naturals, FiniteSets

CONSTANTS
    Worker,         \* calls of runInIsolatedRepository in mutation mode
    Path,           \* paths, numbered in the order of their names
    Old,            \* content before anybody changed a path
    Missing,        \* no such path
    Edit,           \* contents the user writes, each once
    NoWorker,       \* the publication lock is free
    Removable,      \* bound: the paths a worker may remove
    Failures,       \* what may fail: "read", "publish", "rollback"
    Crashes         \* processes may die

ASSUME ConstantsAssumption ==
    /\ IsFiniteSet(Path) /\ Path \subseteq Nat
    /\ Worker \cap Edit = {} /\ Old # Missing
    /\ {Old, Missing} \cap (Worker \cup Edit) = {}
    /\ NoWorker \notin Worker
    /\ Removable \subseteq Path
    /\ Failures \subseteq {"read", "publish", "rollback"} /\ Crashes \in BOOLEAN

(* A worker's own content stands for whatever it wrote.                    *)
Content == Worker \cup Edit \cup {Old, Missing}
Tree == [Path -> Content]

VARIABLES
    tree,       \* the live repository
    lock,       \* holder of the publication lock
    tx,         \* tx[w]: the transaction of w
    behind,     \* behind[w]: paths edited since w last looked at them
    edits       \* edits not made yet

vars == <<tree, lock, tx, behind, edits>>

Looking  == {"check", "guard", "recheck", "compare", "survey"}
Writing  == {"replace", "remove", "restore"}
InLock   == {"guard", "recheck", "replace", "compare", "survey", "remove", "restore"}
Ended    == {"published", "refused", "failed", "stuck", "dead"}
Points   == {"idle", "working", "lock"} \cup Looking \cup InLock \cup Ended

(* Paths the worker changed in its copy; paths that would be left to do.   *)
Changed(w) == {p \in Path : tx[w].cand[p] # tx[w].base[p]}
Begin(w, at, paths) ==
    tx' = [tx EXCEPT ![w] = [@ EXCEPT !.at = at, !.left = paths, !.ok = TRUE]]

(* A transaction without copies.                                           *)
Blank(at) == [at |-> at, base |-> [p \in Path |-> Old], cand |-> [p \in Path |-> Old],
              left |-> {}, ok |-> TRUE, owned |-> {}]

(* The outcome of a call; its copies are deleted (close).                  *)
Close(w, at) ==
    /\ tx' = [tx EXCEPT ![w] = Blank(at)]
    /\ behind' = [behind EXCEPT ![w] = {}]

(* A loop over sorted paths takes the lowest one left.                     *)
IsNext(w, p) == p \in tx[w].left /\ \A q \in tx[w].left : p <= q

At(w, at) == tx[w].at = at
Done(w, at) == At(w, at) /\ tx[w].left = {}

-----------------------------------------------------------------------------
Init ==
    /\ tree = [p \in Path |-> Old]
    /\ lock = NoWorker
    /\ tx = [w \in Worker |-> Blank("idle")]
    /\ behind = [w \in Worker |-> {}]
    /\ edits = Edit

(* The user, an editor or an executor writes a path of the live tree.      *)
UserEdit(p, e) ==
    /\ e \in edits
    /\ tree' = [tree EXCEPT ![p] = e]
    /\ edits' = edits \ {e}
    /\ behind' = [w \in Worker |-> IF tx[w].at \in Ended \cup {"idle"}
                                     THEN {} ELSE behind[w] \cup {p}]
    /\ UNCHANGED <<lock, tx>>

(* SourceTreeTransaction.open: captures before and after the copy have to  *)
(* agree with the copy, so a baseline that is kept was the tree.           *)
Snapshot(w) ==
    /\ At(w, "idle")
    /\ tx' = [tx EXCEPT ![w] = [@ EXCEPT !.at = "working", !.base = tree]]
    /\ behind' = [behind EXCEPT ![w] = {}]
    /\ UNCHANGED <<tree, lock, edits>>

(* The worker changed some paths of its copy within its scope and reported *)
(* them truly; or it failed, or the capture after it did (see Trouble).    *)
Finish(w) ==
    /\ At(w, "working")
    /\ \E delta \in SUBSET Path : \E deleted \in SUBSET (delta \cap Removable) :
          tx' = [tx EXCEPT ![w] = [@ EXCEPT
                    !.at = "check", !.left = Path,
                    !.cand = [p \in Path |->
                        IF p \notin delta THEN tx[w].base[p]
                        ELSE IF p \in deleted THEN Missing ELSE w]]]
    /\ UNCHANGED <<tree, lock, behind, edits>>

WorkerFails(w) ==
    /\ At(w, "working") \/ ("read" \in Failures /\ At(w, "check"))
    /\ Close(w, "refused")
    /\ UNCHANGED <<tree, lock, edits>>

-----------------------------------------------------------------------------
(* Mutant: every path a publication meant to change is taken for its own.  *)
OwnsAny(w, p) == p \in Changed(w)
(* rollbackPublished: a path is ours while it carries our candidate.       *)
Owns(w, p) == p \in Changed(w) /\ tree[p] = tx[w].cand[p]

(* captureTree reads the paths in any order, the recheck of the changed    *)
(* ones in theirs; what is expected is the baseline, and after the         *)
(* replacements the candidate.                                             *)
Expected(w) == IF At(w, "compare") THEN tx[w].cand ELSE tx[w].base

Look(w, p) ==
    /\ tx[w].at \in Looking /\ p \in tx[w].left
    /\ At(w, "recheck") => IsNext(w, p)
    /\ tx' = [tx EXCEPT ![w] = [@ EXCEPT
                !.left = tx[w].left \ {p},
                !.ok = tx[w].ok /\ tree[p] = Expected(w)[p],
                !.owned = tx[w].owned \cup {q \in {p} : At(w, "survey") /\ Owns(w, p)}]]
    /\ behind' = [behind EXCEPT ![w] = @ \ {p}]
    /\ UNCHANGED <<tree, lock, edits>>

(* assertSourceUnchanged after the worker, outside the lock.               *)
Checked(w) ==
    /\ Done(w, "check")
    /\ IF tx[w].ok THEN Begin(w, "lock", {}) /\ UNCHANGED behind ELSE Close(w, "refused")
    /\ UNCHANGED <<tree, lock, edits>>

(* Mutant: the publication does not wait for the lock.                     *)
EnterUnlocked(w) ==
    /\ At(w, "lock")
    /\ lock' = w
    /\ Begin(w, "guard", Path)
    /\ UNCHANGED <<tree, behind, edits>>

(* withFileLock                                                            *)
Enter(w) ==
    /\ At(w, "lock") /\ lock = NoWorker
    /\ lock' = w
    /\ Begin(w, "guard", Path)
    /\ UNCHANGED <<tree, behind, edits>>

(* Mutant: the lock is kept.                                               *)
LeaveLocked(w, at) ==
    /\ UNCHANGED lock
    /\ Close(w, at)

(* The end of withFileLock, however the call ends.                         *)
Leave(w, at) ==
    /\ lock' = NoWorker
    /\ Close(w, at)

(* publish: assertSourceUnchanged under the lock, before the try block.    *)
Guarded(w) ==
    /\ Done(w, "guard")
    /\ IF tx[w].ok THEN Begin(w, "recheck", Changed(w)) /\ UNCHANGED <<lock, behind>>
                   ELSE Leave(w, "refused")
    /\ UNCHANGED <<tree, edits>>

(* captureTree throws there: still nothing was published.                  *)
GuardFails(w) ==
    /\ "read" \in Failures /\ At(w, "guard")
    /\ Leave(w, "refused")
    /\ UNCHANGED <<tree, edits>>

(* Mutant: what the recheck found does not matter.                         *)
RecheckIgnored(w) ==
    /\ Done(w, "recheck")
    /\ Begin(w, "replace", Changed(w))
    /\ UNCHANGED <<tree, lock, behind, edits>>

(* publishChanges: every changed path is compared with its baseline first, *)
Rechecked(w) ==
    /\ Done(w, "recheck")
    /\ IF tx[w].ok THEN Begin(w, "replace", Changed(w)) ELSE Begin(w, "survey", Path)
    /\ UNCHANGED <<tree, lock, behind, edits>>

(* and then every one is replaced or removed (publishEntry).               *)
Replace(w, p) ==
    /\ At(w, "replace") /\ IsNext(w, p)
    /\ tree' = [tree EXCEPT ![p] = tx[w].cand[p]]
    /\ tx' = [tx EXCEPT ![w].left = @ \ {p}]
    /\ behind' = [behind EXCEPT ![w] = @ \ {p}]
    /\ UNCHANGED <<lock, edits>>

(* Any call of the try block throws: a recheck, a replacement or the       *)
(* capture after them.                                                     *)
PublishFails(w) ==
    /\ "publish" \in Failures /\ tx[w].at \in {"recheck", "replace", "compare"}
    /\ Begin(w, "survey", Path)
    /\ UNCHANGED <<tree, lock, behind, edits>>

Replaced(w) ==
    /\ Done(w, "replace")
    /\ Begin(w, "compare", Path)
    /\ UNCHANGED <<tree, lock, behind, edits>>

(* Mutant: a mismatch fails the publication without undoing it.            *)
ComparedNoRollback(w) ==
    /\ Done(w, "compare")
    /\ Leave(w, IF tx[w].ok THEN "published" ELSE "failed")
    /\ UNCHANGED <<tree, edits>>

(* The tree has to be the staged candidate.                                *)
Compared(w) ==
    /\ Done(w, "compare")
    /\ IF tx[w].ok THEN Leave(w, "published")
                   ELSE Begin(w, "survey", Path) /\ UNCHANGED <<lock, behind>>
    /\ UNCHANGED <<tree, edits>>

-----------------------------------------------------------------------------
(* rollbackPublished and restorePaths: the paths that still carry the      *)
(* candidate are removed, then copied back from the baseline.              *)
Surveyed(w) ==
    /\ Done(w, "survey")
    /\ Begin(w, "remove", tx[w].owned)
    /\ UNCHANGED <<tree, lock, behind, edits>>

Remove(w, p) ==
    /\ At(w, "remove") /\ IsNext(w, p)
    /\ tree' = [tree EXCEPT ![p] = Missing]
    /\ tx' = [tx EXCEPT ![w].left = @ \ {p}]
    /\ behind' = [behind EXCEPT ![w] = @ \ {p}]
    /\ UNCHANGED <<lock, edits>>

Removed(w) ==
    /\ Done(w, "remove")
    /\ Begin(w, "restore", {p \in tx[w].owned : tx[w].base[p] # Missing})
    /\ UNCHANGED <<tree, lock, behind, edits>>

Restore(w, p) ==
    /\ At(w, "restore") /\ IsNext(w, p)
    /\ tree' = [tree EXCEPT ![p] = tx[w].base[p]]
    /\ tx' = [tx EXCEPT ![w].left = @ \ {p}]
    /\ behind' = [behind EXCEPT ![w] = @ \ {p}]
    /\ UNCHANGED <<lock, edits>>

(* A path that is not as in the baseline makes the rollback incomplete.    *)
Restored(w) ==
    /\ Done(w, "restore")
    /\ Leave(w, IF \A p \in tx[w].owned : tree[p] = tx[w].base[p] THEN "failed" ELSE "stuck")
    /\ UNCHANGED <<tree, edits>>

(* Any call of the rollback throws: its captures before and after, a       *)
(* removal, a copy, or the removal of a created parent directory.          *)
RollbackFails(w) ==
    /\ "rollback" \in Failures /\ tx[w].at \in {"survey", "remove", "restore"}
    /\ Leave(w, "stuck")
    /\ UNCHANGED <<tree, edits>>

(* The process dies and its stale lock is recovered.  One that dies before *)
(* it has the lock is a worker that takes no further step.                 *)
Crash(w) ==
    /\ Crashes /\ tx[w].at \in InLock
    /\ Leave(w, "dead")
    /\ UNCHANGED <<tree, edits>>

-----------------------------------------------------------------------------
Publish(w) ==
    \/ Checked(w) \/ Enter(w) \/ Guarded(w) \/ Rechecked(w) \/ Replaced(w) \/ Compared(w)
    \/ \E p \in Path : Look(w, p) \/ Replace(w, p)
Rollback(w) ==
    \/ Surveyed(w) \/ Removed(w) \/ Restored(w)
    \/ \E p \in Path : Remove(w, p) \/ Restore(w, p)
Trouble(w) ==
    \/ WorkerFails(w) \/ GuardFails(w) \/ PublishFails(w) \/ RollbackFails(w) \/ Crash(w)

Next ==
    \/ \E w \in Worker : Snapshot(w) \/ Finish(w) \/ Publish(w) \/ Rollback(w) \/ Trouble(w)
    \/ \E p \in Path, e \in Edit : UserEdit(p, e)

Spec == Init /\ [][Next]_vars

(* A live process completes the calls it has issued; the lock is waited    *)
(* for by polling, so a worker may be overtaken but not for ever.          *)
FairSpec == /\ Spec
            /\ \A w \in Worker : WF_vars(Publish(w) \/ Rollback(w)) /\ SF_vars(Enter(w))

-----------------------------------------------------------------------------
(* The variables have their types.                                         *)
TypeOK ==
    /\ tree \in Tree
    /\ lock \in Worker \cup {NoWorker}
    /\ tx \in [Worker -> [at : Points, base : Tree, cand : Tree, left : SUBSET Path,
                          ok : BOOLEAN, owned : SUBSET Path]]
    /\ behind \in [Worker -> SUBSET Path]
    /\ edits \subseteq Edit

(* A publication overwrites an edit only if the edit came after the        *)
(* publication's last look at that path: nothing the user had changed when *)
(* publishChanges looked, and nothing another worker published, is lost.   *)
OverwritesOnlyUnseen ==
    \A w \in Worker : \A p \in tx[w].left :
        At(w, "replace") => tree[p] = tx[w].base[p] \/ p \in behind[w]

(* A rollback takes away what this publication itself put there, or an     *)
(* edit it could not have seen; edits over published paths stay.           *)
RollbackTakesOnlyOwn ==
    \A w \in Worker : \A p \in tx[w].left :
        At(w, "remove") => tree[p] = tx[w].cand[p] \/ p \in behind[w]

(* A publication that reports a clean failure left nothing of its          *)
(* candidate in the repository.                                            *)
FailedPublishesNothing ==
    [][\A w \in Worker : ~At(w, "failed") /\ tx'[w].at = "failed" =>
          \A p \in Changed(w) : tree'[p] # tx[w].cand[p]]_vars

(* Publications are compare-and-swap of the whole tree among the workers   *)
(* that take the lock, while nobody edits, crashes or fails to roll back.  *)
Atomic == INSTANCE AtomicPublication WITH
    tree <- IF lock # NoWorker /\ tx[lock].at \in InLock \ {"guard"}
              THEN tx[lock].base ELSE tree,
    base <- [w \in Worker |-> tx[w].base],
    published <- {w \in Worker : At(w, "published")},
    undisturbed <- edits = Edit /\ \A w \in Worker : tx[w].at \notin {"dead", "stuck"}
ImplementsAtomicPublication == Atomic!Spec

(* Every worker that finished gets an outcome: nobody waits for the        *)
(* publication lock for ever, whatever fails under it.                     *)
PublicationEnds ==
    \A w \in Worker : At(w, "check") ~> tx[w].at \in Ended
=============================================================================
