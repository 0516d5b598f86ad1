-------------------------- MODULE AtomicPublication --------------------------
(***************************************************************************)
(* What publication into a repository promises its workers: a worker's     *)
(* change replaces, in one step, exactly the tree the worker started from, *)
(* and any other worker's change in between refuses it.                    *)
(***************************************************************************)
CONSTANTS Worker, Tree

VARIABLES
    tree,       \* the repository
    base,       \* base[w]: the tree w took as its baseline
    published,  \* workers whose change is in
    undisturbed \* nobody but the workers has touched the repository

vars == <<tree, base, published>>

Init == tree \in Tree /\ base \in [Worker -> Tree] /\ published = {}

(* A baseline read while somebody publishes may be no tree there ever was. *)
Rebase(w) == \E t \in Tree : base' = [base EXCEPT ![w] = t]

Snapshot(w) ==
    /\ w \notin published
    /\ Rebase(w)
    /\ UNCHANGED <<tree, published>>

(* The baseline of a published change is of no use any more.               *)
Publish(w) ==
    /\ w \notin published
    /\ base[w] = tree
    /\ tree' \in Tree
    /\ published' = published \cup {w}
    /\ Rebase(w)

Next == \E w \in Worker : Snapshot(w) \/ Publish(w)

(* The promise lasts until an edit, a crash or a failed rollback.          *)
Spec == Init /\ [][undisturbed' => Next]_vars
=============================================================================
