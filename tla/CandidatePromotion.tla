------------------------- MODULE CandidatePromotion -------------------------
(***************************************************************************)
(* Publication of the winning candidate into the source repository         *)
(* (src/repository/candidate-promotion.ts, -files.ts, -record.ts).  A      *)
(* durable record goes scored -> promoting -> promoted, or back to scored  *)
(* when anything fails, the rollback and the last write included.          *)
(*                                                                         *)
(* The promotion's two locks exclude other promotions and other            *)
(* publications of the extension (SourcePublication); here only the user   *)
(* writes to the tree besides the promotion.  A record that cannot be      *)
(* written elsewhere throws out of the coordinator, which is a crash to    *)
(* the durable state.                                                      *)
(***************************************************************************)
EXTENDS CandidateWorktrees

VARIABLES
  rec,       \* the durable promotion record
  base,      \* the transaction's baseline, per process
  todo,      \* paths of the delta not yet published, per process
  pubs,      \* number of publications that were compared and accepted
  lost,      \* how many of them the record has forgotten (history)
  torn       \* TRUE once a rollback has failed (history)

promotionVars == <<rec, base, todo, pubs, lost, torn>>

PromotionTypeOK ==
  /\ rec \in {None, "scored", "promoting", "promoted"}
  /\ base \in [Procs -> Tree]
  /\ todo \in [Procs -> SUBSET Paths]
  /\ pubs \in Nat /\ lost \in Nat /\ torn \in BOOLEAN

PromotionInit ==
  /\ rec = None
  /\ base = [p \in Procs |-> HeadTree]
  /\ todo = [p \in Procs |-> {}]
  /\ pubs = 0 /\ lost = 0 /\ torn = FALSE

CloseTransaction(p) ==
  /\ base' = [base EXCEPT ![p] = HeadTree]
  /\ todo' = [todo EXCEPT ![p] = {}]

\* repositoryDelta: the paths in which candidate and source differ.
Delta(c) == {x \in Paths : wt[c].files[x] # tree[x]}

NextPath(p) == CHOOSE x \in todo[p] : \A y \in todo[p] : x <= y

RecordScored(p, w) ==
  /\ At(p, "recordScored")
  /\ rec' = IF Promotable(w) THEN "scored" ELSE rec
  /\ Goto(p, IF rec' = "scored" THEN "promoting" ELSE "throw")
  /\ UNCHANGED <<tree, ret, expired, wtVars, base, todo, pubs, lost, torn>>

\* Mutant: the record is not marked before the publication.
PromoteUnmarked(p) ==
  /\ At(p, "promoting") /\ rec = "scored"
  /\ Goto(p, "open")
  /\ UNCHANGED <<tree, ret, expired, wtVars, promotionVars>>

MarkPromoting(p) ==
  /\ At(p, "promoting") /\ rec = "scored"
  /\ rec' = "promoting"
  /\ Goto(p, "open")
  /\ UNCHANGED <<tree, ret, expired, wtVars, base, todo, pubs, lost, torn>>

\* openTransaction: the winner must be a promotable, unfinalized winner; the
\* source is copied as the baseline.
OpenTransaction(p, w) ==
  /\ At(p, "open")
  /\ IF Promotable(w) /\ man.status[w] = "winner"
     THEN Goto(p, "verify") /\ base' = [base EXCEPT ![p] = tree]
     ELSE Goto(p, "demote") /\ UNCHANGED base
  /\ UNCHANGED <<tree, ret, expired, wtVars, rec, todo, pubs, lost, torn>>

\* The source is the snapshot the candidates started from and the delta is
\* the one of the receipt.
VerifySource(p, w, snapshot, receipt) ==
  /\ At(p, "verify")
  /\ IF tree = snapshot /\ tree = base[p] /\ Promotable(w) /\ Delta(w) = receipt
     THEN Goto(p, "guard") /\ todo' = [todo EXCEPT ![p] = receipt]
     ELSE Goto(p, "demote") /\ UNCHANGED todo
  /\ UNCHANGED <<tree, ret, expired, wtVars, rec, base, pubs, lost, torn>>

\* Under the publication lock, before the first path.
GuardPublication(p) ==
  /\ At(p, "guard")
  /\ Goto(p, IF tree = base[p] THEN "publish" ELSE "demote")
  /\ UNCHANGED <<tree, ret, expired, wtVars, promotionVars>>

\* applyDelta: each path is compared with the baseline and then replaced.
RecheckPath(p) ==
  /\ At(p, "publish") /\ todo[p] # {}
  /\ Goto(p, IF tree[NextPath(p)] = base[p][NextPath(p)] THEN "rename" ELSE "rollback")
  /\ UNCHANGED <<tree, ret, expired, wtVars, promotionVars>>

ReplacePath(p, w) ==
  /\ At(p, "rename")
  /\ tree' = [tree EXCEPT ![NextPath(p)] = wt[w].files[NextPath(p)]]
  /\ todo' = [todo EXCEPT ![p] = @ \ {NextPath(p)}]
  /\ Goto(p, "publish")
  /\ UNCHANGED <<ret, expired, wtVars, rec, base, pubs, lost, torn>>

ReplaceFails(p) ==
  /\ pc[p] \in {"publish", "rename"}
  /\ Goto(p, "rollback")
  /\ UNCHANGED <<tree, ret, expired, wtVars, promotionVars>>

\* The published tree is captured and compared with the staged one.
ComparePublished(p, w) ==
  /\ At(p, "publish") /\ todo[p] = {}
  /\ IF tree = wt[w].files
     THEN Goto(p, "recordPromoted") /\ pubs' = pubs + 1
     ELSE Goto(p, "rollback") /\ UNCHANGED pubs
  /\ UNCHANGED <<tree, ret, expired, wtVars, rec, base, todo, lost, torn>>

\* Mutant: what was published before the failure stays.
KeepPublished(p, w) ==
  /\ At(p, "rollback")
  /\ Goto(p, "demote")
  /\ UNCHANGED <<tree, ret, expired, wtVars, promotionVars>>

\* rollbackPublished: paths that are exactly as published get the baseline,
RollBack(p, w) ==
  /\ At(p, "rollback")
  /\ todo' = [todo EXCEPT ![p] =
               {x \in Paths : base[p][x] # wt[w].files[x] /\ tree[x] = wt[w].files[x]}]
  /\ Goto(p, "restore")
  /\ UNCHANGED <<tree, ret, expired, wtVars, rec, base, pubs, lost, torn>>

\* one by one (restorePaths; SourcePublication has its two passes).
RestorePath(p) ==
  /\ At(p, "restore") /\ todo[p] # {}
  /\ tree' = [tree EXCEPT ![NextPath(p)] = base[p][NextPath(p)]]
  /\ todo' = [todo EXCEPT ![p] = @ \ {NextPath(p)}]
  /\ UNCHANGED <<pc, ret, expired, wtVars, rec, base, pubs, lost, torn>>

Restored(p) ==
  /\ At(p, "restore") /\ todo[p] = {}
  /\ Goto(p, "demote")
  /\ UNCHANGED <<tree, ret, expired, wtVars, promotionVars>>

\* A call of the rollback fails, or what it restored is not the baseline.  The
\* error is classified as any other and the record goes back all the same.
RollbackFails(p) ==
  /\ pc[p] \in {"rollback", "restore"}
  /\ torn' = TRUE
  /\ Goto(p, "demote")
  /\ UNCHANGED <<tree, ret, expired, wtVars, rec, base, todo, pubs, lost>>

\* The catch block: whatever was published before, the record says scored.
Demote(p) ==
  /\ At(p, "demote")
  /\ rec' = "scored" /\ lost' = pubs
  /\ Goto(p, "reread")
  /\ CloseTransaction(p)
  /\ UNCHANGED <<tree, ret, expired, wtVars, pubs, torn>>

RecordPromoted(p) ==
  /\ At(p, "recordPromoted")
  /\ rec' = "promoted"
  /\ Goto(p, "reread")
  /\ CloseTransaction(p)
  /\ UNCHANGED <<tree, ret, expired, wtVars, pubs, lost, torn>>

\* The write fails, before or after its rename: the same catch block.
RecordPromotedFails(p) ==
  /\ At(p, "recordPromoted")
  /\ rec' \in {rec, "promoted"}
  /\ Goto(p, "demote")
  /\ UNCHANGED <<tree, ret, expired, wtVars, base, todo, pubs, lost, torn>>

Promote(p, w, snapshot, receipt) ==
  \/ RecordScored(p, w) \/ MarkPromoting(p) \/ OpenTransaction(p, w)
  \/ VerifySource(p, w, snapshot, receipt) \/ GuardPublication(p) \/ RecheckPath(p)
  \/ ReplacePath(p, w) \/ ReplaceFails(p) \/ ComparePublished(p, w)
  \/ RollBack(p, w) \/ RestorePath(p) \/ Restored(p) \/ RollbackFails(p)
  \/ Demote(p) \/ RecordPromoted(p) \/ RecordPromotedFails(p)
=============================================================================
