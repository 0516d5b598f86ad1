----------------------- MODULE SourcePublicationProofs -----------------------
(* What a publication may overwrite, what a rollback may take away, what a *)
(* failure leaves behind, and that publications are atomic among workers:  *)
(* for any number of workers, paths and edits, with failures and crashes.  *)
EXTENDS SourcePublication, TLAPS

(* What holds of one call.  Only the holder of the publication lock is     *)
(* between guard and restore, so no other worker writes the tree then.     *)
HoldsLock(w) == tx[w].at \in InLock => lock = w

(* A path that passed the recheck is at its baseline, or was edited since, *)
(* and so it is until the path is replaced.                                *)
RecheckedIsBase(w) ==
    At(w, "recheck") /\ tx[w].ok =>
        \A p \in Changed(w) \ tx[w].left : tree[p] = tx[w].base[p] \/ p \in behind[w]
ReplacesBase(w) ==
    At(w, "replace") =>
        \A p \in tx[w].left : tree[p] = tx[w].base[p] \/ p \in behind[w]

(* The survey of a rollback starts from nothing and collects paths it has  *)
(* looked at and that carried the candidate; those are the ones removed.   *)
OwnedInRollback(w) ==
    tx[w].at \notin {"survey", "remove", "restore"} => tx[w].owned = {}
SurveyedIsOwn(w) ==
    At(w, "survey") =>
        \A p \in tx[w].owned : /\ p \notin tx[w].left
                               /\ tree[p] = tx[w].cand[p] \/ p \in behind[w]
RemovesOwn(w) ==
    At(w, "remove") =>
        \A p \in tx[w].left : tree[p] = tx[w].cand[p] \/ p \in behind[w]

Sound(w) ==
    /\ HoldsLock(w)
    /\ RecheckedIsBase(w) /\ ReplacesBase(w)
    /\ OwnedInRollback(w) /\ SurveyedIsOwn(w) /\ RemovesOwn(w)

IInv == TypeOK /\ \A w \in Worker : Sound(w)

Transactions == [at : Points, base : Tree, cand : Tree, left : SUBSET Path,
                 ok : BOOLEAN, owned : SUBSET Path]

(* A transaction without copies is a transaction.                          *)
LEMMA BlankType == ASSUME NEW at \in Points PROVE Blank(at) \in Transactions
  BY DEF Blank, Transactions, Tree, Content

(* What is left to do when a phase begins is a set of paths.               *)
LEMMA BeginType ==
    ASSUME TypeOK, NEW w \in Worker, NEW at \in Points, NEW S \in SUBSET Path,
           Begin(w, at, S)
    PROVE  tx' \in [Worker -> Transactions]
  BY DEF TypeOK, Begin, Transactions

(* A call that ends leaves a blank transaction.                            *)
LEMMA CloseType ==
    ASSUME TypeOK, NEW w \in Worker, NEW at \in Points, Close(w, at)
    PROVE  tx' \in [Worker -> Transactions] /\ behind' \in [Worker -> SUBSET Path]
  BY BlankType DEF TypeOK, Close, Transactions

(* A call that ends under the lock leaves lock and transaction typed.      *)
LEMMA LeaveType ==
    ASSUME TypeOK, NEW w \in Worker, NEW at \in Points, Leave(w, at)
    PROVE  /\ tx' \in [Worker -> Transactions] /\ behind' \in [Worker -> SUBSET Path]
           /\ lock' \in Worker \cup {NoWorker}
  BY CloseType DEF Leave

(* Every action keeps the variables in their types.                        *)
LEMMA TypeStep == TypeOK /\ [Next]_vars => TypeOK'
<1> SUFFICES ASSUME TypeOK, [Next]_vars PROVE TypeOK'
  OBVIOUS
<1> USE DEF Points, Looking, InLock, Ended
<1> DEFINE Typed ==
      /\ tree' \in Tree
      /\ lock' \in Worker \cup {NoWorker}
      /\ tx' \in [Worker -> Transactions]
      /\ behind' \in [Worker -> SUBSET Path]
      /\ edits' \subseteq Edit
<1>q. Typed => TypeOK'
  BY DEF TypeOK, Transactions
<1> SUFFICES Typed
  BY <1>q
<1>t. /\ tree \in Tree /\ lock \in Worker \cup {NoWorker}
      /\ tx \in [Worker -> Transactions]
      /\ behind \in [Worker -> SUBSET Path] /\ edits \subseteq Edit
  BY DEF TypeOK, Transactions
<1>c. \A w \in Worker : Changed(w) \in SUBSET Path
  BY DEF Changed
<1>1. ASSUME NEW p \in Path, NEW e \in Edit, UserEdit(p, e) PROVE Typed
  BY <1>1, <1>t DEF UserEdit, Tree, Content
<1>2. ASSUME NEW w \in Worker, Snapshot(w) PROVE Typed
  BY <1>2, <1>t DEF Snapshot, Transactions
<1>3. ASSUME NEW w \in Worker, Finish(w) PROVE Typed
  <2>1. PICK delta \in SUBSET Path, deleted \in SUBSET Path :
          tx' = [tx EXCEPT ![w] = [@ EXCEPT
                    !.at = "check", !.left = Path,
                    !.cand = [p \in Path |->
                        IF p \notin delta THEN tx[w].base[p]
                        ELSE IF p \in deleted THEN Missing ELSE w]]]
    BY <1>3 DEF Finish
  <2>2. [p \in Path |-> IF p \notin delta THEN tx[w].base[p]
                        ELSE IF p \in deleted THEN Missing ELSE w] \in Tree
    BY <1>t DEF Transactions, Tree, Content
  <2>3. PICK f \in Tree :
          tx' = [tx EXCEPT ![w] = [@ EXCEPT !.at = "check", !.left = Path, !.cand = f]]
    BY <2>1, <2>2
  <2>4. tx' \in [Worker -> Transactions]
    BY <2>3, <1>t DEF Transactions
  <2> QED BY <1>3, <2>4, <1>t DEF Finish
<1>4. ASSUME NEW w \in Worker, WorkerFails(w) PROVE Typed
  BY <1>4, <1>t, CloseType DEF WorkerFails
<1>5. ASSUME NEW w \in Worker, NEW p \in Path, Look(w, p) PROVE Typed
  <2> DEFINE found == tx[w].ok /\ tree[p] = Expected(w)[p]
             owned == tx[w].owned \cup {q \in {p} : At(w, "survey") /\ Owns(w, p)}
  <2>0. found \in BOOLEAN
    OBVIOUS
  <2>1. owned \in SUBSET Path
    BY <1>t DEF Transactions
  <2>2. tx' = [tx EXCEPT ![w] = [tx[w] EXCEPT !.left = tx[w].left \ {p},
                                              !.ok = found, !.owned = owned]]
    BY <1>5 DEF Look
  <2> HIDE DEF found, owned
  <2>3. tx' \in [Worker -> Transactions]
    BY <2>0, <2>1, <2>2, <1>t DEF Transactions
  <2> QED BY <1>5, <2>3, <1>t DEF Look
<1>6. ASSUME NEW w \in Worker, Checked(w) PROVE Typed
  BY <1>6, <1>t, CloseType, BeginType DEF Checked
<1>7. ASSUME NEW w \in Worker, Enter(w) PROVE Typed
  BY <1>7, <1>t, BeginType DEF Enter
<1>8. ASSUME NEW w \in Worker, Guarded(w) PROVE Typed
  BY <1>8, <1>t, <1>c, LeaveType, BeginType DEF Guarded
<1>9. ASSUME NEW w \in Worker, Rechecked(w) PROVE Typed
  BY <1>9, <1>t, <1>c, BeginType DEF Rechecked
<1>10. ASSUME NEW w \in Worker, NEW p \in Path, Replace(w, p) PROVE Typed
  BY <1>10, <1>t DEF Replace, Transactions, Tree
<1>11. ASSUME NEW w \in Worker, PublishFails(w) PROVE Typed
  BY <1>11, <1>t, BeginType DEF PublishFails
<1>12. ASSUME NEW w \in Worker, Replaced(w) PROVE Typed
  BY <1>12, <1>t, BeginType DEF Replaced
<1>13. ASSUME NEW w \in Worker, Compared(w) PROVE Typed
  BY <1>13, <1>t, LeaveType, BeginType DEF Compared
<1>14. ASSUME NEW w \in Worker, Surveyed(w) PROVE Typed
  BY <1>14, <1>t, BeginType DEF Surveyed, Transactions
<1>15. ASSUME NEW w \in Worker, NEW p \in Path, Remove(w, p) PROVE Typed
  BY <1>15, <1>t DEF Remove, Transactions, Tree, Content
<1>16. ASSUME NEW w \in Worker, Removed(w) PROVE Typed
  BY <1>16, <1>t, BeginType DEF Removed, Transactions
<1>17. ASSUME NEW w \in Worker, NEW p \in Path, Restore(w, p) PROVE Typed
  <2> DEFINE c == tx[w].base[p]
  <2>1. c \in Content /\ tree' = [tree EXCEPT ![p] = c]
    BY <1>17, <1>t DEF Restore, Transactions, Tree
  <2> HIDE DEF c
  <2>2. tree' \in Tree
    BY <1>t, <2>1 DEF Tree
  <2> QED BY <1>17, <1>t, <2>2 DEF Restore, Transactions
<1>18. ASSUME NEW w \in Worker, Restored(w) PROVE Typed
  BY <1>18, <1>t, LeaveType DEF Restored
<1>19. ASSUME NEW w \in Worker, RollbackFails(w) \/ GuardFails(w) PROVE Typed
  BY <1>19, <1>t, LeaveType DEF RollbackFails, GuardFails
<1>20. ASSUME NEW w \in Worker, Crash(w) PROVE Typed
  BY <1>20, <1>t, LeaveType DEF Crash
<1>21. CASE UNCHANGED vars
  BY <1>21, <1>t DEF vars
<1> QED
  BY <1>1, <1>2, <1>3, <1>4, <1>5, <1>6, <1>7, <1>8, <1>9, <1>10, <1>11, <1>12,
     <1>13, <1>14, <1>15, <1>16, <1>17, <1>18, <1>19, <1>20, <1>21
     DEF Next, Publish, Rollback, Trouble

(* The initial state is typed: idle calls, a free lock.                    *)
LEMMA InitType == Init => TypeOK
  BY BlankType DEF Init, TypeOK, Transactions, Points, Tree, Content

(* The types of the variables hold throughout.                             *)
THEOREM TypeCorrect == Spec => []TypeOK
  BY InitType, TypeStep, PTL DEF Spec

(* A step of one worker leaves every other call sound: it writes the tree  *)
(* and lets go of the lock only while it holds the lock.                   *)
LEMMA OthersSound ==
    ASSUME IInv, NEW w \in Worker, NEW v \in Worker, v # w,
           tx'[v] = tx[v], behind'[v] = behind[v],
           lock' = lock \/ lock \in {NoWorker, w}, tree' = tree \/ lock = w
    PROVE  Sound(v)'
<1>1. Sound(v) /\ v # NoWorker
  BY ConstantsAssumption DEF IInv
<1>2. CASE tx[v].at \in InLock
  <2>1. tree' = tree /\ lock' = lock
    BY <1>1, <1>2 DEF Sound, HoldsLock
  <2> QED
    BY <1>1, <2>1 DEF Sound, HoldsLock, RecheckedIsBase, ReplacesBase,
       OwnedInRollback, SurveyedIsOwn, RemovesOwn, At, Changed
<1>3. CASE tx[v].at \notin InLock
  BY <1>1, <1>3 DEF Sound, HoldsLock, RecheckedIsBase, ReplacesBase,
     OwnedInRollback, SurveyedIsOwn, RemovesOwn, At, InLock
<1> QED BY <1>2, <1>3

(* A call that is over is sound, and so is every other one.                *)
LEMMA CloseSound ==
    ASSUME IInv, NEW w \in Worker, NEW at \in Ended, Close(w, at), tree' = tree,
           lock' = lock \/ lock = w
    PROVE  \A v \in Worker : Sound(v)'
<1>1. tx'[w].at = at /\ tx'[w].owned = {}
  BY DEF Close, Blank, IInv, TypeOK
<1>2. Sound(w)'
  BY <1>1 DEF Sound, HoldsLock, RecheckedIsBase, ReplacesBase,
     OwnedInRollback, SurveyedIsOwn, RemovesOwn, At, InLock, Ended
<1>3. ASSUME NEW v \in Worker, v # w PROVE Sound(v)'
  <2>1. tx'[v] = tx[v] /\ behind'[v] = behind[v]
    BY <1>3 DEF Close, IInv, TypeOK
  <2> QED BY <1>3, <2>1, OthersSound
<1> QED BY <1>2, <1>3

(* A phase that begins under the lock keeps copies and survey.             *)
LEMMA BeginFields ==
    ASSUME TypeOK, NEW w \in Worker, NEW at, NEW S, Begin(w, at, S)
    PROVE  /\ tx'[w].at = at /\ tx'[w].left = S
           /\ tx'[w].base = tx[w].base /\ tx'[w].cand = tx[w].cand
           /\ tx'[w].owned = tx[w].owned
           /\ \A v \in Worker : v # w => tx'[v] = tx[v]
  BY DEF Begin, TypeOK

(* Beginning a phase keeps every call sound if the phase has what it needs *)
(* from the one before: the recheck for a replacement, the survey for a    *)
(* removal, and no earlier survey for a new one.                           *)
LEMMA BeginSound ==
    ASSUME IInv, NEW w \in Worker, NEW at \in Points \ {"idle"}, NEW S \in SUBSET Path,
           Begin(w, at, S), tree' = tree, behind' = behind,
           at \in InLock => lock' = w, lock' = lock \/ lock \in {NoWorker, w},
           at = "recheck" => S = Changed(w),
           at = "replace" => \A p \in S : tree[p] = tx[w].base[p] \/ p \in behind[w],
           at \notin {"remove", "restore"} => tx[w].owned = {},
           at = "remove" => \A p \in S : tree[p] = tx[w].cand[p] \/ p \in behind[w]
    PROVE  \A v \in Worker : Sound(v)'
<1>1. /\ tx'[w].at = at /\ tx'[w].left = S
      /\ tx'[w].base = tx[w].base /\ tx'[w].cand = tx[w].cand
      /\ tx'[w].owned = tx[w].owned
      /\ \A v \in Worker : v # w => tx'[v] = tx[v]
  BY BeginFields DEF IInv
<1>2. Changed(w)' = Changed(w)
  BY <1>1 DEF Changed
<1>3. Sound(w)'
  BY <1>1, <1>2 DEF Sound, HoldsLock, RecheckedIsBase, ReplacesBase,
     OwnedInRollback, SurveyedIsOwn, RemovesOwn, At
<1>4. ASSUME NEW v \in Worker, v # w PROVE Sound(v)'
  <2>1. tx'[v] = tx[v] /\ behind'[v] = behind[v]
    BY <1>1, <1>4
  <2> QED BY <1>4, <2>1, OthersSound
<1> QED BY <1>3, <1>4

(* A path written by the holder of the lock is a path done; the others are *)
(* as they were.                                                           *)
LEMMA WriteSound ==
    ASSUME IInv, NEW w \in Worker, NEW p \in Path,
           tx[w].at \in Writing, lock' = lock,
           \A q \in Path : q # p => tree'[q] = tree[q],
           tx' = [tx EXCEPT ![w].left = @ \ {p}],
           behind' = [behind EXCEPT ![w] = @ \ {p}]
    PROVE  \A v \in Worker : Sound(v)'
<1>1. /\ tx'[w].at = tx[w].at /\ tx'[w].left = tx[w].left \ {p}
      /\ tx'[w].base = tx[w].base /\ tx'[w].cand = tx[w].cand
      /\ tx'[w].owned = tx[w].owned
      /\ behind'[w] = behind[w] \ {p}
      /\ \A v \in Worker : v # w => tx'[v] = tx[v] /\ behind'[v] = behind[v]
  BY DEF IInv, TypeOK
<1>2. tx[w].left \subseteq Path
  BY DEF IInv, TypeOK
<1>3. Sound(w) /\ lock = w
  BY DEF IInv, Sound, HoldsLock, Writing, InLock
<1>4. Sound(w)'
  BY <1>1, <1>2, <1>3 DEF Sound, HoldsLock, RecheckedIsBase, ReplacesBase,
     OwnedInRollback, SurveyedIsOwn, RemovesOwn, At, Writing
<1>5. ASSUME NEW v \in Worker, v # w PROVE Sound(v)'
  <2>1. tx'[v] = tx[v] /\ behind'[v] = behind[v]
    BY <1>1, <1>5
  <2> QED BY <1>5, <2>1, <1>3, OthersSound
<1> QED BY <1>4, <1>5

(* A look records what it found, and only a path it had not looked at yet. *)
LEMMA LookSound ==
    ASSUME IInv, NEW w \in Worker, NEW p \in Path, Look(w, p)
    PROVE  \A v \in Worker : Sound(v)'
<1> DEFINE found == tx[w].ok /\ tree[p] = Expected(w)[p]
           owned == tx[w].owned \cup {q \in {p} : At(w, "survey") /\ Owns(w, p)}
<1>0. tx' = [tx EXCEPT ![w] = [tx[w] EXCEPT !.left = tx[w].left \ {p},
                                            !.ok = found, !.owned = owned]]
  BY DEF Look
<1> HIDE DEF found, owned
<1>1. /\ tx'[w].at = tx[w].at /\ tx'[w].left = tx[w].left \ {p}
      /\ tx'[w].base = tx[w].base /\ tx'[w].cand = tx[w].cand
      /\ tx'[w].ok = found /\ tx'[w].owned = owned
      /\ \A v \in Worker : v # w => tx'[v] = tx[v]
  BY <1>0 DEF IInv, TypeOK
<1>2. /\ tree' = tree /\ lock' = lock /\ p \in tx[w].left /\ tx[w].at \in Looking
      /\ behind'[w] = behind[w] \ {p}
      /\ \A v \in Worker : v # w => behind'[v] = behind[v]
  BY DEF Look, IInv, TypeOK
<1>3. Sound(w)
  BY DEF IInv
<1>4. Changed(w)' = Changed(w)
  BY <1>1 DEF Changed
<1>5. RecheckedIsBase(w)'
  <2>1. At(w, "recheck") /\ found => tx[w].ok /\ tree[p] = tx[w].base[p]
    BY DEF found, Expected, At
  <2> QED BY <1>1, <1>2, <1>3, <1>4, <2>1 DEF Sound, RecheckedIsBase, At
<1>6. OwnedInRollback(w)' /\ SurveyedIsOwn(w)'
  <2>1. CASE At(w, "survey")
    BY <1>1, <1>2, <1>3, <2>1 DEF Sound, OwnedInRollback, SurveyedIsOwn, owned, Owns, At
  <2>2. CASE ~At(w, "survey")
    BY <1>1, <1>2, <1>3, <2>2 DEF Sound, OwnedInRollback, SurveyedIsOwn, owned, At
  <2> QED BY <2>1, <2>2
<1>7. HoldsLock(w)' /\ ReplacesBase(w)' /\ RemovesOwn(w)'
  BY <1>1, <1>2, <1>3 DEF Sound, HoldsLock, ReplacesBase, RemovesOwn, At, Looking
<1>8. ASSUME NEW v \in Worker, v # w PROVE Sound(v)'
  <2>1. tx'[v] = tx[v] /\ behind'[v] = behind[v]
    BY <1>1, <1>2, <1>8
  <2> QED BY <1>2, <1>8, <2>1, OthersSound
<1> QED BY <1>5, <1>6, <1>7, <1>8 DEF Sound

(* An edit of the user is behind every call that is still open.            *)
LEMMA EditSound ==
    ASSUME IInv, NEW p \in Path, NEW e \in Edit, UserEdit(p, e), NEW w \in Worker
    PROVE  Sound(w)'
<1>1. Sound(w) /\ tx' = tx /\ lock' = lock
  BY DEF IInv, UserEdit
<1>2. /\ \A q \in Path : q # p => tree'[q] = tree[q]
      /\ tx[w].left \subseteq Path /\ tx[w].owned \subseteq Path
      /\ tx[w].at \in InLock => behind'[w] = behind[w] \cup {p}
  BY DEF IInv, TypeOK, Tree, UserEdit, InLock, Ended
<1>3. Changed(w)' = Changed(w) /\ Changed(w) \subseteq Path
  BY <1>1 DEF Changed
<1>4. CASE tx[w].at \in InLock
  BY <1>1, <1>2, <1>3, <1>4 DEF Sound, HoldsLock, RecheckedIsBase, ReplacesBase,
     OwnedInRollback, SurveyedIsOwn, RemovesOwn, At
<1>5. CASE tx[w].at \notin InLock
  BY <1>1, <1>5 DEF Sound, HoldsLock, RecheckedIsBase, ReplacesBase,
     OwnedInRollback, SurveyedIsOwn, RemovesOwn, At, InLock
<1> QED BY <1>4, <1>5

(* A step of a call outside the lock that only changes its own copies.     *)
LEMMA CopySound ==
    ASSUME IInv, NEW w \in Worker, tree' = tree, lock' = lock,
           tx'[w].at \notin InLock, tx'[w].owned = {},
           \A v \in Worker : v # w => tx'[v] = tx[v] /\ behind'[v] = behind[v]
    PROVE  \A v \in Worker : Sound(v)'
<1>1. Sound(w)'
  BY DEF Sound, HoldsLock, RecheckedIsBase, ReplacesBase,
     OwnedInRollback, SurveyedIsOwn, RemovesOwn, At, InLock
<1>2. ASSUME NEW v \in Worker, v # w PROVE Sound(v)'
  BY <1>2, OthersSound
<1> QED BY <1>1, <1>2

(* Every action keeps every call sound.                                    *)
LEMMA SoundStep == IInv /\ [Next]_vars => \A w \in Worker : Sound(w)'
<1> SUFFICES ASSUME IInv, [Next]_vars PROVE \A w \in Worker : Sound(w)'
  OBVIOUS
<1> DEFINE Good == \A w \in Worker : Sound(w)'
<1>t. /\ TypeOK /\ \A w \in Worker : Sound(w) /\ Changed(w) \in SUBSET Path
      /\ \A w \in Worker : tx[w].owned \in SUBSET Path /\ tx[w].left \in SUBSET Path
  BY DEF IInv, TypeOK, Changed
<1>l. \A w \in Worker : tx[w].at \in InLock => lock = w
  BY <1>t DEF Sound, HoldsLock
<1>o. \A w \in Worker : tx[w].at \notin {"survey", "remove", "restore"} => tx[w].owned = {}
  BY <1>t DEF Sound, OwnedInRollback
<1>1. ASSUME NEW p \in Path, NEW e \in Edit, UserEdit(p, e) PROVE Good
  BY <1>1, EditSound
<1>2. ASSUME NEW w \in Worker, Snapshot(w) PROVE Good
  <2>1. /\ tree' = tree /\ lock' = lock /\ tx'[w].at = "working" /\ tx'[w].owned = {}
        /\ \A v \in Worker : v # w => tx'[v] = tx[v] /\ behind'[v] = behind[v]
    BY <1>2, <1>t, <1>o DEF Snapshot, TypeOK, At
  <2> QED BY <2>1, CopySound DEF InLock
<1>3. ASSUME NEW w \in Worker, Finish(w) PROVE Good
  <2>1. PICK f : tx' = [tx EXCEPT ![w] = [@ EXCEPT !.at = "check", !.left = Path, !.cand = f]]
    BY <1>3 DEF Finish
  <2>2. /\ tree' = tree /\ lock' = lock /\ tx'[w].at = "check" /\ tx'[w].owned = {}
        /\ \A v \in Worker : v # w => tx'[v] = tx[v] /\ behind'[v] = behind[v]
    BY <1>3, <2>1, <1>t, <1>o DEF Finish, TypeOK, At
  <2> QED BY <2>2, CopySound DEF InLock
<1>4. ASSUME NEW w \in Worker, WorkerFails(w) PROVE Good
  BY <1>4, CloseSound DEF WorkerFails, Ended
<1>5. ASSUME NEW w \in Worker, NEW p \in Path, Look(w, p) PROVE Good
  BY <1>5, LookSound
<1>6. ASSUME NEW w \in Worker, Checked(w) PROVE Good
  <2>1. CASE tx[w].ok
    BY <1>6, <2>1, <1>o, BeginSound DEF Checked, Done, At, Points, InLock
  <2>2. CASE ~tx[w].ok
    BY <1>6, <2>2, CloseSound DEF Checked, Ended
  <2> QED BY <2>1, <2>2
<1>7. ASSUME NEW w \in Worker, Enter(w) PROVE Good
  BY <1>7, <1>o, BeginSound DEF Enter, At, Points, InLock
<1>8. ASSUME NEW w \in Worker, Guarded(w) PROVE Good
  <2>1. lock = w /\ tx[w].owned = {}
    BY <1>8, <1>l, <1>o DEF Guarded, Done, At, InLock
  <2>2. CASE tx[w].ok
    BY <1>8, <2>1, <2>2, <1>t, BeginSound DEF Guarded, Points, InLock
  <2>3. CASE ~tx[w].ok
    BY <1>8, <2>1, <2>3, CloseSound DEF Guarded, Leave, Ended
  <2> QED BY <2>2, <2>3
<1>9. ASSUME NEW w \in Worker, Rechecked(w) PROVE Good
  <2>1. lock = w /\ tx[w].owned = {}
    BY <1>9, <1>l, <1>o DEF Rechecked, Done, At, InLock
  <2>2. CASE tx[w].ok
    <3>1. \A p \in Changed(w) : tree[p] = tx[w].base[p] \/ p \in behind[w]
      BY <1>9, <2>2, <1>t DEF Rechecked, Done, Sound, RecheckedIsBase
    <3> QED BY <1>9, <2>1, <2>2, <3>1, <1>t, BeginSound DEF Rechecked, Points, InLock
  <2>3. CASE ~tx[w].ok
    BY <1>9, <2>1, <2>3, BeginSound DEF Rechecked, Points, InLock, Looking
  <2> QED BY <2>2, <2>3
<1>10. ASSUME NEW w \in Worker, NEW p \in Path, Replace(w, p) PROVE Good
  <2>1. tx[w].at \in Writing /\ lock' = lock /\ \A q \in Path : q # p => tree'[q] = tree[q]
    BY <1>10, <1>t DEF Replace, At, Writing, TypeOK, Tree
  <2>2. /\ tx' = [tx EXCEPT ![w].left = @ \ {p}]
        /\ behind' = [behind EXCEPT ![w] = @ \ {p}]
    BY <1>10 DEF Replace
  <2> QED BY <2>1, <2>2, WriteSound, Zenon
<1>11. ASSUME NEW w \in Worker, PublishFails(w) PROVE Good
  BY <1>11, <1>l, <1>o, BeginSound DEF PublishFails, At, Points, InLock
<1>12. ASSUME NEW w \in Worker, Replaced(w) PROVE Good
  BY <1>12, <1>l, <1>o, BeginSound DEF Replaced, Done, At, Points, InLock
<1>13. ASSUME NEW w \in Worker, Compared(w) PROVE Good
  <2>1. lock = w /\ tx[w].owned = {}
    BY <1>13, <1>l, <1>o DEF Compared, Done, At, InLock
  <2>2. CASE tx[w].ok
    BY <1>13, <2>1, <2>2, CloseSound DEF Compared, Leave, Ended
  <2>3. CASE ~tx[w].ok
    BY <1>13, <2>1, <2>3, BeginSound DEF Compared, Points, InLock
  <2> QED BY <2>2, <2>3
<1>14. ASSUME NEW w \in Worker, Surveyed(w) PROVE Good
  <2>1. lock = w /\ \A p \in tx[w].owned : tree[p] = tx[w].cand[p] \/ p \in behind[w]
    BY <1>14, <1>l, <1>t DEF Surveyed, Done, At, InLock, Sound, SurveyedIsOwn
  <2> QED BY <1>14, <2>1, <1>t, BeginSound DEF Surveyed, Points, InLock
<1>15. ASSUME NEW w \in Worker, NEW p \in Path, Remove(w, p) PROVE Good
  <2>1. tx[w].at \in Writing /\ lock' = lock /\ \A q \in Path : q # p => tree'[q] = tree[q]
    BY <1>15, <1>t DEF Remove, At, Writing, TypeOK, Tree
  <2>2. /\ tx' = [tx EXCEPT ![w].left = @ \ {p}]
        /\ behind' = [behind EXCEPT ![w] = @ \ {p}]
    BY <1>15 DEF Remove
  <2> QED BY <2>1, <2>2, WriteSound, Zenon
<1>16. ASSUME NEW w \in Worker, Removed(w) PROVE Good
  <2>1. lock = w /\ {p \in tx[w].owned : tx[w].base[p] # Missing} \in SUBSET Path
    BY <1>16, <1>l, <1>t DEF Removed, Done, At, InLock
  <2> QED BY <1>16, <2>1, BeginSound DEF Removed, Points, InLock
<1>17. ASSUME NEW w \in Worker, NEW p \in Path, Restore(w, p) PROVE Good
  <2>1. tx[w].at \in Writing /\ lock' = lock /\ \A q \in Path : q # p => tree'[q] = tree[q]
    BY <1>17, <1>t DEF Restore, At, Writing, TypeOK, Tree
  <2>2. /\ tx' = [tx EXCEPT ![w].left = @ \ {p}]
        /\ behind' = [behind EXCEPT ![w] = @ \ {p}]
    BY <1>17 DEF Restore
  <2> QED BY <2>1, <2>2, WriteSound, Zenon
<1>18. ASSUME NEW w \in Worker, Restored(w) PROVE Good
  BY <1>18, <1>l, CloseSound DEF Restored, Leave, Done, At, InLock, Ended
<1>19. ASSUME NEW w \in Worker, RollbackFails(w) \/ GuardFails(w) PROVE Good
  BY <1>19, <1>l, CloseSound DEF RollbackFails, GuardFails, At, Leave, InLock, Ended
<1>20. ASSUME NEW w \in Worker, Crash(w) PROVE Good
  BY <1>20, <1>l, CloseSound DEF Crash, Leave, Ended
<1>21. CASE UNCHANGED vars
  BY <1>21, <1>t DEF vars, Sound, HoldsLock, RecheckedIsBase, ReplacesBase,
     OwnedInRollback, SurveyedIsOwn, RemovesOwn, At, Changed
<1> QED
  BY <1>1, <1>2, <1>3, <1>4, <1>5, <1>6, <1>7, <1>8, <1>9, <1>10, <1>11, <1>12,
     <1>13, <1>14, <1>15, <1>16, <1>17, <1>18, <1>19, <1>20, <1>21
     DEF Next, Publish, Rollback, Trouble

(* Types and the soundness of every call hold throughout.                  *)
THEOREM PublicationInvariant == Spec => []IInv
<1>1. Init => IInv
  <2> SUFFICES ASSUME Init PROVE IInv
    OBVIOUS
  <2>1. \A w \in Worker : tx[w].at = "idle" /\ tx[w].owned = {}
    BY DEF Init, Blank
  <2>2. \A w \in Worker : Sound(w)
    BY <2>1 DEF Sound, HoldsLock, RecheckedIsBase, ReplacesBase,
       OwnedInRollback, SurveyedIsOwn, RemovesOwn, At, InLock
  <2> QED BY <2>2, InitType DEF IInv
<1>2. IInv /\ [Next]_vars => IInv'
  BY SoundStep, TypeStep DEF IInv
<1> QED BY <1>1, <1>2, PTL DEF Spec

(* publishChanges overwrites an edit only if the edit came after its last  *)
(* look at the path, with any failures and crashes.                        *)
THEOREM OverwritesOnlyUnseenHolds == Spec => []OverwritesOnlyUnseen
<1>1. IInv => OverwritesOnlyUnseen
  BY DEF IInv, Sound, ReplacesBase, OverwritesOnlyUnseen
<1> QED BY <1>1, PublicationInvariant, PTL

(* rollbackPublished takes away only what its publication put there, or an *)
(* edit that came after it looked.                                         *)
THEOREM RollbackTakesOnlyOwnHolds == Spec => []RollbackTakesOnlyOwn
<1>1. IInv => RollbackTakesOnlyOwn
  BY DEF IInv, Sound, RemovesOwn, RollbackTakesOnlyOwn
<1> QED BY <1>1, PublicationInvariant, PTL

-----------------------------------------------------------------------------
(* What a publication leaves behind                                        *)

(* What a worker has changed is its own, or gone.                          *)
ChangesOwn(w) ==
    tx[w].at # "working" => \A p \in Changed(w) : tx[w].cand[p] \in {w, Missing}

(* A path that the survey found not to be its own does not carry the       *)
(* candidate: an edit never looks like one.                                *)
SparedIsNotOwn(w) ==
    /\ At(w, "survey") =>
         \A p \in Changed(w) \ (tx[w].left \cup tx[w].owned) : tree[p] # tx[w].cand[p]
    /\ tx[w].at \in {"remove", "restore"} =>
         /\ tx[w].left \subseteq tx[w].owned
         /\ \A p \in Changed(w) \ tx[w].owned : tree[p] # tx[w].cand[p]

(* Nobody has edited, died or failed to roll back.                         *)
Undisturbed == edits = Edit /\ \A w \in Worker : tx[w].at \notin {"dead", "stuck"}

(* The tree, path by path, while a call has the lock and nobody disturbs.  *)
Whole(w) ==
    /\ At(w, "guard") /\ tx[w].ok =>
         \A p \in Path \ tx[w].left : tree[p] = tx[w].base[p]
    /\ At(w, "recheck") => \A p \in Path : tree[p] = tx[w].base[p]
    /\ At(w, "replace") =>
         \A p \in Path : tree[p] = IF p \in tx[w].left THEN tx[w].base[p] ELSE tx[w].cand[p]
    /\ At(w, "compare") => \A p \in Path : tree[p] = tx[w].cand[p]
    /\ At(w, "survey") =>
         \A p \in Path : /\ tree[p] \in {tx[w].base[p], tx[w].cand[p]}
                         /\ p \notin tx[w].left \cup tx[w].owned => tree[p] = tx[w].base[p]
    /\ At(w, "remove") =>
         \A p \in Path : /\ p \notin tx[w].owned => tree[p] = tx[w].base[p]
                         /\ p \in tx[w].owned \ tx[w].left => tree[p] = Missing
    /\ At(w, "restore") => \A p \in Path \ tx[w].left : tree[p] = tx[w].base[p]

(* The lock is held by a call that is under way.                           *)
LockUsed == lock # NoWorker => tx[lock].at \in InLock

Traced(w) == ChangesOwn(w) /\ SparedIsNotOwn(w) /\ (Undisturbed => Whole(w))
TInv == IInv /\ LockUsed /\ \A w \in Worker : Traced(w)

-----------------------------------------------------------------------------
(* Contents are told apart, and so are no worker and a worker.             *)
LEMMA ContentsDiffer ==
    ASSUME NEW w \in Worker, NEW e \in Edit
    PROVE  e # w /\ e # Missing /\ w # Missing /\ w # NoWorker
  BY ConstantsAssumption

(* What disturbs a publication is never taken back.                        *)
LEMMA DisturbedStays ==
    ASSUME IInv, [Next]_vars, Undisturbed'
    PROVE  Undisturbed
<1>t. TypeOK
  BY DEF IInv
<1>1. edits' \subseteq edits /\ edits \subseteq Edit
  BY <1>t DEF TypeOK, Next, Publish, Rollback, Trouble, UserEdit, Snapshot, Finish, WorkerFails,
         Look, Checked, Enter, Guarded, Rechecked, Replace, PublishFails, Replaced, Compared,
         Surveyed, Remove, Removed, Restore, Restored, RollbackFails, GuardFails, Crash, vars
<1>2. ASSUME NEW v \in Worker, tx[v].at \in {"dead", "stuck"}
      PROVE  tx'[v].at = tx[v].at
  <2>1. CASE \E w \in Worker :
               Snapshot(w) \/ Finish(w) \/ Publish(w) \/ Rollback(w) \/ Trouble(w)
    <3>1. PICK w \in Worker :
            Snapshot(w) \/ Finish(w) \/ Publish(w) \/ Rollback(w) \/ Trouble(w)
      BY <2>1
    <3>2. tx[w].at \notin {"dead", "stuck"}
      BY <3>1 DEF Publish, Rollback, Trouble, Snapshot, Finish, WorkerFails, Look, Checked,
         Enter, Guarded, Rechecked, Replace, PublishFails, Replaced, Compared, Surveyed,
         Remove, Removed, Restore, Restored, RollbackFails, GuardFails, Crash, At, Done, Looking, InLock
    <3>3. \E r : tx' = [tx EXCEPT ![w] = r]
      <4>1. CASE Snapshot(w) \/ Finish(w)
        BY <4>1, <1>t DEF Snapshot, Finish, TypeOK
      <4>2. CASE Rollback(w)
        BY <4>2, <1>t DEF Rollback, Surveyed, Remove, Removed, Restore, Restored,
           Begin, Close, Leave, TypeOK
      <4>3. CASE Trouble(w)
        BY <4>3, <1>t DEF Trouble, WorkerFails, PublishFails, RollbackFails, GuardFails, Crash,
           Begin, Close, Leave
      <4>4. CASE Publish(w)
        BY <4>4, <1>t DEF Publish, Checked, Enter, Guarded, Rechecked, Replaced, Compared, Look,
           Replace, Begin, Close, Leave, TypeOK
      <4> QED BY <3>1, <4>1, <4>2, <4>3, <4>4
    <3>4. v # w
      BY <1>2, <3>2
    <3> QED BY <3>3, <3>4, <1>t DEF TypeOK
  <2>2. CASE \E p \in Path, e \in Edit : UserEdit(p, e)
    BY <2>2 DEF UserEdit
  <2>3. CASE UNCHANGED vars
    BY <2>3 DEF vars
  <2> QED BY <2>1, <2>2, <2>3 DEF Next
<1> QED BY <1>1, <1>2 DEF Undisturbed

(* A step of w: it writes the tree only while it holds the lock.           *)
StepOf(w) ==
    /\ \A v \in Worker : v # w => tx'[v] = tx[v]
    /\ tree' = tree \/ lock = w
    /\ Undisturbed' => Undisturbed

(* What another call has done stays as it was.                             *)
LEMMA OthersTraced ==
    ASSUME TInv, NEW w \in Worker, StepOf(w), NEW v \in Worker, v # w
    PROVE  Traced(v)'
<1>1. Traced(v) /\ Sound(v) /\ tx'[v] = tx[v]
  BY DEF TInv, IInv, StepOf
<1>2. Changed(v)' = Changed(v)
  BY <1>1 DEF Changed
<1>3. ChangesOwn(v)'
  BY <1>1, <1>2 DEF Traced, ChangesOwn
<1>4. CASE tx[v].at \in InLock
  <2>1. tree' = tree
    BY <1>1, <1>4 DEF Sound, HoldsLock, StepOf
  <2>2. SparedIsNotOwn(v)'
    BY <1>1, <1>2, <2>1 DEF Traced, SparedIsNotOwn, At
  <2>3. Undisturbed' => Whole(v)'
    BY <1>1, <2>1 DEF Traced, Whole, At, StepOf
  <2> QED BY <1>3, <2>2, <2>3 DEF Traced
<1>5. CASE tx[v].at \notin InLock
  <2>1. SparedIsNotOwn(v)' /\ Whole(v)'
    BY <1>1, <1>5 DEF SparedIsNotOwn, Whole, At, InLock
  <2> QED BY <1>3, <2>1 DEF Traced
<1> QED BY <1>4, <1>5

(* The lock goes with the call that takes it or has it.                    *)
LEMMA LockStays ==
    ASSUME TInv, NEW w \in Worker, StepOf(w),
           \/ lock' = NoWorker
           \/ lock' = w /\ tx'[w].at \in InLock
           \/ lock' = lock /\ (tx[w].at \in InLock => tx'[w].at \in InLock)
    PROVE  LockUsed'
<1>1. lock \in Worker \cup {NoWorker} /\ LockUsed
  BY DEF TInv, IInv, TypeOK
<1>2. CASE lock' = NoWorker
  BY <1>2 DEF LockUsed
<1>3. CASE lock' = w /\ tx'[w].at \in InLock
  BY <1>3 DEF LockUsed
<1>4. CASE lock' = lock /\ (tx[w].at \in InLock => tx'[w].at \in InLock)
  <2>1. CASE lock = NoWorker
    BY <1>4, <2>1 DEF LockUsed
  <2>2. CASE lock = w
    BY <1>1, <1>4, <2>2, ConstantsAssumption DEF LockUsed
  <2>3. CASE lock \in Worker /\ lock # w
    BY <1>1, <1>4, <2>3 DEF LockUsed, StepOf
  <2> QED BY <1>1, <2>1, <2>2, <2>3
<1> QED BY <1>2, <1>3, <1>4

(* Only the call w is to be looked at.                                     *)
LEMMA OneCall ==
    ASSUME TInv, NEW w \in Worker, StepOf(w), Traced(w)',
           \/ lock' = NoWorker
           \/ lock' = w /\ tx'[w].at \in InLock
           \/ lock' = lock /\ (tx[w].at \in InLock => tx'[w].at \in InLock)
    PROVE  LockUsed' /\ \A v \in Worker : Traced(v)'
<1>1. LockUsed'
  BY LockStays
<1>2. ASSUME NEW v \in Worker PROVE Traced(v)'
  BY OthersTraced
<1> QED BY <1>1, <1>2

(* A call that is over has no copies left.                                 *)
LEMMA CloseTraced ==
    ASSUME TInv, NEW w \in Worker, NEW at \in Ended, Close(w, at), tree' = tree,
           Undisturbed' => Undisturbed,
           lock' = NoWorker \/ (lock' = lock /\ tx[w].at \notin InLock)
    PROVE  LockUsed' /\ \A v \in Worker : Traced(v)'
<1>1. /\ tx'[w] = Blank(at) /\ \A v \in Worker : v # w => tx'[v] = tx[v]
  BY DEF Close, TInv, IInv, TypeOK
<1>2. tx'[w].at = at /\ tx'[w].base = tx'[w].cand
  BY <1>1 DEF Blank
<1>3. Traced(w)'
  BY <1>2 DEF Traced, ChangesOwn, SparedIsNotOwn, Whole, Changed, At, Ended
<1>4. StepOf(w)
  BY <1>1 DEF StepOf
<1> QED BY <1>3, <1>4, OneCall

(* A phase begins: what it starts from is what the phase before has left.  *)
LEMMA BeginTraced ==
    ASSUME TInv, NEW w \in Worker, NEW at \in Points \ {"idle", "working"}, NEW S,
           Begin(w, at, S), tree' = tree, Undisturbed' => Undisturbed, tx[w].at # "working",
           \/ lock' = w /\ at \in InLock
           \/ lock' = lock /\ (tx[w].at \in InLock => at \in InLock),
           at \in {"guard", "survey"} => S = Path,
           at \in {"remove", "restore"} =>
             /\ S \subseteq tx[w].owned
             /\ \A p \in Changed(w) \ tx[w].owned : tree[p] # tx[w].cand[p],
           Undisturbed => \A p \in Path :
             /\ at = "recheck" => tree[p] = tx[w].base[p]
             /\ at = "replace" => tree[p] = IF p \in S THEN tx[w].base[p] ELSE tx[w].cand[p]
             /\ at = "compare" => tree[p] = tx[w].cand[p]
             /\ at = "survey" => tree[p] \in {tx[w].base[p], tx[w].cand[p]}
             /\ at = "remove" => IF p \in tx[w].owned THEN p \in S ELSE tree[p] = tx[w].base[p]
             /\ at = "restore" => p \in S \/ tree[p] = tx[w].base[p]
    PROVE  LockUsed' /\ \A v \in Worker : Traced(v)'
<1>1. /\ tx'[w].at = at /\ tx'[w].left = S
      /\ tx'[w].base = tx[w].base /\ tx'[w].cand = tx[w].cand
      /\ tx'[w].owned = tx[w].owned
      /\ \A v \in Worker : v # w => tx'[v] = tx[v]
  BY BeginFields DEF TInv, IInv
<1>2. Changed(w)' = Changed(w) /\ Changed(w) \subseteq Path
  BY <1>1 DEF Changed
<1>3. Traced(w)
  BY DEF TInv
<1>4. ChangesOwn(w)'
  BY <1>1, <1>2, <1>3 DEF Traced, ChangesOwn
<1>5. SparedIsNotOwn(w)'
  BY <1>1, <1>2 DEF SparedIsNotOwn, At
<1>6. Undisturbed' => Whole(w)'
  BY <1>1 DEF Whole, At
<1>7. Traced(w)' /\ StepOf(w)
  BY <1>1, <1>4, <1>5, <1>6 DEF Traced, StepOf
<1> QED BY <1>1, <1>7, OneCall

(* A loop that writes a path adds that path to what it has done, and the   *)
(* tree is as the phase says, path by path.                                *)
LEMMA WriteTraced ==
    ASSUME TInv, NEW w \in Worker, NEW p \in Path, p \in tx[w].left, NEW c,
           tx[w].at \in Writing, lock' = lock, tree' = [tree EXCEPT ![p] = c],
           tx' = [tx EXCEPT ![w].left = @ \ {p}], Undisturbed' => Undisturbed,
           At(w, "replace") => c = tx[w].cand[p],
           At(w, "remove") => c = Missing,
           At(w, "restore") => c = tx[w].base[p]
    PROVE  LockUsed' /\ \A v \in Worker : Traced(v)'
<1>1. /\ tx'[w].at = tx[w].at /\ tx'[w].left = tx[w].left \ {p}
      /\ tx'[w].base = tx[w].base /\ tx'[w].cand = tx[w].cand
      /\ tx'[w].owned = tx[w].owned
      /\ \A v \in Worker : v # w => tx'[v] = tx[v]
  BY DEF TInv, IInv, TypeOK
<1>2. /\ tree'[p] = c /\ \A q \in Path : q # p => tree'[q] = tree[q]
  BY DEF TInv, IInv, TypeOK, Tree
<1>3. lock = w /\ Traced(w) /\ tx[w].at \in InLock
  BY DEF TInv, IInv, Sound, HoldsLock, Writing, InLock
<1>4. Changed(w)' = Changed(w) /\ Changed(w) \subseteq Path
  BY <1>1 DEF Changed
<1>5. ChangesOwn(w)'
  BY <1>1, <1>3, <1>4 DEF Traced, ChangesOwn
<1>6. SparedIsNotOwn(w)'
  BY <1>1, <1>2, <1>3, <1>4 DEF Traced, SparedIsNotOwn, At, Writing
<1>7. ASSUME Undisturbed' PROVE Whole(w)'
  <2>1. Whole(w)
    BY <1>3, <1>7 DEF Traced
  <2>2. CASE At(w, "replace")
    BY <1>1, <1>2, <2>1, <2>2 DEF Whole, At
  <2>3. CASE At(w, "remove")
    <3>1. p \in tx[w].owned
      BY <1>3, <2>3 DEF Traced, SparedIsNotOwn, At
    <3> QED BY <1>1, <1>2, <2>1, <2>3, <3>1 DEF Whole, At
  <2>4. CASE At(w, "restore")
    BY <1>1, <1>2, <2>1, <2>4 DEF Whole, At
  <2> QED BY <2>2, <2>3, <2>4 DEF Writing, At
<1>8. Traced(w)' /\ StepOf(w)
  BY <1>1, <1>3, <1>5, <1>6, <1>7 DEF Traced, StepOf
<1> QED BY <1>1, <1>3, <1>8, OneCall

(* A look learns whether a path is as expected, or its own.                *)
LEMMA LookTraced ==
    ASSUME TInv, NEW w \in Worker, NEW p \in Path, Look(w, p), Undisturbed' => Undisturbed
    PROVE  LockUsed' /\ \A v \in Worker : Traced(v)'
<1> DEFINE found == tx[w].ok /\ tree[p] = Expected(w)[p]
           owned == tx[w].owned \cup {q \in {p} : At(w, "survey") /\ Owns(w, p)}
<1>0. tx' = [tx EXCEPT ![w] = [tx[w] EXCEPT !.left = tx[w].left \ {p},
                                            !.ok = found, !.owned = owned]]
  BY DEF Look
<1> HIDE DEF found, owned
<1>1. /\ tx'[w].at = tx[w].at /\ tx'[w].left = tx[w].left \ {p}
      /\ tx'[w].base = tx[w].base /\ tx'[w].cand = tx[w].cand
      /\ tx'[w].ok = found /\ tx'[w].owned = owned
      /\ \A v \in Worker : v # w => tx'[v] = tx[v]
  BY <1>0 DEF TInv, IInv, TypeOK
<1>2. tree' = tree /\ lock' = lock /\ p \in tx[w].left /\ tx[w].at \in Looking
  BY DEF Look
<1>3. Traced(w)
  BY DEF TInv
<1>4. Changed(w)' = Changed(w)
  BY <1>1 DEF Changed
<1>5. ChangesOwn(w)'
  BY <1>1, <1>3, <1>4 DEF Traced, ChangesOwn
<1>6. At(w, "survey") => \A q : q \in owned <=> q \in tx[w].owned \/ (q = p /\ Owns(w, p))
  BY DEF owned
<1>7. SparedIsNotOwn(w)'
  BY <1>1, <1>2, <1>3, <1>4, <1>6 DEF Traced, SparedIsNotOwn, At, Looking, Owns
<1>8. ASSUME Undisturbed' PROVE Whole(w)'
  <2>1. Whole(w)
    BY <1>3, <1>8 DEF Traced
  <2>2. CASE At(w, "guard")
    <3>1. found => tx[w].ok /\ tree[p] = tx[w].base[p]
      BY <2>2 DEF found, Expected, At
    <3> QED BY <1>1, <1>2, <2>1, <2>2, <3>1 DEF Whole, At
  <2>3. CASE At(w, "survey")
    <3>1. tree[p] = tx[w].base[p] \/ Owns(w, p)
      BY <2>1, <2>3 DEF Whole, Owns, Changed
    <3> QED BY <1>1, <1>2, <1>6, <2>1, <2>3, <3>1 DEF Whole, At
  <2>4. CASE tx[w].at \in {"check", "recheck", "compare"}
    BY <1>1, <1>2, <2>1, <2>4 DEF Whole, At
  <2> QED BY <1>2, <2>2, <2>3, <2>4 DEF Looking, At
<1>9. Traced(w)' /\ StepOf(w)
  BY <1>1, <1>2, <1>5, <1>7, <1>8 DEF Traced, StepOf
<1> QED BY <1>1, <1>2, <1>9, OneCall

(* Every step of a call or the user leaves a trace that can be read.       *)
LEMMA TracedStep ==
    ASSUME TInv, [Next]_vars
    PROVE  LockUsed' /\ \A w \in Worker : Traced(w)'
<1> DEFINE Good == LockUsed' /\ \A w \in Worker : Traced(w)'
<1>t. /\ IInv /\ TypeOK /\ LockUsed
      /\ \A w \in Worker : Traced(w) /\ Sound(w)
  BY DEF TInv, IInv
<1>d. Undisturbed' => Undisturbed
  BY <1>t, DisturbedStays
<1>l. \A w \in Worker : tx[w].at \in InLock => lock = w
  BY <1>t DEF Sound, HoldsLock
<1>w. \A w \in Worker : Undisturbed => Whole(w)
  BY <1>t DEF Traced
<1>1. ASSUME NEW p \in Path, NEW e \in Edit, UserEdit(p, e) PROVE Good
  <2>1. /\ tx' = tx /\ lock' = lock /\ tree' = [tree EXCEPT ![p] = e]
        /\ e \in edits /\ e \notin edits'
    BY <1>1 DEF UserEdit
  <2>2. ~Undisturbed'
    BY <2>1 DEF Undisturbed
  <2>3. tree'[p] = e /\ \A q \in Path : q # p => tree'[q] = tree[q]
    BY <2>1, <1>t DEF TypeOK, Tree
  <2>4. ASSUME NEW w \in Worker PROVE Traced(w)'
    <3>1. Traced(w) /\ Changed(w)' = Changed(w) /\ Changed(w) \subseteq Path
      BY <1>t, <2>1 DEF Changed
    <3>2. ChangesOwn(w)'
      BY <2>1, <3>1 DEF Traced, ChangesOwn
    <3>3. tx[w].at # "working" /\ p \in Changed(w) => tree'[p] # tx[w].cand[p]
      BY <2>3, <3>1, ContentsDiffer DEF Traced, ChangesOwn
    <3>4. SparedIsNotOwn(w)'
      BY <2>1, <2>3, <3>1, <3>3 DEF Traced, SparedIsNotOwn, At
    <3> QED BY <2>2, <3>2, <3>4 DEF Traced
  <2>5. LockUsed'
    BY <1>t, <2>1 DEF LockUsed
  <2> QED BY <2>4, <2>5
<1>2. ASSUME NEW w \in Worker, Snapshot(w) PROVE Good
  <2>1. /\ tx'[w].at = "working" /\ tx[w].at = "idle" /\ tree' = tree /\ lock' = lock
        /\ \A v \in Worker : v # w => tx'[v] = tx[v]
    BY <1>2, <1>t DEF Snapshot, At, TypeOK
  <2>2. Traced(w)' /\ StepOf(w)
    BY <1>d, <2>1 DEF Traced, StepOf, ChangesOwn, SparedIsNotOwn, Whole, At
  <2> QED BY <2>1, <2>2, OneCall DEF InLock
<1>3. ASSUME NEW w \in Worker, Finish(w) PROVE Good
  <2>1. PICK delta \in SUBSET Path, deleted \in SUBSET Path :
          tx' = [tx EXCEPT ![w] = [@ EXCEPT
                    !.at = "check", !.left = Path,
                    !.cand = [p \in Path |->
                        IF p \notin delta THEN tx[w].base[p]
                        ELSE IF p \in deleted THEN Missing ELSE w]]]
    BY <1>3 DEF Finish
  <2> DEFINE f == [p \in Path |-> IF p \notin delta THEN tx[w].base[p]
                                  ELSE IF p \in deleted THEN Missing ELSE w]
  <2>2. \A p \in Path : f[p] # tx[w].base[p] => f[p] \in {w, Missing}
    OBVIOUS
  <2>3. tx' = [tx EXCEPT ![w] = [@ EXCEPT !.at = "check", !.left = Path, !.cand = f]]
    BY <2>1
  <2> HIDE DEF f
  <2>4. /\ tx'[w].at = "check" /\ tx'[w].cand = f /\ tx'[w].base = tx[w].base
        /\ \A v \in Worker : v # w => tx'[v] = tx[v]
    BY <2>3, <1>t DEF TypeOK
  <2>5. tree' = tree /\ lock' = lock /\ tx[w].at = "working"
    BY <1>3 DEF Finish, At
  <2>6. Traced(w)' /\ StepOf(w)
    BY <1>d, <2>2, <2>4, <2>5
       DEF Traced, StepOf, ChangesOwn, SparedIsNotOwn, Whole, At, Changed
  <2> QED BY <2>4, <2>5, <2>6, OneCall DEF InLock
<1>4. ASSUME NEW w \in Worker, WorkerFails(w) PROVE Good
  BY <1>4, <1>d, CloseTraced DEF WorkerFails, Ended, At, InLock
<1>5. ASSUME NEW w \in Worker, NEW p \in Path, Look(w, p) PROVE Good
  BY <1>5, <1>d, LookTraced
<1>6. ASSUME NEW w \in Worker, Checked(w) PROVE Good
  <2>1. At(w, "check") /\ tree' = tree /\ lock' = lock
    BY <1>6 DEF Checked, Done
  <2>2. CASE tx[w].ok
    BY <1>6, <1>d, <2>1, <2>2, BeginTraced DEF Checked, At, Points, InLock
  <2>3. CASE ~tx[w].ok
    BY <1>6, <1>d, <2>1, <2>3, CloseTraced DEF Checked, At, Ended, InLock
  <2> QED BY <2>2, <2>3
<1>7. ASSUME NEW w \in Worker, Enter(w) PROVE Good
  BY <1>7, <1>d, BeginTraced DEF Enter, At, Points, InLock
<1>8. ASSUME NEW w \in Worker, Guarded(w) PROVE Good
  <2>1. At(w, "guard") /\ tx[w].left = {} /\ tree' = tree
    BY <1>8 DEF Guarded, Done
  <2>2. CASE tx[w].ok
    <3>1. Undisturbed => \A p \in Path : tree[p] = tx[w].base[p]
      BY <1>w, <2>1, <2>2 DEF Whole
    <3> QED BY <1>8, <1>d, <2>1, <2>2, <3>1, BeginTraced DEF Guarded, At, Points, InLock
  <2>3. CASE ~tx[w].ok
    BY <1>8, <1>d, <2>1, <2>3, CloseTraced DEF Guarded, Leave, Ended
  <2> QED BY <2>2, <2>3
<1>9. ASSUME NEW w \in Worker, Rechecked(w) PROVE Good
  <2>1. At(w, "recheck") /\ tree' = tree /\ lock' = lock
    BY <1>9 DEF Rechecked, Done
  <2>2. Undisturbed => \A p \in Path : tree[p] = tx[w].base[p]
    BY <1>w, <2>1 DEF Whole
  <2>3. CASE tx[w].ok
    <3>1. \A p \in Path : p \notin Changed(w) => tx[w].base[p] = tx[w].cand[p]
      BY DEF Changed
    <3> QED BY <1>9, <1>d, <2>1, <2>2, <2>3, <3>1, BeginTraced DEF Rechecked, At, Points, InLock
  <2>4. CASE ~tx[w].ok
    BY <1>9, <1>d, <2>1, <2>2, <2>4, BeginTraced DEF Rechecked, At, Points, InLock
  <2> QED BY <2>3, <2>4
<1>10. ASSUME NEW w \in Worker, NEW p \in Path, Replace(w, p) PROVE Good
  <2> DEFINE c == tx[w].cand[p]
  <2>1. /\ At(w, "replace") /\ p \in tx[w].left /\ lock' = lock
        /\ tree' = [tree EXCEPT ![p] = c] /\ tx' = [tx EXCEPT ![w].left = @ \ {p}]
    BY <1>10 DEF Replace, IsNext
  <2>2. /\ tx[w].at \in Writing
        /\ At(w, "replace") => c = tx[w].cand[p]
        /\ At(w, "remove") => c = Missing
        /\ At(w, "restore") => c = tx[w].base[p]
    BY <2>1 DEF At, Writing
  <2> HIDE DEF c
  <2> QED BY <1>d, <2>1, <2>2, WriteTraced, Zenon
<1>11. ASSUME NEW w \in Worker, PublishFails(w) PROVE Good
  <2>1. /\ tx[w].at \in {"recheck", "replace", "compare"} /\ tree' = tree /\ lock' = lock
        /\ Begin(w, "survey", Path)
    BY <1>11 DEF PublishFails
  <2>2. Undisturbed => \A p \in Path : tree[p] \in {tx[w].base[p], tx[w].cand[p]}
    BY <1>w, <2>1 DEF Whole, At
  <2> QED BY <1>d, <2>1, <2>2, BeginTraced DEF At, Points, Looking, InLock
<1>12. ASSUME NEW w \in Worker, Replaced(w) PROVE Good
  <2>1. /\ At(w, "replace") /\ tx[w].left = {} /\ tree' = tree /\ lock' = lock
        /\ Begin(w, "compare", Path)
    BY <1>12 DEF Replaced, Done
  <2>2. Undisturbed => \A p \in Path : tree[p] = tx[w].cand[p]
    BY <1>w, <2>1 DEF Whole
  <2> QED BY <1>d, <2>1, <2>2, BeginTraced DEF At, Points, Looking, InLock
<1>13. ASSUME NEW w \in Worker, Compared(w) PROVE Good
  <2>1. At(w, "compare") /\ tree' = tree
    BY <1>13 DEF Compared, Done
  <2>2. CASE tx[w].ok
    BY <1>13, <1>d, <2>1, <2>2, CloseTraced DEF Compared, Leave, Ended
  <2>3. CASE ~tx[w].ok
    <3>1. Undisturbed => \A p \in Path : tree[p] = tx[w].cand[p]
      BY <1>w, <2>1 DEF Whole
    <3> QED BY <1>13, <1>d, <2>1, <2>3, <3>1, BeginTraced DEF Compared, At, Points, InLock
  <2> QED BY <2>2, <2>3
<1>14. ASSUME NEW w \in Worker, Surveyed(w) PROVE Good
  <2>1. /\ At(w, "survey") /\ tx[w].left = {} /\ tree' = tree /\ lock' = lock
        /\ Begin(w, "remove", tx[w].owned)
    BY <1>14 DEF Surveyed, Done
  <2>2. \A p \in Changed(w) \ tx[w].owned : tree[p] # tx[w].cand[p]
    BY <1>t, <2>1 DEF Traced, SparedIsNotOwn
  <2>3. Undisturbed => \A p \in Path : p \in tx[w].owned \/ tree[p] = tx[w].base[p]
    BY <1>w, <2>1 DEF Whole
  <2> QED BY <1>d, <2>1, <2>2, <2>3, BeginTraced DEF At, Points, InLock
<1>15. ASSUME NEW w \in Worker, NEW p \in Path, Remove(w, p) PROVE Good
  <2>1. /\ At(w, "remove") /\ p \in tx[w].left /\ lock' = lock
        /\ tree' = [tree EXCEPT ![p] = Missing] /\ tx' = [tx EXCEPT ![w].left = @ \ {p}]
    BY <1>15 DEF Remove, IsNext
  <2>2. /\ tx[w].at \in Writing
        /\ At(w, "replace") => Missing = tx[w].cand[p]
        /\ At(w, "remove") => Missing = Missing
        /\ At(w, "restore") => Missing = tx[w].base[p]
    BY <2>1 DEF At, Writing
  <2> QED BY <1>d, <2>1, <2>2, WriteTraced, Zenon
<1>16. ASSUME NEW w \in Worker, Removed(w) PROVE Good
  <2> DEFINE S == {p \in tx[w].owned : tx[w].base[p] # Missing}
  <2>1. /\ At(w, "remove") /\ tx[w].left = {} /\ tree' = tree /\ lock' = lock
        /\ Begin(w, "restore", S)
    BY <1>16 DEF Removed, Done
  <2>2. /\ \A p \in Changed(w) \ tx[w].owned : tree[p] # tx[w].cand[p]
        /\ S \subseteq tx[w].owned
    BY <1>t, <2>1 DEF Traced, SparedIsNotOwn, At
  <2>3. Undisturbed => \A p \in Path : p \in S \/ tree[p] = tx[w].base[p]
    BY <1>w, <2>1 DEF Whole
  <2> HIDE DEF S
  <2> QED BY <1>d, <2>1, <2>2, <2>3, BeginTraced DEF At, Points, InLock
<1>17. ASSUME NEW w \in Worker, NEW p \in Path, Restore(w, p) PROVE Good
  <2> DEFINE c == tx[w].base[p]
  <2>1. /\ At(w, "restore") /\ p \in tx[w].left /\ lock' = lock
        /\ tree' = [tree EXCEPT ![p] = c] /\ tx' = [tx EXCEPT ![w].left = @ \ {p}]
    BY <1>17 DEF Restore, IsNext
  <2>2. /\ tx[w].at \in Writing
        /\ At(w, "replace") => c = tx[w].cand[p]
        /\ At(w, "remove") => c = Missing
        /\ At(w, "restore") => c = tx[w].base[p]
    BY <2>1 DEF At, Writing
  <2> HIDE DEF c
  <2> QED BY <1>d, <2>1, <2>2, WriteTraced, Zenon
<1>18. ASSUME NEW w \in Worker, Restored(w) PROVE Good
  BY <1>18, <1>d, CloseTraced DEF Restored, Leave, Ended
<1>19. ASSUME NEW w \in Worker, RollbackFails(w) \/ GuardFails(w) PROVE Good
  BY <1>19, <1>d, CloseTraced DEF RollbackFails, GuardFails, Leave, Ended
<1>20. ASSUME NEW w \in Worker, Crash(w) PROVE Good
  BY <1>20, <1>d, CloseTraced DEF Crash, Leave, Ended
<1>21. CASE UNCHANGED vars
  <2>1. \A w \in Worker : Changed(w)' = Changed(w)
    BY <1>21 DEF vars, Changed
  <2> QED
    BY <1>21, <1>t, <1>d, <2>1
       DEF vars, LockUsed, Traced, ChangesOwn, SparedIsNotOwn, Whole, At
<1> QED
  BY <1>1, <1>2, <1>3, <1>4, <1>5, <1>6, <1>7, <1>8, <1>9, <1>10, <1>11, <1>12,
     <1>13, <1>14, <1>15, <1>16, <1>17, <1>18, <1>19, <1>20, <1>21
     DEF Next, Publish, Rollback, Trouble

(* Throughout, a worker changes a path to its own content or removes it,   *)
(* what a rollback spares is not its candidate, and while nobody disturbs  *)
(* the tree is known path by path (publish, rollbackPublished).            *)
THEOREM TraceInvariant == Spec => []TInv
<1>1. Init => LockUsed /\ \A w \in Worker : Traced(w)
  <2> SUFFICES ASSUME Init PROVE LockUsed /\ \A w \in Worker : Traced(w)
    OBVIOUS
  <2>1. \A w \in Worker : tx[w].at = "idle" /\ tx[w].cand = tx[w].base
    BY DEF Init, Blank
  <2> QED
    BY <2>1 DEF Init, LockUsed, Traced, ChangesOwn, SparedIsNotOwn, Whole, At, Changed
<1> DEFINE Trace == LockUsed /\ \A w \in Worker : Traced(w)
<1>3. TInv <=> IInv /\ Trace
  BY DEF TInv
<1>4. Init => Trace
  BY <1>1
<1>5. IInv /\ Trace /\ [Next]_vars => Trace'
  BY TracedStep DEF TInv
<1> HIDE DEF Trace
<1> QED BY <1>3, <1>4, <1>5, PublicationInvariant, PTL DEF Spec

(* A call ends as failed or published only where it has looked at all it   *)
(* may have written.                                                       *)
LEMMA Outcomes ==
    ASSUME TypeOK, Next, NEW w \in Worker, tx'[w].at # tx[w].at
    PROVE  /\ tx'[w].at = "failed" =>
                Restored(w) /\ \A p \in tx[w].owned : tree[p] = tx[w].base[p]
           /\ tx'[w].at = "published" => Compared(w) /\ Leave(w, "published")
<1>t. tx \in [Worker -> Transactions]
  BY DEF TypeOK, Transactions
<1> DEFINE Says == /\ tx'[w].at = "failed" =>
                        Restored(w) /\ \A p \in tx[w].owned : tree[p] = tx[w].base[p]
                   /\ tx'[w].at = "published" => Compared(w) /\ Leave(w, "published")
<1>a. ASSUME NEW v \in Worker, NEW at, Close(v, at) PROVE v = w /\ tx'[w].at = at
  BY <1>a, <1>t DEF Close, Blank
<1>b. ASSUME NEW v \in Worker, NEW at, NEW S, Begin(v, at, S) PROVE v = w /\ tx'[w].at = at
  BY <1>b, <1>t DEF Begin, Transactions
<1>1. CASE \E p \in Path, e \in Edit : UserEdit(p, e)
  BY <1>1 DEF UserEdit
<1>2. ASSUME NEW v \in Worker, Snapshot(v) \/ Finish(v) PROVE Says
  <2>1. tx'[w].at \in {tx[w].at, "working", "check"}
    BY <1>2, <1>t DEF Snapshot, Finish, Transactions
  <2> QED BY <2>1
<1>3. ASSUME NEW v \in Worker, NEW p \in Path, Look(v, p) PROVE Says
  <2>1. tx'[w].at = tx[w].at
    BY <1>3, <1>t DEF Look, Transactions
  <2> QED BY <2>1
<1>4. ASSUME NEW v \in Worker, NEW p \in Path, Replace(v, p) \/ Remove(v, p) \/ Restore(v, p)
      PROVE  Says
  <2>1. tx'[w].at = tx[w].at
    BY <1>4, <1>t DEF Replace, Remove, Restore, Transactions
  <2> QED BY <2>1
<1>5. ASSUME NEW v \in Worker, WorkerFails(v) \/ GuardFails(v) \/ RollbackFails(v)
                             \/ Crash(v) PROVE Says
  BY <1>5, <1>a DEF WorkerFails, GuardFails, RollbackFails, Crash, Leave
<1>6. ASSUME NEW v \in Worker, PublishFails(v) \/ Surveyed(v) \/ Removed(v) \/ Replaced(v)
      PROVE  Says
  BY <1>6, <1>b DEF PublishFails, Surveyed, Removed, Replaced
<1>7. ASSUME NEW v \in Worker, Checked(v) \/ Enter(v) \/ Guarded(v) \/ Rechecked(v) PROVE Says
  BY <1>7, <1>a, <1>b DEF Checked, Enter, Guarded, Rechecked, Leave
<1>8. ASSUME NEW v \in Worker, Compared(v) PROVE Says
  <2>1. CASE tx[v].ok
    BY <1>8, <2>1, <1>a DEF Compared, Leave
  <2>2. CASE ~tx[v].ok
    BY <1>8, <2>2, <1>b DEF Compared
  <2> QED BY <2>1, <2>2
<1>9. ASSUME NEW v \in Worker, Restored(v) PROVE Says
  <2>1. CASE \A p \in tx[v].owned : tree[p] = tx[v].base[p]
    BY <1>9, <2>1, <1>a DEF Restored, Leave
  <2>2. CASE ~\A p \in tx[v].owned : tree[p] = tx[v].base[p]
    BY <1>9, <2>2, <1>a DEF Restored, Leave
  <2> QED BY <2>1, <2>2
<1> QED
  BY <1>1, <1>2, <1>3, <1>4, <1>5, <1>6, <1>7, <1>8, <1>9 DEF Next, Publish, Rollback, Trouble

(* A publication that reports a clean failure has left nothing of its      *)
(* candidate in the repository, whatever was edited meanwhile (publish,    *)
(* rollbackPublished).                                                     *)
THEOREM FailedPublishesNothingHolds == Spec => FailedPublishesNothing
<1>1. TInv /\ [Next]_vars =>
        [\A w \in Worker : ~At(w, "failed") /\ tx'[w].at = "failed" =>
            \A p \in Changed(w) : tree'[p] # tx[w].cand[p]]_vars
  <2> SUFFICES ASSUME TInv, Next, NEW w \in Worker, ~At(w, "failed"), tx'[w].at = "failed",
                      NEW p \in Changed(w)
               PROVE  tree'[p] # tx[w].cand[p]
    OBVIOUS
  <2>1. Restored(w) /\ \A q \in tx[w].owned : tree[q] = tx[w].base[q]
    BY Outcomes DEF TInv, IInv, At
  <2>2. tree' = tree /\ At(w, "restore")
    BY <2>1 DEF Restored, Done
  <2>3. \A q \in Changed(w) \ tx[w].owned : tree[q] # tx[w].cand[q]
    BY <2>2 DEF TInv, Traced, SparedIsNotOwn, At
  <2> QED BY <2>1, <2>2, <2>3 DEF Changed
<1> QED BY <1>1, TraceInvariant, PTL DEF Spec, FailedPublishesNothing

-----------------------------------------------------------------------------
(* The mapping of the refinement: the tree the other workers are to see,   *)
(* every worker's baseline, and the workers that have published.           *)
Seen == IF lock # NoWorker /\ tx[lock].at \in InLock \ {"guard"} THEN tx[lock].base ELSE tree
Bases == [w \in Worker |-> tx[w].base]
PublishedBy == {w \in Worker : At(w, "published")}

(* Nothing that is seen changes in a step of a call under the lock.        *)
LEMMA SeenStays ==
    ASSUME TInv, NEW w \in Worker, StepOf(w), lock' = lock, tx'[w].base = tx[w].base,
           \/ tree' = tree /\ tx[w].at \notin InLock /\ tx'[w].at \notin InLock
           \/ tree' = tree /\ tx[w].at = "guard" /\ tx'[w].at = "guard"
           \/ tx[w].at \in InLock \ {"guard"} /\ tx'[w].at \in InLock \ {"guard"},
           tx[w].at # "published", tx'[w].at # "published"
    PROVE  Seen' = Seen /\ Bases' = Bases /\ PublishedBy' = PublishedBy
<1>1. lock \in Worker \cup {NoWorker} /\ LockUsed /\ (tx[w].at \in InLock => lock = w)
  BY DEF TInv, IInv, TypeOK, Sound, HoldsLock
<1>2. \A v \in Worker : v # w => tx'[v] = tx[v]
  BY DEF StepOf
<1>3. Bases' = Bases
  BY <1>2 DEF Bases
<1>4. PublishedBy' = PublishedBy
  BY <1>2 DEF PublishedBy, At
<1>5. Seen' = Seen
  <2>1. CASE lock = w
    BY <1>1, <2>1, ConstantsAssumption DEF Seen, LockUsed
  <2>2. CASE lock # w
    BY <1>1, <1>2, <2>2 DEF Seen, StepOf
  <2> QED BY <2>1, <2>2
<1> QED BY <1>3, <1>4, <1>5

(* A worker that takes or gives up a baseline takes a step of the abstract *)
(* publication, which lets it have any.                                    *)
LEMMA Rebases ==
    ASSUME NEW w \in Worker, Seen' = Seen, tx[w].at # "published", tx'[w].at # "published",
           \A v \in Worker : v # w => tx'[v] = tx[v], tx'[w].base \in Tree
    PROVE  Atomic!Next
<1>1. PublishedBy' = PublishedBy /\ w \notin PublishedBy
  BY DEF PublishedBy, At
<1>2. Bases' = [Bases EXCEPT ![w] = tx'[w].base]
  BY DEF Bases
<1>3. Atomic!Rebase(w)
  BY <1>2 DEF Bases, Atomic!Rebase
<1>4. Atomic!Snapshot(w)
  BY <1>1, <1>3 DEF Seen, PublishedBy, Atomic!Snapshot
<1> QED BY <1>4 DEF Atomic!Next

(* A call that ends without a publication: nothing is seen of it.          *)
LEMMA EndsUnseen ==
    ASSUME TInv, NEW w \in Worker, NEW at \in Ended \ {"published"}, Close(w, at), tree' = tree,
           tx[w].at # "published",
           \/ lock' = lock /\ tx[w].at \notin InLock
           \/ lock' = NoWorker /\ tx[w].at = "guard"
           \/ lock' = NoWorker /\ tx[w].at \in InLock /\ tree = tx[w].base
    PROVE  Atomic!Next
<1>1. TypeOK /\ LockUsed /\ HoldsLock(w) /\ lock \in Worker \cup {NoWorker}
  BY DEF TInv, IInv, Sound, TypeOK
<1>2. tx'[w] = Blank(at) /\ \A v \in Worker : v # w => tx'[v] = tx[v]
  BY <1>1 DEF Close, TypeOK
<1>3. tx'[w].at = at /\ tx'[w].base \in Tree
  BY <1>2 DEF Blank, Tree, Content
<1>4. Seen' = Seen
  <2>1. CASE lock' = lock /\ tx[w].at \notin InLock
    <3>1. lock # w
      BY <1>1, <2>1, ConstantsAssumption DEF LockUsed
    <3> QED BY <1>1, <1>2, <2>1, <3>1 DEF Seen
  <2>2. CASE lock' = NoWorker /\ tx[w].at = "guard"
    BY <1>1, <2>2 DEF Seen, HoldsLock, InLock
  <2>3. CASE lock' = NoWorker /\ tx[w].at \in InLock /\ tree = tx[w].base
    BY <1>1, <2>3 DEF Seen, HoldsLock
  <2> QED BY <2>1, <2>2, <2>3
<1> QED BY <1>2, <1>3, <1>4, Rebases

(* Nobody sees the steps of a loop, or the next phase under the lock: what *)
(* is seen is the baseline until the publication has been compared.        *)
LEMMA LoopsUnseen ==
    ASSUME TInv, [Next]_vars, NEW w \in Worker,
           \/ \E p \in Path : Look(w, p) \/ Replace(w, p) \/ Remove(w, p) \/ Restore(w, p)
           \/ Rechecked(w) \/ PublishFails(w) \/ Replaced(w) \/ Surveyed(w) \/ Removed(w)
           \/ (Compared(w) /\ ~tx[w].ok) \/ (Checked(w) /\ tx[w].ok)
    PROVE  Seen' = Seen /\ Bases' = Bases /\ PublishedBy' = PublishedBy
<1>t. TypeOK /\ HoldsLock(w) /\ (Undisturbed' => Undisturbed)
  BY DisturbedStays DEF TInv, IInv, Sound
<1>1. ASSUME NEW p \in Path, Look(w, p)
      PROVE  Seen' = Seen /\ Bases' = Bases /\ PublishedBy' = PublishedBy
  <2> DEFINE found == tx[w].ok /\ tree[p] = Expected(w)[p]
             owned == tx[w].owned \cup {q \in {p} : At(w, "survey") /\ Owns(w, p)}
  <2>1. tx' = [tx EXCEPT ![w] = [tx[w] EXCEPT !.left = tx[w].left \ {p},
                                              !.ok = found, !.owned = owned]]
    BY <1>1 DEF Look
  <2> HIDE DEF found, owned
  <2>2. /\ tx'[w].at = tx[w].at /\ tx'[w].base = tx[w].base
        /\ \A v \in Worker : v # w => tx'[v] = tx[v]
    BY <1>t, <2>1 DEF TypeOK
  <2>3. tree' = tree /\ lock' = lock /\ tx[w].at \in Looking
    BY <1>1 DEF Look
  <2>4. StepOf(w)
    BY <1>t, <2>2, <2>3 DEF StepOf
  <2> QED BY <2>2, <2>3, <2>4, SeenStays DEF Looking, InLock
<1>2. ASSUME NEW p \in Path, Replace(w, p) \/ Remove(w, p) \/ Restore(w, p)
      PROVE  Seen' = Seen /\ Bases' = Bases /\ PublishedBy' = PublishedBy
  <2>1. /\ tx' = [tx EXCEPT ![w].left = @ \ {p}] /\ lock' = lock
        /\ tx[w].at \in {"replace", "remove", "restore"}
    BY <1>2 DEF Replace, Remove, Restore, At
  <2>2. /\ tx'[w].at = tx[w].at /\ tx'[w].base = tx[w].base
        /\ \A v \in Worker : v # w => tx'[v] = tx[v]
    BY <1>t, <2>1 DEF TypeOK
  <2>3. StepOf(w)
    BY <1>t, <2>1, <2>2 DEF StepOf, HoldsLock, InLock
  <2> QED BY <2>1, <2>2, <2>3, SeenStays DEF InLock
<1>3. ASSUME NEW at, NEW S, Begin(w, at, S), tree' = tree, lock' = lock,
             \/ tx[w].at = "check" /\ at = "lock"
             \/ tx[w].at \in InLock \ {"guard"} /\ at \in InLock \ {"guard"}
      PROVE  Seen' = Seen /\ Bases' = Bases /\ PublishedBy' = PublishedBy
  <2>1. /\ tx'[w].at = at /\ tx'[w].base = tx[w].base
        /\ \A v \in Worker : v # w => tx'[v] = tx[v]
    BY <1>3, <1>t, BeginFields
  <2>2. StepOf(w)
    BY <1>3, <1>t, <2>1 DEF StepOf
  <2> QED BY <1>3, <2>1, <2>2, SeenStays DEF InLock
<1>4. ASSUME Rechecked(w) \/ PublishFails(w) \/ Replaced(w) \/ Surveyed(w) \/ Removed(w)
             \/ (Compared(w) /\ ~tx[w].ok)
      PROVE  Seen' = Seen /\ Bases' = Bases /\ PublishedBy' = PublishedBy
  <2>1. /\ tree' = tree /\ lock' = lock /\ tx[w].at \in InLock \ {"guard"}
        /\ \E at \in InLock \ {"guard"} : \E S : Begin(w, at, S)
    BY <1>4 DEF Rechecked, PublishFails, Replaced, Surveyed, Removed, Compared, Done, At, InLock
  <2> QED BY <1>3, <2>1
<1>5. ASSUME Checked(w), tx[w].ok
      PROVE  Seen' = Seen /\ Bases' = Bases /\ PublishedBy' = PublishedBy
  BY <1>3, <1>5 DEF Checked, Done, At
<1> QED BY <1>1, <1>2, <1>4, <1>5

(* Trees with the same paths and contents are the same tree.               *)
LEMMA SameTree ==
    ASSUME TypeOK, NEW w \in Worker
    PROVE  /\ (\A p \in Path : tree[p] = tx[w].base[p]) => tree = tx[w].base
           /\ tx[w].base \in Tree /\ tree \in Tree
  BY DEF TypeOK, Tree

(* What the other workers see changes in the step that ends a publication, *)
(* from the tree the worker started from to the candidate.                 *)
LEMMA PublishesAtOnce ==
    ASSUME TInv, NEW w \in Worker, Compared(w), tx[w].ok
    PROVE  Atomic!Next
<1>1. /\ At(w, "compare") /\ lock' = NoWorker /\ tree' = tree /\ Close(w, "published")
  BY DEF Compared, Leave, Done
<1>2. TypeOK /\ lock = w /\ w # NoWorker
  BY <1>1, ConstantsAssumption DEF TInv, IInv, Sound, HoldsLock, At, InLock
<1>3. tx'[w] = Blank("published") /\ \A v \in Worker : v # w => tx'[v] = tx[v]
  BY <1>1, <1>2 DEF Close, TypeOK
<1>4. tx'[w].at = "published" /\ tx'[w].base \in Tree
  BY <1>3 DEF Blank, Tree, Content
<1>5. Seen = tx[w].base /\ Seen' = tree
  BY <1>1, <1>2 DEF Seen, At, InLock
<1>6. Bases[w] = tx[w].base /\ Bases' = [Bases EXCEPT ![w] = tx'[w].base]
  BY <1>3 DEF Bases
<1>7. PublishedBy' = PublishedBy \cup {w} /\ w \notin PublishedBy
  BY <1>1, <1>3, <1>4 DEF PublishedBy, At
<1>8. Atomic!Rebase(w)
  BY <1>4, <1>6 DEF Bases, Atomic!Rebase
<1>9. Seen' \in Tree /\ Bases[w] = Seen
  BY <1>2, <1>5, <1>6, SameTree
<1>10. Atomic!Publish(w)
  BY <1>7, <1>8, <1>9 DEF Seen, Bases, PublishedBy, Atomic!Publish
<1> QED BY <1>10 DEF Atomic!Next

(* A call that goes for the lock, or finds its baseline under it, is not   *)
(* seen by anybody.                                                        *)
LEMMA EntersUnseen ==
    ASSUME TInv, NEW w \in Worker, Undisturbed,
           Finish(w) \/ Enter(w) \/ (Guarded(w) /\ tx[w].ok)
    PROVE  Seen' = Seen /\ Bases' = Bases /\ PublishedBy' = PublishedBy
<1>t. TypeOK /\ HoldsLock(w) /\ LockUsed /\ Whole(w) /\ w # NoWorker
  BY ConstantsAssumption DEF TInv, IInv, Sound, Traced
<1>q. ASSUME tx'[w].base = tx[w].base, \A v \in Worker : v # w => tx'[v] = tx[v],
             tx[w].at # "published", tx'[w].at # "published"
      PROVE  Bases' = Bases /\ PublishedBy' = PublishedBy
  BY <1>q DEF Bases, PublishedBy, At
<1>1. CASE Finish(w)
  <2>1. PICK f : tx' = [tx EXCEPT ![w] = [@ EXCEPT !.at = "check", !.left = Path, !.cand = f]]
    BY <1>1 DEF Finish
  <2>2. /\ tx'[w].at = "check" /\ tx'[w].base = tx[w].base
        /\ \A v \in Worker : v # w => tx'[v] = tx[v]
    BY <1>t, <2>1 DEF TypeOK
  <2>3. tree' = tree /\ lock' = lock /\ tx[w].at = "working"
    BY <1>1 DEF Finish, At
  <2>4. lock # w
    BY <1>t, <2>3 DEF LockUsed, InLock
  <2>5. Seen' = Seen
    BY <1>t, <2>2, <2>3, <2>4 DEF Seen, TypeOK
  <2> QED BY <1>q, <2>2, <2>3, <2>5
<1>2. CASE Enter(w)
  <2>1. /\ tx'[w].at = "guard" /\ tx'[w].base = tx[w].base
        /\ \A v \in Worker : v # w => tx'[v] = tx[v]
    BY <1>2, <1>t, BeginFields DEF Enter
  <2>2. lock = NoWorker /\ lock' = w /\ tree' = tree /\ tx[w].at = "lock"
    BY <1>2 DEF Enter, At
  <2>3. Seen' = Seen
    BY <2>1, <2>2 DEF Seen
  <2> QED BY <1>q, <2>1, <2>2, <2>3
<1>3. CASE Guarded(w) /\ tx[w].ok
  <2>1. /\ At(w, "guard") /\ tx[w].left = {} /\ tree' = tree /\ lock' = lock
        /\ Begin(w, "recheck", Changed(w))
    BY <1>3 DEF Guarded, Done
  <2>2. /\ tx'[w].at = "recheck" /\ tx'[w].base = tx[w].base
        /\ \A v \in Worker : v # w => tx'[v] = tx[v]
    BY <1>t, <2>1, BeginFields
  <2>3. tree = tx[w].base
    BY <1>t, <1>3, <2>1, SameTree DEF Whole
  <2>4. lock = w
    BY <1>t, <2>1 DEF HoldsLock, At, InLock
  <2>5. Seen' = Seen
    BY <1>t, <2>1, <2>2, <2>3, <2>4 DEF Seen, At, InLock
  <2> QED BY <1>q, <2>1, <2>2, <2>5 DEF At
<1> QED BY <1>1, <1>2, <1>3

(* A refusal, a clean failure or a new baseline leaves what is seen as it  *)
(* was: a rollback that is complete has brought the baseline back.         *)
LEMMA GivesUpUnseen ==
    ASSUME TInv, NEW w \in Worker, Undisturbed, Undisturbed',
           \/ Snapshot(w) \/ WorkerFails(w) \/ Restored(w)
           \/ (Checked(w) /\ ~tx[w].ok) \/ (Guarded(w) /\ ~tx[w].ok) \/ GuardFails(w)
    PROVE  Atomic!Next
<1>t. TypeOK /\ LockUsed /\ Whole(w) /\ w # NoWorker
  BY ConstantsAssumption DEF TInv, IInv, Traced
<1>1. CASE Snapshot(w)
  <2>1. /\ tx[w].at = "idle" /\ tree' = tree /\ lock' = lock
        /\ tx' = [tx EXCEPT ![w] = [@ EXCEPT !.at = "working", !.base = tree]]
    BY <1>1 DEF Snapshot, At
  <2>2. /\ tx'[w].at = "working" /\ tx'[w].base = tree
        /\ \A v \in Worker : v # w => tx'[v] = tx[v]
    BY <1>t, <2>1 DEF TypeOK
  <2>3. lock # w
    BY <1>t, <2>1 DEF LockUsed, InLock
  <2>4. Seen' = Seen
    BY <1>t, <2>1, <2>2, <2>3 DEF Seen, TypeOK
  <2> QED BY <1>t, <2>1, <2>2, <2>4, SameTree, Rebases
<1>2. CASE WorkerFails(w) \/ (Checked(w) /\ ~tx[w].ok)
  <2>1. /\ tx[w].at \in {"working", "check"} /\ Close(w, "refused")
        /\ tree' = tree /\ lock' = lock
    BY <1>2 DEF WorkerFails, Checked, Done, At
  <2> QED BY <2>1, EndsUnseen DEF InLock, Ended
<1>3. CASE (Guarded(w) /\ ~tx[w].ok) \/ GuardFails(w)
  <2>1. tx[w].at = "guard" /\ Close(w, "refused") /\ tree' = tree /\ lock' = NoWorker
    BY <1>3 DEF Guarded, GuardFails, Leave, Done, At
  <2> QED BY <2>1, EndsUnseen DEF Ended
<1>4. CASE Restored(w)
  <2>1. /\ At(w, "restore") /\ tx[w].left = {} /\ tree' = tree /\ lock' = NoWorker
        /\ Close(w, "failed") \/ Close(w, "stuck")
    BY <1>4 DEF Restored, Leave, Done
  <2>2. ~Close(w, "stuck")
    BY <1>t DEF Close, Blank, TypeOK, Undisturbed
  <2>3. tree = tx[w].base
    BY <1>t, <2>1, SameTree DEF Whole
  <2> QED BY <2>1, <2>2, <2>3, EndsUnseen DEF At, InLock, Ended
<1> QED BY <1>1, <1>2, <1>3, <1>4

(* Edits, crashes and failed rollbacks are what disturbs.                  *)
LEMMA Disturbing ==
    ASSUME TypeOK,
           \/ \E p \in Path, e \in Edit : UserEdit(p, e)
           \/ \E w \in Worker : RollbackFails(w) \/ Crash(w)
    PROVE  ~Undisturbed'
<1>1. CASE \E p \in Path, e \in Edit : UserEdit(p, e)
  BY <1>1 DEF UserEdit, Undisturbed
<1>2. ASSUME NEW w \in Worker, RollbackFails(w) \/ Crash(w) PROVE ~Undisturbed'
  <2>1. Close(w, "stuck") \/ Close(w, "dead")
    BY <1>2 DEF RollbackFails, Crash, Leave
  <2>2. tx'[w].at \in {"dead", "stuck"}
    BY <2>1 DEF Close, Blank, TypeOK
  <2> QED BY <2>2 DEF Undisturbed
<1> QED BY <1>1, <1>2

(* While nobody edits, crashes or fails to roll back, a publication is one *)
(* step for the other workers: it replaces exactly the tree its worker     *)
(* started from (publish, withFileLock).                                   *)
THEOREM PublicationIsAtomic == Spec => ImplementsAtomicPublication
<1>1. Init => Atomic!Init
  <2> SUFFICES ASSUME Init PROVE Atomic!Init
    OBVIOUS
  <2>1. TypeOK /\ lock = NoWorker /\ \A w \in Worker : tx[w].at = "idle"
    BY InitType DEF Init, Blank
  <2>2. Seen \in Tree /\ Bases \in [Worker -> Tree] /\ PublishedBy = {}
    BY <2>1 DEF Seen, Bases, PublishedBy, At, TypeOK
  <2> QED BY <2>2 DEF Seen, Bases, PublishedBy, Atomic!Init
<1>2. TInv /\ [Next]_vars => [Undisturbed' => Atomic!Next]_<<Seen, Bases, PublishedBy>>
  <2> SUFFICES ASSUME TInv, [Next]_vars, Undisturbed'
               PROVE  Atomic!Next \/ UNCHANGED <<Seen, Bases, PublishedBy>>
    OBVIOUS
  <2>t. TypeOK /\ Undisturbed
    BY DisturbedStays DEF TInv, IInv
  <2>1. CASE UNCHANGED vars
    BY <2>1 DEF vars, Seen, Bases, PublishedBy, At
  <2>2. ASSUME NEW w \in Worker, Snapshot(w) \/ Finish(w) \/ Publish(w)
        PROVE  Atomic!Next \/ UNCHANGED <<Seen, Bases, PublishedBy>>
    BY <2>2, <2>t, LoopsUnseen, PublishesAtOnce, EntersUnseen, GivesUpUnseen DEF Publish
  <2>3. ASSUME NEW w \in Worker, Rollback(w) \/ Trouble(w)
        PROVE  Atomic!Next \/ UNCHANGED <<Seen, Bases, PublishedBy>>
    BY <2>3, <2>t, LoopsUnseen, GivesUpUnseen, Disturbing DEF Rollback, Trouble
  <2> QED BY <2>1, <2>2, <2>3, <2>t, Disturbing DEF Next
<1>3. TInv /\ [Next]_vars =>
        [(edits = Edit /\ \A w \in Worker : tx[w].at \notin {"dead", "stuck"})'
            => Atomic!Next]_(Atomic!vars)
  BY <1>2 DEF Undisturbed, Seen, Bases, PublishedBy, Atomic!vars
<1> QED BY <1>1, <1>3, TraceInvariant, PTL DEF Spec, ImplementsAtomicPublication, Atomic!Spec

=============================================================================
