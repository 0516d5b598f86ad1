--------------------------- MODULE MutationJournal ---------------------------
(***************************************************************************)
(* What src/persistence/mutation-journal.ts promises of one thread: a      *)
(* logical operation goes from no entry to "started" to "completed", and   *)
(* the answer "execute" is handed out for it at most once.  Answers may be *)
(* lost (a crash or an error after the entry became durable), so an entry  *)
(* may stay "started" for ever: the indeterminate claim.                   *)
(***************************************************************************)
EXTENDS Naturals

CONSTANT Key            \* logical operations (mutationKey)

VARIABLES
    entry,              \* entry[k]: the durable entry of operation k
    grants,             \* grants[k]: "execute" answers handed out for k
    live                \* the thread has not been deleted

vars == <<entry, grants>>

Statuses == {"none", "started", "completed"}

Init ==
    /\ entry = [k \in Key |-> "none"]
    /\ grants = [k \in Key |-> 0]

(* The entry of a claim becomes durable before the claim is answered.      *)
Start(k) ==
    /\ entry[k] = "none"
    /\ entry' = [entry EXCEPT ![k] = "started"]
    /\ UNCHANGED grants

Grant(k) ==
    /\ entry[k] = "started"
    /\ grants[k] = 0
    /\ grants' = [grants EXCEPT ![k] = 1]
    /\ UNCHANGED entry

(* Only the holder of the answer completes the operation.                  *)
Complete(k) ==
    /\ entry[k] = "started"
    /\ grants[k] = 1
    /\ entry' = [entry EXCEPT ![k] = "completed"]
    /\ UNCHANGED grants

Next == \E k \in Key : Start(k) \/ Grant(k) \/ Complete(k)

(* The promise lasts as long as the thread: one that is deleted and used   *)
(* again is a new thread.                                                  *)
Spec == Init /\ [][live' => Next]_vars
=============================================================================
