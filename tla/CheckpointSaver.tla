--------------------------- MODULE CheckpointSaver ---------------------------
(***************************************************************************)
(* The FileCheckpointSaver of src/persistence: every process that opened   *)
(* the checkpoint directory keeps the thread in memory, and every change   *)
(* takes the thread's file lock, refreshes the memory from the file when   *)
(* the file's fingerprint is not the one last seen, changes the memory and *)
(* replaces the file.  A failed change is undone in memory.                *)
(*                                                                         *)
(* One thread is modelled: threads have a file and a lock each.  The       *)
(* content of a file stands for its fingerprint.  The lock is the one      *)
(* FileLock is about: exclusive, and free again when its owner has died.   *)
(***************************************************************************)
EXTENDS Naturals

CONSTANTS
    Proc,           \* processes that use the checkpoint directory
    Ckpt,           \* checkpoint ids
    Key,            \* logical mutating operations
    Kinds,          \* operations the processes call
    Absent,         \* no file, no fingerprint
    NoProc,         \* the lock is free
    Unreliable,     \* processes that may crash and are opened again
    MaxGrants       \* bound: an operation executed so often is not claimed again

AllKinds == {"put", "putWrites", "delete", "claim", "complete"}
Statuses == {"none", "started", "completed"}

(* A serialized thread: checkpoints, the checkpoints that have pending     *)
(* writes, and the mutation journal.                                       *)
Content == [ckpts : SUBSET Ckpt, writes : SUBSET Ckpt, mut : [Key -> Statuses]]
Empty == [ckpts |-> {}, writes |-> {}, mut |-> [k \in Key |-> "none"]]

ASSUME ConstantsAssumption ==
    /\ Absent \notin Content
    /\ NoProc \notin Proc
    /\ Kinds \subseteq AllKinds
    /\ Unreliable \subseteq Proc
    /\ MaxGrants \in Nat

VARIABLES
    file,           \* the thread's checkpoint file
    lock,           \* the process that holds the thread's lock
    mem,            \* mem[p]: memory saver and journal of p
    fp,             \* fp[p]: fingerprint p has of the file
    op,             \* op[p]: the operation at the head of p's queue
    corrupt,        \* processes that quarantined the thread when they opened
    held,           \* held[p]: operations p was told to execute
    grants,         \* grants[k]: "execute" answers given for k
    deleted         \* the thread's file was removed (history)

vars == <<file, lock, mem, fp, op, corrupt, held, grants, deleted>>

Locked   == {"refresh", "apply", "persist", "sync", "unlink", "release"}
Points   == {"down", "list", "load", "quarantine", "idle", "acquire"} \cup Locked
Answers  == {"error", "ok", "execute", "replay", "indeterminate"}

(* What is at point "at" and no operation is running.                      *)
NoOp(at) == [at |-> at, kind |-> "put", on |-> Absent, snap |-> Empty, answer |-> "ok"]
Goto(p, at) == op' = [op EXCEPT ![p].at = at]
Answer(p, a) == op' = [op EXCEPT ![p].at = "release", ![p].answer = a]

(* hydrateCheckpointThread refuses writes of a checkpoint that is missing. *)
Loads(c) == c.writes \subseteq c.ckpts

(* Mutant: an operation without a result is executed again.                *)
RetryStarted(status) == IF status = "completed" THEN "replay" ELSE "execute"

(* claimFromEntry                                                          *)
ClaimAnswer(status) ==
    CASE status = "none" -> "execute"
      [] status = "completed" -> "replay"
      [] status = "started" -> "indeterminate"

-----------------------------------------------------------------------------
Init ==
    /\ file = Absent
    /\ lock = NoProc
    /\ mem = [p \in Proc |-> Empty]
    /\ fp = [p \in Proc |-> Absent]
    /\ op = [p \in Proc |-> NoOp("down")]
    /\ corrupt = {}
    /\ held = [p \in Proc |-> {}]
    /\ grants = [k \in Key |-> 0]
    /\ deleted = FALSE

(* FileCheckpointSaver.open lists the directory ...                        *)
OpenList(p) ==
    /\ op[p].at = "down"
    /\ Goto(p, IF file = Absent THEN "idle" ELSE "load")
    /\ UNCHANGED <<file, lock, mem, fp, corrupt, held, grants, deleted>>

(* ... and loads every file of the listing without taking its lock; the    *)
(* read may fail, the content be refused, or the chmod after it fail ...   *)
OpenLoad(p) ==
    /\ op[p].at = "load"
    /\ \/ /\ file # Absent /\ Loads(file)
          /\ mem' = [mem EXCEPT ![p] = file]
          /\ fp' = [fp EXCEPT ![p] = file]
          /\ Goto(p, "idle") \/ Goto(p, "quarantine")
       \/ /\ Goto(p, "quarantine")
          /\ UNCHANGED <<mem, fp>>
    /\ UNCHANGED <<file, lock, corrupt, held, grants, deleted>>

(* ... and renames the file away when the load failed for any reason.  If  *)
(* there is no file any more, or the rename or the chmod after it fails,   *)
(* the open is rejected and its saver dropped.                             *)
OpenQuarantine(p) ==
    /\ op[p].at = "quarantine"
    /\ \/ file' = file /\ UNCHANGED deleted
       \/ file # Absent /\ file' = Absent /\ deleted' = TRUE
    /\ \/ /\ op' = [op EXCEPT ![p] = NoOp("down")]
          /\ mem' = [mem EXCEPT ![p] = Empty]
          /\ fp' = [fp EXCEPT ![p] = Absent]
          /\ UNCHANGED corrupt
       \/ /\ file # file'
          /\ corrupt' = corrupt \cup {p}
          /\ Goto(p, "idle")
          /\ UNCHANGED <<mem, fp>>
    /\ UNCHANGED <<lock, held, grants>>

-----------------------------------------------------------------------------
(* What a caller may ask: LangGraph writes pending writes of a checkpoint  *)
(* it has, and executeMutation completes what it was told to execute.  A   *)
(* quarantined thread cannot be read, but written (assertThreadIsReadable  *)
(* guards getTuple and list only).                                         *)
MayCall(p, kind, x) ==
    /\ kind \in Kinds
    /\ \/ kind = "put" /\ x \in Ckpt
       \/ kind = "putWrites" /\ x \in mem[p].ckpts
       \/ kind = "delete" /\ x = Absent
       \/ kind = "claim" /\ x \in Key /\ grants[x] < MaxGrants
       \/ kind = "complete" /\ x \in held[p]

(* enqueue: an operation runs when every earlier one of the process ended. *)
Call(p, kind, x) ==
    /\ op[p].at = "idle"
    /\ MayCall(p, kind, x)
    /\ op' = [op EXCEPT ![p] = [NoOp("acquire") EXCEPT !.kind = kind, !.on = x]]
    /\ held' = IF kind = "complete" THEN [held EXCEPT ![p] = @ \ {x}] ELSE held
    /\ UNCHANGED <<file, lock, mem, fp, corrupt, grants, deleted>>

(* mutateThread: withCheckpointFileLock                                    *)
AcquireLock(p) ==
    /\ op[p].at = "acquire"
    /\ lock = NoProc
    /\ lock' = p
    /\ Goto(p, "refresh")
    /\ UNCHANGED <<file, mem, fp, corrupt, held, grants, deleted>>

(* CheckpointLockTimeoutError                                              *)
LockTimeout(p) ==
    /\ op[p].at = "acquire"
    /\ lock # NoProc
    /\ Goto(p, "idle")
    /\ UNCHANGED <<file, lock, mem, fp, corrupt, held, grants, deleted>>

(* Mutant: the memory is trusted without comparing fingerprints.           *)
TrustMemory(p) ==
    /\ op[p].at = "refresh"
    /\ Goto(p, "apply")
    /\ UNCHANGED <<file, lock, mem, fp, corrupt, held, grants, deleted>>

(* refreshThread: reading, loading and the chmod after them may fail.      *)
RefreshThread(p) ==
    /\ op[p].at = "refresh"
    /\ \/ /\ file = Absent
          /\ mem' = [mem EXCEPT ![p] = Empty]
          /\ fp' = [fp EXCEPT ![p] = Absent]
          /\ Goto(p, "apply")
       \/ /\ file # Absent /\ fp[p] = file
          /\ Goto(p, "apply")
          /\ UNCHANGED <<mem, fp>>
       \/ /\ file # Absent /\ fp[p] # file /\ Loads(file)
          /\ mem' = [mem EXCEPT ![p] = file]
          /\ fp' = [fp EXCEPT ![p] = file]
          /\ Goto(p, "apply") \/ Answer(p, "error")
       \/ /\ Answer(p, "error")
          /\ UNCHANGED <<mem, fp>>
    /\ UNCHANGED <<file, lock, corrupt, held, grants, deleted>>

-----------------------------------------------------------------------------
(* The memory is changed and the previous content kept for an undo.        *)
Change(p, content, answer) ==
    /\ mem' = [mem EXCEPT ![p] = content]
    /\ op' = [op EXCEPT ![p].at = "persist", ![p].snap = mem[p], ![p].answer = answer]
    /\ UNCHANGED <<file, lock, fp, corrupt, held, grants, deleted>>

Applying(p, kind) == op[p].at = "apply" /\ op[p].kind = kind

(* put                                                                     *)
ApplyPut(p) ==
    /\ Applying(p, "put")
    /\ Change(p, [mem[p] EXCEPT !.ckpts = @ \cup {op[p].on}], "ok")

(* putWrites and putWritesBatch                                            *)
ApplyPutWrites(p) ==
    /\ Applying(p, "putWrites")
    /\ Change(p, [mem[p] EXCEPT !.writes = @ \cup {op[p].on}], "ok")

(* claimMutation: an existing entry is the answer, nothing is written.     *)
ApplyClaim(p) ==
    /\ Applying(p, "claim")
    /\ LET k == op[p].on
           answer == ClaimAnswer(mem[p].mut[k])
       IN IF answer = "execute"
            THEN Change(p, [mem[p] EXCEPT !.mut[k] = "started"], answer)
            ELSE /\ Answer(p, answer)
                 /\ UNCHANGED <<file, lock, mem, fp, corrupt, held, grants, deleted>>

(* completeMutation: throws unless the entry is "started".                 *)
ApplyComplete(p) ==
    /\ Applying(p, "complete")
    /\ LET k == op[p].on
       IN IF mem[p].mut[k] = "started"
            THEN Change(p, [mem[p] EXCEPT !.mut[k] = "completed"], "ok")
            ELSE /\ Answer(p, "error")
                 /\ UNCHANGED <<file, lock, mem, fp, corrupt, held, grants, deleted>>

(* deleteThread: memory, journal, fingerprint and the quarantined file go  *)
(* before the thread's file is unlinked; either unlink may fail.           *)
ApplyDelete(p) ==
    /\ Applying(p, "delete")
    /\ mem' = [mem EXCEPT ![p] = Empty]
    /\ fp' = [fp EXCEPT ![p] = Absent]
    /\ \/ corrupt' = corrupt \ {p} /\ Goto(p, "unlink")
       \/ p \in corrupt /\ Answer(p, "error") /\ UNCHANGED corrupt
    /\ UNCHANGED <<file, lock, held, grants, deleted>>

Unlink(p) ==
    /\ op[p].at = "unlink"
    /\ \/ file' = Absent /\ deleted' = (deleted \/ file # Absent) /\ Answer(p, "ok")
       \/ Answer(p, "error") /\ UNCHANGED <<file, deleted>>
    /\ UNCHANGED <<lock, mem, fp, corrupt, held, grants>>

-----------------------------------------------------------------------------
(* persistThread: atomicWrite renames the temporary file ...               *)
PersistRename(p) ==
    /\ op[p].at = "persist"
    /\ file' = mem[p]
    /\ Goto(p, "sync")
    /\ UNCHANGED <<lock, mem, fp, corrupt, held, grants, deleted>>

(* ... syncs the directory, and only then is the fingerprint taken.        *)
PersistDone(p) ==
    /\ op[p].at = "sync"
    /\ fp' = [fp EXCEPT ![p] = mem[p]]
    /\ Goto(p, "release")
    /\ UNCHANGED <<file, lock, mem, corrupt, held, grants, deleted>>

(* Mutant: a failed write leaves the change in memory.                     *)
KeepMemory(p) ==
    /\ op[p].at \in {"persist", "sync"}
    /\ Answer(p, "error")
    /\ UNCHANGED <<file, lock, mem, fp, corrupt, held, grants, deleted>>

(* atomicWrite throws before or after the rename (size limit, full disk,   *)
(* failing sync): the memory goes back to what it was.                     *)
PersistFails(p) ==
    /\ op[p].at \in {"persist", "sync"}
    /\ mem' = [mem EXCEPT ![p] = op[p].snap]
    /\ Answer(p, "error")
    /\ UNCHANGED <<file, lock, fp, corrupt, held, grants, deleted>>

(* The lock is released and the caller gets its answer.                    *)
ReleaseLock(p) ==
    /\ op[p].at = "release"
    /\ lock' = NoProc
    /\ op' = [op EXCEPT ![p] = NoOp("idle")]
    /\ IF op[p].answer = "execute"
         THEN /\ grants' = [grants EXCEPT ![op[p].on] = @ + 1]
              /\ held' = [held EXCEPT ![p] = @ \cup {op[p].on}]
         ELSE UNCHANGED <<grants, held>>
    /\ UNCHANGED <<file, mem, fp, corrupt, deleted>>

(* A process dies: its memory is gone and its lock is recovered.           *)
Crash(p) ==
    /\ p \in Unreliable
    /\ op[p].at # "down"
    /\ op' = [op EXCEPT ![p] = NoOp("down")]
    /\ mem' = [mem EXCEPT ![p] = Empty]
    /\ fp' = [fp EXCEPT ![p] = Absent]
    /\ held' = [held EXCEPT ![p] = {}]
    /\ corrupt' = corrupt \ {p}
    /\ lock' = IF lock = p THEN NoProc ELSE lock
    /\ UNCHANGED <<file, grants, deleted>>

-----------------------------------------------------------------------------
Open(p) == OpenList(p) \/ OpenLoad(p) \/ OpenQuarantine(p)

Apply(p) ==
    \/ ApplyPut(p) \/ ApplyPutWrites(p) \/ ApplyClaim(p)
    \/ ApplyComplete(p) \/ ApplyDelete(p)

Persist(p) == PersistRename(p) \/ PersistDone(p) \/ PersistFails(p) \/ Unlink(p)

CallAny(p) ==
    \E kind \in Kinds, x \in Ckpt \cup Key \cup {Absent} : Call(p, kind, x)

Next == \E p \in Proc :
    \/ Open(p) \/ Crash(p)
    \/ CallAny(p)
    \/ AcquireLock(p) \/ LockTimeout(p) \/ RefreshThread(p)
    \/ Apply(p) \/ Persist(p) \/ ReleaseLock(p)

Spec == Init /\ [][Next]_vars

-----------------------------------------------------------------------------
(* The variables have their types.                                         *)
TypeOK ==
    /\ file \in Content \cup {Absent}
    /\ lock \in Proc \cup {NoProc}
    /\ mem \in [Proc -> Content]
    /\ fp \in [Proc -> Content \cup {Absent}]
    /\ op \in [Proc -> [at : Points, kind : AllKinds, on : Ckpt \cup Key \cup {Absent},
                        snap : Content, answer : Answers]]
    /\ corrupt \subseteq Proc
    /\ held \in [Proc -> SUBSET Key]
    /\ grants \in [Key -> Nat]
    /\ deleted \in BOOLEAN

(* A process that skips the reload because the fingerprint matches has     *)
(* exactly the file's content in memory, whatever failed before: every     *)
(* error path of put, claimMutation, completeMutation and deleteThread     *)
(* leaves memory and fingerprint in agreement.                             *)
FingerprintMatchesMemory ==
    \A p \in Proc : op[p].at \in {"idle", "acquire", "refresh"} /\ fp[p] # Absent
                        => mem[p] = fp[p]

(* No process overwrites what another one made durable: a replacement of   *)
(* the file keeps every checkpoint, every pending write and every journal  *)
(* entry, and a completed entry stays completed (mutateThread refreshes    *)
(* under the lock before it changes anything).                             *)
Rank(status) == CASE status = "none" -> 0 [] status = "started" -> 1
                  [] status = "completed" -> 2

NoLostUpdate ==
    [][file # Absent /\ file' # Absent =>
          /\ file.ckpts \subseteq file'.ckpts
          /\ file.writes \subseteq file'.writes
          /\ \A k \in Key : Rank(file.mut[k]) <= Rank(file'.mut[k])]_vars

(* The saver implements the journal every mutating node relies on: as long *)
(* as nobody deletes the thread, the answer "execute" is given at most     *)
(* once for an operation, by all processes together and across crashes,    *)
(* failed writes and lost answers (claimMutation, completeMutation).       *)
Entry(k) == IF file = Absent THEN "none" ELSE file.mut[k]
Journal == INSTANCE MutationJournal WITH
    entry <- [k \in Key |-> Entry(k)], live <- ~deleted
ImplementsJournal == Journal!Spec
=============================================================================
