------------------------ MODULE CheckpointSaverProofs ------------------------
(* The checkpoint saver for any number of processes, checkpoints and       *)
(* operations: memory and fingerprint agree, no update is lost, and the    *)
(* saver implements the mutation journal.                                  *)
EXTENDS CheckpointSaver, TLAPS

(* What the file holds; a thread without a file is an empty one.           *)
Durable == IF file = Absent THEN Empty ELSE file

Busy == {"acquire"} \cup Locked

(* What an operation is about fits its kind.                               *)
OpFits ==
    \A p \in Proc : op[p].at \in Busy =>
        /\ op[p].kind \in {"put", "putWrites"} => op[p].on \in Ckpt
        /\ op[p].kind \in {"claim", "complete"} => op[p].on \in Key
        /\ op[p].answer = "execute" => op[p].kind = "claim"

(* Who works on the file holds its lock.                                   *)
LockHeld == \A p \in Proc : op[p].at \in Locked => lock = p

(* A fingerprint stands for what was in memory before the change that is   *)
(* not yet durable.                                                        *)
Writing == {"persist", "sync"}
Trusted(p) == IF op[p].at \in Writing THEN op[p].snap ELSE mem[p]
FingerprintTrusted == \A p \in Proc : fp[p] # Absent => Trusted(p) = fp[p]

(* After the refresh the memory is the file, unless the file was taken     *)
(* away: a quarantine takes no lock.                                       *)
Fresh ==
    \A p \in Proc :
        /\ op[p].at = "apply" => (file # Absent \/ ~deleted => mem[p] = Durable)
        /\ op[p].at = "persist" => (file # Absent \/ ~deleted => op[p].snap = Durable)
        /\ op[p].at = "sync" => (file # Absent \/ ~deleted => mem[p] = Durable)

(* What a pending write adds to what was there.                            *)
Grown(old, new, kind, x) ==
    /\ old.ckpts \subseteq new.ckpts /\ old.writes \subseteq new.writes
    /\ CASE kind = "claim" -> /\ old.mut[x] = "none"
                              /\ new.mut = [old.mut EXCEPT ![x] = "started"]
         [] kind = "complete" -> /\ old.mut[x] = "started"
                                 /\ new.mut = [old.mut EXCEPT ![x] = "completed"]
         [] OTHER -> new.mut = old.mut

PendingWrite ==
    \A p \in Proc : op[p].at \in Writing =>
        /\ Grown(op[p].snap, mem[p], op[p].kind, op[p].on)
        /\ op[p].kind = "claim" <=> op[p].answer = "execute"

(* The answer "execute" is on its way for an entry this process started.   *)
ClaimWritten ==
    \A p \in Proc :
        /\ op[p].at \in {"sync", "release"} /\ op[p].answer = "execute" /\ ~deleted
        => Entry(op[p].on) = "started" /\ grants[op[p].on] = 0

(* An operation without an entry was never granted, and what a process was *)
(* told to execute, and what it completes, was granted.                    *)
Unclaimed == ~deleted => \A k \in Key : Entry(k) = "none" => grants[k] = 0
GrantedOnce == ~deleted => \A k \in Key : grants[k] <= 1
HeldGranted == \A p \in Proc : \A k \in held[p] : grants[k] > 0
CompletesGranted ==
    \A p \in Proc : op[p].at \in Busy /\ op[p].kind = "complete" => grants[op[p].on] > 0

(* The invariant in four parts: types, operations, memory and journal.     *)
Operations == OpFits /\ LockHeld /\ CompletesGranted
Memory == FingerprintTrusted /\ Fresh /\ PendingWrite
Ledger == ClaimWritten /\ Unclaimed /\ GrantedOnce /\ HeldGranted

IInv == TypeOK /\ Operations /\ Memory /\ Ledger

-----------------------------------------------------------------------------
(* A thread without a file is a thread.                                    *)
LEMMA EmptyContent == Empty \in Content
  BY DEF Empty, Content, Statuses

(* What a change makes of a thread is a thread, and has grown.             *)
LEMMA ContentChange ==
    ASSUME NEW m \in Content
    PROVE  /\ \A x \in Ckpt : LET n == [m EXCEPT !.ckpts = @ \cup {x}]
                             IN n \in Content /\ Grown(m, n, "put", x)
           /\ \A x \in Ckpt : LET n == [m EXCEPT !.writes = @ \cup {x}]
                             IN n \in Content /\ Grown(m, n, "putWrites", x)
           /\ \A k \in Key : LET n == [m EXCEPT !.mut[k] = "started"]
                            IN m.mut[k] = "none" => n \in Content /\ Grown(m, n, "claim", k)
           /\ \A k \in Key : LET n == [m EXCEPT !.mut[k] = "completed"]
                            IN m.mut[k] = "started" =>
                                 n \in Content /\ Grown(m, n, "complete", k)
           /\ \A k \in Key : m.mut[k] \in Statuses
  BY DEF Content, Statuses, Grown

(* A put only adds a checkpoint.                                           *)
LEMMA GrowsByPut ==
    ASSUME NEW m \in Content, NEW x
    PROVE  Grown(m, [m EXCEPT !.ckpts = @ \cup {x}], "put", x)
  BY DEF Content, Grown

(* A putWrites only adds pending writes.                                   *)
LEMMA GrowsByPutWrites ==
    ASSUME NEW m \in Content, NEW x
    PROVE  Grown(m, [m EXCEPT !.writes = @ \cup {x}], "putWrites", x)
  BY DEF Content, Grown

(* The operations a process can be in                                      *)
Op == [at : Points, kind : AllKinds, on : Ckpt \cup Key \cup {Absent},
       snap : Content, answer : Answers]

(* Everything of q's operation but its control point is what it was.       *)
SameOp(q) == /\ op'[q].kind = op[q].kind /\ op'[q].on = op[q].on
             /\ op'[q].snap = op[q].snap
OthersSame(p) == \A q \in Proc \ {p} : op'[q] = op[q]

(* A process moves to its next control point.                              *)
LEMMA GotoMoves ==
    ASSUME op \in [Proc -> Op], NEW p \in Proc, NEW at \in Points, Goto(p, at)
    PROVE  /\ op' \in [Proc -> Op] /\ op'[p].at = at /\ op'[p].answer = op[p].answer
           /\ SameOp(p) /\ OthersSame(p)
  BY DEF Goto, Op, SameOp, OthersSame

(* An operation without a change goes to its release with an answer.       *)
LEMMA AnswerMoves ==
    ASSUME op \in [Proc -> Op], NEW p \in Proc, NEW a \in Answers, Answer(p, a)
    PROVE  /\ op' \in [Proc -> Op] /\ op'[p].at = "release" /\ op'[p].answer = a
           /\ SameOp(p) /\ OthersSame(p)
  BY DEF Answer, Op, SameOp, OthersSame, Points, Locked

(* An operation is over, failed or lost in a crash.                        *)
LEMMA ResetMoves ==
    ASSUME op \in [Proc -> Op], NEW p \in Proc, NEW at \in Points,
           op' = [op EXCEPT ![p] = NoOp(at)]
    PROVE  /\ op' \in [Proc -> Op] /\ op'[p].at = at /\ op'[p].answer = "ok"
           /\ OthersSame(p)
  BY EmptyContent DEF NoOp, Op, OthersSame, AllKinds, Answers

(* A call puts a fresh operation at the head of the queue.                 *)
LEMMA CallMoves ==
    ASSUME op \in [Proc -> Op], NEW p \in Proc, NEW kind \in AllKinds,
           NEW x \in Ckpt \cup Key \cup {Absent}, Call(p, kind, x)
    PROVE  /\ op' \in [Proc -> Op] /\ op'[p].at = "acquire" /\ op'[p].answer = "ok"
           /\ op'[p].kind = kind /\ op'[p].on = x /\ OthersSame(p)
  BY EmptyContent DEF Call, NoOp, Op, OthersSame, Answers, Points

(* A change is made in memory; the state before it is the snapshot.        *)
LEMMA ChangeMoves ==
    ASSUME op \in [Proc -> Op], mem \in [Proc -> Content], NEW p \in Proc,
           NEW content \in Content, NEW a \in Answers, Change(p, content, a)
    PROVE  /\ op' \in [Proc -> Op] /\ op'[p].at = "persist" /\ op'[p].answer = a
           /\ op'[p].kind = op[p].kind /\ op'[p].on = op[p].on /\ op'[p].snap = mem[p]
           /\ OthersSame(p)
           /\ mem' \in [Proc -> Content] /\ mem'[p] = content
           /\ \A q \in Proc \ {p} : mem'[q] = mem[q]
           /\ UNCHANGED <<file, lock, fp, corrupt, held, grants, deleted>>
  BY DEF Change, Op, OthersSame, Points, Locked

(* What a pending write means for the journal: only its own entry moves,   *)
(* and forwards.                                                           *)
LEMMA GrownForward ==
    ASSUME NEW old \in Content, NEW new \in Content, NEW kind \in AllKinds, NEW x,
           kind \in {"claim", "complete"} => x \in Key, Grown(old, new, kind, x)
    PROVE  /\ old.ckpts \subseteq new.ckpts /\ old.writes \subseteq new.writes
           /\ \A k \in Key : new.mut[k] = "none" => old.mut[k] = "none"
           /\ \A k \in Key : Rank(old.mut[k]) <= Rank(new.mut[k])
           /\ kind = "claim" => old.mut[x] = "none" /\ new.mut[x] = "started"
<1> USE DEF Content, Statuses, Grown
<1>1. CASE kind = "claim"
  BY <1>1 DEF Rank
<1>2. CASE kind = "complete"
  BY <1>2 DEF Rank
<1>3. CASE kind \notin {"claim", "complete"}
  BY <1>3 DEF Rank
<1> QED BY <1>1, <1>2, <1>3

(* The variables other than op have their types after a step.              *)
RestTyped ==
    /\ file' \in Content \cup {Absent} /\ lock' \in Proc \cup {NoProc}
    /\ mem' \in [Proc -> Content] /\ fp' \in [Proc -> Content \cup {Absent}]
    /\ corrupt' \subseteq Proc /\ held' \in [Proc -> SUBSET Key]
    /\ grants' \in [Key -> Nat] /\ deleted' \in BOOLEAN

(* Each conjunct of the invariant is preserved; one step per action.       *)
LEMMA InvStep == IInv /\ [Next]_vars => IInv'
<1> SUFFICES ASSUME IInv, [Next]_vars PROVE IInv'
  OBVIOUS
<1>op. op \in [Proc -> Op]
  BY DEF IInv, TypeOK, Op
<1>t. op' \in [Proc -> Op] /\ RestTyped => TypeOK'
  BY DEF TypeOK, Op, RestTyped
<1>q. op' \in [Proc -> Op] /\ RestTyped /\ Operations' /\ Memory' /\ Ledger' => IInv'
  BY <1>t DEF IInv
<1>r. /\ file \in Content \cup {Absent} /\ lock \in Proc \cup {NoProc}
      /\ mem \in [Proc -> Content] /\ fp \in [Proc -> Content \cup {Absent}]
      /\ corrupt \subseteq Proc /\ held \in [Proc -> SUBSET Key]
      /\ grants \in [Key -> Nat] /\ deleted \in BOOLEAN
  BY DEF IInv, TypeOK
<1>i. Operations /\ Memory /\ Ledger
  BY DEF IInv
<1> USE ConstantsAssumption, EmptyContent, <1>op, <1>r, <1>i
<1> USE DEF Points, Locked, Answers, Busy, AllKinds, Writing, RestTyped,
            SameOp, OthersSame, Operations, Memory, Ledger, OpFits, LockHeld,
            FingerprintTrusted, Fresh, PendingWrite, ClaimWritten, Unclaimed, GrantedOnce,
            HeldGranted, CompletesGranted, Trusted, Durable, Entry
<1>1. ASSUME NEW p \in Proc, OpenList(p) PROVE IInv'
  <2>1. /\ op' \in [Proc -> Op] /\ op'[p].at \notin Busy /\ op'[p].answer = op[p].answer
        /\ SameOp(p) /\ OthersSame(p)
    BY <1>1, GotoMoves DEF OpenList
  <2>2. RestTyped    BY <1>1 DEF OpenList
  <2>3. Operations'  BY <1>1, <2>1 DEF OpenList
  <2>4. Memory'      BY <1>1, <2>1 DEF OpenList
  <2>5. Ledger'      BY <1>1, <2>1 DEF OpenList
  <2> QED BY <1>q, <2>1, <2>2, <2>3, <2>4, <2>5
<1>2. ASSUME NEW p \in Proc, OpenLoad(p) PROVE IInv'
  <2>1. /\ op' \in [Proc -> Op] /\ op'[p].at \notin Busy /\ op'[p].answer = op[p].answer
        /\ SameOp(p) /\ OthersSame(p)
    BY <1>2, GotoMoves DEF OpenLoad
  <2>2. RestTyped    BY <1>2 DEF OpenLoad
  <2>3. Operations'  BY <1>2, <2>1 DEF OpenLoad
  <2>4. Memory'      BY <1>2, <2>1 DEF OpenLoad
  <2>5. Ledger'      BY <1>2, <2>1 DEF OpenLoad
  <2> QED BY <1>q, <2>1, <2>2, <2>3, <2>4, <2>5
<1>3. ASSUME NEW p \in Proc, OpenQuarantine(p) PROVE IInv'
  <2>1. /\ op' \in [Proc -> Op] /\ OthersSame(p)
        /\ op'[p].at = "down" \/ op'[p].at = "idle"
        /\ op'[p].answer = "ok" \/ op'[p].answer = op[p].answer
    <3>1. ASSUME Goto(p, "idle")
          PROVE  /\ op' \in [Proc -> Op] /\ OthersSame(p)
                 /\ op'[p].at = "idle" /\ op'[p].answer = op[p].answer
      BY <3>1, GotoMoves
    <3>2. ASSUME op' = [op EXCEPT ![p] = NoOp("down")]
          PROVE  /\ op' \in [Proc -> Op] /\ OthersSame(p)
                 /\ op'[p].at = "down" /\ op'[p].answer = "ok"
      BY <3>2, ResetMoves
    <3>3. Goto(p, "idle") \/ op' = [op EXCEPT ![p] = NoOp("down")]
      BY <1>3 DEF OpenQuarantine
    <3> QED BY <3>1, <3>2, <3>3
  <2>2. RestTyped
    <3>1. /\ mem' = [mem EXCEPT ![p] = Empty] \/ mem' = mem
          /\ fp' = [fp EXCEPT ![p] = Absent] \/ fp' = fp
          /\ file' = file \/ file' = Absent
          /\ deleted' = deleted \/ deleted' = TRUE
          /\ corrupt' = corrupt \/ corrupt' = corrupt \cup {p}
          /\ UNCHANGED <<lock, held, grants>>
      BY <1>3 DEF OpenQuarantine
    <3>2. mem' \in [Proc -> Content] /\ fp' \in [Proc -> Content \cup {Absent}]
      BY <3>1
    <3> QED BY <3>1, <3>2
  <2>3. Operations'  BY <1>3, <2>1 DEF OpenQuarantine
  <2>4. Memory'      BY <1>3, <2>1 DEF OpenQuarantine
  <2>5. Ledger'      BY <1>3, <2>1 DEF OpenQuarantine
  <2> QED BY <1>q, <2>1, <2>2, <2>3, <2>4, <2>5
<1>4. ASSUME NEW p \in Proc, Crash(p) PROVE IInv'
  <2>1. /\ op' \in [Proc -> Op] /\ op'[p].at = "down" /\ OthersSame(p)
    BY <1>4, ResetMoves DEF Crash
  <2>2. RestTyped    BY <1>4 DEF Crash
  <2>3. Operations'  BY <1>4, <2>1 DEF Crash
  <2>4. Memory'      BY <1>4, <2>1 DEF Crash
  <2>5. Ledger'      BY <1>4, <2>1 DEF Crash
  <2> QED BY <1>q, <2>1, <2>2, <2>3, <2>4, <2>5
<1>5. ASSUME NEW p \in Proc, AcquireLock(p) PROVE IInv'
  <2>1. /\ op' \in [Proc -> Op] /\ op'[p].at = "refresh" /\ op'[p].answer = op[p].answer
        /\ SameOp(p) /\ OthersSame(p)
    BY <1>5, GotoMoves DEF AcquireLock
  <2>2. RestTyped    BY <1>5 DEF AcquireLock
  <2>3. Operations'  BY <1>5, <2>1 DEF AcquireLock
  <2>4. Memory'      BY <1>5, <2>1 DEF AcquireLock
  <2>5. Ledger'      BY <1>5, <2>1 DEF AcquireLock
  <2> QED BY <1>q, <2>1, <2>2, <2>3, <2>4, <2>5
<1>6. ASSUME NEW p \in Proc, LockTimeout(p) PROVE IInv'
  <2>1. /\ op' \in [Proc -> Op] /\ op'[p].at = "idle" /\ op'[p].answer = op[p].answer
        /\ SameOp(p) /\ OthersSame(p)
    BY <1>6, GotoMoves DEF LockTimeout
  <2>2. RestTyped    BY <1>6 DEF LockTimeout
  <2>3. Operations'  BY <1>6, <2>1 DEF LockTimeout
  <2>4. Memory'      BY <1>6, <2>1 DEF LockTimeout
  <2>5. Ledger'      BY <1>6, <2>1 DEF LockTimeout
  <2> QED BY <1>q, <2>1, <2>2, <2>3, <2>4, <2>5
<1>8. ASSUME NEW p \in Proc, PersistRename(p) PROVE IInv'
  <2>1. /\ op' \in [Proc -> Op] /\ op'[p].at = "sync" /\ op'[p].answer = op[p].answer
        /\ SameOp(p) /\ OthersSame(p)
    BY <1>8, GotoMoves DEF PersistRename
  <2>2. RestTyped    BY <1>8 DEF PersistRename
  <2>3. Operations'  BY <1>8, <2>1 DEF PersistRename
  <2>4. Memory'      BY <1>8, <2>1 DEF PersistRename
  <2>5. Ledger'
    <3>1. /\ UNCHANGED <<held, grants, deleted>> /\ file' = mem[p] /\ op[p].at = "persist"
          /\ file' # Absent
      BY <1>8 DEF PersistRename
    <3>2. \A q \in Proc \ {p} : op[q].at \notin Locked
      BY <3>1
    <3>3. ~deleted => op[p].snap = Durable
      BY <3>1
    <3>4. /\ \A k \in Key : mem[p].mut[k] = "none" => op[p].snap.mut[k] = "none"
          /\ op[p].kind = "claim" => /\ op[p].snap.mut[op[p].on] = "none"
                                     /\ mem[p].mut[op[p].on] = "started"
      BY <3>1, GrownForward DEF Op
    <3>5. \A k \in Key : Durable.mut[k] = Entry(k)
      BY DEF Empty
    <3> QED BY <2>1, <3>1, <3>2, <3>3, <3>4, <3>5
  <2> QED BY <1>q, <2>1, <2>2, <2>3, <2>4, <2>5
<1>9. ASSUME NEW p \in Proc, PersistDone(p) PROVE IInv'
  <2>1. /\ op' \in [Proc -> Op] /\ op'[p].at = "release" /\ op'[p].answer = op[p].answer
        /\ SameOp(p) /\ OthersSame(p)
    BY <1>9, GotoMoves DEF PersistDone
  <2>2. RestTyped    BY <1>9 DEF PersistDone
  <2>3. Operations'  BY <1>9, <2>1 DEF PersistDone
  <2>4. Memory'      BY <1>9, <2>1 DEF PersistDone
  <2>5. Ledger'      BY <1>9, <2>1 DEF PersistDone
  <2> QED BY <1>q, <2>1, <2>2, <2>3, <2>4, <2>5
<1>10. ASSUME NEW p \in Proc, PersistFails(p) PROVE IInv'
  <2>1. /\ op' \in [Proc -> Op] /\ op'[p].at = "release" /\ SameOp(p)
        /\ OthersSame(p) /\ op'[p].answer = "error"
    BY <1>10, AnswerMoves DEF PersistFails
  <2>2. RestTyped    BY <1>10 DEF PersistFails, Op
  <2>3. Operations'  BY <1>10, <2>1 DEF PersistFails
  <2>4. Memory'      BY <1>10, <2>1 DEF PersistFails
  <2>5. Ledger'      BY <1>10, <2>1 DEF PersistFails
  <2> QED BY <1>q, <2>1, <2>2, <2>3, <2>4, <2>5
<1>11. ASSUME NEW p \in Proc, Unlink(p) PROVE IInv'
  <2>1. /\ op' \in [Proc -> Op] /\ op'[p].at = "release" /\ SameOp(p)
        /\ OthersSame(p) /\ op'[p].answer # "execute"
    BY <1>11, AnswerMoves DEF Unlink
  <2>2. RestTyped    BY <1>11 DEF Unlink
  <2>3. Operations'  BY <1>11, <2>1 DEF Unlink
  <2>4. Memory'      BY <1>11, <2>1 DEF Unlink
  <2>5. Ledger'
    <3>1. /\ UNCHANGED <<held, grants>> /\ op[p].at = "unlink"
          /\ ~deleted' => ~deleted /\ file' = file
      BY <1>11 DEF Unlink
    <3> QED BY <2>1, <3>1
  <2> QED BY <1>q, <2>1, <2>2, <2>3, <2>4, <2>5
<1>12. ASSUME NEW p \in Proc, ApplyDelete(p) PROVE IInv'
  <2>1. /\ op' \in [Proc -> Op] /\ op'[p].at \in {"unlink", "release"}
        /\ SameOp(p) /\ OthersSame(p)
        /\ op'[p].answer \in {op[p].answer, "error"}
    BY <1>12, GotoMoves, AnswerMoves DEF ApplyDelete, Applying
  <2>2. RestTyped    BY <1>12 DEF ApplyDelete, Applying
  <2>3. Operations'  BY <1>12, <2>1 DEF ApplyDelete, Applying
  <2>4. Memory'      BY <1>12, <2>1 DEF ApplyDelete, Applying
  <2>5. Ledger'      BY <1>12, <2>1 DEF ApplyDelete, Applying
  <2> QED BY <1>q, <2>1, <2>2, <2>3, <2>4, <2>5
<1>13. ASSUME NEW p \in Proc, ReleaseLock(p) PROVE IInv'
  <2>1. /\ op' \in [Proc -> Op] /\ op'[p].at = "idle" /\ OthersSame(p)
    BY <1>13, ResetMoves DEF ReleaseLock
  <2>2. RestTyped    BY <1>13 DEF ReleaseLock
  <2>3. Operations'  BY <1>13, <2>1 DEF ReleaseLock
  <2>4. Memory'      BY <1>13, <2>1 DEF ReleaseLock
  <2>5. Ledger'      BY <1>13, <2>1 DEF ReleaseLock
  <2> QED BY <1>q, <2>1, <2>2, <2>3, <2>4, <2>5
<1>7. ASSUME NEW p \in Proc, RefreshThread(p) PROVE IInv'
  <2>1. /\ op' \in [Proc -> Op] /\ SameOp(p) /\ OthersSame(p)
        /\ \/ /\ op'[p].at = "apply" /\ op'[p].answer = op[p].answer
              /\ mem'[p] = Durable
              /\ fp'[p] # Absent => fp'[p] = Durable
           \/ /\ op'[p].at = "release" /\ op'[p].answer = "error"
              /\ \/ mem'[p] = mem[p] /\ fp'[p] = fp[p]
                 \/ mem'[p] = Durable /\ fp'[p] = Durable
    BY <1>7, GotoMoves, AnswerMoves DEF RefreshThread
  <2>2. RestTyped    BY <1>7 DEF RefreshThread
  <2>3. Operations'  BY <1>7, <2>1 DEF RefreshThread
  <2>4. Memory'
    <3>1. \A q \in Proc \ {p} : mem'[q] = mem[q] /\ fp'[q] = fp[q]
      BY <1>7 DEF RefreshThread
    <3>2. UNCHANGED <<file, deleted>> /\ op[p].at = "refresh"
      BY <1>7 DEF RefreshThread
    <3>3. FingerprintTrusted'  BY <2>1, <3>1, <3>2
    <3>4. Fresh'               BY <2>1, <3>1, <3>2
    <3>5. PendingWrite'        BY <2>1, <3>1, <3>2
    <3> QED BY <3>3, <3>4, <3>5
  <2>5. Ledger'      BY <1>7, <2>1 DEF RefreshThread
  <2> QED BY <1>q, <2>1, <2>2, <2>3, <2>4, <2>5
<1>14. ASSUME NEW p \in Proc, NEW kind \in Kinds, NEW x \in Ckpt \cup Key \cup {Absent},
              Call(p, kind, x)
       PROVE  IInv'
  <2>1. /\ op' \in [Proc -> Op] /\ op'[p].at = "acquire" /\ op'[p].answer = "ok"
        /\ op'[p].kind = kind /\ op'[p].on = x /\ OthersSame(p)
    <3>1. kind \in AllKinds
      OBVIOUS
    <3> QED BY <1>14, <3>1, CallMoves
  <2>2. RestTyped    BY <1>14 DEF Call
  <2>3. Operations'  BY <1>14, <2>1 DEF Call, MayCall, Content
  <2>4. Memory'      BY <1>14, <2>1 DEF Call
  <2>5. Ledger'      BY <1>14, <2>1 DEF Call
  <2> QED BY <1>q, <2>1, <2>2, <2>3, <2>4, <2>5
<1>15. ASSUME NEW p \in Proc, NEW content \in Content, NEW a \in Answers,
              op[p].at = "apply", Change(p, content, a),
              Grown(mem[p], content, op[p].kind, op[p].on),
              op[p].kind = "claim" <=> a = "execute"
       PROVE  IInv'
  <2>1. /\ op' \in [Proc -> Op] /\ op'[p].at = "persist" /\ op'[p].answer = a
        /\ op'[p].kind = op[p].kind /\ op'[p].on = op[p].on /\ op'[p].snap = mem[p]
        /\ OthersSame(p)
        /\ mem' \in [Proc -> Content] /\ mem'[p] = content
        /\ \A q \in Proc \ {p} : mem'[q] = mem[q]
        /\ UNCHANGED <<file, lock, fp, corrupt, held, grants, deleted>>
    BY <1>15, ChangeMoves
  <2>2. RestTyped    BY <2>1
  <2>3. Operations'  BY <1>15, <2>1
  <2>4. Memory'      BY <1>15, <2>1
  <2>5. Ledger'      BY <1>15, <2>1
  <2> QED BY <1>q, <2>1, <2>2, <2>3, <2>4, <2>5
<1>16. ASSUME NEW p \in Proc, NEW a \in Answers \ {"execute"}, op[p].at = "apply", Answer(p, a),
              UNCHANGED <<file, lock, mem, fp, corrupt, held, grants, deleted>>
       PROVE  IInv'
  <2>1. /\ op' \in [Proc -> Op] /\ op'[p].at = "release" /\ op'[p].answer = a
        /\ SameOp(p) /\ OthersSame(p)
    BY <1>16, AnswerMoves
  <2>2. RestTyped    BY <1>16
  <2>3. Operations'  BY <1>16, <2>1
  <2>4. Memory'      BY <1>16, <2>1
  <2>5. Ledger'      BY <1>16, <2>1
  <2> QED BY <1>q, <2>1, <2>2, <2>3, <2>4, <2>5
<1>17. ASSUME NEW p \in Proc, Apply(p) PROVE IInv'
  <2> USE ContentChange DEF Applying
  <2>0. mem[p] \in Content
    OBVIOUS
  <2>1. CASE ApplyPut(p)
    <3> DEFINE content == [mem[p] EXCEPT !.ckpts = @ \cup {op[p].on}]
    <3>1. op[p].at = "apply" /\ op[p].kind = "put" /\ op[p].on \in Ckpt
      BY <2>1 DEF ApplyPut
    <3>2. Change(p, content, "ok")
      BY <2>1 DEF ApplyPut
    <3>3. content \in Content
      BY <2>0, <3>1, ContentChange
    <3>4. Grown(mem[p], content, op[p].kind, op[p].on)
      BY <2>0, <3>1, GrowsByPut
    <3> HIDE DEF content
    <3> QED BY <3>1, <3>2, <3>3, <3>4, <1>15
  <2>2. CASE ApplyPutWrites(p)
    <3> DEFINE content == [mem[p] EXCEPT !.writes = @ \cup {op[p].on}]
    <3>1. op[p].at = "apply" /\ op[p].kind = "putWrites" /\ op[p].on \in Ckpt
      BY <2>2 DEF ApplyPutWrites
    <3>2. Change(p, content, "ok")
      BY <2>2 DEF ApplyPutWrites
    <3>3. content \in Content
      BY <2>0, <3>1, ContentChange
    <3>4. Grown(mem[p], content, op[p].kind, op[p].on)
      BY <2>0, <3>1, GrowsByPutWrites
    <3> HIDE DEF content
    <3> QED BY <3>1, <3>2, <3>3, <3>4, <1>15
  <2>3. CASE ApplyClaim(p)
    <3> DEFINE k == op[p].on
    <3>1. op[p].at = "apply" /\ op[p].kind = "claim" /\ k \in Key /\ mem[p].mut[k] \in Statuses
      BY <2>0, <2>3 DEF ApplyClaim
    <3>2. CASE mem[p].mut[k] = "none"
      <4>1. Change(p, [mem[p] EXCEPT !.mut[k] = "started"], "execute")
        BY <2>3, <3>2 DEF ApplyClaim, ClaimAnswer
      <4> QED BY <2>0, <3>1, <3>2, <4>1, <1>15
    <3>3. CASE mem[p].mut[k] # "none"
      BY <2>3, <3>1, <3>3, <1>16 DEF ApplyClaim, ClaimAnswer, Statuses
    <3> QED BY <3>2, <3>3
  <2>4. CASE ApplyComplete(p)
    <3> DEFINE k == op[p].on
    <3>1. op[p].at = "apply" /\ op[p].kind = "complete" /\ k \in Key
      BY <2>4 DEF ApplyComplete
    <3>2. CASE mem[p].mut[k] = "started"
      <4>1. Change(p, [mem[p] EXCEPT !.mut[k] = "completed"], "ok")
        BY <2>4, <3>2 DEF ApplyComplete
      <4> QED BY <2>0, <3>1, <3>2, <4>1, <1>15
    <3>3. CASE mem[p].mut[k] # "started"
      BY <2>4, <3>1, <3>3, <1>16 DEF ApplyComplete
    <3> QED BY <3>2, <3>3
  <2> QED BY <1>17, <1>12, <2>1, <2>2, <2>3, <2>4 DEF Apply
<1>18. CASE UNCHANGED vars
  BY <1>18 DEF vars, IInv, TypeOK
<1> QED BY <1>1, <1>2, <1>3, <1>4, <1>5, <1>6, <1>7, <1>8, <1>9, <1>10, <1>11,
           <1>13, <1>14, <1>17, <1>18 DEF Next, Open, CallAny, Persist

(* A process that has opened nothing has nothing that could be stale.      *)
LEMMA InvInit == Init => IInv
<1> SUFFICES ASSUME Init PROVE IInv
  OBVIOUS
<1> USE ConstantsAssumption, EmptyContent DEF Init
<1>1. op \in [Proc -> Op] /\ \A p \in Proc : op[p].at = "down"
  BY DEF NoOp, Op, Points, AllKinds, Answers
<1>2. TypeOK
  BY <1>1 DEF TypeOK, Op
<1>3. Operations
  BY <1>1 DEF Operations, OpFits, LockHeld, CompletesGranted, Busy, Locked
<1>4. Memory
  BY <1>1 DEF Memory, FingerprintTrusted, Fresh, PendingWrite, Writing
<1>5. Ledger
  BY <1>1 DEF Ledger, ClaimWritten, Unclaimed, GrantedOnce, HeldGranted
<1> QED BY <1>2, <1>3, <1>4, <1>5 DEF IInv

(* The strengthened invariant holds throughout, for any number of          *)
(* processes, checkpoints and operations: operations hold the lock while   *)
(* they work on the file, what they write grows out of what the file       *)
(* holds, and no entry is granted twice.                                   *)
THEOREM SaverInvariant == Spec => []IInv
  BY InvInit, InvStep, PTL DEF Spec

(* The variables of the saver keep their types.                            *)
THEOREM TypeCorrect == Spec => []TypeOK
<1>1. IInv => TypeOK
  BY DEF IInv
<1> QED BY <1>1, SaverInvariant, PTL

(* Whenever refreshThread may trust the fingerprint, memory and fingerprint *)
(* agree, whatever writes failed before.                                   *)
THEOREM FingerprintMatches == Spec => []FingerprintMatchesMemory
<1>1. IInv => FingerprintMatchesMemory
  BY DEF IInv, Memory, FingerprintTrusted, Trusted, Writing, FingerprintMatchesMemory
<1> QED BY <1>1, SaverInvariant, PTL

(* The answer "execute" is given at most once for an operation by all      *)
(* processes together until the thread is deleted (claimMutation).         *)
THEOREM ExecutesAtMostOnce == Spec => [](~deleted => \A k \in Key : grants[k] <= 1)
<1>1. IInv => (~deleted => \A k \in Key : grants[k] <= 1)
  BY DEF IInv, Ledger, GrantedOnce
<1> QED BY <1>1, SaverInvariant, PTL

(* The file changes when it is taken away or when the holder of the lock   *)
(* replaces it by a version grown out of it.                               *)
LEMMA FileChanges ==
    ASSUME Next, file' # file, file' # Absent
    PROVE  \E p \in Proc : PersistRename(p)
  BY DEF Next, Open, OpenList, OpenLoad, OpenQuarantine, Crash, CallAny, Call, AcquireLock,
         LockTimeout, RefreshThread, Apply, ApplyPut, ApplyPutWrites, ApplyClaim,
         ApplyComplete, ApplyDelete, Change, Persist, PersistDone, PersistFails, Unlink,
         ReleaseLock

(* No process overwrites what another one made durable (mutateThread).     *)
THEOREM NoUpdateLost == Spec => NoLostUpdate
<1> DEFINE Kept == file # Absent /\ file' # Absent =>
                     /\ file.ckpts \subseteq file'.ckpts
                     /\ file.writes \subseteq file'.writes
                     /\ \A k \in Key : Rank(file.mut[k]) <= Rank(file'.mut[k])
<1>1. IInv /\ [Next]_vars => [Kept]_vars
  <2> SUFFICES ASSUME IInv, Next, file # Absent, file' # Absent PROVE Kept
    BY DEF vars
  <2>1. CASE file' = file
    BY <2>1 DEF IInv, TypeOK, Content, Statuses, Rank
  <2>2. CASE file' # file
    <3>1. PICK p \in Proc : PersistRename(p)
      BY <2>2, FileChanges
    <3>2. op[p].at = "persist" /\ file' = mem[p]
      BY <3>1 DEF PersistRename
    <3>3. /\ file = op[p].snap /\ Grown(op[p].snap, mem[p], op[p].kind, op[p].on)
          /\ op[p].kind \in {"claim", "complete"} => op[p].on \in Key
      BY <3>2 DEF IInv, Memory, Operations, OpFits, Fresh, PendingWrite, Writing, Durable,
                  Busy, Locked
    <3>4. op[p].snap \in Content /\ mem[p] \in Content /\ op[p].kind \in AllKinds
      BY DEF IInv, TypeOK
    <3> QED BY <3>2, <3>3, <3>4, GrownForward
  <2> QED BY <2>1, <2>2
<1> QED BY <1>1, SaverInvariant, PTL DEF Spec, NoLostUpdate

(* Only the release of the lock hands out answers.                         *)
LEMMA GrantChanges ==
    ASSUME Next, grants' # grants
    PROVE  \E p \in Proc : ReleaseLock(p) /\ op[p].answer = "execute"
  BY DEF Next, Open, OpenList, OpenLoad, OpenQuarantine, Crash, CallAny, Call, AcquireLock,
         LockTimeout, RefreshThread, Apply, ApplyPut, ApplyPutWrites, ApplyClaim,
         ApplyComplete, ApplyDelete, Change, Persist, PersistRename, PersistDone,
         PersistFails, Unlink, ReleaseLock

(* A file that disappears was deleted or quarantined.                      *)
LEMMA TakenIsDeleted ==
    ASSUME TypeOK, Next, file' = Absent, file # Absent
    PROVE  deleted'
<1>1. PICK p \in Proc : OpenQuarantine(p) \/ PersistRename(p) \/ Unlink(p)
  BY DEF Next, Open, OpenList, OpenLoad, Crash, CallAny, Call, AcquireLock, LockTimeout,
         RefreshThread, Apply, ApplyPut, ApplyPutWrites, ApplyClaim, ApplyComplete,
         ApplyDelete, Change, Persist, PersistDone, PersistFails, ReleaseLock
<1>2. ~PersistRename(p)
  BY ConstantsAssumption DEF TypeOK, PersistRename
<1> QED BY <1>1, <1>2 DEF OpenQuarantine, Unlink

(* A deletion is never taken back.                                         *)
LEMMA DeletedStays == TypeOK /\ Next /\ deleted => deleted'
  BY DEF Next, Open, OpenList, OpenLoad, OpenQuarantine, Crash, CallAny, Call, AcquireLock,
         LockTimeout, RefreshThread, Apply, ApplyPut, ApplyPutWrites, ApplyClaim,
         ApplyComplete, ApplyDelete, Change, Persist, PersistRename, PersistDone,
         PersistFails, Unlink, ReleaseLock, TypeOK

(* The saver implements the mutation journal: the rename of a claim is     *)
(* Start, the answer that reaches its caller Grant, the rename of a        *)
(* completion Complete; every other step before a deletion stutters.       *)
THEOREM SaverImplementsJournal == Spec => ImplementsJournal
<1>1. Init => Journal!Init
  BY DEF Init, Journal!Init, Entry
<1>2. IInv /\ IInv' /\ [Next]_vars => [(~deleted)' => Journal!Next]_(Journal!vars)
  <2> SUFFICES ASSUME IInv, Next, ~deleted',
                      [k \in Key |-> Entry(k)]' # [k \in Key |-> Entry(k)] \/ grants' # grants
               PROVE  Journal!Next
    BY DEF vars, Journal!vars, Entry
  <2>0. ~deleted /\ TypeOK
    BY DeletedStays DEF IInv
  <2>1. CASE grants' # grants
    <3>1. PICK p \in Proc : ReleaseLock(p) /\ op[p].answer = "execute"
      BY <2>1, GrantChanges
    <3> DEFINE k == op[p].on
    <3>2. op[p].at = "release" /\ file' = file /\ grants' = [grants EXCEPT ![k] = @ + 1]
      BY <3>1 DEF ReleaseLock
    <3>3. k \in Key /\ Entry(k) = "started" /\ grants[k] = 0
      BY <2>0, <3>1, <3>2 DEF IInv, Operations, OpFits, Ledger, ClaimWritten, Busy, Locked
    <3>4. Journal!Grant(k)
      BY <2>0, <3>2, <3>3 DEF Journal!Grant, Entry, TypeOK
    <3> QED BY <3>3, <3>4 DEF Journal!Next
  <2>2. CASE grants' = grants
    <3>1. file' # file /\ file' # Absent
      BY <2>0, <2>2, TakenIsDeleted DEF Entry
    <3>2. PICK p \in Proc : PersistRename(p)
      BY <3>1, FileChanges
    <3> DEFINE k == op[p].on
    <3>3. op[p].at = "persist" /\ file' = mem[p] /\ op[p].snap = Durable
      BY <2>0, <3>2 DEF PersistRename, IInv, Memory, Fresh
    <3>4. /\ op[p].snap \in Content /\ mem[p] \in Content
          /\ Grown(op[p].snap, mem[p], op[p].kind, k)
          /\ op[p].kind \in {"claim", "complete"} => k \in Key
      BY <2>0, <3>3 DEF TypeOK, IInv, Memory, PendingWrite, Writing, Operations, OpFits,
                        Busy, Locked
    <3>5. /\ [j \in Key |-> Entry(j)] = op[p].snap.mut
          /\ [j \in Key |-> Entry(j)]' = mem[p].mut
      <4>1. \A j \in Key : Entry(j) = op[p].snap.mut[j] /\ Entry(j)' = mem[p].mut[j]
        BY <3>1, <3>3 DEF Durable, Empty, Entry
      <4>2. op[p].snap.mut \in [Key -> Statuses] /\ mem[p].mut \in [Key -> Statuses]
        BY <3>4 DEF Content
      <4> QED BY <4>1, <4>2
    <3>6. CASE op[p].kind = "claim"
      <4>1. Journal!Start(k)
        BY <2>2, <3>4, <3>5, <3>6 DEF Grown, Journal!Start
      <4> QED BY <3>4, <3>6, <4>1 DEF Journal!Next
    <3>7. CASE op[p].kind = "complete"
      <4>1. grants[k] = 1
        BY <2>0, <3>3, <3>4, <3>7 DEF IInv, Operations, CompletesGranted, Ledger, GrantedOnce,
                                      TypeOK, Busy, Locked
      <4>2. Journal!Complete(k)
        BY <2>2, <3>4, <3>5, <3>7, <4>1 DEF Grown, Journal!Complete
      <4> QED BY <3>4, <3>7, <4>2 DEF Journal!Next
    <3>8. CASE op[p].kind \notin {"claim", "complete"}
      BY <2>2, <3>4, <3>5, <3>8 DEF Grown
    <3> QED BY <3>6, <3>7, <3>8
  <2> QED BY <2>1, <2>2
<1> QED BY <1>1, <1>2, SaverInvariant, PTL DEF Spec, ImplementsJournal, Journal!Spec
=============================================================================
