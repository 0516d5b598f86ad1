--------------------------- MODULE FileLockProofs ---------------------------
(* Mutual exclusion of the file lock for any number of sessions, processes *)
(* and hosts, with crashes and failing calls at every program point.       *)
EXTENDS FileLock, TLAPS

(* A running session runs in a live process; a session that has reached    *)
(* the lock file, and an owner record on disk, had a process.              *)
RunningIsAlive ==
    \A s \in Session : pc[s] \in Waiting \cup Holding => Alive(s)

WrittenWasBorn == \A i \in written : life[ProcOf[i]] # "unborn"

(* Who created the lock file and has not given it up finds it at the path. *)
HolderOwnsPath == \A s \in Session : pc[s] \in Holding => path = s

(* What a session may remove: an owner it read from disk, later found dead *)
Inspecting == {"probe", "link", "verify", "rename", "unclaim", "rethrow"}
Removing == {"link", "verify", "rename", "unclaim", "rethrow"}
Claiming == {"verify", "rename", "unclaim", "rethrow"}

SeenIsWritten == \A s \in Session : pc[s] \in Inspecting => seen[s] \in written
RemovesDead ==
    \A s \in Session : pc[s] \in Removing => life[ProcOf[seen[s]]] = "dead"

(* The recovery claim of a nonce has one holder.                           *)
ClaimExists ==
    \A s \in Session : pc[s] \in Claiming => claim[seen[s]] # NoSession
ClaimUnique ==
    \A s, t \in Session :
        pc[s] \in Claiming /\ pc[t] \in Claiming /\ seen[s] = seen[t] => s = t

(* A claim that links the dead owner's inode pins that inode at the path   *)
(* until its holder renames it.                                            *)
ClaimPinsPath ==
    \A s \in Session :
        /\ pc[s] = "verify" /\ claim[seen[s]] = seen[s] => path = seen[s]
        /\ pc[s] = "rename" => path = seen[s]

IInv ==
    /\ TypeOK
    /\ RunningIsAlive /\ WrittenWasBorn /\ HolderOwnsPath
    /\ SeenIsWritten /\ RemovesDead
    /\ ClaimExists /\ ClaimUnique /\ ClaimPinsPath

(* Every action keeps the variables in their types.                        *)
LEMMA TypeStep == TypeOK /\ [Next]_vars => TypeOK'
<1> SUFFICES ASSUME TypeOK, [Next]_vars PROVE TypeOK'
  OBVIOUS
<1> USE ConstantsAssumption
<1> USE DEF TypeOK, Goto, Points, Waiting, Holding, Finished, MaybeSession
<1>1. ASSUME NEW p \in Proc, Spawn(p) PROVE TypeOK'
  BY <1>1 DEF Spawn
<1>2. ASSUME NEW p \in Proc, Crash(p) PROVE TypeOK'
  BY <1>2 DEF Crash
<1>3. ASSUME NEW s \in Session, Begin(s) PROVE TypeOK'
  BY <1>3 DEF Begin
<1>4. ASSUME NEW s \in Session, Acquire(s) PROVE TypeOK'
  <2>1. CASE OpenExclusive(s)  BY <2>1 DEF OpenExclusive
  <2>2. CASE WriteOwner(s)     BY <2>2 DEF WriteOwner
  <2>3. CASE SyncOwner(s)      BY <2>3 DEF SyncOwner
  <2>4. CASE WriteFails(s)     BY <2>4 DEF WriteFails
  <2>5. CASE CleanupUnlink(s)  BY <2>5 DEF CleanupUnlink
  <2>6. CASE ReadOwner(s)      BY <2>6 DEF ReadOwner
  <2>7. CASE ProbeOwner(s)     BY <2>7 DEF ProbeOwner
  <2>8. CASE LinkClaim(s)      BY <2>8 DEF LinkClaim
  <2>9. CASE VerifyClaim(s)    BY <2>9 DEF VerifyClaim
  <2>10. CASE RenameStale(s)   BY <2>10 DEF RenameStale
  <2>11. CASE UnlinkClaim(s)   BY <2>11 DEF UnlinkClaim
  <2>12. CASE Retry(s)         BY <2>12 DEF Retry
  <2>13. CASE Timeout(s)       BY <2>13 DEF Timeout
  <2> QED BY <1>4, <2>1, <2>2, <2>3, <2>4, <2>5, <2>6, <2>7, <2>8, <2>9,
             <2>10, <2>11, <2>12, <2>13 DEF Acquire
<1>5. ASSUME NEW s \in Session, Release(s) PROVE TypeOK'
  BY <1>5 DEF Release, FinishOperation, ReleaseRead, ReleaseUnlink
<1>6. ASSUME NEW s \in Session, CallFails(s) PROVE TypeOK'
  BY <1>6 DEF CallFails
<1>7. CASE UNCHANGED vars
  BY <1>7 DEF vars
<1> QED BY <1>1, <1>2, <1>3, <1>4, <1>5, <1>6, <1>7 DEF Next, Step

(* The types of the variables hold throughout (the state of file-lock.ts). *)
THEOREM TypeCorrect == Spec => []TypeOK
<1>1. Init => TypeOK
  BY ConstantsAssumption
     DEF Init, TypeOK, Points, Waiting, Holding, Finished, MaybeSession
<1> QED BY <1>1, TypeStep, PTL DEF Spec

(* Each conjunct of the invariant is preserved; one step per action.       *)
LEMMA InvStep == IInv /\ [Next]_vars => IInv'
<1> SUFFICES ASSUME IInv, [Next]_vars PROVE IInv'
  OBVIOUS
<1>t. TypeOK'
  BY TypeStep DEF IInv
<1> USE ConstantsAssumption, <1>t
<1> USE DEF IInv, TypeOK, Goto, Points, Waiting, Holding, Finished, MaybeSession,
        RunningIsAlive, WrittenWasBorn, HolderOwnsPath, SeenIsWritten, RemovesDead,
        ClaimExists, ClaimUnique, ClaimPinsPath, Inspecting, Removing, Claiming, Alive
<1>1. ASSUME NEW p \in Proc, Spawn(p) PROVE IInv'
  BY <1>1 DEF Spawn
<1>2. ASSUME NEW p \in Proc, Crash(p) PROVE IInv'
  BY <1>2 DEF Crash
<1>3. ASSUME NEW s \in Session, Begin(s) PROVE IInv'
  BY <1>3 DEF Begin
<1>4. ASSUME NEW s \in Session, Acquire(s) PROVE IInv'
  <2>1. CASE OpenExclusive(s)
    BY <2>1 DEF OpenExclusive
  <2>2. CASE WriteOwner(s)
    BY <2>2 DEF WriteOwner
  <2>3. CASE SyncOwner(s)
    BY <2>3 DEF SyncOwner
  <2>4. CASE WriteFails(s)
    BY <2>4 DEF WriteFails
  <2>5. CASE CleanupUnlink(s)
    BY <2>5 DEF CleanupUnlink
  <2>6. CASE ReadOwner(s)
    BY <2>6 DEF ReadOwner
  <2>7. CASE ProbeOwner(s)
    BY <2>7 DEF ProbeOwner, DeadOrReused, PidInUse, SameHost
  <2>8. CASE LinkClaim(s)
    BY <2>8 DEF LinkClaim
  <2>9. CASE VerifyClaim(s)
    BY <2>9 DEF VerifyClaim, ClaimCarriesNonce
  <2>10. CASE RenameStale(s)
    BY <2>10 DEF RenameStale
  <2>11. CASE UnlinkClaim(s)
    BY <2>11 DEF UnlinkClaim
  <2>12. CASE Retry(s)
    BY <2>12 DEF Retry
  <2>13. CASE Timeout(s)
    BY <2>13 DEF Timeout
  <2> QED BY <1>4, <2>1, <2>2, <2>3, <2>4, <2>5, <2>6, <2>7, <2>8, <2>9, <2>10, <2>11, <2>12,
             <2>13 DEF Acquire
<1>5. ASSUME NEW s \in Session, Release(s) PROVE IInv'
  BY <1>5 DEF Release, FinishOperation, ReleaseRead, ReleaseUnlink
<1>6. ASSUME NEW s \in Session, CallFails(s) PROVE IInv'
  BY <1>6 DEF CallFails
<1>7. CASE UNCHANGED vars
  BY <1>7 DEF vars
<1> QED BY <1>1, <1>2, <1>3, <1>4, <1>5, <1>6, <1>7 DEF Next, Step

(* The invariant holds before any process has started.                     *)
LEMMA InvInit == Init => IInv
  BY ConstantsAssumption
     DEF Init, IInv, TypeOK, Points, Waiting, Holding, Finished, MaybeSession,
         RunningIsAlive, WrittenWasBorn, HolderOwnsPath, SeenIsWritten, RemovesDead,
         ClaimExists, ClaimUnique, ClaimPinsPath, Inspecting, Removing, Claiming, Alive

(* The strengthened invariant of the lock protocol holds throughout.       *)
THEOREM LockInvariant == Spec => []IInv
  BY InvInit, InvStep, PTL DEF Spec

(* No two sessions are inside withCheckpointFileLock's operation at once,  *)
(* for every number of sessions, processes and hosts and every crash.      *)
THEOREM MutualExclusionHolds == Spec => []MutualExclusion
<1>1. IInv => MutualExclusion
  BY DEF IInv, HolderOwnsPath, Holding, MutualExclusion
<1> QED BY <1>1, LockInvariant, PTL

(* Only its own release or cleanup takes the lock file from a live owner:  *)
(* recovery never removes a lock that is held, however late it renames.    *)
THEOREM LiveLockIsSafe == Spec => LiveLockOnlyReleasedByOwner
<1>1. IInv /\ [Next]_vars =>
        [\A s \in Session :
            path = s /\ Alive(s) /\ path' # s => pc[s] \in {"cleanup", "unlink"}]_vars
  <2> SUFFICES ASSUME IInv, Next, NEW t \in Session,
                      path = t, Alive(t), path' # t
               PROVE  pc[t] \in {"cleanup", "unlink"}
    OBVIOUS
  <2>1. PICK s \in Session : OpenExclusive(s) \/ CleanupUnlink(s) \/ RenameStale(s)
                             \/ ReleaseUnlink(s)
    BY DEF Next, Step, Acquire, Release, Spawn, Crash, Begin, WriteOwner, SyncOwner,
           WriteFails, ReadOwner, ProbeOwner, LinkClaim, VerifyClaim, UnlinkClaim,
           Retry, Timeout, FinishOperation, ReleaseRead, CallFails
  <2>2. CASE OpenExclusive(s)
    BY <2>2, ConstantsAssumption DEF OpenExclusive
  <2>3. CASE CleanupUnlink(s)
    BY <2>3 DEF CleanupUnlink, IInv, HolderOwnsPath, Holding
  <2>4. CASE RenameStale(s)
    BY <2>4 DEF RenameStale, IInv, ClaimPinsPath, RemovesDead, Removing, Alive
  <2>5. CASE ReleaseUnlink(s)
    BY <2>5 DEF ReleaseUnlink, IInv, HolderOwnsPath, Holding
  <2> QED BY <2>1, <2>2, <2>3, <2>4, <2>5
<1> QED BY <1>1, LockInvariant, PTL DEF Spec, LiveLockOnlyReleasedByOwner
=============================================================================
