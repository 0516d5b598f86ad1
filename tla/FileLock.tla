------------------------------ MODULE FileLock ------------------------------
(***************************************************************************)
(* The cross-process file lock of src/persistence/file-lock.ts, which      *)
(* guards every checkpoint thread, the per-repository publication and the  *)
(* candidate records.  The lock of one key is the existence of one file;   *)
(* its content names the owner.  One action is one file-system call, so    *)
(* every interleaving of processes and every crash between two calls is a  *)
(* behaviour.                                                              *)
(*                                                                         *)
(* A session is one call of withCheckpointFileLock.  Its owner record has  *)
(* a fresh random nonce and it creates at most one lock file, so the       *)
(* session stands for its nonce and for the inode of its lock file too.    *)
(***************************************************************************)
EXTENDS Naturals

CONSTANTS
    Session,            \* calls of withCheckpointFileLock for one key
    Proc,               \* operating system processes (incarnations)
    Pid,                \* process numbers, reused after a process died
    Host,
    NoSession,          \* "no file" where a session (an inode) is expected
    ProcOf,             \* the process a session runs in
    PidOf,              \* the number the process gets
    HostOf,
    Patient,            \* sessions started by withFileLock: a timeout retries
    HasStartIdentity,   \* Linux: /proc/<pid>/stat gives the start time
    CrashPoints         \* program points at which a process may die

(* Program points of a session, in the order of the code.                  *)
Waiting   == {"try", "read", "probe", "link", "verify", "rename", "unclaim",
              "rethrow", "wait"}
Holding   == {"write", "sync", "cleanup", "critical", "release", "unlink"}
Finished  == {"done", "failed", "timedout", "dead"}
Points    == {"idle"} \cup Waiting \cup Holding \cup Finished

ASSUME ConstantsAssumption ==
    /\ NoSession \notin Session
    /\ ProcOf \in [Session -> Proc]
    /\ PidOf \in [Proc -> Pid]
    /\ HostOf \in [Proc -> Host]
    /\ Patient \subseteq Session
    /\ HasStartIdentity \in BOOLEAN
    /\ CrashPoints \subseteq Points

VARIABLES
    life,       \* life[p]: "unborn", "alive" or "dead"
    pc,         \* pc[s]: where session s is
    path,       \* the inode at the lock path, NoSession when there is none
    written,    \* inodes whose owner record is completely written
    seen,       \* seen[s]: the dead owner s means to remove
    claim       \* claim[i]: the inode linked as recovery claim for nonce i

vars == <<life, pc, path, written, seen, claim>>

MaybeSession == Session \cup {NoSession}

Goto(s, to) == pc' = [pc EXCEPT ![s] = to]
Alive(s) == life[ProcOf[s]] = "alive"
SameHost(p, q) == HostOf[p] = HostOf[q]

(* isProcessAlive: some process of the host has that number now.           *)
PidInUse(p) == \E q \in Proc : /\ life[q] = "alive"
                               /\ SameHost(p, q)
                               /\ PidOf[q] = PidOf[p]

(* Mutant: the process number alone decides.                               *)
PidUnused(i) == ~PidInUse(ProcOf[i])

(* isDeadOrReusedProcess: where start identities exist a reused number is  *)
(* told apart from the owner; elsewhere it counts as the owner alive.      *)
DeadOrReused(i) == IF HasStartIdentity THEN life[ProcOf[i]] # "alive"
                                       ELSE ~PidInUse(ProcOf[i])

-----------------------------------------------------------------------------
Init ==
    /\ life = [p \in Proc |-> "unborn"]
    /\ pc = [s \in Session |-> "idle"]
    /\ path = NoSession
    /\ written = {}
    /\ seen = [s \in Session |-> NoSession]
    /\ claim = [s \in Session |-> NoSession]

(* A process starts under a number no live process of its host has.        *)
Spawn(p) ==
    /\ life[p] = "unborn"
    /\ ~PidInUse(p)
    /\ life' = [life EXCEPT ![p] = "alive"]
    /\ UNCHANGED <<pc, path, written, seen, claim>>

(* A process dies: its sessions stop where they are, its files stay.       *)
Crash(p) ==
    /\ life[p] = "alive"
    /\ \A s \in Session : ProcOf[s] = p =>
          pc[s] \in CrashPoints \cup {"idle"} \cup Finished
    /\ \E s \in Session : ProcOf[s] = p /\ pc[s] \in CrashPoints
    /\ life' = [life EXCEPT ![p] = "dead"]
    /\ pc' = [s \in Session |->
                 IF ProcOf[s] = p /\ pc[s] \notin Finished THEN "dead" ELSE pc[s]]
    /\ UNCHANGED <<path, written, seen, claim>>

(* withCheckpointFileLock builds the owner record and enters acquire.      *)
Begin(s) ==
    /\ Alive(s) /\ pc[s] = "idle"
    /\ Goto(s, "try")
    /\ UNCHANGED <<life, path, written, seen, claim>>

-----------------------------------------------------------------------------
(* tryCreate: open(path, "wx") creates the file or fails with EEXIST.      *)
OpenExclusive(s) ==
    /\ pc[s] = "try"
    /\ \/ /\ path = NoSession
          /\ path' = s
          /\ Goto(s, "write")
       \/ /\ path # NoSession
          /\ Goto(s, "read")
          /\ UNCHANGED path
    /\ UNCHANGED <<life, written, seen, claim>>

(* handle.writeFile: until it is complete the file parses to no owner.     *)
WriteOwner(s) ==
    /\ pc[s] = "write"
    /\ written' = written \cup {s}
    /\ Goto(s, "sync")
    /\ UNCHANGED <<life, path, seen, claim>>

SyncOwner(s) ==
    /\ pc[s] = "sync"
    /\ Goto(s, "critical")
    /\ UNCHANGED <<life, path, written, seen, claim>>

(* writeFile or sync throws ...                                            *)
WriteFails(s) ==
    /\ pc[s] \in {"write", "sync"}
    /\ Goto(s, "cleanup")
    /\ UNCHANGED <<life, path, written, seen, claim>>

(* ... and the catch block unlinks the lock path before rethrowing.        *)
CleanupUnlink(s) ==
    /\ pc[s] = "cleanup"
    /\ path' = NoSession
    /\ Goto(s, "failed")
    /\ UNCHANGED <<life, written, seen, claim>>

-----------------------------------------------------------------------------
(* removeDeadSameHostOwner: read and parse the owner of the lock file.     *)
ReadOwner(s) ==
    /\ pc[s] = "read"
    /\ \/ /\ path = NoSession
          /\ Goto(s, "try")
          /\ UNCHANGED seen
       \/ /\ path # NoSession
          /\ path \notin written \/ ~SameHost(ProcOf[path], ProcOf[s])
          /\ Goto(s, "wait")
          /\ UNCHANGED seen
       \/ /\ path \in written
          /\ SameHost(ProcOf[path], ProcOf[s])
          /\ seen' = [seen EXCEPT ![s] = path]
          /\ Goto(s, "probe")
    /\ UNCHANGED <<life, path, written, claim>>

(* isDeadOrReusedProcess(owner)                                            *)
ProbeOwner(s) ==
    /\ pc[s] = "probe"
    /\ Goto(s, IF DeadOrReused(seen[s]) THEN "link" ELSE "wait")
    /\ UNCHANGED <<life, path, written, seen, claim>>

(* link(path, recoveryClaim): ENOENT and EEXIST both return true, which    *)
(* restarts the acquire loop without looking at the deadline.              *)
LinkClaim(s) ==
    /\ pc[s] = "link"
    /\ IF path = NoSession \/ claim[seen[s]] # NoSession
         THEN Goto(s, "try") /\ UNCHANGED claim
         ELSE Goto(s, "verify") /\ claim' = [claim EXCEPT ![seen[s]] = path]
    /\ UNCHANGED <<life, path, written, seen>>

(* Mutant: the claim is trusted without reading it.                        *)
ClaimTrusted(s) == TRUE

(* The claimed inode must still carry the nonce found dead.                *)
ClaimCarriesNonce(s) == claim[seen[s]] = seen[s] /\ seen[s] \in written

VerifyClaim(s) ==
    /\ pc[s] = "verify"
    /\ Goto(s, IF ClaimCarriesNonce(s) THEN "rename" ELSE "unclaim")
    /\ UNCHANGED <<life, path, written, seen, claim>>

(* Mutant: the claim is dropped and the stale file stays.                  *)
KeepStale(s) ==
    /\ pc[s] = "rename"
    /\ Goto(s, "unclaim")
    /\ UNCHANGED <<life, path, written, seen, claim>>

(* rename(path, quarantine) moves whatever file is at the path now; the    *)
(* quarantine file has a random name nobody else reads, and unlinking it   *)
(* succeeds or throws.                                                     *)
RenameStale(s) ==
    /\ pc[s] = "rename"
    /\ path' = NoSession
    /\ Goto(s, "unclaim") \/ Goto(s, "rethrow")
    /\ UNCHANGED <<life, written, seen, claim>>

(* The finally block unlinks the recovery claim, after an error too.       *)
UnlinkClaim(s) ==
    /\ pc[s] \in {"unclaim", "rethrow"}
    /\ claim' = [claim EXCEPT ![seen[s]] = NoSession]
    /\ Goto(s, IF pc[s] = "unclaim" THEN "try" ELSE "failed")
    /\ UNCHANGED <<life, path, written, seen>>

(* The deadline has not passed: sleep and try again.                       *)
Retry(s) ==
    /\ pc[s] = "wait"
    /\ Goto(s, "try")
    /\ UNCHANGED <<life, path, written, seen, claim>>

(* The deadline has passed: withFileLock catches the timeout and calls     *)
(* withCheckpointFileLock again; every other caller gets the error.  The   *)
(* nonce of the timed-out call was never written, so a retry may keep it.  *)
Timeout(s) ==
    /\ pc[s] = "wait"
    /\ Goto(s, IF s \in Patient THEN "try" ELSE "timedout")
    /\ UNCHANGED <<life, path, written, seen, claim>>

-----------------------------------------------------------------------------
(* The operation under the lock returns or throws.                         *)
FinishOperation(s) ==
    /\ pc[s] = "critical"
    /\ Goto(s, "release")
    /\ UNCHANGED <<life, path, written, seen, claim>>

(* release: read the owner; someone else's file is left alone.             *)
ReleaseRead(s) ==
    /\ pc[s] = "release"
    /\ Goto(s, IF path = s /\ s \in written THEN "unlink" ELSE "done")
    /\ UNCHANGED <<life, path, written, seen, claim>>

ReleaseUnlink(s) ==
    /\ pc[s] = "unlink"
    /\ path' = NoSession
    /\ Goto(s, "done")
    /\ UNCHANGED <<life, written, seen, claim>>

(* A call fails with an error that nothing expects (neither ENOENT nor     *)
(* EEXIST) and the caller gets it.  Under a claim the finally block comes  *)
(* first.  What the call was to remove stays: the lock file when cleanup,  *)
(* close, release or its unlink fails, the claim when its unlink fails.    *)
CallFails(s) ==
    /\ pc[s] \in {"try", "read", "probe", "link", "verify", "rename", "unclaim", "rethrow",
                  "sync", "cleanup", "release", "unlink"}
    /\ Goto(s, IF pc[s] \in {"verify", "rename"} THEN "rethrow" ELSE "failed")
    /\ UNCHANGED <<life, path, written, seen, claim>>

-----------------------------------------------------------------------------
Acquire(s) ==
    \/ OpenExclusive(s) \/ WriteOwner(s) \/ SyncOwner(s)
    \/ WriteFails(s) \/ CleanupUnlink(s)
    \/ ReadOwner(s) \/ ProbeOwner(s)
    \/ LinkClaim(s) \/ VerifyClaim(s) \/ RenameStale(s) \/ UnlinkClaim(s)
    \/ Retry(s) \/ Timeout(s)

Release(s) == FinishOperation(s) \/ ReleaseRead(s) \/ ReleaseUnlink(s)

Step(s) == Begin(s) \/ Acquire(s) \/ Release(s) \/ CallFails(s)

Next ==
    \/ \E p \in Proc : Spawn(p) \/ Crash(p)
    \/ \E s \in Session : Step(s)

Spec == Init /\ [][Next]_vars

(* A live process keeps running its event loop, so every call it has       *)
(* issued completes; the clock passes the deadline of a session that keeps *)
(* coming back to the wait.  Nobody has to start, to crash or to fail.     *)
Progress(s) ==
    \/ OpenExclusive(s) \/ WriteOwner(s) \/ SyncOwner(s) \/ CleanupUnlink(s)
    \/ ReadOwner(s) \/ ProbeOwner(s)
    \/ LinkClaim(s) \/ VerifyClaim(s) \/ RenameStale(s) \/ UnlinkClaim(s)
    \/ Retry(s) \/ Release(s)

Fairness == \A s \in Session : WF_vars(Progress(s)) /\ SF_vars(Timeout(s))

FairSpec == Spec /\ Fairness

-----------------------------------------------------------------------------
(* The variables have their types.                                         *)
TypeOK ==
    /\ life \in [Proc -> {"unborn", "alive", "dead"}]
    /\ pc \in [Session -> Points]
    /\ path \in MaybeSession
    /\ written \subseteq Session
    /\ seen \in [Session -> MaybeSession]
    /\ claim \in [Session -> MaybeSession]

(* At most one session is inside the operation the lock protects, whatever *)
(* the processes that wait, crash, recover a dead owner or release do      *)
(* between two file-system calls (withCheckpointFileLock).                 *)
MutualExclusion ==
    \A s, t \in Session : pc[s] = "critical" /\ pc[t] = "critical" => s = t

(* The lock file of a live owner disappears only by that owner's own       *)
(* release or cleanup: no recovery, however stale the owner record it read *)
(* and however late its rename, removes a lock somebody holds.             *)
LiveLockOnlyReleasedByOwner ==
    [][\A s \in Session :
          path = s /\ Alive(s) /\ path' # s => pc[s] \in {"cleanup", "unlink"}]_vars

(* What a death or an error at the wrong moment leaves for ever: a lock    *)
(* file without an owner record, and a recovery claim without a holder.    *)
EmptyOrphan == path # NoSession /\ path \notin written /\ ~Alive(path)
ClaimOrphan == \E i \in Session :
    /\ claim[i] # NoSession
    /\ \A s \in Session : seen[s] = i =>
          pc[s] \notin {"verify", "rename", "unclaim", "rethrow"}

NobodyWaits(i) == \A s \in Session :
    pc[s] \in Waiting => ~SameHost(ProcOf[s], ProcOf[i])

(* A dead owner's lock file is removed as long as a session of its host    *)
(* keeps waiting (stale-owner recovery of removeDeadSameHostOwner).        *)
StaleOwnerRecovered ==
    \A i \in Session :
        (path = i /\ life[ProcOf[i]] = "dead") ~> (path # i \/ NobodyWaits(i))

(* A call of withCheckpointFileLock that is not retried by withFileLock    *)
(* gets the lock, the error of a call, or the timeout error: it never      *)
(* waits for ever (LOCK_WAIT_MS and the deadline of acquire).              *)
AcquireReturns ==
    \A s \in Session \ Patient :
        pc[s] = "try" ~> pc[s] \in {"critical"} \cup Finished

(* Stale-owner recovery works after every death that leaves no orphan ...  *)
RecoveredUnlessOrphaned == []~(EmptyOrphan \/ ClaimOrphan) => StaleOwnerRecovered

(* ... and a bounded wait ends after every death that leaves no orphaned   *)
(* claim, an empty lock file included.                                     *)
ReturnsUnlessClaimOrphaned == []~ClaimOrphan => AcquireReturns
=============================================================================
