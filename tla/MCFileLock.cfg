SPECIFICATION FairSpec
CONSTANTS
    s1 = s1  s2 = s2  s3 = s3
    p1 = p1  p2 = p2  p3 = p3
    h1 = h1
    n1 = n1  n2 = n2
    NoSession = NoSession
    Proc <- Procs
    Pid = {n1, n2}
    Host = {h1}
    PidOf <- ReusedPid
    Session <- Sessions
    ProcOf <- MCProcOf
    HostOf <- OneHost
    Patient = {s1, s2}
    HasStartIdentity = TRUE
    CrashPoints <- AllPoints
INVARIANT MutualExclusion
PROPERTY LiveLockOnlyReleasedByOwner RecoveredUnlessOrphaned ReturnsUnlessClaimOrphaned
CHECK_DEADLOCK FALSE
