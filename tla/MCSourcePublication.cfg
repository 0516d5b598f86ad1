SPECIFICATION FairSpec
CONSTANTS
    w1 = w1  w2 = w2  e1 = e1
    Old = Old
    Missing = Missing
    NoWorker = NoWorker
    Worker = {w1, w2}
    Path = {1, 2}
    Edit = {e1}
    Removable = {2}
    Failures = {"read", "publish", "rollback"}
    Crashes = TRUE
CHECK_DEADLOCK FALSE
INVARIANTS
    OverwritesOnlyUnseen
    RollbackTakesOnlyOwn
PROPERTIES
    PublicationEnds
    FailedPublishesNothing
    ImplementsAtomicPublication
