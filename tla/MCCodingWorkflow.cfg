SPECIFICATION Spec
CONSTANTS
    i1 = i1  i2 = i2  i3 = i3  i4 = i4  c1 = c1  c2 = c2
    Aggregate = aggregate
    NoWork = NoWork
    Item = {i1}
    Named <- OneItem
    MaxItems = 1
    MaxProposals = 0
    Planned <- SwappedChanges
    Deps <- SecondAfterFirst
    HighRisk = {c2}
    Checked = {c1}
    Inputs <- ReviewOrRepair
    MaxLate = 1
    Reuse = TRUE
    Crashes = TRUE
CHECK_DEADLOCK FALSE
PROPERTIES
    ImplementsJournal
INVARIANTS
    AtMostOncePerOperation
    ApprovedBeforeMutation
    DependenciesFirst
    VerifiedUnlessLate
