SPECIFICATION FairSpec
CONSTANTS
    i1 = i1  i2 = i2  i3 = i3  i4 = i4  c1 = c1  c2 = c2
    Aggregate = aggregate
    NoWork = NoWork
    Item = {i1, i2, i3, i4}
    Named <- MoreInReviews
    MaxItems = 3
    MaxProposals = 1
    Planned <- OneChange
    Deps <- NoDependency
    HighRisk = {c1}
    Checked = {c1}
    Inputs <- AnyInput
    MaxLate = 1
    Reuse = FALSE
    Crashes = TRUE
CHECK_DEADLOCK FALSE
INVARIANTS
    ReplanningIsBounded

    
