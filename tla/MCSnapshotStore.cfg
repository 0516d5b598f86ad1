SPECIFICATION Spec
CONSTANTS
    readme = readme  package = package  small = small  big = big  c1 = c1  c2 = c2
    Absent = Absent  Unlisted = Unlisted
    Path = {readme, package}
    Content = {small, big}
    Units <- ByUnits
    Locale <- ByUnits
    Lockfiles = {package}
    Large = {big}
    Capture = {c1, c2}
    Candidate = {1}
    FirstCommit <- OneCommitted
    FirstTree <- DirtyTree
    Written <- Changes
    MaxEdits = 2
SYMMETRY Captures
CHECK_DEADLOCK FALSE
INVARIANTS
    CaptureIsATree
    MaterializedHasId
PROPERTIES
    Materializes
