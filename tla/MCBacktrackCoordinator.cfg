SPECIFICATION Spec
CONSTANTS
  Procs = {p1, p2}
  Paths <- MCPaths
  Deltas <- MCDeltas
  Grades <- MCGrades
  Edits <- MCEdits
  MaxEdits = 1
  MaxCrashes = 1
INVARIANTS
  CandidateRunsOnce
  PromotesOnce
  OutcomeMatchesRecord
  FailureLeavesNoCandidate
PROPERTIES
  RemovesOnlyLosers
SYMMETRY MCProcs
