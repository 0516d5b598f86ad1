SPECIFICATION Spec
CONSTANTS
    src = src  p1 = p1  p2 = p2  n1 = n1  pi = pi  d1 = d1  d2 = d2
    Src = src
    None = None
    PiForks = {p1, p2}
    NamedForks = {n1}
    Pi = pi
    Dispatchers = {d1, d2}
    MaxSessions = 2
    Budgets <- MCBudgets
SYMMETRY MCSymmetry
CHECK_DEADLOCK FALSE
PROPERTY ResumesLatest
