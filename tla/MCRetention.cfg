SPECIFICATION Spec
CONSTANTS
    s1 = s1  s2 = s2  t1 = t1  f1 = f1  a1 = a1  x1 = x1  x2 = x2
    None = None
    Services = {s1, s2}
    Threads = {t1}
    Forks = {f1}
    Artifacts = {a1}
    Snapshots = {x1, x2}
    MaxDispatches = 3
SYMMETRY MCSymmetry
INVARIANTS
    EvidenceReadable
    CacheReadable
