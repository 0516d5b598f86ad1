SPECIFICATION Spec
CONSTANTS
    Absent = Absent
    NoProc = NoProc
    p1 = p1  p2 = p2  c1 = c1  k1 = k1
    Proc = {p1, p2}
    Ckpt = {c1}
    Key = {k1}
    Kinds <- AllKinds
    MaxGrants = 2
    Unreliable = {p1, p2}
INVARIANT FingerprintMatchesMemory
PROPERTY NoLostUpdate ImplementsJournal
