SPECIFICATION Spec
CONSTANTS
    e1 = e1
    e2 = e2
    e3 = e3
    forwarder = forwarder
    p1 = p1
    p2 = p2
    NoOne = NoOne
    Events = {e1, e2, e3}
    Unfit = {e3}
    Promoters = {forwarder, p1, p2}
    SessionBound = {p1, p2}
    BatchSize = 2
    MaxInterrupts = 1
SYMMETRY FitSymmetry
INVARIANTS
    TypeOK
    VerifyClean
    EvidenceAccounted
