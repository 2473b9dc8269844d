SPECIFICATION FairSpec
CONSTANTS
    e1 = e1
    e2 = e2
    e3 = e3
    forwarder = forwarder
    p1 = p1
    p2 = p2
    NoOne = NoOne
    Events = {e1, e2, e3}
    Unfit = {}
    Promoters = {p1}
    SessionBound = {p1}
    BatchSize = 2
    MaxInterrupts = 2
INVARIANTS
    OneRowPerAction
PROPERTIES
    EveryIntentPromoted
    ImplementsEvidence
