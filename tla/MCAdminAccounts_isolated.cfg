SPECIFICATION Spec
CONSTANTS
    a1 = a1
    a2 = a2
    old = old
    new = new
    r1 = r1
    r2 = r2
    NULL = NULL
    NoOne = NoOne
    Admins = {a1, a2}
    Passwords = {old, new}
    Requests = {r1, r2}
    MaxFailed = 2
    Lockout = 2
    MaxNow = 3
    MaxIssued = 2
CONSTRAINT Isolated
SYMMETRY AccountSymmetry
INVARIANTS
    TypeOK
    SomeActiveAdmin
PROPERTIES
    RevokedTokenBuysNothing
    ImplementsOperations
