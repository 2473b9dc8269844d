SPECIFICATION Spec
CONSTANTS
    a1 = a1
    a2 = a2
    old = old
    new = new
    r1 = r1
    r2 = r2
    NULL = NULL
    NoOne = NoOne
    Admins = {a1, a2}
    Passwords = {old, new}
    Requests = {r1, r2}
    MaxFailed = 1
    Lockout = 1
    MaxNow = 0
    MaxIssued = 2
CHECK_DEADLOCK FALSE
INVARIANTS
    SomeActiveAdmin
