SPECIFICATION Spec
CONSTANTS
    a1 = a1
    a2 = a2
    old = old
    new = new
    r1 = r1
    r2 = r2
    NULL = NULL
    NoOne = NoOne
    Admins = {a1, a2}
    Passwords = {old, new}
    Requests = {r1, r2}
    MaxFailed = 1
    Lockout = 1
    MaxNow = 1
    MaxIssued = 2
\* Two concurrent deactivations may leave no active admin, and then nobody
\* can act any more (run accounts_last_admin).
CHECK_DEADLOCK FALSE
SYMMETRY AccountSymmetry
PROPERTIES
    OnlyFreshSessions
    OwnColumnsOnly
    DeactivationEndsSession
    LockoutStands
