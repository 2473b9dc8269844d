SPECIFICATION Spec
CONSTANTS
    w1 = w1
    w2 = w2
    w3 = w3
    w4 = w4
    r1 = r1
    r2 = r2
    NULL = NULL
    Passwords = {w1, w2, w3, w4}
    Requests = {r1, r2}
    OtpExpiry = 2
    Window = 3
    MaxPerWindow = 2
    Depth = 2
    MaxNow = 0
    MaxRecorded = 2
    MaxDeaths = 0
SYMMETRY ResetSymmetry
PROPERTIES
    OtpSingleUse
