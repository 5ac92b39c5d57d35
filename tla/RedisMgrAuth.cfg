SPECIFICATION Spec
CONSTANTS
    ThreadNum = 1
    ConnectNum = 1
    Servers = {"open", "password", "otherpassword"}
    MaxCalls = 0
    MaxOutages = 1
INVARIANT AuthFailureIsReal
CHECK_DEADLOCK FALSE
