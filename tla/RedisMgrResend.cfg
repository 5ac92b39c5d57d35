SPECIFICATION ReattemptSpec
CONSTANTS
    ThreadNum = 1
    ConnectNum = 1
    Servers = {"open", "password", "otherpassword"}
    MaxCalls = 1
    MaxOutages = 1
INVARIANT ResentBeforeGivenUp
CHECK_DEADLOCK FALSE
