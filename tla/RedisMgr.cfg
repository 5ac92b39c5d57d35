SPECIFICATION FairSpec
CONSTANTS
    ThreadNum = 2
    ConnectNum = 2
    Servers = {"password"}
    MaxCalls = 2
    MaxOutages = 2
INVARIANTS TypeOK ReplyIsOwn OneInFlight
PROPERTY CallReturns
CHECK_DEADLOCK FALSE
