SPECIFICATION Spec
CONSTANTS
    CmdLen = 4
    MaxInterrupts = 2
INVARIANTS TypeOK AllSent PrefixUnlessInterrupted
CHECK_DEADLOCK FALSE
