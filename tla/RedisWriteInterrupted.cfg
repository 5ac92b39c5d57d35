SPECIFICATION Spec
CONSTANTS
    CmdLen = 4
    MaxInterrupts = 2
INVARIANT WireIsCommand
CHECK_DEADLOCK FALSE
