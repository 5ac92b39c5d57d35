CONSTANTS
    Requested = {0, 3, 4}
    Word = 16
    Bytes = {0, 1}
    Payloads <- MCPayloads
    Lengths = {0, 1, 2, 3, 4}
SPECIFICATION Spec
INVARIANTS TypeOK ViewInRing
PROPERTY RefinesQueue
CHECK_DEADLOCK FALSE
