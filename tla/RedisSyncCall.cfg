SPECIFICATION Spec
CONSTANTS
    Keys = {"k"}
    Fields = {"f", "g"}
    Word = 8
    MaxInt = 1
    MaxLen = 2
INVARIANTS TypeOK ReadsAgree RefusalIsReported CrashExactlyOnEmptyMap
PROPERTIES WritesAgree
CHECK_DEADLOCK FALSE
