SPECIFICATION Spec
CONSTANTS
    Names = {"a", "b"}
    MaxElements = 2
    MaxNum = 2
INVARIANTS TypeOK IndexInRange DivisorUnlessZero
CHECK_DEADLOCK FALSE
