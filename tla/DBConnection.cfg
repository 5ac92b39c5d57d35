CONSTANTS
    TimeOut = 2
    MaxExecTime = 1
    MaxCalls = 3
    MaxOutages = 3
    FieldCount = 1
    MaxRows = 2
    MaxLength = 1
SPECIFICATION FairSpec
INVARIANTS TypeOK AtMostTwice TwiceOnlyAfterOutage SuccessIsOwnResult RowsComplete LastRowIsExact
PROPERTIES CallReturns Recovers
CHECK_DEADLOCK FALSE
