SPECIFICATION Spec
CONSTANTS
    Scripts = {m}
    Functions = {f}
    MaxEdits = 3
    MaxDepth = 3
    MaxArgs = 1
    Returns <- MCReturns
INVARIANTS TypeOK StackLayout ReadsOwn WithinMinStack ReloadIsSeen
CHECK_DEADLOCK FALSE
