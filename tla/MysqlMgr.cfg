CONSTANTS
    Handlers = {h1, h2}
    Ids <- MCIds
    Word = 16
    AsyncConnectionNum = 2
    ThreadCount = 3
    Names = {db}
    UnknownName = nodb
    ForeignWorkers = {1, 3}
    MaxSql = 1
    Foreign = foreign
    None = none
SPECIFICATION FairSpec
INVARIANTS TypeOK SameIdInOrder BasesAccounted OneThreadPerConnection OutcomeIsOwn
PROPERTIES PushedIsReleased ImplementsService
CHECK_DEADLOCK FALSE
