SPECIFICATION FairSpec
CONSTANTS
    ConnectNum = 2
    TaskIds = {0, 1}
    Word = 16
    BatchCount = 2
    MaxTasks = 2
PROPERTY AddedIsSent
CHECK_DEADLOCK FALSE
