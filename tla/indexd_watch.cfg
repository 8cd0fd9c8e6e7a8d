SPECIFICATION FairSpec
CONSTANTS
    Data = data
    Root = raw
    hour = hour
    second = second
    f = f
    Dir <- MCDir
    Parent <- MCParent
    File = {f}
    DirOf <- MCDirOf
    MaxLines = 2
    QueueLimit = 3
    WatchLimit = 3
    MaxWipes = 1
    MaxKills = 1
INVARIANTS
    NoForgottenLine
PROPERTIES
    EveryLineIsRead
CHECK_DEADLOCK FALSE
