SPECIFICATION SharedSpec
CONSTANTS
    t1 = t1
    t2 = t2
    NoThread = NoThread
    Threads <- TwoThreads
    BufSize = 2
    MaxLen = 2
    MaxCalls = 3
CHECK_DEADLOCK FALSE
INVARIANTS
    SharedTypeOK
    AppendsTile
    ReplicaFollows
    SettledSizeKept
PROPERTIES
    CallsReturn
