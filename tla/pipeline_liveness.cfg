SPECIFICATION FairSpec
CONSTANTS
    Conns = {c1, c2}
    AddrOf <- SameClient
    Xids = {x}
    Kinds = {"proc", "badargs", "oversize", "panics"}
    PipeCap = 1
    MaxSends = 2
    MaxForgets = 0
CHECK_DEADLOCK FALSE
PROPERTY Served
PROPERTY TasksEnd
