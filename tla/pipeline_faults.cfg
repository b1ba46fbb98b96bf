SPECIFICATION Spec
CONSTANTS
    Conns = {c1, c2}
    AddrOf <- SameClient
    Xids = {x}
    Kinds = {"proc", "badvers", "badargs", "garbled", "oversize", "panics"}
    PipeCap = 1
    MaxSends = 3
    MaxForgets = 1
SYMMETRY Symmetry
CHECK_DEADLOCK FALSE
INVARIANT TypeOK
INVARIANT AtMostOnce
INVARIANT ExecutedIsReplayable
INVARIANT RepliesInOrder
INVARIANT SameReply
PROPERTY DroppedOnlyElsewhere
