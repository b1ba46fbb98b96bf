SPECIFICATION Spec
CONSTANTS
    ByteValues = 128
    MAX_RPC_RECORD_LENGTH = 200
    Limit <- RecordLimit
    Calls <- Numbers
    IsValid <- IsCall
    MayDamage <- InDamaged
    MaySplit <- InSplit
    Encoded <- Record
    Handled <- handle_rpc
    Written <- ReplyBytes
    Decoded <- DecodedReply
    FragmentSizes = {0, 7}
    MAX_FRAGMENT_SIZE = 24
    MaxCalls = 2
    MaxFragments = 2
CHECK_DEADLOCK FALSE
INVARIANT CallsUnderstood
INVARIANT RepliesUnderstood
PROPERTY ImplementsChannel
INVARIANT NothingLost
