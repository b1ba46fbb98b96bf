SPECIFICATION FairSpec
CONSTANTS
    Names = {1, 2}
    DirCounts = {8, 48}
    Rooms = {0, 1, 9}
    Times = {0, 1, 2}
    MaxChanges = 2
    MaxFailures = 1
CHECK_DEADLOCK FALSE
INVARIANT TypeOK
INVARIANT PagesFit
INVARIANT QuietListing
PROPERTY ListingEnds
