SPECIFICATION Spec
CONSTANTS
    Calls = {c1, c2}
    Requests <- All
    InitialFs <- ThreeKinds
    d1 = d1
    d2 = d2
SYMMETRY CallSymmetry
CHECK_DEADLOCK FALSE
INVARIANT ErrorsHonest
INVARIANT OwnChangeInWcc
INVARIANT ReadNotStale
PROPERTY ReadOnlyKept
PROPERTY CreateKeeps
 
PROPERTY GuardHeld
