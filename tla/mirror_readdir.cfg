SPECIFICATION Spec
CONSTANTS
    Names = {a, b}
    Inodes = {i0, i1, i2}
    i0 = i0
    i1 = i1
    i2 = i2
    i3 = i3
    a = a
    b = b
    third = third
    Users = {u}
    InitialDisks <- Disks
    Scopes <- Subdirectory
SYMMETRY Symmetry
CHECK_DEADLOCK FALSE
INVARIANT ReaddirOfItsDirectory
