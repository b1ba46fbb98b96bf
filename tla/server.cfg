SPECIFICATION Spec
CONSTANTS
    Clients = {c1, c2}
    Names <- ManyNames
    Requested <- ManyPaths
    Agendas <- All
    ChannelSize = 1
    MaxTime = 1
CHECK_DEADLOCK FALSE
INVARIANT HandlesSafe
INVARIANT DataDurable
INVARIANT MountRight
INVARIANT PermissionHeld
INVARIANT PortsHeld
PROPERTY CallsAnswered
