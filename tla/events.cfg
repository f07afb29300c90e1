\* Three connections on two descriptors; a caller that is careful.
CONSTANTS
    Connections = {c1, c2, c3}
    NoConnection = none
    Fds = {1, 2}
    Careless = {}
SPECIFICATION Spec
INVARIANTS
    WatchersFollowSockets
    NothingDangles
    TickedOnce
