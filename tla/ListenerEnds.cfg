SPECIFICATION ListenSpec

CONSTANTS
    Clients = {c1, c2}
    Ports = {p1, p2}
    MaxTunnels = 1
    None = None

INVARIANT SlotsAreHeld
INVARIANT EndsWithTheCause
PROPERTY NothingIsLeft

\* runTCP returns, and then nothing is left to do.
CHECK_DEADLOCK FALSE
