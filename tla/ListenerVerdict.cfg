SPECIFICATION ListenSpec

CONSTANTS
    Clients = {c1}
    Ports = {p1}
    MaxTunnels = 1
    None = None

INVARIANT CancelIsTheCallers

\* runTCP returns, and then nothing is left to do.
CHECK_DEADLOCK FALSE
