SPECIFICATION FairSpec

CONSTANTS
    None = None
    Unreadable = Unreadable
    Unnamed = "unnamed"
    SerialOf <- MCSerialOf
    c1 = c1
    a1 = a1
    a2 = a2
    Conns = {c1, a1, a2}
    Admins = {a1, a2}
    Second = {}
    Serials = {"s1"}
    MaxConnections = 2
    MaxReloads = 1

INVARIANT ReloadInv
INVARIANT LimitHolds
PROPERTY OwnReplyFirst
PROPERTY RevokedLeave
PROPERTY ReloadsAreAnswered
PROPERTY PlacesAreFreed

\* Every socket is used once: the instance stops when all are gone.
CHECK_DEADLOCK FALSE
