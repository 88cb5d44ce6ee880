SPECIFICATION PipelineSpec

CONSTANTS
    None = None
    Unreadable = Unreadable
    Unnamed = "unnamed"
    SerialOf <- MCSerialOf
    a1 = a1
    a2 = a2
    r1 = r1
    x1 = x1
    Conns = {a1, a2}
    Admins = {a1, a2}
    Second = {a2}
    Serials = {"s1", "s2"}
    MaxConnections = 2
    MaxReloads = 1
    Names = {"device"}
    NameOf <- MCNameOf
    Revokers = {r1}
    Exporters = {x1}

INVARIANT RevokedAreCut
INVARIANT EnforcedWhenTold
INVARIANT EnforcesASnapshot
INVARIANT RevokedWhole
PROPERTY RevocationIsForGood

\* Every socket is used once: the instance may stop when all are gone.
CHECK_DEADLOCK FALSE
