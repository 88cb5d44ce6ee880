SPECIFICATION Spec

CONSTANTS
    p1 = p1
    p2 = p2
    p3 = p3
    p4 = p4
    s1 = s1
    k1 = k1
    None = None
    PubControls = {p1, p2, p3, p4}
    SubControls = {s1}
    SubData = {}
    PubData = {}
    Kills = {k1}
    SessionIDs <- MCSessionIDs
    Tags <- MCTags
    Certs = {"certA", "certB"}
    SidOf <- MCSidOf
    CertOf <- MCCertOf
    PortsOf <- MCPortsOf
    PortOf <- MCPortOf
    LogTag <- SameTag
    Provers <- MCProvers
    MaxPeers = 2
    MaxReq = 1
    OtherSession = {p3}
    OtherCert = {}
    Misfits = {s1}
    PortOne = {}
    Impostors = {p4}

INVARIANT RegistryInv
INVARIANT KilledWhenRead
PROPERTY ImplementsSlots

\* Every connection is used once: the instance stops when all are done.
CHECK_DEADLOCK FALSE
