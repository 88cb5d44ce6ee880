SPECIFICATION Spec

CONSTANTS
    p1 = p1
    p2 = p2
    s1 = s1
    d1 = d1
    q1 = q1
    k1 = k1
    None = None
    PubControls = {p1, p2}
    SubControls = {s1}
    SubData = {d1}
    PubData = {q1}
    Kills = {k1}
    SessionIDs <- MCSessionIDs
    Tags <- MCTags
    Certs = {"certA", "certB"}
    SidOf <- MCSidOf
    CertOf <- MCCertOf
    PortsOf <- MCPortsOf
    PortOf <- MCPortOf
    LogTag <- SameTag
    Provers <- MCProvers
    MaxPeers = 1
    MaxReq = 1
    OtherSession = {}
    OtherCert = {p2}
    Misfits = {p2}
    PortOne = {d1}
    Impostors = {}

INVARIANT NobodyLeftBehind
INVARIANT UnlistedIsBeingShut
INVARIANT CertsCountSubscribers
INVARIANT OwnedByOne
INVARIANT PairingInv
PROPERTY ClosedAdmitsNothing

\* Every connection is used once: the instance stops when all are done.
CHECK_DEADLOCK FALSE
