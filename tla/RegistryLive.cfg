SPECIFICATION FairSpec

CONSTANTS
    p1 = p1
    s1 = s1
    s2 = s2
    d1 = d1
    q1 = q1
    None = None
    PubControls = {p1}
    SubControls = {s1, s2}
    SubData = {d1}
    PubData = {q1}
    Kills = {}
    SessionIDs <- MCSessionIDs
    Tags <- MCTags
    Certs = {"certA", "certB"}
    SidOf <- MCSidOf
    CertOf <- MCCertOf
    PortsOf <- MCPortsOf
    PortOf <- MCPortOf
    LogTag <- OwnTag
    Provers <- MCProvers
    MaxPeers = 2
    MaxReq = 1
    OtherSession = {}
    OtherCert = {}
    Misfits = {}
    PortOne = {}
    Impostors = {}

PROPERTY SubscribersLeaveDeadSession
PROPERTY LostPublisherFreesSlot
PROPERTY PendingIsResolved

\* Every connection is used once: the instance stops when all are done.
CHECK_DEADLOCK FALSE
