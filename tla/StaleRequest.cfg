SPECIFICATION Spec

CONSTANTS
    p1 = p1
    p2 = p2
    s1 = s1
    s2 = s2
    d1 = d1
    d2 = d2
    q1 = q1
    None = None
    PubControls = {p1, p2}
    SubControls = {s1, s2}
    SubData = {d1, d2}
    PubData = {q1}
    Kills = {}
    SessionIDs <- MCSessionIDs
    Tags <- MCTags
    Certs = {"certA", "certB"}
    SidOf <- MCSidOf
    CertOf <- MCCertOf
    PortsOf <- MCPortsOf
    PortOf <- MCPortOf
    LogTag <- OwnTag
    Provers <- MCProvers
    MaxPeers = 2
    MaxReq = 2
    OtherSession = {}
    OtherCert = {}
    Misfits = {}
    PortOne = {d2}
    Impostors = {}

INVARIANT PairedPortAgrees
SYMMETRY ControlsSymmetry

\* Every connection is used once: the instance stops when all are done.
CHECK_DEADLOCK FALSE
