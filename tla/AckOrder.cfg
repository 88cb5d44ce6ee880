SPECIFICATION Spec

CONSTANTS
    p1 = p1
    s1 = s1
    None = None
    PubControls = {p1}
    SubControls = {s1}
    SubData = {}
    PubData = {}
    Kills = {}
    SessionIDs <- MCSessionIDs
    Tags <- MCTags
    Certs = {"certA", "certB"}
    SidOf <- MCSidOf
    CertOf <- MCCertOf
    PortsOf <- MCPortsOf
    PortOf <- MCPortOf
    LogTag <- OwnTag
    Provers <- MCProvers
    MaxPeers = 2
    MaxReq = 1
    OtherSession = {}
    OtherCert = {}
    Misfits = {}
    PortOne = {}
    Impostors = {}

INVARIANT ControlsReadAckFirst

\* Every connection is used once: the instance stops when all are done.
CHECK_DEADLOCK FALSE
