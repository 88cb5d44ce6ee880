--------------------------- MODULE MCRelayRegistry ---------------------------
(***************************************************************************)
(* Small instances of the registry.  Connections are model values, grouped *)
(* by the hello or attach they carry; the functions below give each its    *)
(* session, certificate and ports.                                         *)
(***************************************************************************)
EXTENDS RelayRegistryProperties, TLC

CONSTANTS
    OtherSession,   \* the connections of a second session, if any
    OtherCert,      \* the connections with the second certificate
    Misfits,        \* controls that name one port, where the others name two
    PortOne,        \* data connections for port index 1, the others use 0
    Impostors       \* publisher controls without the session key

MCSessionIDs == IF OtherSession = {} THEN {"sid1"} ELSE {"sid1", "sid2"}
MCSidOf == [c \in PubControls \cup SubControls \cup SubData |->
                IF c \in OtherSession THEN "sid2" ELSE "sid1"]
MCCertOf == [c \in PubControls \cup SubControls \cup SubData \cup PubData |->
                IF c \in OtherCert THEN "certB" ELSE "certA"]
MCPortsOf == [c \in PubControls \cup SubControls |-> IF c \in Misfits THEN 1 ELSE 2]
MCPortOf == [d \in SubData |-> IF d \in PortOne THEN 1 ELSE 0]
SameTag == [sid \in MCSessionIDs |-> "tag"]
OwnTag == [sid \in MCSessionIDs |-> sid]
MCTags == {"tag", "sid1"}
MCProvers == PubControls \ Impostors

\* Controls with the same attributes may be exchanged (safety runs only).
ControlsSymmetry == Permutations(PubControls) \cup Permutations(SubControls)
=============================================================================
