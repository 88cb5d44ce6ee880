--------------------- MODULE RelayConnectionsProperties ---------------------
(***************************************************************************)
(* What the relay owes its operator about the sockets it holds.            *)
(***************************************************************************)
EXTENDS RelayConnections

\* Sockets whose certificate authenticate accepted.
Admitted(c) == pc[c] \in {"serving"} \cup ReloadPCs

\* reloadMu is held by the one handler inside serveReloadCRL.
LockHeld == \A a \in Conns : pc[a] \in Locked <=> reloadMu = a

\* Only a reload in progress has sockets to close or its own to defer.
EvictionsOwned ==
    \A a \in Conns :
        /\ evict[a] # {} => pc[a] = "evicting"
        /\ a \notin evict[a]
        /\ deferred[a] => pc[a] \in {"evicting", "replying", "finishing", "forgetting"}

\* Reloads publish the set before they scan, and authenticate looks at it under
\* the lock of the scan (connections.go:33-34): outside a reload nobody is in
\* the set under a revoked serial, and within one only those it has yet to
\* scan, and its own socket until the reply is written.
RevokedAreCut ==
    \A c \in Conns :
        conns[c] \in revoked =>
            \/ \E a \in Conns : pc[a] = "scanning"
            \/ deferred[c]

\* A socket that is open is in the set, or on a reload's list to be closed: so
\* that shutdown, eviction and the limit cover it (connections.go:57-60).
OpenIsAccounted ==
    \A c \in Conns :
        open[c] => conns[c] # None \/ \E a \in Conns : c \in evict[a]

\* A socket in the set under a serial is there under its own.
NamedTruly ==
    \A c \in Conns : conns[c] \in {SerialOf[c], Unnamed, None}

\* An admitted socket that is still in the set is there by name.
AdmittedIsNamed == \A c \in Conns : Admitted(c) => conns[c] # Unnamed

\* A socket is open from its accept on, and left only after its close.
ClosedFirst ==
    \A c \in Conns : pc[c] \in {"new", "untracking", "forgetting", "gone"} => ~open[c]

\* From the end of a scan until the reply is written, whatever socket of a
\* revoked serial is admitted and open is on the list of that reload.
ScanWasComplete ==
    \A a, c \in Conns :
        /\ pc[a] \in {"evicting", "replying"} /\ a # c
        /\ Admitted(c) /\ SerialOf[c] \in revoked /\ open[c]
        => c \in evict[a]

\* The inductive invariant of the relay's sockets: reloads exclude each other
\* and nothing escapes a scan, neither what is tracked nor what authenticates
\* beside it.
ReloadInv ==
    /\ TypeOK
    /\ LockHeld /\ EvictionsOwned /\ RevokedAreCut
    /\ OpenIsAccounted /\ NamedTruly /\ AdmittedIsNamed
    /\ ClosedFirst /\ ScanWasComplete

\* "Every revoked serial is enforced against the transport set, including
\* admin sockets" (admin.go:276-277): when the operator reads the reply, no
\* other admitted socket of a revoked serial is open.
EnforcedWhenTold ==
    \A a, c \in Conns :
        /\ pc[a] = "replying" /\ a # c
        /\ Admitted(c) /\ SerialOf[c] \in revoked
        => ~open[c]

\* The limit holds for the set, and once the relay is down nothing is in it:
\* with OpenIsAccounted, nothing is left open that no reload is closing.
LimitHolds ==
    /\ Cardinality(Tracked) <= MaxConnections
    /\ relay = "down" => Tracked = {}

\* A reload that revokes the certificate it was asked with still answers: from
\* the lock to the reply no step of the relay closes the operator's socket,
\* neither this reload nor another, unless the peer or the network breaks it or
\* the relay stops (connections.go:57-60).
OwnReplyFirst ==
    [][\A a \in Conns :
        /\ pc[a] \in {"loading", "replacing", "scanning", "evicting", "replying"}
        /\ open[a] /\ ~open'[a]
        => Break(a) \/ CloseAll]_vars

\* A socket of a revoked serial is cut, whatever its handler is doing, unless
\* a later reload takes the serial off the list.
RevokedLeave ==
    \A c \in Conns :
        (Admitted(c) /\ open[c] /\ SerialOf[c] \in revoked)
            ~> (~open[c] \/ SerialOf[c] \notin revoked)

\* Reloads wait for each other and each is answered: a failed load, a cut
\* operator or a long list never leaves the lock behind.
ReloadsAreAnswered ==
    \A a \in Conns : (pc[a] = "waiting") ~> (pc[a] = "unlocking")

\* A socket that is closed gives its place under the limit back.
PlacesAreFreed ==
    \A c \in Conns : (~open[c] /\ conns[c] # None) ~> (conns[c] = None)
=============================================================================
