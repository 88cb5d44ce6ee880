---------------------------- MODULE RelayRegistry ----------------------------
(***************************************************************************)
(* The relay's session registry: registry.go, session.go and the control   *)
(* and data handlers of relay.go that drive them.                          *)
(*                                                                         *)
(* Every connection is served by a goroutine of its own, every admin kill  *)
(* by the goroutine of the admin connection that asked for it.  pc is      *)
(* where each of them is; a step is a critical section of Registry.mu or   *)
(* session.mu, or a write, between which any other goroutine may run.  A   *)
(* handler keeps the *session it looked up (sess) after it lets the lock   *)
(* go, so sess may name a session that has since been dropped.             *)
(*                                                                         *)
(* A publisher control connection creates at most one session object, so   *)
(* the connection names the object.  ReadHello accepts ModeTCP only, which *)
(* leaves the two mode checks without effect: mode is not represented.     *)
(* Ping and Pong change nothing here; a missed heartbeat is GoSilent.      *)
(***************************************************************************)
EXTENDS Integers, FiniteSets, Sequences

CONSTANTS
    PubControls,    \* control connections whose hello says RolePublish
    SubControls,    \* control connections whose hello says RoleSubscribe
    SubData,        \* data connections opened by subscribers
    PubData,        \* data connections opened by publishers
    Kills,          \* admin kill requests
    SessionIDs,
    Tags,           \* what SessionID.LogTag truncates a SessionID to
    Certs,          \* client certificates
    SidOf,          \* the SessionID in each control hello and subscriber attach
    CertOf,         \* the certificate each connection authenticated with
    PortsOf,        \* Hello.Ports of each control connection
    PortOf,         \* Attach.Port of each subscriber data connection
    LogTag,         \* the tag of each SessionID
    Provers,        \* publisher controls that hold the session's private key
    MaxPeers,       \* maxSessionPeers
    MaxReq,         \* bound on the request ids one session hands out
    None

Controls == PubControls \cup SubControls
DataConns == SubData \cup PubData
Conns == Controls \cup DataConns
Threads == Conns \cup Kills
Closers == PubControls \cup Kills       \* the threads that call session.shutdown
ReqIDs == 0..(MaxReq - 1)

ASSUME ConnsAssumption ==
    /\ PubControls \cap SubControls = {} /\ PubControls \cap SubData = {}
    /\ PubControls \cap PubData = {} /\ SubControls \cap SubData = {}
    /\ SubControls \cap PubData = {} /\ SubData \cap PubData = {}
    /\ Kills \cap Conns = {}
    /\ None \notin Threads /\ None \notin ReqIDs
    /\ IsFiniteSet(SubControls)

ASSUME AttributesAssumption ==
    /\ SidOf \in [Controls \cup SubData -> SessionIDs]
    /\ CertOf \in [Conns -> Certs]
    /\ PortsOf \in [Controls -> Nat]
    /\ PortOf \in [SubData -> Nat]
    /\ LogTag \in [SessionIDs -> Tags]
    /\ Provers \subseteq PubControls
    /\ MaxPeers \in Nat /\ MaxReq \in Nat

VARIABLES
    registry,       \* Registry.sessions: SessionID to session object, or None
    killed,         \* Registry.killed
    closed,         \* session.closed
    subs,           \* session.subscribers
    certs,          \* session.subscriberCerts: controls attached per certificate
    pending,        \* session.pending: request id to waiting connection, or None
    nextReq,        \* session.nextReqID
    streams,        \* session.streams: the request ids being spliced
    pc,             \* where each handler or kill is
    sess,           \* the *session each handler or kill works on
    req,            \* the request id of a data connection's attach
    ask,            \* the request frame a publisher data connection answers
    leg,            \* the subscriber connection a publisher's claim returned
    doomed,         \* pending connections a shutdown took and has yet to close
    farewell,       \* subscribers a shutdown has yet to notify
    notified,       \* what session.shutdown returns to its caller
    open,           \* connections neither side has closed
    sent            \* what the relay has written on each connection, in order

registryVars == <<registry, killed>>
sessionVars == <<closed, subs, certs, pending, nextReq, streams>>
localVars == <<sess, req, ask, leg>>
shutdownVars == <<doomed, farewell, notified>>
vars == <<registryVars, sessionVars, pc, localVars, shutdownVars, open, sent>>

AckStatus == {"OK", "NoSuchSession", "PublisherExists", "PortsMismatch", "Denied"}
Ack(status) == [kind |-> "ack", status |-> status]
RequestFrame(id, port) == [kind |-> "request", id |-> id, port |-> port]
SessionClosed == [kind |-> "closed"]
Frames == [kind : {"ack"}, status : AckStatus]
          \cup [kind : {"request"}, id : ReqIDs, port : Nat]
          \cup {SessionClosed}

PubPCs == {"hello", "claimed", "acking", "serving", "unregistering",
           "shutdown", "closing", "notifying", "done"}
SubPCs == {"hello", "joining", "acking", "serving", "releasing", "done"}
SubDataPCs == {"hello", "joining", "acking", "requesting", "parked", "done"}
PubDataPCs == {"hello", "claiming", "claimed", "splicing", "done"}
KillPCs == {"idle", "severing", "shutdown", "closing", "notifying", "replied", "refused"}

RegistryTyped ==
    /\ registry \in [SessionIDs -> PubControls \cup {None}]
    /\ killed \subseteq SessionIDs

SessionTyped ==
    /\ closed \in [PubControls -> BOOLEAN]
    /\ subs \in [PubControls -> SUBSET SubControls]
    /\ certs \in [PubControls -> [Certs -> Int]]
    /\ pending \in [PubControls -> [ReqIDs -> SubData \cup {None}]]
    /\ nextReq \in [PubControls -> Nat]
    /\ streams \in [PubControls -> SUBSET ReqIDs]

PCTyped ==
    /\ pc \in [Threads -> PubPCs \cup SubPCs \cup SubDataPCs \cup PubDataPCs \cup KillPCs]
    /\ \A p \in PubControls : pc[p] \in PubPCs
    /\ \A s \in SubControls : pc[s] \in SubPCs
    /\ \A d \in SubData : pc[d] \in SubDataPCs
    /\ \A q \in PubData : pc[q] \in PubDataPCs
    /\ \A k \in Kills : pc[k] \in KillPCs

LocalsTyped ==
    /\ sess \in [Threads -> PubControls \cup {None}]
    /\ req \in [DataConns -> ReqIDs \cup {None}]
    /\ ask \in [PubData -> (PubControls \X Nat) \cup {None}]
    /\ leg \in [PubData -> SubData \cup {None}]

ShutdownTyped ==
    /\ doomed \in [Closers -> SUBSET SubData]
    /\ farewell \in [Closers -> SUBSET SubControls]
    /\ notified \in [Closers -> Nat]

WireTyped ==
    /\ open \in [Conns -> BOOLEAN]
    /\ sent \in [Conns -> Seq(Frames)]

\* A handler's locals are set before a step uses them.
LocalsSet ==
    /\ \A p \in PubControls : sess[p] = p
    /\ \A s \in SubControls :
        pc[s] \in {"joining", "acking", "serving", "releasing"} => sess[s] # None
    /\ \A d \in SubData :
        /\ pc[d] \in {"joining", "acking", "requesting", "parked"} => sess[d] # None
        /\ pc[d] \in {"acking", "requesting", "parked"} => req[d] # None
    /\ \A q \in PubData :
        /\ pc[q] \in {"claiming", "claimed", "splicing"} => sess[q] # None /\ req[q] # None
        /\ pc[q] \in {"claimed", "splicing"} => leg[q] # None
    /\ \A k \in Kills :
        pc[k] \in {"severing", "shutdown", "closing", "notifying", "replied"} => sess[k] # None

TypeOK ==
    /\ RegistryTyped /\ SessionTyped /\ PCTyped
    /\ LocalsTyped /\ ShutdownTyped /\ WireTyped
    /\ LocalsSet

Init ==
    /\ registry = [sid \in SessionIDs |-> None]
    /\ killed = {}
    /\ closed = [p \in PubControls |-> FALSE]
    /\ subs = [p \in PubControls |-> {}]
    /\ certs = [p \in PubControls |-> [c \in Certs |-> 0]]
    /\ pending = [p \in PubControls |-> [i \in ReqIDs |-> None]]
    /\ nextReq = [p \in PubControls |-> 0]
    /\ streams = [p \in PubControls |-> {}]
    /\ pc = [t \in Threads |-> IF t \in Kills THEN "idle" ELSE "hello"]
    /\ sess = [t \in Threads |-> IF t \in PubControls THEN t ELSE None]
    /\ req = [d \in DataConns |-> None]
    /\ ask = [q \in PubData |-> None]
    /\ leg = [q \in PubData |-> None]
    /\ doomed = [t \in Closers |-> {}]
    /\ farewell = [t \in Closers |-> {}]
    /\ notified = [t \in Closers |-> 0]
    /\ open = [c \in Conns |-> TRUE]
    /\ sent = [c \in Conns |-> <<>>]

------------------------------------------------------------------------------
(* Steps the handlers share *)

Goto(t, label) == pc' = [pc EXCEPT ![t] = label]

\* A write on a connection that is gone delivers nothing.
Send(c, frame) ==
    sent' = [sent EXCEPT ![c] = IF open[c] THEN Append(@, frame) ELSE @]

Shut(cs) == open' = [c \in Conns |-> open[c] /\ c \notin cs]

\* A handler turns its peer away: it writes the ack, closes and returns.
Refuse(c, status) ==
    /\ Send(c, Ack(status))
    /\ Shut({c})
    /\ Goto(c, "done")

Held(p) == {i \in ReqIDs : pending[p][i] # None}

------------------------------------------------------------------------------
(* Plausible bugs: variants of definitions below that no step uses.  Each is *)
(* substituted for its original to see that a property notices.              *)

\* Register without the look at killed.
InsertUnbanned(p) ==
    /\ pc[p] = "claimed" /\ registry[SidOf[p]] = None
    /\ registry' = [registry EXCEPT ![SidOf[p]] = p]
    /\ Goto(p, "acking")
    /\ UNCHANGED <<killed, sessionVars, localVars, shutdownVars, open, sent>>

\* Register over a session that exists.
InsertOccupied(p) ==
    /\ pc[p] = "claimed" /\ SidOf[p] \notin killed
    /\ registry' = [registry EXCEPT ![SidOf[p]] = p]
    /\ Goto(p, "acking")
    /\ UNCHANGED <<killed, sessionVars, localVars, shutdownVars, open, sent>>

\* A publisher's handler runs a subscriber's deferred release.
LoseControlSwapped(c) ==
    /\ pc[c] = "serving" /\ ~open[c]
    /\ Goto(c, "releasing")
    /\ UNCHANGED <<registryVars, sessionVars, localVars, shutdownVars, open, sent>>

\* Only subscribers' lost connections are noticed.
LoseControlDeaf(c) ==
    /\ pc[c] = "serving" /\ ~open[c] /\ c \in SubControls
    /\ Goto(c, "releasing")
    /\ UNCHANGED <<registryVars, sessionVars, localVars, shutdownVars, open, sent>>

\* unregister deletes the session and tells nobody.
UnregisterOnly(p) ==
    /\ pc[p] = "unregistering"
    /\ registry' = [registry EXCEPT ![SidOf[p]] = None]
    /\ Goto(p, "done")
    /\ UNCHANGED <<killed, sessionVars, localVars, shutdownVars, open, sent>>

\* The notification pass has no timer.
HardCloseNever(t) == pc[t] = "notifying" /\ FALSE /\ UNCHANGED vars

\* Kill leaves the publisher's connection to its own heartbeat.
SeverNobody(k) ==
    /\ pc[k] = "severing"
    /\ Goto(k, "shutdown")
    /\ UNCHANGED <<registryVars, sessionVars, localVars, shutdownVars, open, sent>>

\* addSubscriber and addPending without the check of closed.
AdmitsClosed(p) == Cardinality(subs[p]) < MaxPeers

StashesClosed(p, d) == Cardinality(Held(p)) < MaxPeers /\ certs[p][CertOf[d]] # 0

\* removeSubscriber forgets the certificate's count.
ReleaseLeaks(s) ==
    LET p == sess[s] IN
    /\ pc[s] = "releasing"
    /\ subs' = [subs EXCEPT ![p] = @ \ {s}]
    /\ Shut({s})
    /\ Goto(s, "done")
    /\ UNCHANGED <<registryVars, closed, certs, pending, nextReq, streams,
                   localVars, shutdownVars, sent>>

\* The timer forgets the entry and leaves the connection open.
ExpireSilently(p, id) ==
    /\ pending[p][id] # None
    /\ pending' = [pending EXCEPT ![p][id] = None]
    /\ UNCHANGED <<registryVars, closed, subs, certs, nextReq, streams, pc,
                   localVars, shutdownVars, open, sent>>

\* A publisher's data connection is taken whatever its certificate.
AttachAnyCert(q, p, n) ==
    /\ pc[q] = "hello" /\ registry[SidOf[p]] # None /\ sent[p][n].kind = "request"
    /\ ask' = [ask EXCEPT ![q] = <<p, n>>]
    /\ req' = [req EXCEPT ![q] = sent[p][n].id]
    /\ sess' = [sess EXCEPT ![q] = registry[SidOf[p]]]
    /\ Goto(q, "claiming")
    /\ UNCHANGED <<registryVars, sessionVars, leg, shutdownVars, open, sent>>

\* The claim reads the entry without removing it.
ClaimKeeps(q) ==
    LET p == sess[q] IN
    /\ pc[q] = "claiming" /\ pending[p][req[q]] # None
    /\ leg' = [leg EXCEPT ![q] = pending[p][req[q]]]
    /\ Goto(q, "claimed")
    /\ UNCHANGED <<registryVars, sessionVars, sess, req, ask, shutdownVars, open, sent>>

\* The finished stream stays on the operator's list.
EndSpliceLeaks(q) ==
    /\ pc[q] = "splicing" /\ (~open[q] \/ ~open[leg[q]])
    /\ Shut({q, leg[q]})
    /\ Goto(q, "done")
    /\ UNCHANGED <<registryVars, sessionVars, localVars, shutdownVars, sent>>

------------------------------------------------------------------------------
(* The publisher's control connection: handleControlConn, Registry.Register *)

\* The claimant signs for the session before the registry is looked at.
ProveClaim(p) ==
    /\ pc[p] = "hello" /\ p \in Provers
    /\ Goto(p, "claimed")
    /\ UNCHANGED <<registryVars, sessionVars, localVars, shutdownVars, open, sent>>

FailClaim(p) ==
    /\ pc[p] = "hello" /\ p \notin Provers
    /\ Refuse(p, "Denied")
    /\ UNCHANGED <<registryVars, sessionVars, localVars, shutdownVars>>

\* The critical section of Register, and the refusals that leave it.
RefuseKilled(p) ==
    /\ pc[p] = "claimed" /\ SidOf[p] \in killed
    /\ Refuse(p, "Denied")
    /\ UNCHANGED <<registryVars, sessionVars, localVars, shutdownVars>>

RefuseOccupied(p) ==
    /\ pc[p] = "claimed" /\ SidOf[p] \notin killed /\ registry[SidOf[p]] # None
    /\ Refuse(p, "PublisherExists")
    /\ UNCHANGED <<registryVars, sessionVars, localVars, shutdownVars>>

Insert(p) ==
    /\ pc[p] = "claimed" /\ SidOf[p] \notin killed /\ registry[SidOf[p]] = None
    /\ registry' = [registry EXCEPT ![SidOf[p]] = p]
    /\ Goto(p, "acking")
    /\ UNCHANGED <<killed, sessionVars, localVars, shutdownVars, open, sent>>

\* The ack is written after the session can already be found.
AckPublisher(p) ==
    /\ pc[p] = "acking"
    /\ Send(p, Ack("OK"))
    /\ Goto(p, IF open[p] THEN "serving" ELSE "unregistering")
    /\ UNCHANGED <<registryVars, sessionVars, localVars, shutdownVars, open>>

\* runHeartbeatLoop returns.  GoSilent is the read deadline of a peer that
\* stopped sending: the socket itself is still open.
LoseControl(c) ==
    /\ pc[c] = "serving" /\ ~open[c]
    /\ Goto(c, IF c \in PubControls THEN "unregistering" ELSE "releasing")
    /\ UNCHANGED <<registryVars, sessionVars, localVars, shutdownVars, open, sent>>

GoSilent(c) ==
    /\ pc[c] = "serving" /\ open[c]
    /\ Goto(c, IF c \in PubControls THEN "unregistering" ELSE "releasing")
    /\ UNCHANGED <<registryVars, sessionVars, localVars, shutdownVars, open, sent>>

\* The deletion is by SessionID, whatever session the map holds under it.
Unregister(p) ==
    /\ pc[p] = "unregistering"
    /\ registry' = [registry EXCEPT ![SidOf[p]] = None]
    /\ Goto(p, "shutdown")
    /\ UNCHANGED <<killed, sessionVars, localVars, shutdownVars, open, sent>>

------------------------------------------------------------------------------
(* session.shutdown, on behalf of the publisher's handler or of a kill *)

\* beginShutdown: whoever comes second is given nothing to close or notify.
BeginShutdown(t) ==
    LET p == sess[t] IN
    /\ pc[t] = "shutdown"
    /\ IF closed[p]
       THEN UNCHANGED <<sessionVars, shutdownVars>>
       ELSE /\ closed' = [closed EXCEPT ![p] = TRUE]
            /\ pending' = [pending EXCEPT ![p] = [i \in ReqIDs |-> None]]
            /\ doomed' = [doomed EXCEPT ![t] = {pending[p][i] : i \in Held(p)}]
            /\ farewell' = [farewell EXCEPT ![t] = subs[p]]
            /\ notified' = [notified EXCEPT ![t] = Cardinality(subs[p])]
            /\ UNCHANGED <<subs, certs, nextReq, streams>>
    /\ Goto(t, "closing")
    /\ UNCHANGED <<registryVars, localVars, open, sent>>

CloseDoomed(t) ==
    /\ pc[t] = "closing"
    /\ Shut(doomed[t])
    /\ doomed' = [doomed EXCEPT ![t] = {}]
    /\ Goto(t, "notifying")
    /\ UNCHANGED <<registryVars, sessionVars, localVars, farewell, notified, sent>>

\* One subscriber of notifySessionClosed: the frame, then the close.
Tell(t, s) ==
    /\ pc[t] = "notifying" /\ s \in farewell[t] /\ open[s]
    /\ Send(s, SessionClosed)
    /\ Shut({s})
    /\ farewell' = [farewell EXCEPT ![t] = @ \ {s}]
    /\ UNCHANGED <<registryVars, sessionVars, pc, localVars, doomed, notified>>

SkipGone(t, s) ==
    /\ pc[t] = "notifying" /\ s \in farewell[t] /\ ~open[s]
    /\ farewell' = [farewell EXCEPT ![t] = @ \ {s}]
    /\ UNCHANGED <<registryVars, sessionVars, pc, localVars, doomed, notified, open, sent>>

\* notifyWriteTimeout: every transport still on the list is cut.
HardClose(t) ==
    /\ pc[t] = "notifying" /\ \E s \in farewell[t] : open[s]
    /\ Shut(farewell[t])
    /\ UNCHANGED <<registryVars, sessionVars, pc, localVars, shutdownVars, sent>>

FinishShutdown(t) ==
    /\ pc[t] = "notifying" /\ farewell[t] = {}
    /\ Goto(t, IF t \in PubControls THEN "done" ELSE "replied")
    /\ Shut({t})
    /\ UNCHANGED <<registryVars, sessionVars, localVars, shutdownVars, sent>>

------------------------------------------------------------------------------
(* Registry.Kill *)

Matching(tag) == {sid \in SessionIDs : registry[sid] # None /\ LogTag[sid] = tag}

Kill(k, tag) ==
    /\ pc[k] = "idle"
    /\ \E sid \in SessionIDs :
        /\ Matching(tag) = {sid}
        /\ killed' = killed \cup {sid}
        /\ registry' = [registry EXCEPT ![sid] = None]
        /\ sess' = [sess EXCEPT ![k] = registry[sid]]
    /\ Goto(k, "severing")
    /\ UNCHANGED <<sessionVars, req, ask, leg, shutdownVars, open, sent>>

RefuseKill(k, tag) ==
    /\ pc[k] = "idle" /\ \A sid \in SessionIDs : Matching(tag) # {sid}
    /\ Goto(k, "refused")
    /\ UNCHANGED <<registryVars, sessionVars, localVars, shutdownVars, open, sent>>

SeverPublisher(k) ==
    /\ pc[k] = "severing"
    /\ Shut({sess[k]})
    /\ Goto(k, "shutdown")
    /\ UNCHANGED <<registryVars, sessionVars, localVars, shutdownVars, sent>>

------------------------------------------------------------------------------
(* The subscriber's control connection: handleControlConn, Registry.Subscribe *)

FindSession(s) ==
    LET p == registry[SidOf[s]] IN
    /\ pc[s] = "hello"
    /\ p # None /\ PortsOf[s] = PortsOf[p]
    /\ sess' = [sess EXCEPT ![s] = p]
    /\ Goto(s, "joining")
    /\ UNCHANGED <<registryVars, sessionVars, req, ask, leg, shutdownVars, open, sent>>

RefuseSubscriber(s) ==
    LET p == registry[SidOf[s]] IN
    /\ pc[s] = "hello"
    /\ \/ p = None /\ Refuse(s, "NoSuchSession")
       \/ p # None /\ PortsOf[s] # PortsOf[p] /\ Refuse(s, "PortsMismatch")
    /\ UNCHANGED <<registryVars, sessionVars, localVars, shutdownVars>>

\* addSubscriber, on the session found before and perhaps gone since.
Admits(p) == ~closed[p] /\ Cardinality(subs[p]) < MaxPeers

AddSubscriber(s) ==
    LET p == sess[s] IN
    /\ pc[s] = "joining" /\ Admits(p)
    /\ subs' = [subs EXCEPT ![p] = @ \cup {s}]
    /\ certs' = [certs EXCEPT ![p][CertOf[s]] = @ + 1]
    /\ Goto(s, "acking")
    /\ UNCHANGED <<registryVars, closed, pending, nextReq, streams,
                   localVars, shutdownVars, open, sent>>

TurnAway(s) ==
    /\ pc[s] = "joining" /\ ~Admits(sess[s])
    /\ Refuse(s, "NoSuchSession")
    /\ UNCHANGED <<registryVars, sessionVars, localVars, shutdownVars>>

AckSubscriber(s) ==
    /\ pc[s] = "acking"
    /\ Send(s, Ack("OK"))
    /\ Goto(s, IF open[s] THEN "serving" ELSE "releasing")
    /\ UNCHANGED <<registryVars, sessionVars, localVars, shutdownVars, open>>

\* removeSubscriber, then the handler's deferred close.
Release(s) ==
    LET p == sess[s] IN
    /\ pc[s] = "releasing"
    /\ subs' = [subs EXCEPT ![p] = @ \ {s}]
    /\ certs' = [certs EXCEPT ![p][CertOf[s]] = @ - 1]
    /\ Shut({s})
    /\ Goto(s, "done")
    /\ UNCHANGED <<registryVars, closed, pending, nextReq, streams,
                   localVars, shutdownVars, sent>>

------------------------------------------------------------------------------
(* The subscriber's data connection: Registry.AttachSubscriberData *)

FindForData(d) ==
    LET p == registry[SidOf[d]] IN
    /\ pc[d] = "hello"
    /\ p # None /\ PortOf[d] < PortsOf[p]
    /\ sess' = [sess EXCEPT ![d] = p]
    /\ Goto(d, "joining")
    /\ UNCHANGED <<registryVars, sessionVars, req, ask, leg, shutdownVars, open, sent>>

RefuseSubData(d) ==
    LET p == registry[SidOf[d]] IN
    /\ pc[d] = "hello"
    /\ \/ p = None /\ Refuse(d, "NoSuchSession")
       \/ p # None /\ PortOf[d] >= PortsOf[p] /\ Refuse(d, "PortsMismatch")
    /\ UNCHANGED <<registryVars, sessionVars, localVars, shutdownVars>>

\* addPending: only for the certificate of an attached subscriber.
Stashes(p, d) ==
    /\ ~closed[p]
    /\ Cardinality(Held(p)) < MaxPeers
    /\ certs[p][CertOf[d]] # 0

AddPending(d) ==
    LET p == sess[d] id == nextReq[p] IN
    /\ pc[d] = "joining" /\ Stashes(p, d)
    /\ id < MaxReq
    /\ pending' = [pending EXCEPT ![p][id] = d]
    /\ nextReq' = [nextReq EXCEPT ![p] = id + 1]
    /\ req' = [req EXCEPT ![d] = id]
    /\ Goto(d, "acking")
    /\ UNCHANGED <<registryVars, closed, subs, certs, streams,
                   sess, ask, leg, shutdownVars, open, sent>>

TurnAwayData(d) ==
    /\ pc[d] = "joining" /\ ~Stashes(sess[d], d)
    /\ Refuse(d, "NoSuchSession")
    /\ UNCHANGED <<registryVars, sessionVars, localVars, shutdownVars>>

\* claimPending: the winner of the timer, the publisher, a failed handler and
\* the shutdown is the one that finds the entry.
Unstash(p, id) == pending' = [pending EXCEPT ![p][id] = None]

AckSubData(d) ==
    /\ pc[d] = "acking" /\ open[d]
    /\ Send(d, Ack("OK"))
    /\ Goto(d, "requesting")
    /\ UNCHANGED <<registryVars, sessionVars, localVars, shutdownVars, open>>

RequestData(d) ==
    LET p == sess[d] IN
    /\ pc[d] = "requesting" /\ open[p]
    /\ Send(p, RequestFrame(req[d], PortOf[d]))
    /\ Goto(d, "parked")
    /\ UNCHANGED <<registryVars, sessionVars, localVars, shutdownVars, open>>

\* A failed ack or request: removePending, and the handler closes what it owns.
AbandonSubData(d) ==
    /\ \/ pc[d] = "acking" /\ ~open[d]
       \/ pc[d] = "requesting" /\ ~open[sess[d]]
    /\ Unstash(sess[d], req[d])
    /\ Shut({d})
    /\ Goto(d, "done")
    /\ UNCHANGED <<registryVars, closed, subs, certs, nextReq, streams,
                   localVars, shutdownVars, sent>>

\* pendingRequestTimeout, armed under the lock that added the entry.
Expire(p, id) ==
    /\ pending[p][id] # None
    /\ Shut({pending[p][id]})
    /\ Unstash(p, id)
    /\ UNCHANGED <<registryVars, closed, subs, certs, nextReq, streams, pc,
                   localVars, shutdownVars, sent>>

------------------------------------------------------------------------------
(* The publisher's data connection: Registry.AttachPublisherData *)

\* share answers each request frame it read at most once, on a connection of
\* its own, however late (share.fulfill outlives the control connection).  The
\* peers here are this program's: nobody asks for an id it was not sent.
Answers(q, p, n) ==
    /\ n \in DOMAIN sent[p] /\ sent[p][n].kind = "request"
    /\ CertOf[q] = CertOf[p]
    /\ \A other \in PubData : ask[other] # <<p, n>>

AttachPublisher(q, p, n) ==
    LET target == registry[SidOf[p]] IN
    /\ pc[q] = "hello" /\ Answers(q, p, n)
    /\ ask' = [ask EXCEPT ![q] = <<p, n>>]
    /\ req' = [req EXCEPT ![q] = sent[p][n].id]
    /\ IF target # None /\ CertOf[q] = CertOf[target]
       THEN /\ sess' = [sess EXCEPT ![q] = target]
            /\ Goto(q, "claiming")
            /\ UNCHANGED open
       ELSE /\ Shut({q})
            /\ Goto(q, "done")
            /\ UNCHANGED sess
    /\ UNCHANGED <<registryVars, sessionVars, leg, shutdownVars, sent>>

Claim(q) ==
    LET p == sess[q] IN
    /\ pc[q] = "claiming"
    /\ IF pending[p][req[q]] # None
       THEN /\ leg' = [leg EXCEPT ![q] = pending[p][req[q]]]
            /\ Unstash(p, req[q])
            /\ Goto(q, "claimed")
            /\ UNCHANGED open
       ELSE /\ Shut({q})
            /\ Goto(q, "done")
            /\ UNCHANGED <<leg, pending>>
    /\ UNCHANGED <<registryVars, closed, subs, certs, nextReq, streams,
                   sess, req, ask, shutdownVars, sent>>

AddStream(q) ==
    LET p == sess[q] IN
    /\ pc[q] = "claimed"
    /\ IF closed[p]
       THEN /\ Shut({q, leg[q]})
            /\ Goto(q, "done")
            /\ UNCHANGED streams
       ELSE /\ streams' = [streams EXCEPT ![p] = @ \cup {req[q]}]
            /\ Goto(q, "splicing")
            /\ UNCHANGED open
    /\ UNCHANGED <<registryVars, closed, subs, certs, pending, nextReq,
                   localVars, shutdownVars, sent>>

\* Splice returns with both legs closed once either one is; removeStream.
EndSplice(q) ==
    /\ pc[q] = "splicing" /\ (~open[q] \/ ~open[leg[q]])
    /\ Shut({q, leg[q]})
    /\ streams' = [streams EXCEPT ![sess[q]] = @ \ {req[q]}]
    /\ Goto(q, "done")
    /\ UNCHANGED <<registryVars, closed, subs, certs, pending, nextReq,
                   localVars, shutdownVars, sent>>

------------------------------------------------------------------------------
\* The peer hangs up, the network fails, a deadline passes, a CRL reload or
\* the relay's own shutdown closes the socket.  A connection that ends before
\* its hello or attach is read never reaches the registry.
Break(c) ==
    /\ open[c] /\ pc[c] # "hello"
    /\ Shut({c})
    /\ UNCHANGED <<registryVars, sessionVars, pc, localVars, shutdownVars, sent>>

ShutdownStep(t) ==
    \/ BeginShutdown(t) \/ CloseDoomed(t) \/ FinishShutdown(t)
    \/ \E s \in SubControls : SkipGone(t, s)

PublisherStep(p) ==
    \/ ProveClaim(p) \/ FailClaim(p) \/ RefuseKilled(p) \/ RefuseOccupied(p)
    \/ Insert(p) \/ AckPublisher(p) \/ LoseControl(p) \/ Unregister(p)
    \/ ShutdownStep(p)

SubscriberStep(s) ==
    \/ FindSession(s) \/ RefuseSubscriber(s) \/ AddSubscriber(s)
    \/ TurnAway(s) \/ AckSubscriber(s) \/ LoseControl(s) \/ Release(s)

SubDataStep(d) ==
    \/ FindForData(d) \/ RefuseSubData(d) \/ AddPending(d)
    \/ TurnAwayData(d) \/ AckSubData(d) \/ RequestData(d) \/ AbandonSubData(d)

PubDataStep(q) == Claim(q) \/ AddStream(q) \/ EndSplice(q)

KillStep(k) == SeverPublisher(k) \/ ShutdownStep(k)

\* What the code does by itself: handlers run, timers fire.
System ==
    \/ \E p \in PubControls : PublisherStep(p)
    \/ \E s \in SubControls : SubscriberStep(s)
    \/ \E d \in SubData : SubDataStep(d)
    \/ \E q \in PubData : PubDataStep(q)
    \/ \E k \in Kills : KillStep(k)
    \/ \E t \in Closers : HardClose(t)
    \/ \E p \in PubControls, id \in ReqIDs : Expire(p, id)

\* What peers, the network and operators decide.
Environment ==
    \/ \E c \in Controls : GoSilent(c)
    \/ \E t \in Closers, s \in SubControls : Tell(t, s)
    \/ \E q \in PubData, p \in PubControls :
        \E n \in DOMAIN sent[p] : AttachPublisher(q, p, n)
    \/ \E k \in Kills, tag \in Tags : Kill(k, tag) \/ RefuseKill(k, tag)
    \/ \E c \in Conns : Break(c)

Next == System \/ Environment

Spec == Init /\ [][Next]_vars

\* Goroutines are scheduled, armed timers fire.  Tell is not fair: a write to
\* a subscriber that stopped reading may block until HardClose cuts it.  Nor is
\* EndSplice: a leg that stopped reading can hold a splice up (see Splice).
Fairness ==
    /\ \A p \in PubControls : WF_vars(PublisherStep(p))
    /\ \A s \in SubControls : WF_vars(SubscriberStep(s))
    /\ \A d \in SubData : WF_vars(SubDataStep(d))
    /\ \A q \in PubData : WF_vars(Claim(q) \/ AddStream(q))
    /\ \A k \in Kills : WF_vars(KillStep(k))
    /\ \A t \in Closers : WF_vars(HardClose(t))
    /\ \A p \in PubControls, id \in ReqIDs : WF_vars(Expire(p, id))

FairSpec == Spec /\ Fairness
=============================================================================
