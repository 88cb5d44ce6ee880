----------------------- MODULE RelayRegistryProperties -----------------------
(***************************************************************************)
(* What the relay's registry owes its peers.                               *)
(***************************************************************************)
EXTENDS RelayRegistry

Holding == {"acking", "serving", "unregistering"}

(***************************************************************************)
(* Safety                                                                  *)
(***************************************************************************)

\* unregister deletes by SessionID (registry.go:209-212) without asking whose
\* session it finds there.  This is safe because a handler between Insert and
\* Unregister always finds its own session or, after a kill, none: nobody else
\* can have taken the slot in the meantime.
DeletesOnlyItsOwn ==
    \A p \in PubControls :
        pc[p] \in Holding =>
            \/ registry[SidOf[p]] = p
            \/ SidOf[p] \in killed /\ registry[SidOf[p]] = None

\* A session that can still be found is alive: it is held by the handler of its
\* own SessionID and admits peers.  Lookups never return a dead session.
ListedIsLive ==
    \A sid \in SessionIDs :
        LET p == registry[sid] IN
        p # None => SidOf[p] = sid /\ pc[p] \in Holding /\ ~closed[p]

\* A kill outlasts the connection it closed: a killed SessionID is never in
\* the registry again (registry.go:63-74).
KilledStaysOut == \A sid \in killed : registry[sid] = None

\* A kill works on a session it found listed: one that had registered, and
\* whose SessionID it banned.
KillsNameBanned ==
    \A k \in Kills :
        sess[k] # None =>
            /\ SidOf[sess[k]] \in killed
            /\ pc[sess[k]] \notin {"hello", "claimed"}

\* A session closes only after it was registered.
NewIsOpen ==
    \A p \in PubControls : pc[p] \in {"hello", "claimed"} => ~closed[p]

\* The inductive invariant of the slots.
SlotInv ==
    /\ DeletesOnlyItsOwn /\ ListedIsLive /\ KilledStaysOut
    /\ KillsNameBanned /\ NewIsOpen

\* All locals are set before they are used, and all slots are in order.
RegistryInv == TypeOK /\ SlotInv

\* The "airtight" claim of session.shutdown (session.go:256-260): a subscriber
\* on a closed session whose connection is still up is on some thread's list
\* to be notified, or its own handler is already leaving.
NobodyLeftBehind ==
    \A p \in PubControls : \A s \in subs[p] :
        closed[p] /\ open[s] =>
            \/ \E t \in Closers : sess[t] = p /\ s \in farewell[t]
            \/ pc[s] = "releasing"

\* An attached subscriber's handler is the one that will detach it.
SubsAttached ==
    \A p \in PubControls : \A s \in subs[p] :
        sess[s] = p /\ pc[s] \in {"acking", "serving", "releasing"}

IdleKillsHaveNone == \A k \in Kills : pc[k] = "idle" => sess[k] = None

ClosedIsEmpty ==
    \A p \in PubControls : closed[p] => pending[p] = [i \in ReqIDs |-> None]

\* The inductive invariant of the shutdown.
ShutdownInv == NobodyLeftBehind /\ SubsAttached /\ IdleKillsHaveNone /\ ClosedIsEmpty

\* A session that lost its place in the registry has somebody who will shut it
\* down, so that its subscribers and pending connections are not forgotten.
UnlistedIsBeingShut ==
    \A p \in PubControls :
        registry[SidOf[p]] # p /\ ~closed[p] =>
            \/ pc[p] \in {"hello", "claimed", "unregistering", "shutdown"}
            \/ subs[p] = {} /\ Held(p) = {}
            \/ \E k \in Kills : sess[k] = p /\ pc[k] \in {"severing", "shutdown"}

\* While its own handler still serves it, the one to shut it down is a kill.
KillWillShut ==
    \A p \in PubControls :
        registry[SidOf[p]] # p /\ ~closed[p] /\ pc[p] \in {"acking", "serving"} =>
            \E k \in Kills : sess[k] = p /\ pc[k] \in {"severing", "shutdown"}

\* A handler or kill past beginShutdown left the session closed, and a kill past
\* the severing left the publisher's connection closed.
ShutWhenPast ==
    /\ \A t \in Closers : pc[t] \in {"closing", "notifying"} => closed[sess[t]]
    /\ \A k \in Kills :
        /\ pc[k] = "replied" => closed[sess[k]]
        /\ pc[k] \in {"shutdown", "closing", "notifying", "replied"} => ~open[sess[k]]

\* Nobody works on a session that was never registered.
NeverRegistered ==
    \A p \in PubControls :
        pc[p] \in {"hello", "claimed", "done"} /\ ~closed[p] =>
            /\ subs[p] = {} /\ Held(p) = {}
            /\ registry[SidOf[p]] # p
            /\ \A t \in Threads : sess[t] = p => t = p

\* The inductive invariant of the session's end.
EndInv == KillWillShut /\ ShutWhenPast /\ NeverRegistered

Owners(d) ==
    {x \in {"pending"} \X PubControls \X ReqIDs : pending[x[2]][x[3]] = d}
    \cup {<<"doomed", t>> : t \in {x \in Closers : d \in doomed[x]}}
    \cup {<<"leg", q>> : q \in {x \in PubData : leg[x] = d}}

\* Of the timer, the publisher's claim, a failed handler and the shutdown, one
\* at most comes to own a waiting subscriber connection; and while it is open
\* and waits, one does (session.go:197-223).
OwnedByOne ==
    \A d \in SubData :
        /\ Cardinality(Owners(d)) <= 1
        /\ pc[d] = "parked" /\ open[d] => Owners(d) # {}

Waiting == {"acking", "requesting", "parked"}

\* An entry of pending is kept for a handler that waits, under its request id.
PendingWaits ==
    \A p \in PubControls, i \in ReqIDs :
        pending[p][i] # None =>
            /\ pc[pending[p][i]] \in Waiting
            /\ sess[pending[p][i]] = p /\ req[pending[p][i]] = i

\* What a shutdown took is its own, and no longer pending.
DoomedIsTaken ==
    \A t \in Closers :
        /\ doomed[t] # {} => pc[t] = "closing"
        /\ \A d \in doomed[t] :
            /\ req[d] # None
            /\ pending[sess[d]][req[d]] # d
            /\ \A u \in Closers : d \in doomed[u] => t = u

\* What a publisher's claim returned is its own: neither pending, nor taken by
\* a shutdown, nor by another claim.
LegIsTaken ==
    \A q \in PubData :
        leg[q] # None =>
            /\ pc[q] \in {"claimed", "splicing", "done"}
            /\ req[leg[q]] # None
            /\ pending[sess[leg[q]]][req[leg[q]]] # leg[q]
            /\ \A t \in Closers : leg[q] \notin doomed[t]
            /\ \A r \in PubData : leg[r] = leg[q] => q = r

\* The ids a session handed out are below its counter, each given once.
IdsAreFresh ==
    \A d \in SubData :
        req[d] # None =>
            /\ pc[d] \in Waiting \cup {"done"}
            /\ sess[d] # None /\ req[d] < nextReq[sess[d]]
            /\ \A e \in SubData : sess[e] = sess[d] /\ req[e] = req[d] => d = e

\* A connection that waits and is open has an owner.
WaitingIsOwned ==
    \A d \in SubData :
        pc[d] \in Waiting /\ open[d] =>
            \/ pending[sess[d]][req[d]] = d
            \/ \E t \in Closers : d \in doomed[t]
            \/ \E q \in PubData : leg[q] = d

\* A publisher data connection only ever works on a session published with its
\* own certificate, even when it answers a request of an earlier registration;
\* the subscriber connection it claims is that session's, under the request id
\* it answers (registry.go:417-424).
PairedInSession ==
    \A q \in PubData :
        /\ sess[q] # None => CertOf[q] = CertOf[sess[q]]
        /\ leg[q] # None => sess[leg[q]] = sess[q] /\ req[leg[q]] = req[q]

\* A splice that runs on a live session is on the operator's list, and the list
\* holds nothing else (session.go:67-72).
StreamsAreSplices ==
    \A p \in PubControls :
        streams[p] = {req[q] : q \in {x \in PubData : pc[x] = "splicing" /\ sess[x] = p}}

\* The inductive invariant of the pairing.
PairingInv ==
    /\ PendingWaits /\ DoomedIsTaken /\ LegIsTaken /\ IdsAreFresh
    /\ WaitingIsOwned /\ PairedInSession /\ StreamsAreSplices

\* subscriberCerts counts the attached controls of each certificate exactly: a
\* drift would refuse an attached subscriber's data, or admit a stranger's.
CertsCountSubscribers ==
    \A p \in PubControls, c \in Certs :
        certs[p][c] = Cardinality({s \in subs[p] : CertOf[s] = c})

\* The handlers that will detach a subscriber are those of attached ones.
HandlersAttached ==
    \A s \in SubControls :
        pc[s] \in {"acking", "serving", "releasing"} => s \in subs[sess[s]]

\* The inductive invariant of the counts.
CertInv == CertsCountSubscribers /\ HandlersAttached

\* When the operator reads "killed" the session is over: banned, closed to
\* newcomers, its publisher's connection closed (registry.go:334-337).
KilledWhenRead ==
    \A k \in Kills :
        pc[k] = "replied" =>
            /\ SidOf[sess[k]] \in killed
            /\ closed[sess[k]]
            /\ ~open[sess[k]]

(***************************************************************************)
(* Action properties                                                       *)
(***************************************************************************)

\* A closed session admits nothing: no subscriber, no pending connection and
\* no stream joins it, whoever looked it up before it closed.
ClosedAdmitsNothing ==
    [][\A p \in PubControls :
        closed[p] => /\ closed'[p]
                     /\ subs'[p] \subseteq subs[p]
                     /\ streams'[p] \subseteq streams[p]
                     /\ pending'[p] = pending[p]]_vars

(***************************************************************************)
(* Refinement                                                              *)
(***************************************************************************)
Slot == [sid \in SessionIDs |-> IF sid \in killed THEN "banned" ELSE registry[sid]]

Slots == INSTANCE SessionSlots
            WITH Publishers <- PubControls, Free <- None, Banned <- "banned",
                 slot <- Slot

\* The registry implements exclusive slots: a slot is handed over only when it
\* is free, given back only by its holder, and a ban is for good.
ImplementsSlots == Slots!Spec

(***************************************************************************)
(* Liveness                                                                *)
(***************************************************************************)

\* No subscriber waits for ever on a dead session: it is told or cut, and its
\* handler lets go, even when the pass that tells it is held up by another
\* subscriber that has stopped reading.
SubscribersLeaveDeadSession ==
    \A p \in PubControls : closed[p] ~> subs[p] = {}

\* A publisher whose connection is lost gives its slot back, so that its
\* reconnect is not refused for ever with AckPublisherExists.
LostPublisherFreesSlot ==
    \A p \in PubControls :
        (registry[SidOf[p]] = p /\ ~open[p]) ~> (registry[SidOf[p]] # p)

\* A waiting connection is paired or closed, never left waiting.
PendingIsResolved ==
    \A d \in SubData :
        (pc[d] = "parked") ~> (~open[d] \/ \E q \in PubData : leg[q] = d)

(***************************************************************************)
(* What the repository says and the code does not do                       *)
(***************************************************************************)

\* hello.go:164-167: the ack is relay's response to a Hello.  The first frame a
\* peer reads after its hello is therefore its ack.  (Control frames and acks
\* share their first byte: read as an ack, ControlSessionClosed is
\* AckPortsMismatch and ControlRequestData is AckPublisherExists.)
ControlsReadAckFirst ==
    \A c \in Controls : sent[c] # <<>> => sent[c][1].kind = "ack"

\* attach.go:21-23: a publisher's "RequestID identifies which" request the
\* connection was opened for, so the port it dialed is the port asked for.
PairedPortAgrees ==
    \A q \in PubData :
        leg[q] # None => sent[ask[q][1]][ask[q][2]].port = PortOf[leg[q]]
=============================================================================
