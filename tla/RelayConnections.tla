-------------------------- MODULE RelayConnections --------------------------
(***************************************************************************)
(* Which sockets the relay holds and whose: connections.go, the accept     *)
(* loop and handleConn of relay.go, admin.go's reload-crl and mtls.go's    *)
(* RevocationSet.                                                          *)
(*                                                                         *)
(* Every accepted socket has a handler goroutine (pc); Run's goroutine     *)
(* accepts and, on the way out, closes everything.  A step is a critical   *)
(* section of connectionSet.mu, an atomic load or swap of the revocation   *)
(* set, or one close or write.  What a handler serves (a session, a        *)
(* stream, an operator) is the registry's business and not represented.    *)
(***************************************************************************)
EXTENDS Integers, FiniteSets

CONSTANTS
    Conns,          \* every socket that is ever accepted
    Admins,         \* those that open an admin connection and may reload
    Serials,
    SerialOf,       \* the serial of the certificate each socket presents
    MaxConnections, \* maxConnections
    MaxReloads,     \* bound on the reloads of one admin connection
    Unnamed,        \* the serial "" of a socket not yet authenticated
    Unreadable,     \* a revoked file that is missing or does not parse
    None

ASSUME ConnectionsAssumption ==
    /\ Admins \subseteq Conns
    /\ SerialOf \in [Conns -> Serials]
    /\ Unnamed \notin Serials /\ None \notin Serials /\ None # Unnamed
    /\ None \notin Conns
    /\ MaxConnections \in Nat /\ MaxReloads \in Nat

VARIABLES
    conns,      \* connectionSet.conns: each tracked socket's serial
    open,       \* sockets whose raw transport is open
    revoked,    \* RevocationSet
    reloadMu,   \* who holds server.reloadMu, or None
    loaded,     \* serials: the list a reload read
    evict,      \* sockets a reload untracked and has yet to close
    deferred,   \* whether a reload has to cut its own socket after its reply
    reloads,    \* reloads each admin connection has asked for
    pc,         \* where each socket's handler is
    relay,      \* where Run is
    crl         \* the file at -revoked-file

reloadVars == <<loaded, evict, deferred>>
vars == <<conns, open, revoked, reloadMu, reloadVars, reloads, pc, relay, crl>>

\* handleConn up to authenticate, serving, and the two halves of Close.
HandlerPCs == {"new", "handshaking", "verified", "serving", "leaving",
               "untracking", "gone"}
ReloadPCs == {"waiting", "loading", "replacing", "scanning", "evicting",
              "replying", "finishing", "forgetting", "unlocking"}
Locked == ReloadPCs \ {"waiting"}

TypeOK ==
    /\ conns \in [Conns -> Serials \cup {Unnamed, None}]
    /\ open \in [Conns -> BOOLEAN]
    /\ revoked \subseteq Serials
    /\ reloadMu \in Conns \cup {None}
    /\ loaded \in [Conns -> SUBSET Serials]
    /\ evict \in [Conns -> SUBSET Conns]
    /\ deferred \in [Conns -> BOOLEAN]
    /\ reloads \in [Conns -> 0..MaxReloads]
    /\ pc \in [Conns -> HandlerPCs \cup ReloadPCs]
    /\ relay \in {"up", "stopping", "down"}
    /\ crl \in (SUBSET Serials) \cup {Unreadable}

Init ==
    /\ conns = [c \in Conns |-> None]
    /\ open = [c \in Conns |-> FALSE]
    /\ revoked = {}
    /\ reloadMu = None
    /\ loaded = [c \in Conns |-> {}]
    /\ evict = [c \in Conns |-> {}]
    /\ deferred = [c \in Conns |-> FALSE]
    /\ reloads = [c \in Conns |-> 0]
    /\ pc = [c \in Conns |-> "new"]
    /\ relay = "up"
    /\ crl = {}

Tracked == {c \in Conns : conns[c] # None}
Goto(c, label) == pc' = [pc EXCEPT ![c] = label]
Cut(cs) == open' = [c \in Conns |-> open[c] /\ c \notin cs]

------------------------------------------------------------------------------
(* Plausible bugs: each is substituted for its original to see that a        *)
(* property notices.                                                         *)

\* authenticate trusts the check of the handshake.
AuthenticateUnchecked(c) ==
    /\ pc[c] = "verified"
    /\ IF conns[c] = None
       THEN Goto(c, "leaving") /\ UNCHANGED conns
       ELSE /\ conns' = [conns EXCEPT ![c] = SerialOf[c]]
            /\ Goto(c, "serving")
    /\ UNCHANGED <<open, revoked, reloadMu, reloadVars, reloads, relay, crl>>

\* finish runs as soon as the others are closed, not deferred to the reply.
FinishFirst(a) ==
    /\ pc[a] = "evicting" /\ evict[a] = {}
    /\ Cut(IF deferred[a] THEN {a} ELSE {})
    /\ conns' = [conns EXCEPT ![a] = IF deferred[a] THEN None ELSE @]
    /\ deferred' = [deferred EXCEPT ![a] = FALSE]
    /\ Goto(a, "replying")
    /\ UNCHANGED <<revoked, reloadMu, loaded, evict, reloads, relay, crl>>

\* The reply is written while evicted sockets are still open.
ReplyEarly(a) ==
    /\ pc[a] = "evicting"
    /\ Goto(a, "replying")
    /\ UNCHANGED <<conns, open, revoked, reloadMu, reloadVars, reloads, relay, crl>>

\* finish is never run.
ForgetFinish(a) ==
    /\ pc[a] = "replying"
    /\ Goto(a, "unlocking")
    /\ UNCHANGED <<conns, open, revoked, reloadMu, reloadVars, reloads, relay, crl>>

\* A failed load returns without the deferred unlock.
LoadKeepsLock(a) ==
    /\ pc[a] = "loading"
    /\ IF crl = Unreadable
       THEN Goto(a, "serving") /\ UNCHANGED loaded
       ELSE /\ loaded' = [loaded EXCEPT ![a] = crl]
            /\ Goto(a, "replacing")
    /\ UNCHANGED <<conns, open, revoked, reloadMu, evict, deferred, reloads, relay, crl>>

\* Close leaves the socket in the set.
UntrackNothing(c) ==
    /\ pc[c] = "untracking"
    /\ Goto(c, "gone")
    /\ UNCHANGED <<conns, open, revoked, reloadMu, reloadVars, reloads, relay, crl>>

\* Reloads are not serialized.
LockNothing(a) ==
    /\ pc[a] = "waiting"
    /\ reloadMu' = a
    /\ Goto(a, "loading")
    /\ UNCHANGED <<conns, open, revoked, reloadVars, reloads, relay, crl>>

\* The accept loop outlives closeAll.
AcceptWheneverOpen(c) ==
    /\ pc[c] = "new"
    /\ Cardinality(Tracked) < MaxConnections
    /\ conns' = [conns EXCEPT ![c] = Unnamed]
    /\ open' = [open EXCEPT ![c] = TRUE]
    /\ Goto(c, "handshaking")
    /\ UNCHANGED <<revoked, reloadMu, reloadVars, reloads, relay, crl>>

------------------------------------------------------------------------------
(* Run's accept loop, and handleConn up to the dispatch *)

Accept(c) ==
    /\ pc[c] = "new" /\ relay # "down"
    /\ Cardinality(Tracked) < MaxConnections
    /\ conns' = [conns EXCEPT ![c] = Unnamed]
    /\ open' = [open EXCEPT ![c] = TRUE]
    /\ Goto(c, "handshaking")
    /\ UNCHANGED <<revoked, reloadMu, reloadVars, reloads, relay, crl>>

\* A socket over the limit is closed before anything is read from it.
TurnAway(c) ==
    /\ pc[c] = "new" /\ relay # "down"
    /\ Cardinality(Tracked) >= MaxConnections
    /\ Goto(c, "gone")
    /\ UNCHANGED <<conns, open, revoked, reloadMu, reloadVars, reloads, relay, crl>>

\* The TLS handshake's look at the revocation set (verifyNotRevoked).
Handshake(c) ==
    /\ pc[c] = "handshaking"
    /\ Goto(c, IF open[c] /\ SerialOf[c] \notin revoked THEN "verified" ELSE "leaving")
    /\ UNCHANGED <<conns, open, revoked, reloadMu, reloadVars, reloads, relay, crl>>

Authenticate(c) ==
    /\ pc[c] = "verified"
    /\ IF conns[c] = None \/ SerialOf[c] \in revoked
       THEN Goto(c, "leaving") /\ UNCHANGED conns
       ELSE /\ conns' = [conns EXCEPT ![c] = SerialOf[c]]
            /\ Goto(c, "serving")
    /\ UNCHANGED <<open, revoked, reloadMu, reloadVars, reloads, relay, crl>>

\* The handler notices that its socket is gone.
Notice(c) ==
    /\ pc[c] = "serving" /\ ~open[c]
    /\ Goto(c, "leaving")
    /\ UNCHANGED <<conns, open, revoked, reloadMu, reloadVars, reloads, relay, crl>>

\* trackedConn.Close: the raw close, then the removal under the lock.
Leave(c) ==
    /\ pc[c] = "leaving"
    /\ Cut({c})
    /\ Goto(c, "untracking")
    /\ UNCHANGED <<conns, revoked, reloadMu, reloadVars, reloads, relay, crl>>

Untrack(c) ==
    /\ pc[c] = "untracking"
    /\ conns' = [conns EXCEPT ![c] = None]
    /\ Goto(c, "gone")
    /\ UNCHANGED <<open, revoked, reloadMu, reloadVars, reloads, relay, crl>>

------------------------------------------------------------------------------
(* serveReloadCRL *)

AskReload(a) ==
    /\ a \in Admins /\ pc[a] = "serving" /\ open[a]
    /\ reloads[a] < MaxReloads
    /\ reloads' = [reloads EXCEPT ![a] = @ + 1]
    /\ Goto(a, "waiting")
    /\ UNCHANGED <<conns, open, revoked, reloadMu, reloadVars, relay, crl>>

Lock(a) ==
    /\ pc[a] = "waiting" /\ reloadMu = None
    /\ reloadMu' = a
    /\ Goto(a, "loading")
    /\ UNCHANGED <<conns, open, revoked, reloadVars, reloads, relay, crl>>

\* A list that cannot be loaded is answered, and the old one stays in force.
Load(a) ==
    /\ pc[a] = "loading"
    /\ IF crl = Unreadable
       THEN Goto(a, "replying") /\ UNCHANGED loaded
       ELSE /\ loaded' = [loaded EXCEPT ![a] = crl]
            /\ Goto(a, "replacing")
    /\ UNCHANGED <<conns, open, revoked, reloadMu, evict, deferred, reloads, relay, crl>>

Replace(a) ==
    /\ pc[a] = "replacing"
    /\ revoked' = loaded[a]
    /\ Goto(a, "scanning")
    /\ UNCHANGED <<conns, open, reloadMu, reloadVars, reloads, relay, crl>>

\* closeMatchingAfterReply, under the lock authenticate takes.
Scan(a) ==
    /\ pc[a] = "scanning"
    /\ evict' = [evict EXCEPT ![a] = {c \in Conns \ {a} : conns[c] \in revoked}]
    /\ deferred' = [deferred EXCEPT ![a] = conns[a] \in revoked]
    /\ conns' = [c \in Conns |-> IF c \in evict'[a] THEN None ELSE conns[c]]
    /\ Goto(a, "evicting")
    /\ UNCHANGED <<open, revoked, reloadMu, loaded, reloads, relay, crl>>

CloseEvicted(a, c) ==
    /\ pc[a] = "evicting" /\ c \in evict[a]
    /\ Cut({c})
    /\ evict' = [evict EXCEPT ![a] = @ \ {c}]
    /\ UNCHANGED <<conns, revoked, reloadMu, loaded, deferred, reloads, pc, relay, crl>>

EvictedAll(a) ==
    /\ pc[a] = "evicting" /\ evict[a] = {}
    /\ Goto(a, "replying")
    /\ UNCHANGED <<conns, open, revoked, reloadMu, reloadVars, reloads, relay, crl>>

\* The write is bounded by adminReplyTimeout; whether it succeeded or not,
\* the deferred finish and then the deferred unlock run.
Reply(a) ==
    /\ pc[a] = "replying"
    /\ Goto(a, IF deferred[a] THEN "finishing" ELSE "unlocking")
    /\ UNCHANGED <<conns, open, revoked, reloadMu, reloadVars, reloads, relay, crl>>

CutDeferred(a) ==
    /\ pc[a] = "finishing"
    /\ Cut({a})
    /\ Goto(a, "forgetting")
    /\ UNCHANGED <<conns, revoked, reloadMu, reloadVars, reloads, relay, crl>>

Forget(a) ==
    /\ pc[a] = "forgetting"
    /\ conns' = [conns EXCEPT ![a] = None]
    /\ deferred' = [deferred EXCEPT ![a] = FALSE]
    /\ Goto(a, "unlocking")
    /\ UNCHANGED <<open, revoked, reloadMu, loaded, evict, reloads, relay, crl>>

Unlock(a) ==
    /\ pc[a] = "unlocking"
    /\ reloadMu' = None
    /\ Goto(a, "serving")
    /\ UNCHANGED <<conns, open, revoked, reloadVars, reloads, relay, crl>>

------------------------------------------------------------------------------
(* Run's own end, and what peers, operators and the CA do *)

Stop ==
    /\ relay = "up"
    /\ relay' = "stopping"
    /\ UNCHANGED <<conns, open, revoked, reloadMu, reloadVars, reloads, pc, crl>>

\* closeAll, deferred by the goroutine that ran the accept loop.
CloseAll ==
    /\ relay = "stopping"
    /\ Cut(Tracked)
    /\ conns' = [c \in Conns |-> None]
    /\ relay' = "down"
    /\ UNCHANGED <<revoked, reloadMu, reloadVars, reloads, pc, crl>>

\* The peer hangs up, the network fails, or ctx's AfterFunc closes the socket.
Break(c) ==
    /\ open[c]
    /\ Cut({c})
    /\ UNCHANGED <<conns, revoked, reloadMu, reloadVars, reloads, pc, relay, crl>>

\* A deadline passes, or the handler has nothing more to do.
Finish(c) ==
    /\ pc[c] \in {"handshaking", "verified", "serving"} /\ open[c]
    /\ Goto(c, "leaving")
    /\ UNCHANGED <<conns, open, revoked, reloadMu, reloadVars, reloads, relay, crl>>

relayVars == <<conns, open, revoked, reloadMu, reloadVars, reloads, pc, relay>>

\* The file is replaced by somebody else; see CertificateAuthority.
FileChanges ==
    /\ crl' \in (SUBSET Serials) \cup {Unreadable}
    /\ UNCHANGED relayVars

HandlerStep(c) ==
    \/ Handshake(c) \/ Authenticate(c) \/ Notice(c) \/ Leave(c) \/ Untrack(c)

ReloadStep(a) ==
    \/ Load(a) \/ Replace(a) \/ Scan(a) \/ EvictedAll(a)
    \/ \E c \in Conns : CloseEvicted(a, c)
    \/ Reply(a) \/ CutDeferred(a) \/ Forget(a) \/ Unlock(a)

RelayNext ==
    \/ \E c \in Conns : HandlerStep(c) \/ Accept(c) \/ TurnAway(c) \/ Break(c) \/ Finish(c)
    \/ \E a \in Conns : AskReload(a) \/ Lock(a) \/ ReloadStep(a)
    \/ Stop \/ CloseAll

Next == RelayNext \/ FileChanges

Spec == Init /\ [][Next]_vars

\* Goroutines are scheduled; a mutex that stays free is taken by whoever waits
\* for it; a reply is written or runs into adminReplyTimeout.
RelayFairness ==
    /\ \A c \in Conns : WF_vars(HandlerStep(c))
    /\ \A a \in Conns : WF_vars(ReloadStep(a)) /\ WF_vars(Lock(a))

FairSpec == Spec /\ RelayFairness
=============================================================================
