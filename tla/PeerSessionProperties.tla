----------------------- MODULE PeerSessionProperties -----------------------
(***************************************************************************)
(* What share and listen owe the person who started them: a session that   *)
(* survives whatever a redial can cure, and ends for what it cannot.       *)
(***************************************************************************)
EXTENDS PeerSession

\* The relay can be reached, has not barred the peer, and knows a session of
\* its mode and ports.
Welcome == path /\ barred = "no" /\ (cfg.publishes \/ published = "same")

\* The relay holds a live entry only for a publisher that is taking it up or
\* serving it: every way out of Serve's session hangs up, so that the next
\* attempt never meets an entry of its own that no timeout would free.
PeerInv ==
    /\ PeerTypeOK
    /\ slot = "mine" =>
        /\ cfg.publishes /\ control = "up"
        /\ serve \in {"greeting", "notifying", "running"}
    /\ control # "none" => serve \in {"greeting", "notifying", "running"}

\* Whatever Serve has failed with, short of an error that is permanent, it ends
\* up in a session again once the relay is there for it, a severed publisher's
\* dead entry included (peer/reconnect.go:20-25, 204-207); it returns meanwhile
\* only for its caller.  A publisher may be put off by a request that overtakes
\* its ack, and for as long as that happens on every attempt.
ComesBack ==
    LET Failed == serve = "deciding" /\ (connected \/ cfg.wait) /\ err \notin Permanent
        Asked == serve = "done" /\ ended \in {"canceled", "notready"}
    IN  []((Failed /\ []Welcome)
            => (<>(serve = "running" \/ Asked) \/ (cfg.publishes /\ []<>misread)))

\* Serve calls back and returns as ServeCalls says: ready once and again only
\* after a disconnect, an error only where it is promised, and always when its
\* context ends (peer/reconnect.go:46-78).
Calls == INSTANCE ServeCalls
KeepsItsCalls == Calls!CallsSpec

\* Why the order is kept: what Serve's locals say of its last callback.
CallsInv ==
    /\ PeerTypeOK
    /\ ended = "nil" <=> serve # "done"
    /\ serve # "done" => (connected <=> told # "none")
    /\ serve \in {"connecting", "greeting", "notifying", "waiting"} => told # "ready"
    /\ serve = "running" => connected
    /\ err = "canceled" => ctx = "canceled"
    /\ serve = "deciding" => err # "nil" /\ err # "notready"
    /\ serve = "deciding" /\ ~connected => err # "closed"

\* A kill outlasts the connection it closed: the publisher reads the refusal
\* and exits instead of reconnecting (relay/registry.go:179-183), unless the
\* relay restarts and forgets.
KillIsFinal ==
    <>[]path =>
        [](barred = "killed" /\ serve = "running"
            => <>(serve = "done" \/ barred # "killed"))
=============================================================================
