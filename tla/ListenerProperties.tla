------------------------- MODULE ListenerProperties -------------------------
(***************************************************************************)
(* What listen owes its user: capacity that comes back, a reason that is   *)
(* the reason, and nothing left open.                                      *)
(***************************************************************************)
EXTENDS Listener

\* A slot is taken for each connection that is being forwarded and for no
\* other, up to MaxTunnels (listen.go:291-305).
SlotsAreHeld ==
    /\ ListenTypeOK
    /\ slots <= MaxTunnels
    /\ slots = Cardinality({c \in Clients : client[c] \in Forwarding})
    /\ \A c \in Clients :
        client[c] = "held" <=> \E p \in Ports : held[p] = c

\* Why it does: a loop that holds a connection is the only one that does.
SlotInv ==
    /\ SlotsAreHeld
    /\ \A p, q \in Ports : held[p] = held[q] /\ held[p] # None => p = q

\* The accept error is a symptom, never the cause (listen.go:118-124): unless a
\* listener failed by itself, listen ends with what ended the session, or with
\* the cancellation of its caller.
EndsWithTheCause ==
    main \in {"closing", "gone"} =>
        \/ \E p \in Ports : lsn[p] = "failed"
        \/ result = "canceled" /\ caller
        \/ result = ended /\ result # "canceled"

\* Why it does: the goroutine of Serve reports before it cancels, so a context
\* that ended without the caller leaves an error to be sampled.
CauseInv ==
    /\ ListenTypeOK
    /\ EndsWithTheCause
    /\ ended = "nil" => tail = "serving"
    /\ ended = "canceled" => caller \/ main = "gone"
    /\ caller => ctx = "canceled"
    /\ ctx = "canceled" => caller \/ tail = "over" \/ main = "gone"
    /\ serveErr # "nil" => serveErr = ended
    /\ tail # "serving" => serveErr = ended \/ main \in {"closing", "gone"}
    /\ \A p \in Ports :
        /\ loop[p] = "returned" => lsn[p] # "open"
        /\ lsn[p] = "closed" => ctx = "canceled"
    /\ main # "waiting" => \E p \in Ports : loop[p] = "returned"
    /\ main \in {"closing", "gone"} => result # "nil"
    /\ main = "explaining" => caller \/ \E p \in Ports : lsn[p] = "failed"

\* "serveErr holds the better answer when the session is what ended"
\* (listen.go:119): nobody is told of a cancellation the caller did not ask for.
\* VIOLATED: a listener fails by itself, ShutdownErr samples serveErr, and only
\* then does the session give up and cancel.
CancelIsTheCallers == result = "canceled" => caller

\* A relay that neither takes what was written to the tunnel nor hangs up.
Held(c) == S!Stalled(c, "tunnel")

\* Once its context ends, whoever ended it, runTCP returns, every local
\* connection is closed, and no tunnel and no slot is left behind but those that
\* the relay holds on to: forward closes the local side (listen.go:319), which
\* frees every copy but one blocked in a write to the tunnel.
NothingIsLeft ==
    ctx = "canceled" ~>
        /\ main = "gone"
        /\ \A c \in Clients :
            /\ ~S!Holds(c, "local")
            /\ client[c] \in Forwarding \/ S!Holds(c, "tunnel") => Held(c)
=============================================================================
