-------------------------- MODULE ShareProperties --------------------------
(***************************************************************************)
(* What share owes the person who started it, beyond its session: tunnels  *)
(* within the limit, whatever the session goes through, and nothing said   *)
(* or left behind by a shutdown.                                           *)
(***************************************************************************)
EXTENDS Share

\* A slot is taken for each request that is being fulfilled and no other.
SlotsAreTaken ==
    /\ slots <= MaxTunnels
    /\ slots = Cardinality({q \in Requests : fulfilling[q] # "idle"})

\* What is open belongs to a request that is still being fulfilled: every
\* return of fulfill has closed what it opened.
NothingLoose ==
    \A q \in Requests :
        /\ S!Holds(q, "tunnel") => fulfilling[q] \in {"dialing", "splicing"}
        /\ S!Holds(q, "local") => fulfilling[q] = "splicing"

\* "Normal shutdown is not reported" (share.go:55): what failed because the
\* context ended is not passed to OnForwardError.
ShutdownIsQuiet == \A q \in Requests : reported[q] => fault[q] = "own"

\* Whatever Serve goes through meanwhile, requests are fulfilled within the
\* limit, leave nothing open and report only failures of their own
\* (share.go:120-147, 165-187).
ShareInv ==
    /\ ShareTypeOK
    /\ SlotsAreTaken
    /\ NothingLoose
    /\ ShutdownIsQuiet
    /\ \A q \in Requests :
        /\ q \in asked => fulfilling[q] = "idle"
        /\ fault[q] # "none" => fulfilling[q] \in {"failed", "releasing"}
        /\ fulfilling[q] = "failed" => fault[q] # "none"
        /\ fault[q] = "shutdown" => ~Live
        /\ fulfilling[q] # "splicing" => copy[q] = S!NoSplice
        /\ fulfilling[q] = "splicing" =>
            \A c \in S!Sides : copy[q][c] = "over" => ~S!Holds(q, c)

\* A service that neither reads what was written to it nor hangs up.
Held(q) == S!Stalled(q, "local")

\* Once the context ends, or the relay has refused the publisher for good,
\* runTCP returns, every tunnel is closed, and no connection and no slot is left
\* behind but those that a service holds on to: share closes the tunnel
\* (share.go:175), which frees every copy but one blocked in a write to the
\* service.
NothingOutlivesRun ==
    (ctx = "canceled" \/ serve = "done") ~>
        /\ returned
        /\ \A q \in Requests :
            /\ ~S!Holds(q, "tunnel")
            /\ fulfilling[q] = "idle" \/ Held(q)
=============================================================================
