-------------------------------- MODULE Share --------------------------------
(***************************************************************************)
(* The publisher's process: share.go's runTCP, which runs Serve, and one   *)
(* goroutine for each request of the relay that it fulfills.               *)
(*                                                                         *)
(* Serve is PeerSession, and Handle a step of its goroutine.  A request    *)
(* outlives the control connection it came over; runTCP's context, which   *)
(* ends with the caller's or when runTCP returns, closes its tunnel.       *)
(***************************************************************************)
EXTENDS PeerSessionProperties, FiniteSets

CONSTANTS
    Requests,   \* the requests that are on their way or fulfilled at a time
    MaxTunnels  \* peer.MaxTunnels

ASSUME ShareAssumption == IsFiniteSet(Requests) /\ MaxTunnels \in Nat \ {0}

VARIABLES
    asked,      \* the requests written on the control connection, unread
    fulfilling, \* where fulfill is, for each request
    slots,      \* len(slots)
    conn,       \* its "tunnel", and its "local" connection to the service
    copy,       \* the two halves of its splice
    fault,      \* why fulfill failed: for a reason of its own or the context
    reported,   \* whether OnForwardError was told
    returned    \* runTCP returned, which cancels its context

forwardVars == <<conn, copy>>
requestVars == <<fulfilling, slots, forwardVars, fault, reported>>
shareVars == <<peerVars, asked, requestVars, returned>>

S == INSTANCE Splice WITH Splices <- Requests

ShareTypeOK ==
    /\ asked \subseteq Requests
    /\ fulfilling \in [Requests -> {"idle", "opening", "dialing", "splicing",
                                    "failed", "releasing"}]
    /\ slots \in Int
    /\ S!SpliceTypeOK
    /\ fault \in [Requests -> {"none", "own", "shutdown"}]
    /\ reported \in [Requests -> BOOLEAN]
    /\ returned \in BOOLEAN

ShareInit ==
    /\ PeerInit
    /\ asked = {} /\ slots = 0 /\ returned = FALSE
    /\ fulfilling = [q \in Requests |-> "idle"]
    /\ S!SpliceInit
    /\ fault = [q \in Requests |-> "none"]
    /\ reported = [q \in Requests |-> FALSE]

\* runTCP's own context.
Live == ctx = "live" /\ ~returned

------------------------------------------------------------------------------
(* Plausible bugs: each is substituted for its original to see that a        *)
(* property notices.                                                         *)

\* The failures of a shutdown are reported like any other.
ReportAlways(q) ==
    /\ fulfilling[q] = "failed"
    /\ reported' = [reported EXCEPT ![q] = TRUE]
    /\ fulfilling' = [fulfilling EXCEPT ![q] = "releasing"]
    /\ UNCHANGED <<peerVars, asked, slots, forwardVars, fault, returned>>

\* Nothing closes the tunnel when the context ends.
TunnelStaysOpen(q) == FALSE /\ UNCHANGED shareVars

------------------------------------------------------------------------------
(* The control connection and Handle *)

\* What Serve, the relay and the network do.  Requests that nobody has read
\* are lost with their connection.
PeerMoves ==
    /\ PeerNext
    /\ asked' = IF control' = "none" THEN {} ELSE asked
    /\ UNCHANGED <<requestVars, returned>>

\* A subscriber attached, and the relay asks for its other half.
Ask(q) ==
    /\ slot = "mine" /\ fulfilling[q] = "idle" /\ q \notin asked
    /\ asked' = asked \cup {q}
    /\ UNCHANGED <<peerVars, requestVars, returned>>

\* The loop may have read the frame just before its context ended.  A request
\* over the limit is only reported, and the relay expires it.
Handle(q) ==
    /\ serve = "running" /\ q \in asked
    /\ asked' = asked \ {q}
    /\ \/ /\ slots < MaxTunnels
          /\ slots' = slots + 1
          /\ fulfilling' = [fulfilling EXCEPT ![q] = "opening"]
       \/ slots = MaxTunnels /\ UNCHANGED <<slots, fulfilling>>
    /\ UNCHANGED <<peerVars, forwardVars, fault, reported, returned>>

------------------------------------------------------------------------------
(* fulfill, and the goroutine around it *)

Goes(q, to) == fulfilling' = [fulfilling EXCEPT ![q] = to]

FailForward(q) ==
    /\ Goes(q, "failed")
    /\ fault' = [fault EXCEPT ![q] = IF Live THEN "own" ELSE "shutdown"]

\* OpenTunnel closes its own connection when it fails or the context ends.
OpensTunnel(q) ==
    /\ fulfilling[q] = "opening" /\ Live /\ path /\ barred # "revoked"
    /\ S!Obtain(q, "tunnel")
    /\ Goes(q, "dialing")
    /\ UNCHANGED <<peerVars, asked, slots, copy, fault, reported, returned>>

\* Also for an index outside the range, or a request the relay has expired.
TunnelFails(q) ==
    /\ fulfilling[q] = "opening"
    /\ FailForward(q)
    /\ UNCHANGED <<peerVars, asked, slots, forwardVars, reported, returned>>

DialsService(q) ==
    /\ fulfilling[q] = "dialing" /\ Live
    /\ S!Obtain(q, "local") /\ S!Start(q)
    /\ Goes(q, "splicing")
    /\ UNCHANGED <<peerVars, asked, slots, fault, reported, returned>>

ServiceFails(q) ==
    /\ fulfilling[q] = "dialing"
    /\ S!Shut(q, "tunnel")
    /\ FailForward(q)
    /\ UNCHANGED <<peerVars, asked, slots, copy, reported, returned>>

\* What the subscriber behind the tunnel and the local service do.
OthersMove(q) ==
    /\ S!FarEnds(q)
    /\ UNCHANGED <<peerVars, asked, fulfilling, slots, fault, reported, returned>>

CopyEnds(q) ==
    /\ \E s \in S!Sides : S!CopyFails(q, s)
    /\ UNCHANGED <<peerVars, asked, fulfilling, slots, fault, reported, returned>>

SpliceReturns(q) ==
    /\ fulfilling[q] = "splicing" /\ S!Joined(q)
    /\ S!Shut(q, "tunnel")
    /\ Goes(q, "releasing")
    /\ UNCHANGED <<peerVars, asked, slots, copy, fault, reported, returned>>

\* reportForwardError.
ReportForward(q) ==
    /\ fulfilling[q] = "failed"
    /\ reported' = [reported EXCEPT ![q] = Live]
    /\ Goes(q, "releasing")
    /\ UNCHANGED <<peerVars, asked, slots, forwardVars, fault, returned>>

ReleaseSlot(q) ==
    /\ fulfilling[q] = "releasing"
    /\ slots' = slots - 1
    /\ fault' = [fault EXCEPT ![q] = "none"]
    /\ reported' = [reported EXCEPT ![q] = FALSE]
    /\ Goes(q, "idle")
    /\ UNCHANGED <<peerVars, asked, forwardVars, returned>>

\* fulfill's AfterFunc, which closes the tunnel and leaves the service alone.
CloseTunnel(q) ==
    /\ ~Live /\ S!Holds(q, "tunnel")
    /\ S!Shut(q, "tunnel")
    /\ UNCHANGED <<peerVars, asked, fulfilling, slots, copy, fault, reported, returned>>

\* runTCP returns what Serve did, and its deferred cancel runs.
RunReturns ==
    /\ serve = "done" /\ ~returned
    /\ returned' = TRUE
    /\ UNCHANGED <<peerVars, asked, requestVars>>

FulfillStep(q) ==
    \/ OpensTunnel(q) \/ TunnelFails(q) \/ DialsService(q) \/ ServiceFails(q)
    \/ CopyEnds(q) \/ SpliceReturns(q) \/ ReportForward(q) \/ ReleaseSlot(q)

ShareNext ==
    \/ PeerMoves \/ RunReturns
    \/ \E q \in Requests :
        Ask(q) \/ Handle(q) \/ FulfillStep(q) \/ OthersMove(q) \/ CloseTunnel(q)

\* Both dials are bounded by timeouts.  Nobody has to ask, and the ends of a
\* splice do not have to send, to read or to hang up: a write that nobody takes
\* waits for as long as its own connection is open.
ShareSpec ==
    /\ ShareInit /\ [][ShareNext]_shareVars
    /\ WF_shareVars(ServeStep /\ PeerMoves) /\ WF_shareVars(DropDead /\ PeerMoves)
    /\ WF_shareVars(RunReturns)
    /\ \A q \in Requests : WF_shareVars(FulfillStep(q)) /\ WF_shareVars(CloseTunnel(q))
=============================================================================
