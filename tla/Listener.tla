------------------------------ MODULE Listener ------------------------------
(***************************************************************************)
(* The subscriber's process: listen.go's runTCP with its accept loops, the *)
(* goroutine that runs Serve, and one goroutine for each local connection  *)
(* it forwards.                                                            *)
(*                                                                         *)
(* A step is an atomic load or store, a channel operation, or a call into  *)
(* the network.  Serve itself is ServeCalls: what it calls back and when   *)
(* it returns.  ctx is runTCP's own context, a child of the caller's.      *)
(***************************************************************************)
EXTENDS ServeCalls, Integers, FiniteSets

CONSTANTS
    Clients,    \* local connections that are ever made
    Ports,      \* one listener and one accept loop for each
    MaxTunnels, \* peer.MaxTunnels
    None

ASSUME ListenerAssumption ==
    /\ MaxTunnels \in Nat \ {0} /\ Ports # {} /\ IsFiniteSet(Ports)
    /\ IsFiniteSet(Clients) /\ None \notin Clients

VARIABLES
    caller,     \* whether runTCP's caller canceled
    tail,       \* what the goroutine that called Serve does after it
    ready,      \* runTCP's ready
    serveErr,   \* the channel: an error, or "nil" when empty
    lsn,        \* each listener: "open", "closed" or "failed" by itself
    loop,       \* where each accept loop is
    held,       \* the connection it accepted last
    slots,      \* len(slots)
    client,     \* each local connection
    conn,       \* its "local" socket, and its "tunnel" to the relay
    copy,       \* the two halves of its splice
    main,       \* where runTCP is
    result      \* what it returned

sessionVars == <<callVars, caller, tail, ready, serveErr>>
loopVars == <<lsn, loop, held>>
forwardVars == <<conn, copy>>
clientVars == <<slots, client, forwardVars>>
mainVars == <<main, result>>
listenVars == <<sessionVars, loopVars, clientVars, mainVars>>

S == INSTANCE Splice WITH Splices <- Clients

Forwarding == {"opening", "splicing", "releasing"}
Ends == Permanent \cup Early \cup {"canceled", "notready"}

ListenTypeOK ==
    /\ told \in {"none", "ready", "disconnected"}
    /\ ended \in Ends \cup {"nil"} /\ ctx \in {"live", "canceled"}
    /\ caller \in BOOLEAN /\ ready \in BOOLEAN
    /\ tail \in {"serving", "lowering", "canceling", "over"}
    /\ serveErr \in Ends \cup {"nil"}
    /\ lsn \in [Ports -> {"open", "closed", "failed"}]
    /\ loop \in [Ports -> {"accepting", "checking", "choosing", "returned"}]
    /\ held \in [Ports -> Clients \cup {None}]
    /\ \A p \in Ports : loop[p] \in {"checking", "choosing"} <=> held[p] # None
    /\ slots \in Int
    /\ client \in [Clients -> {"away", "held", "gone"} \cup Forwarding]
    /\ S!SpliceTypeOK
    /\ main \in {"waiting", "sampling", "explaining", "closing", "gone"}
    /\ result \in Ends \cup {"nil", "accept"}

ListenInit ==
    /\ CallsInit
    /\ caller = FALSE /\ tail = "serving" /\ ready = FALSE /\ serveErr = "nil"
    /\ lsn = [p \in Ports |-> "open"] /\ loop = [p \in Ports |-> "accepting"]
    /\ held = [p \in Ports |-> None]
    /\ slots = 0
    /\ client = [c \in Clients |-> "away"]
    /\ S!SpliceInit
    /\ main = "waiting" /\ result = "nil"

------------------------------------------------------------------------------
(* Plausible bugs: each is substituted for its original to see that a        *)
(* property notices.                                                         *)

\* The context is canceled before the error is on its channel.
ReportAfterCancel ==
    /\ tail = "serving" /\ ended # "nil"
    /\ ctx' = "canceled" /\ tail' = "lowering"
    /\ UNCHANGED <<told, ended, caller, ready, serveErr, loopVars, clientVars, mainVars>>

\* A tunnel that could not be opened keeps its slot.
OpenFailsAndReturns(c) ==
    /\ client[c] = "opening"
    /\ S!Shut(c, "local")
    /\ client' = [client EXCEPT ![c] = "gone"]
    /\ UNCHANGED <<sessionVars, loopVars, slots, copy, mainVars>>

\* Nothing closes the local side when the context ends.
LocalStaysOpen(c) == FALSE /\ UNCHANGED listenVars

------------------------------------------------------------------------------
(* The goroutine that runs Serve *)

\* OnReady and OnReconnect store before they call on; OnDisconnect too.
CallBack ==
    /\ Ready \/ ReadyFails \/ Disconnected
    /\ ready' = (told' = "ready")
    /\ UNCHANGED <<caller, tail, serveErr, loopVars, clientVars, mainVars>>

SessionEnds ==
    /\ Returns \/ Obey
    /\ UNCHANGED <<caller, tail, ready, serveErr, loopVars, clientVars, mainVars>>

\* serveErr <- session.Serve(...)
Report ==
    /\ tail = "serving" /\ ended # "nil"
    /\ serveErr' = ended /\ tail' = "lowering"
    /\ UNCHANGED <<callVars, caller, ready, loopVars, clientVars, mainVars>>

Lower ==
    /\ tail = "lowering"
    /\ ready' = FALSE /\ tail' = "canceling"
    /\ UNCHANGED <<callVars, caller, serveErr, loopVars, clientVars, mainVars>>

CancelOwn ==
    /\ tail = "canceling"
    /\ ctx' = "canceled" /\ tail' = "over"
    /\ UNCHANGED <<told, ended, caller, ready, serveErr, loopVars, clientVars, mainVars>>

------------------------------------------------------------------------------
(* acceptLoop *)

Accept(p, c) ==
    /\ loop[p] = "accepting" /\ lsn[p] = "open" /\ client[c] = "away"
    /\ client' = [client EXCEPT ![c] = "held"]
    /\ S!Obtain(c, "local")
    /\ held' = [held EXCEPT ![p] = c]
    /\ loop' = [loop EXCEPT ![p] = "checking"]
    /\ UNCHANGED <<sessionVars, lsn, slots, copy, mainVars>>

\* The connection is closed at once, report is told of it unless ctx has ended,
\* and the loop goes on.
Refuse(p) ==
    /\ S!Shut(held[p], "local")
    /\ client' = [client EXCEPT ![held[p]] = "gone"]
    /\ held' = [held EXCEPT ![p] = None]
    /\ loop' = [loop EXCEPT ![p] = "accepting"]
    /\ UNCHANGED <<sessionVars, lsn, slots, copy, mainVars>>

CheckReady(p) ==
    /\ loop[p] = "checking"
    /\ \/ ~ready /\ Refuse(p)
       \/ /\ ready
          /\ loop' = [loop EXCEPT ![p] = "choosing"]
          /\ UNCHANGED <<sessionVars, lsn, held, clientVars, mainVars>>

\* The select on slots; forward registers its AfterFunc as it starts.
TakeSlot(p) ==
    /\ loop[p] = "choosing"
    /\ \/ slots = MaxTunnels /\ Refuse(p)
       \/ /\ slots < MaxTunnels
          /\ slots' = slots + 1
          /\ client' = [client EXCEPT ![held[p]] = "opening"]
          /\ held' = [held EXCEPT ![p] = None]
          /\ loop' = [loop EXCEPT ![p] = "accepting"]
          /\ UNCHANGED <<sessionVars, lsn, forwardVars, mainVars>>

AcceptFails(p) ==
    /\ loop[p] = "accepting" /\ lsn[p] # "open"
    /\ loop' = [loop EXCEPT ![p] = "returned"]
    /\ UNCHANGED <<sessionVars, lsn, held, clientVars, mainVars>>

\* The goroutine that waits for ctx.
CloseListener(p) ==
    /\ ctx = "canceled" /\ lsn[p] = "open"
    /\ lsn' = [lsn EXCEPT ![p] = "closed"]
    /\ UNCHANGED <<sessionVars, loop, held, clientVars, mainVars>>

------------------------------------------------------------------------------
(* forward *)

\* OpenTunnel, which closes its own connection when it fails or ctx ends.
Opens(c) ==
    /\ client[c] = "opening" /\ ctx = "live"
    /\ S!Obtain(c, "tunnel") /\ S!Start(c)
    /\ client' = [client EXCEPT ![c] = "splicing"]
    /\ UNCHANGED <<sessionVars, loopVars, slots, mainVars>>

OpenFails(c) ==
    /\ client[c] = "opening"
    /\ S!Shut(c, "local")
    /\ client' = [client EXCEPT ![c] = "releasing"]
    /\ UNCHANGED <<sessionVars, loopVars, slots, copy, mainVars>>

\* What the local client and the publisher behind the tunnel do.
OthersMove(c) ==
    /\ S!FarEnds(c)
    /\ UNCHANGED <<sessionVars, loopVars, slots, client, mainVars>>

CopyEnds(c) ==
    /\ \E s \in S!Sides : S!CopyFails(c, s)
    /\ UNCHANGED <<sessionVars, loopVars, slots, client, mainVars>>

SpliceReturns(c) ==
    /\ client[c] = "splicing" /\ S!Joined(c)
    /\ client' = [client EXCEPT ![c] = "releasing"]
    /\ UNCHANGED <<sessionVars, loopVars, slots, forwardVars, mainVars>>

Release(c) ==
    /\ client[c] = "releasing"
    /\ slots' = slots - 1
    /\ client' = [client EXCEPT ![c] = "gone"]
    /\ UNCHANGED <<sessionVars, loopVars, forwardVars, mainVars>>

\* forward's AfterFunc, which closes the client and leaves the tunnel alone.
CloseLocal(c) ==
    /\ ctx = "canceled" /\ client[c] \in {"opening", "splicing"} /\ S!Holds(c, "local")
    /\ S!Shut(c, "local")
    /\ UNCHANGED <<sessionVars, loopVars, slots, client, copy, mainVars>>

------------------------------------------------------------------------------
(* runTCP's own end: <-acceptErr, ShutdownErr and the deferred calls *)

TakeAcceptErr ==
    /\ main = "waiting" /\ \E p \in Ports : loop[p] = "returned"
    /\ main' = "sampling"
    /\ UNCHANGED <<sessionVars, loopVars, clientVars, result>>

Sample ==
    /\ main = "sampling"
    /\ IF serveErr # "nil"
       THEN result' = serveErr /\ main' = "closing"
       ELSE main' = "explaining" /\ UNCHANGED result
    /\ serveErr' = "nil"
    /\ UNCHANGED <<callVars, caller, tail, ready, loopVars, clientVars>>

Explain ==
    /\ main = "explaining"
    /\ result' = IF ctx = "canceled" THEN "canceled" ELSE "accept"
    /\ main' = "closing"
    /\ UNCHANGED <<sessionVars, loopVars, clientVars>>

Unwind ==
    /\ main = "closing"
    /\ lsn' = [p \in Ports |-> IF lsn[p] = "open" THEN "closed" ELSE lsn[p]]
    /\ ctx' = "canceled" /\ main' = "gone"
    /\ UNCHANGED <<told, ended, caller, tail, ready, serveErr, loop, held,
                   clientVars, result>>

------------------------------------------------------------------------------
(* The caller and the operating system *)

CallerCancels ==
    /\ ~caller /\ caller' = TRUE
    /\ ctx' = "canceled"
    /\ UNCHANGED <<told, ended, tail, ready, serveErr, loopVars, clientVars, mainVars>>

ListenerFails(p) ==
    /\ lsn[p] = "open"
    /\ lsn' = [lsn EXCEPT ![p] = "failed"]
    /\ UNCHANGED <<sessionVars, loop, held, clientVars, mainVars>>

LoopStep(p) == CheckReady(p) \/ TakeSlot(p) \/ AcceptFails(p)
ForwardStep(c) ==
    Opens(c) \/ OpenFails(c) \/ CopyEnds(c) \/ SpliceReturns(c) \/ Release(c)
TailStep == Report \/ Lower \/ CancelOwn
MainStep == TakeAcceptErr \/ Sample \/ Explain \/ Unwind

ListenNext ==
    \/ CallBack \/ SessionEnds \/ TailStep \/ MainStep \/ CallerCancels
    \/ \E p \in Ports :
        \/ LoopStep(p) \/ CloseListener(p) \/ ListenerFails(p)
        \/ \E c \in Clients : Accept(p, c)
    \/ \E c \in Clients : ForwardStep(c) \/ OthersMove(c) \/ CloseLocal(c)

\* Goroutines are scheduled, a dial is bounded by dialTimeout, and Serve keeps
\* ServeCalls' promise.  Nobody has to connect or to cancel, and the ends of a
\* splice do not have to send, to read or to hang up: a write that nobody takes
\* waits for as long as its own connection is open.
ListenSpec ==
    /\ ListenInit /\ [][ListenNext]_listenVars
    /\ WF_listenVars(TailStep) /\ WF_listenVars(MainStep)
    /\ WF_listenVars(Obey /\ SessionEnds)
    /\ \A p \in Ports : WF_listenVars(LoopStep(p)) /\ WF_listenVars(CloseListener(p))
    /\ \A c \in Clients : WF_listenVars(ForwardStep(c)) /\ WF_listenVars(CloseLocal(c))
=============================================================================
