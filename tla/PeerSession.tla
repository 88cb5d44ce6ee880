----------------------------- MODULE PeerSession -----------------------------
(***************************************************************************)
(* How share and listen stay connected: Session.Serve and the control loop *)
(* it runs (peer/reconnect.go, peer/control.go), against what the relay    *)
(* does with the peer's registration.                                      *)
(*                                                                         *)
(* Serve is one goroutine; a step is a callback, a wait that ends, or one  *)
(* side of an exchange with the relay.  For a publisher, slot is the       *)
(* registry's entry under its SessionID (RelayRegistry has the details):   *)
(* an entry whose connection is gone stays until the relay notices.        *)
(***************************************************************************)
EXTENDS Integers

CONSTANT MaxShift   \* reconnectMaxShift: later attempts all wait alike

ASSUME PeerAssumption == MaxShift \in Nat \ {0}

VARIABLES
    cfg,        \* role and ServeConfig.Wait; never changes
    serve,      \* where Serve is
    connected,  \* Serve's local: some registration succeeded
    attempt,    \* Serve's local, up to MaxShift
    stable,     \* the session has been up for reconnectStableFor
    err,        \* Serve's local err
    told,       \* the last of ServeConfig's callbacks
    ended,      \* what Serve returned
    misread,    \* whether err is a control frame that was taken for the ack
    ctx,        \* "live" or "canceled"
    control,    \* the control connection: "none", "up", "lost", or "closed"
                \* by the relay, with or without a ControlSessionClosed
    path,       \* whether the relay can be reached
    slot,       \* the publisher's entry: "none", "mine" or "dead"
    published,  \* a subscriber's publisher: "none", one of the "same" mode and
                \* ports, or an "other" one
    barred      \* why the relay will never have this peer again, or "no"

serveVars == <<serve, connected, attempt, stable, err, told, ended, misread>>
relayVars == <<control, path, slot, published, barred>>
peerVars == <<cfg, serveVars, ctx, relayVars>>

ServePCs == {"connecting", "greeting", "notifying", "running", "deciding",
             "waiting", "done"}

\* What the relay or the transport can answer that a redial may cure.
Transient == {"unreachable", "exists", "nosession", "lost", "closed"}

\* retryable's exceptions.
Permanent == {"denied", "mismatch", "untrusted"}

Errors == Transient \cup Permanent \cup {"canceled", "notready"}

PeerTypeOK ==
    /\ cfg \in [publishes : BOOLEAN, wait : BOOLEAN]
    /\ serve \in ServePCs /\ connected \in BOOLEAN /\ stable \in BOOLEAN
    /\ attempt \in 0..MaxShift
    /\ err \in Errors \cup {"nil"} /\ ended \in Errors \cup {"nil"}
    /\ misread \in BOOLEAN
    /\ told \in {"none", "ready", "disconnected"}
    /\ ctx \in {"live", "canceled"}
    /\ control \in {"none", "up", "lost", "closed"} /\ path \in BOOLEAN
    /\ slot \in {"none", "mine", "dead"} /\ published \in {"none", "same", "other"}
    /\ barred \in {"no", "killed", "revoked"}

\* share has no Wait; listen has.
PeerInit ==
    /\ cfg \in {c \in [publishes : BOOLEAN, wait : BOOLEAN] : c.publishes => ~c.wait}
    /\ serve = "connecting" /\ connected = FALSE /\ attempt = 0
    /\ stable = FALSE /\ err = "nil" /\ told = "none" /\ ended = "nil"
    /\ misread = FALSE /\ ctx = "live"
    /\ control = "none" /\ path \in BOOLEAN
    /\ slot = "none" /\ published \in {"none", "same", "other"} /\ barred = "no"

------------------------------------------------------------------------------
(* Plausible bugs: each is substituted for its original to see that a        *)
(* property notices.                                                         *)

\* A severed publisher gives up on its own dead registration.
RetryableButExists(e) == e \notin Permanent \cup {"exists"}

\* A killed publisher keeps knocking.
RetryableAlways(e) == TRUE

\* Without Wait, an established session is not retried either.
GiveUpWithoutWait ==
    /\ serve = "deciding"
    /\ serve' = "done"
    /\ IF ctx = "canceled"
       THEN ended' = "canceled"
       ELSE ended' = err /\ (~cfg.wait \/ err \in Permanent)
    /\ UNCHANGED <<cfg, connected, attempt, stable, err, told, misread, ctx, relayVars>>

\* The control connection is left open when the session ends.
EndSessionKeepsControl ==
    /\ serve = "running"
    /\ \/ control = "lost" /\ err' = (IF ctx = "live" THEN "lost" ELSE "canceled")
       \/ ctx = "canceled" /\ err' = "canceled"
    /\ attempt' = IF stable THEN 0 ELSE attempt
    /\ serve' = "deciding"
    /\ UNCHANGED <<cfg, connected, stable, told, ended, misread, ctx, relayVars>>

------------------------------------------------------------------------------
(* The peer's end of a control connection *)

Retryable(e) == e \notin Permanent

\* Closing it, or losing it, leaves the relay an entry it has yet to drop.
HangUp(state) ==
    /\ control' = state
    /\ slot' = IF slot = "mine" THEN "dead" ELSE slot

Fail(e) == serve' = "deciding" /\ err' = e

\* connect fails before the relay has answered.
ConnectFails ==
    /\ serve = "connecting"
    /\ IF ctx = "canceled" THEN Fail("canceled") ELSE ~path /\ Fail("unreachable")
    /\ misread' = FALSE
    /\ UNCHANGED <<cfg, connected, attempt, stable, told, ended, ctx, relayVars>>

\* The verdicts of Register and Subscribe.  A revoked peer is cut off by an
\* alert, which the reset of the connection may overtake.
Refusals ==
    CASE barred = "revoked" -> {"untrusted", "unreachable"}
      [] barred = "killed" -> {"denied"}
      [] cfg.publishes -> IF slot = "none" THEN {} ELSE {"exists"}
      [] published = "none" -> {"nosession"}
      [] published = "other" -> {"mismatch"}
      [] OTHER -> {}

ConnectRefused ==
    /\ serve = "connecting" /\ path
    /\ \E e \in Refusals : Fail(e)
    /\ misread' = FALSE
    /\ UNCHANGED <<cfg, connected, attempt, stable, told, ended, ctx, relayVars>>

\* The relay takes the peer in; its ack is on the way.
Enter ==
    /\ serve = "connecting" /\ path /\ ctx = "live" /\ barred = "no"
    /\ IF cfg.publishes
       THEN slot = "none" /\ slot' = "mine"
       ELSE published = "same" /\ UNCHANGED slot
    /\ control' = "up"
    /\ serve' = "greeting"
    /\ misread' = FALSE
    /\ UNCHANGED <<cfg, connected, attempt, stable, err, told, ended, ctx, path,
                   published, barred>>

\* connect returns the connection: the ack was the first thing on it.
Greeted ==
    /\ serve = "greeting" /\ control \in {"up", "closed"}
    /\ serve' = "notifying"
    /\ UNCHANGED <<cfg, connected, attempt, stable, err, told, ended, misread, ctx, relayVars>>

\* The ack never came.
GreetingLost ==
    /\ serve = "greeting" /\ (control \in {"lost", "closed"} \/ ctx = "canceled")
    /\ Fail("lost")
    /\ HangUp("none")
    /\ UNCHANGED <<cfg, connected, attempt, stable, told, ended, misread, ctx, path,
                   published, barred>>

\* The relay may write a frame before the ack, once it has taken the peer in:
\* a publisher's ControlRequestData reads as AckPublisherExists, a subscriber's
\* ControlSessionClosed as AckPortsMismatch.
Misread ==
    /\ serve = "greeting"
    /\ IF cfg.publishes
       THEN control = "up" /\ Fail("exists")
       ELSE control = "closed" /\ Fail("mismatch")
    /\ HangUp("none")
    /\ misread' = TRUE
    /\ UNCHANGED <<cfg, connected, attempt, stable, told, ended, ctx, path, published, barred>>

\* notifyConnected: OnReady, or OnReconnect.
Notify ==
    /\ serve = "notifying"
    /\ connected' = TRUE /\ stable' = FALSE /\ told' = "ready"
    /\ serve' = "running"
    /\ UNCHANGED <<cfg, attempt, err, ended, misread, ctx, relayVars>>

\* OnReady could not save the token, or report readiness.
NotReady ==
    /\ serve = "notifying" /\ ~connected
    /\ HangUp("none")
    /\ told' = "ready" /\ ended' = "notready" /\ serve' = "done"
    /\ UNCHANGED <<cfg, connected, attempt, stable, err, misread, ctx, path, published, barred>>

\* The session outlives reconnectStableFor.
Stabilise ==
    /\ serve = "running" /\ ~stable
    /\ stable' = TRUE
    /\ UNCHANGED <<cfg, serve, connected, attempt, err, told, ended, misread, ctx, relayVars>>

\* runSession returns: a read or the silence timeout, a ControlSessionClosed
\* that Handle turns into an error, or ctx.
EndSession ==
    /\ serve = "running"
    /\ \/ /\ control \in {"lost", "closed"}
          /\ err' = (IF ctx = "live" THEN "lost" ELSE "canceled")
       \/ control = "closed" /\ err' = "closed"
       \/ ctx = "canceled" /\ err' = "canceled"
    /\ HangUp("none")
    /\ attempt' = IF stable THEN 0 ELSE attempt
    /\ serve' = "deciding"
    /\ UNCHANGED <<cfg, connected, stable, told, ended, misread, ctx, path, published, barred>>

Stop(e) == serve' = "done" /\ ended' = e /\ UNCHANGED attempt

GiveUp ==
    /\ serve = "deciding"
    /\ \/ ctx = "canceled" /\ Stop("canceled")
       \/ /\ ctx = "live" /\ Stop(err)
          /\ (~connected /\ ~cfg.wait) \/ ~Retryable(err)
    /\ UNCHANGED <<cfg, connected, stable, err, told, misread, ctx, relayVars>>

\* OnWaiting or OnDisconnect, and then the wait.
Retry ==
    /\ serve = "deciding" /\ ctx = "live"
    /\ connected \/ cfg.wait
    /\ Retryable(err)
    /\ attempt' = IF attempt < MaxShift THEN attempt + 1 ELSE attempt
    /\ told' = IF connected THEN "disconnected" ELSE told
    /\ serve' = "waiting"
    /\ UNCHANGED <<cfg, connected, stable, err, ended, misread, ctx, relayVars>>

WaitOver ==
    /\ serve = "waiting"
    /\ \/ serve' = "connecting" /\ UNCHANGED ended
       \/ ctx = "canceled" /\ serve' = "done" /\ ended' = "canceled"
    /\ UNCHANGED <<cfg, connected, attempt, stable, err, told, misread, ctx, relayVars>>

------------------------------------------------------------------------------
(* The caller, the network and the relay *)

Cancel ==
    /\ ctx = "live" /\ ctx' = "canceled"
    /\ UNCHANGED <<cfg, serveVars, relayVars>>

\* The path fails under whatever runs on it: a publisher's entry outlives it.
PathFails ==
    /\ path /\ path' = FALSE
    /\ HangUp(IF control = "up" THEN "lost" ELSE control)
    /\ UNCHANGED <<cfg, serveVars, ctx, published, barred>>

\* The relay comes back into reach, itself or restarted: a new one knows
\* neither entries nor bans.
PathReturns ==
    /\ ~path /\ path' = TRUE
    /\ \/ UNCHANGED <<slot, barred>>
       \/ /\ slot' = "none"
          /\ barred' = IF barred = "killed" THEN "no" ELSE barred
    /\ UNCHANGED <<cfg, serveVars, ctx, control, published>>

\* The heartbeat times out, or the relay's read sees the close.
DropDead ==
    /\ slot = "dead" /\ slot' = "none"
    /\ UNCHANGED <<cfg, serveVars, ctx, control, path, published, barred>>

\* An operator kills the session, which takes its entry away at once, or
\* revokes the peer's certificate.
Bar ==
    /\ barred = "no"
    /\ \/ cfg.publishes /\ barred' = "killed" /\ slot' = "none"
       \/ barred' = "revoked" /\ slot' = (IF slot = "mine" THEN "dead" ELSE slot)
    /\ control' = IF control = "up" THEN "lost" ELSE control
    /\ UNCHANGED <<cfg, serveVars, ctx, path, published>>

\* A subscriber's publisher comes and goes.  When it goes, the relay takes
\* leave of its subscribers, whoever publishes next.
PublisherMoves ==
    /\ ~cfg.publishes
    /\ IF published = "none"
       THEN published' \in {"same", "other"} /\ UNCHANGED control
       ELSE published' = "none" /\ control' = IF control = "up" THEN "closed" ELSE control
    /\ UNCHANGED <<cfg, serveVars, ctx, path, slot, barred>>

Connect == ConnectFails \/ ConnectRefused \/ Enter
ServeStep ==
    \/ Connect \/ Greeted \/ GreetingLost \/ Misread \/ Notify \/ NotReady
    \/ EndSession \/ GiveUp \/ Retry \/ WaitOver

World == PathFails \/ PathReturns \/ DropDead \/ Bar \/ PublisherMoves

PeerNext == ServeStep \/ Stabilise \/ Cancel \/ World

PeerSpec == PeerInit /\ [][PeerNext]_peerVars
                     /\ WF_peerVars(ServeStep) /\ WF_peerVars(DropDead)
=============================================================================
