----------------------------- MODULE ServeCalls -----------------------------
(***************************************************************************)
(* What Session.Serve promises whoever started it (peer/reconnect.go's     *)
(* ServeConfig): in which order it calls back, and with what it returns.   *)
(* PeerSession implements it; Listener relies on it.                       *)
(***************************************************************************)
VARIABLES
    told,   \* the last callback: "none", "ready" or "disconnected"
    ended,  \* what Serve returned, or "nil"
    ctx     \* "live" or "canceled"

callVars == <<told, ended, ctx>>

Permanent == {"denied", "mismatch", "untrusted"}

\* Errors that end Serve only before the first session.
Early == {"unreachable", "exists", "nosession", "lost"}

CallsInit == told = "none" /\ ended = "nil" /\ ctx = "live"

\* OnReady, once; OnReconnect after a disconnect.
Ready ==
    /\ ended = "nil" /\ told # "ready"
    /\ told' = "ready"
    /\ UNCHANGED <<ended, ctx>>

\* OnReady is called and fails, which ends Serve.
ReadyFails ==
    /\ ended = "nil" /\ told = "none"
    /\ told' = "ready" /\ ended' = "notready"
    /\ UNCHANGED ctx

\* OnDisconnect, for the session that ended.
Disconnected ==
    /\ ended = "nil" /\ told = "ready"
    /\ told' = "disconnected"
    /\ UNCHANGED <<ended, ctx>>

Return(e) ==
    /\ ended = "nil"
    /\ e \in Early => told = "none"
    /\ e = "canceled" => ctx = "canceled"
    /\ ended' = e
    /\ UNCHANGED <<told, ctx>>

\* Something is answered for good, or the first attempt failed.
Returns == \E e \in Permanent \cup Early : Return(e)

Obey == Return("canceled")

CtxEnds == ctx = "live" /\ ctx' = "canceled" /\ UNCHANGED <<told, ended>>

CallsNext == Ready \/ ReadyFails \/ Disconnected \/ Returns \/ Obey \/ CtxEnds

\* A canceled Serve returns, whatever it is in the middle of.
CallsSpec == CallsInit /\ [][CallsNext]_callVars /\ WF_callVars(Obey)
=============================================================================
