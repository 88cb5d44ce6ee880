---------------------------- MODULE SessionSlots ----------------------------
(***************************************************************************)
(* What the relay's registry promises about a SessionID, with none of the  *)
(* locking, the acks or the teardown: a slot is free, held by the control  *)
(* connection of exactly one publisher, or banned.  A slot is only given   *)
(* back by the publisher that held it, and a ban is for good.              *)
(*                                                                         *)
(* RelayRegistry implements this specification.                            *)
(***************************************************************************)
CONSTANTS
    SessionIDs,     \* the routing identifiers of sessions
    Publishers,     \* publisher control connections, one registration each
    SidOf,          \* the SessionID a publisher's hello names
    Free,           \* a slot nobody holds
    Banned          \* a slot an operator has killed

VARIABLE slot       \* what each SessionID's slot holds

Init == slot = [sid \in SessionIDs |-> Free]

\* A publisher takes the free slot of its own session.
Take(p) ==
    /\ slot[SidOf[p]] = Free
    /\ slot' = [slot EXCEPT ![SidOf[p]] = p]

\* The publisher that holds the slot gives it back.
GiveBack(p) ==
    /\ slot[SidOf[p]] = p
    /\ slot' = [slot EXCEPT ![SidOf[p]] = Free]

\* An operator ends a live session and keeps it ended.
Ban(sid) ==
    /\ slot[sid] \in Publishers
    /\ slot' = [slot EXCEPT ![sid] = Banned]

Next ==
    \/ \E p \in Publishers : Take(p) \/ GiveBack(p)
    \/ \E sid \in SessionIDs : Ban(sid)

Spec == Init /\ [][Next]_slot
=============================================================================
