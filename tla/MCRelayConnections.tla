------------------------- MODULE MCRelayConnections -------------------------
(***************************************************************************)
(* A small instance of the relay's sockets.                                *)
(***************************************************************************)
EXTENDS RelayConnectionsProperties, TLC

CONSTANT Second     \* sockets that present the second certificate

MCSerialOf == [c \in Conns |-> IF c \in Second THEN "s2" ELSE "s1"]
=============================================================================
