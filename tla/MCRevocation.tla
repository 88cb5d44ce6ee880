---------------------------- MODULE MCRevocation ----------------------------
(***************************************************************************)
(* Small instances of the relay's sockets and of the revocation pipeline.  *)
(***************************************************************************)
EXTENDS Revocation, TLC

CONSTANT Second     \* sockets that present the second certificate

MCSerialOf == [c \in Conns |-> IF c \in Second THEN "s2" ELSE "s1"]
MCNameOf == [s \in {"s1", "s2"} |-> "device"]
=============================================================================
