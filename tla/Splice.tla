-------------------------------- MODULE Splice --------------------------------
(***************************************************************************)
(* streamio.Splice as share and listen use it: it joins a tunnel to a      *)
(* local connection with two copies and returns when both are over.        *)
(*                                                                         *)
(* copy[x][s] is the copy that writes into s.  At any time it waits for    *)
(* one connection, for the next bytes to read or for the last ones to be   *)
(* taken, and only that connection can end it.  Bytes and their order are  *)
(* Tunnel's subject.                                                       *)
(***************************************************************************)
CONSTANT Splices

VARIABLES
    conn,   \* each splice's two connections: "up", or "closed" by their owner (or
            \* not made yet)
    copy    \* where each of the two copies is

spliceVars == <<conn, copy>>

Sides == {"tunnel", "local"}

Other(s) == IF s = "tunnel" THEN "local" ELSE "tunnel"

SpliceTypeOK ==
    /\ conn \in [Splices -> [Sides -> {"closed", "up"}]]
    /\ copy \in [Splices -> [Sides -> {"over", "reading", "writing"}]]

NoSplice == [s \in Sides |-> "over"]

SpliceInit ==
    /\ conn = [x \in Splices |-> [s \in Sides |-> "closed"]]
    /\ copy = [x \in Splices |-> NoSplice]

Holds(x, s) == conn[x][s] # "closed"

\* The connection the copy into s waits for.
AwaitedBy(x, s) == IF copy[x][s] = "writing" THEN s ELSE Other(s)

\* Only its far end, or the close of that connection, can end this write.
Stalled(x, s) == copy[x][s] = "writing" /\ conn[x][s] = "up"

Obtain(x, s) == conn' = [conn EXCEPT ![x][s] = "up"]

Shut(x, s) == conn' = [conn EXCEPT ![x][s] = "closed"]

\* A copy that ends closes the side it writes into.
Over(x, s) == copy' = [copy EXCEPT ![x][s] = "over"] /\ Shut(x, s)

\* Both goroutines start with a read.
Start(x) == copy' = [copy EXCEPT ![x] = [s \in Sides |-> "reading"]]

\* The far ends send, or take what was written, when they like.
Moves(x, s) ==
    /\ copy[x][s] # "over" /\ conn[x][AwaitedBy(x, s)] = "up"
    /\ copy' = [copy EXCEPT ![x][s] = IF @ = "reading" THEN "writing" ELSE "reading"]
    /\ UNCHANGED conn

\* The far end has finished sending, or has hung up and the copy meets it: until
\* then a far end that is gone is one that does nothing.
Ends(x, s) ==
    /\ copy[x][s] # "over" /\ conn[x][AwaitedBy(x, s)] = "up"
    /\ Over(x, s)

\* A read or a write on a connection its owner has closed fails.
CopyFails(x, s) ==
    /\ copy[x][s] # "over" /\ ~Holds(x, AwaitedBy(x, s))
    /\ Over(x, s)

\* wg.Wait returns.
Joined(x) == copy[x] = NoSplice

FarEnds(x) == \E s \in Sides : Moves(x, s) \/ Ends(x, s)
=============================================================================
