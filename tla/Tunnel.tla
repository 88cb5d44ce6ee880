------------------------------- MODULE Tunnel -------------------------------
(***************************************************************************)
(* One forwarded connection, end to end, once the relay has paired it:     *)
(*                                                                         *)
(*     client --1-- listen --2-- relay --3-- share --4-- service           *)
(*                                                                         *)
(* Four connections, three splices (streamio/splice.go) with a goroutine   *)
(* for each direction, and the handshake of listen and share through the   *)
(* relay (proto/auth.go).  A step is one Read, Write or Close, or what a   *)
(* goroutine does between two of them.                                     *)
(*                                                                         *)
(* What a connection carries is opaque: a challenge, a proof of the port   *)
(* it was computed for, or a unit of data.  That nobody without the secret *)
(* makes a proof or a frame is cryptography, and not modelled.             *)
(***************************************************************************)
EXTENDS Integers, Sequences

CONSTANTS
    Cap,        \* what a connection buffers in each direction
    Asks,       \* how much the client ever sends
    Answers     \* and how much the service does

ASSUME TunnelAssumption == Cap \in Nat \ {0} /\ Asks \in Nat /\ Answers \in Nat

\* The end of connection h nearer to the client, and the one nearer to the
\* service.
Ends == (1..4) \X {"L", "R"}
Other(e) == <<e[1], IF e[2] = "L" THEN "R" ELSE "L">>

Client == <<1, "L">>
Service == <<4, "R">>
TunnelEnd(n) == IF n = "listen" THEN <<2, "L">> ELSE <<3, "R">>
Ours == Ends \ {Client, Service}

\* A direction of a splice: 1 is listen's, 2 the relay's, 3 share's.
Copies == (1..3) \X {"down", "up"}
Src(c) == IF c[2] = "down" THEN <<c[1], "R">> ELSE <<c[1] + 1, "L">>
Dst(c) == IF c[2] = "down" THEN <<c[1] + 1, "L">> ELSE <<c[1], "R">>

VARIABLES
    agree,      \* whether both mean the same port; never changes
    open,       \* whether an end has not been closed
    inbox,      \* what is on its way to each end, or waiting there
    hs,         \* how far each side's handshake is: Established, or 0 if failed
    dialed,     \* whether share has reached the service
    copy,       \* each direction: "copying" or "over"
    held,       \* what it has read and not yet written
    sent, got,  \* what the client and the service have written and read
    cut         \* a deadline, a cancellation or the relay ended it

wires == <<open, inbox>>
copies == <<copy, held>>
users == <<sent, got>>
tunnelVars == <<agree, wires, hs, dialed, copies, users, cut>>

\* Both sides wait for the other's challenge.
ScriptBothRead(n) ==
    IF n = "listen"
    THEN <<"read challenge", "write challenge", "read proof", "write proof">>
    ELSE <<"read challenge", "write challenge", "write proof", "read proof">>

\* exchangeChallenges, then the proofs.
Script(n) ==
    IF n = "listen"
    THEN <<"write challenge", "read challenge", "read proof", "write proof">>
    ELSE <<"read challenge", "write challenge", "write proof", "read proof">>

Established == 5

\* What a side has to do next.
Move(n) == Script(n)[hs[n]]

Challenge == <<"challenge", 0>>
Datum(i) == <<"data", i>>
Items == {Challenge} \cup ({"proof"} \X {1, 2}) \cup ({"data"} \X Nat)

TunnelTypeOK ==
    /\ agree \in BOOLEAN /\ dialed \in BOOLEAN /\ cut \in BOOLEAN
    /\ open \in [Ends -> BOOLEAN]
    /\ inbox \in [Ends -> Seq(Items)]
    /\ hs \in [{"listen", "share"} -> 0..Established]
    /\ copy \in [Copies -> {"copying", "over"}]
    /\ held \in [Copies -> Seq(Items)]
    /\ sent \in [{Client, Service} -> Nat]
    /\ got \in [{Client, Service} -> Seq(Items)]

TunnelInit ==
    /\ agree \in BOOLEAN
    /\ open = [e \in Ends |-> e[1] # 4]
    /\ inbox = [e \in Ends |-> <<>>]
    /\ hs = [n \in {"listen", "share"} |-> 1]
    /\ dialed = FALSE /\ cut = FALSE
    /\ copy = [c \in Copies |-> "copying"] /\ held = [c \in Copies |-> <<>>]
    /\ sent = [e \in {Client, Service} |-> 0]
    /\ got = [e \in {Client, Service} |-> <<>>]

------------------------------------------------------------------------------
(* A connection, as TCP makes it *)

\* Read reports an end of stream, or an error.
ReadEnds(e) == ~open[e] \/ (inbox[e] = <<>> /\ ~open[Other(e)])

Room(e) == open[e] /\ open[Other(e)] /\ Len(inbox[Other(e)]) < Cap

WriteFails(e) == ~open[e] \/ ~open[Other(e)]

Take(e) == inbox' = [inbox EXCEPT ![e] = Tail(@)]
Put(e, item) == inbox' = [inbox EXCEPT ![Other(e)] = Append(@, item)]

\* The kernel accepts a write to an end that is gone.  The answer is a reset,
\* which may destroy what waits to be read.
WriteIntoVoid(e) ==
    /\ open[e] /\ ~open[Other(e)]
    /\ \/ UNCHANGED inbox
       \/ inbox' = [inbox EXCEPT ![e] = <<>>]

\* Closing with something unread resets the connection instead of finishing it.
Close(S) ==
    LET reset == {Other(e) : e \in {f \in S : open[f] /\ inbox[f] # <<>>}}
    IN /\ open' = [e \in Ends |-> open[e] /\ e \notin S]
       /\ \E lost \in SUBSET reset :
            inbox' = [e \in Ends |-> IF e \in S \cup lost THEN <<>> ELSE inbox[e]]

------------------------------------------------------------------------------
(* NewAuthenticatedConn *)

\* Each side puts its own challenge first in the transcript.
ProofOwnFirst(n) == <<"proof", IF n = "listen" THEN 1 ELSE 2>>

\* The transcript a side computes contains its own port.
Proof(n) == <<"proof", IF agree \/ n = "listen" THEN 1 ELSE 2>>

\* The transcript leaves out the port.
AcceptsAnyPort(n, item) == TRUE

\* verifyProof; a challenge is whatever comes.
Accepts(n, item) == Move(n) = "read proof" => item = Proof(n)

Exchanging(n) == hs[n] \in 1..4

\* OpenTunnel closes its connection; forward closes the local one with it.
FailTunnel(n) ==
    /\ hs' = [hs EXCEPT ![n] = 0]
    /\ Close(IF n = "listen" THEN {<<2, "L">>, <<1, "R">>} ELSE {<<3, "R">>})

Advance(n) == hs' = [hs EXCEPT ![n] = @ + 1] /\ UNCHANGED open

WriteStep(n, item) ==
    LET e == TunnelEnd(n) IN
    \/ Room(e) /\ Put(e, item) /\ Advance(n)
    \/ WriteIntoVoid(e) /\ Advance(n)
    \/ WriteFails(e) /\ FailTunnel(n)

ReadStep(n) ==
    LET e == TunnelEnd(n) IN
    \/ /\ open[e] /\ inbox[e] # <<>>
       /\ IF Accepts(n, Head(inbox[e]))
          THEN Take(e) /\ Advance(n)
          ELSE FailTunnel(n)
    \/ ReadEnds(e) /\ FailTunnel(n)

Exchange(n) ==
    /\ Exchanging(n)
    /\ \/ Move(n) = "write challenge" /\ WriteStep(n, Challenge)
       \/ Move(n) = "write proof" /\ WriteStep(n, Proof(n))
       \/ Move(n) \in {"read challenge", "read proof"} /\ ReadStep(n)
    /\ UNCHANGED <<agree, dialed, copies, users, cut>>

\* The deadline that dial set.
Expire(n) ==
    /\ Exchanging(n) /\ FailTunnel(n)
    /\ cut' = TRUE
    /\ UNCHANGED <<agree, dialed, copies, users>>

\* fulfill reaches the local service, or drops the tunnel.
Dialing == hs.share = Established /\ ~dialed

DialService ==
    /\ Dialing
    /\ dialed' = TRUE
    /\ open' = [open EXCEPT ![<<4, "L">>] = TRUE, ![Service] = TRUE]
    /\ UNCHANGED <<agree, inbox, hs, copies, users, cut>>

DialFails ==
    /\ Dialing
    /\ hs' = [hs EXCEPT !.share = 0]
    /\ Close({<<3, "R">>})
    /\ UNCHANGED <<agree, dialed, copies, users, cut>>

------------------------------------------------------------------------------
(* splice *)

\* The relay splices what it paired; listen and share once theirs is open.
Spliced(c) ==
    /\ c[1] = 1 => hs.listen = Established
    /\ c[1] = 3 => dialed

Running(c) == Spliced(c) /\ copy[c] = "copying"

CopyRead(c) ==
    /\ Running(c) /\ held[c] = <<>>
    /\ open[Src(c)] /\ inbox[Src(c)] # <<>>
    /\ held' = [held EXCEPT ![c] = <<Head(inbox[Src(c)])>>]
    /\ Take(Src(c))
    /\ UNCHANGED <<agree, open, hs, dialed, copy, users, cut>>

CopyWrite(c) ==
    /\ Running(c) /\ held[c] # <<>>
    /\ \/ Room(Dst(c)) /\ Put(Dst(c), Head(held[c]))
       \/ WriteIntoVoid(Dst(c))
    /\ held' = [held EXCEPT ![c] = <<>>]
    /\ UNCHANGED <<agree, open, hs, dialed, copy, users, cut>>

\* Writes are buffered, and Close does not flush.
CopyEndsUnflushed(c) ==
    /\ Running(c)
    /\ ReadEnds(Src(c)) \/ WriteFails(Dst(c))
    /\ copy' = [copy EXCEPT ![c] = "over"]
    /\ held' = [held EXCEPT ![c] = <<>>]
    /\ Close({Dst(c)})
    /\ UNCHANGED <<agree, hs, dialed, users, cut>>

\* Nothing passes the close on.
CopyEndsQuietly(c) ==
    /\ Running(c)
    /\ IF held[c] = <<>> THEN ReadEnds(Src(c)) ELSE WriteFails(Dst(c))
    /\ copy' = [copy EXCEPT ![c] = "over"]
    /\ held' = [held EXCEPT ![c] = <<>>]
    /\ UNCHANGED <<agree, wires, hs, dialed, users, cut>>

\* copyStream returns, and the side it wrote to is closed.
CopyEnds(c) ==
    /\ Running(c)
    /\ IF held[c] = <<>> THEN ReadEnds(Src(c)) ELSE WriteFails(Dst(c))
    /\ copy' = [copy EXCEPT ![c] = "over"]
    /\ held' = [held EXCEPT ![c] = <<>>]
    /\ Close({Dst(c)})
    /\ UNCHANGED <<agree, hs, dialed, users, cut>>

------------------------------------------------------------------------------
(* The users, and what ends a tunnel from outside *)

UserWrites(e) ==
    /\ sent[e] < (IF e = Client THEN Asks ELSE Answers) /\ Room(e)
    /\ Put(e, Datum(sent[e] + 1))
    /\ sent' = [sent EXCEPT ![e] = @ + 1]
    /\ UNCHANGED <<agree, open, hs, dialed, copies, got, cut>>

UserReads(e) ==
    /\ open[e] /\ inbox[e] # <<>>
    /\ Take(e)
    /\ got' = [got EXCEPT ![e] = Append(@, Head(inbox[e]))]
    /\ UNCHANGED <<agree, open, hs, dialed, copies, sent, cut>>

UserCloses(e) ==
    /\ open[e] /\ Close({e})
    /\ UNCHANGED <<agree, hs, dialed, copies, users, cut>>

\* listen's or share's context ends and its AfterFunc closes what it watches;
\* the relay cuts either leg (a stop, a revocation).
CutShort ==
    /\ \/ hs.listen = Established /\ Close({<<1, "R">>})
       \/ Exchanging("listen") /\ Close({<<1, "R">>, <<2, "L">>})
       \/ Close({<<3, "R">>}) \/ Close({<<2, "R">>}) \/ Close({<<3, "L">>})
    /\ ~cut /\ cut' = TRUE
    /\ UNCHANGED <<agree, hs, dialed, copies, users>>

CopyStep(c) == CopyRead(c) \/ CopyWrite(c) \/ CopyEnds(c)
Dial == DialService \/ DialFails

TunnelNext ==
    \/ \E n \in {"listen", "share"} : Exchange(n) \/ Expire(n)
    \/ \E c \in Copies : CopyStep(c)
    \/ \E e \in {Client, Service} : UserWrites(e) \/ UserReads(e) \/ UserCloses(e)
    \/ Dial \/ CutShort

\* Goroutines run, and the users read what reaches them; nobody has to write
\* or to close, and no deadline has to pass.
TunnelSpec ==
    /\ TunnelInit /\ [][TunnelNext]_tunnelVars
    /\ \A n \in {"listen", "share"} : WF_tunnelVars(Exchange(n))
    /\ \A c \in Copies : WF_tunnelVars(CopyStep(c))
    /\ \A e \in {Client, Service} : WF_tunnelVars(UserReads(e))
    /\ WF_tunnelVars(Dial)
=============================================================================
