-------------------------- MODULE TunnelProperties --------------------------
(***************************************************************************)
(* What a forwarded connection owes the client and the service: their own  *)
(* port, every byte of a conversation that ends well, and an end.          *)
(***************************************************************************)
EXTENDS Tunnel

\* A pair that the relay put together for different ports (StaleRequest shows
\* one) never opens: the service is dialed only after the listener has proved
\* the port share is about to dial (proto/auth.go:14-23, 40-60).
OnlyItsOwnPort ==
    /\ TunnelTypeOK
    /\ hs.listen = Established => agree
    /\ dialed => agree /\ hs.listen = Established

\* Why it does: a proof of the listener's travels towards share only once the
\* listener has accepted share's, and no other proof travels either way.
Carried(e) ==
    {x \in Items :
        /\ e \in {<<1, "R">>, <<4, "L">>} => x[1] = "data"
        /\ e \in {<<2, "R">>, <<3, "R">>} /\ x[1] = "proof" =>
            x = Proof("listen") /\ hs.listen = Established
        /\ e \in {<<2, "L">>, <<3, "L">>} /\ x[1] = "proof" => x = Proof("share")}

PortInv ==
    /\ OnlyItsOwnPort
    /\ hs.listen >= 4 => agree
    /\ hs.share = Established => agree /\ hs.listen = Established
    /\ \A e \in Ends : inbox[e] \in Seq(Carried(e))
    /\ \A c \in Copies : held[c] \in Seq(Carried(Src(c)))

\* What a user reads is the beginning of what the other wrote.  Nothing is
\* buffered on the write side, so there is nothing to flush
\* (proto/frame_conn.go:279-280): a user whose own words were all read before
\* the other hung up has the whole of the answer when the stream ends.
WholeWhenHeard ==
    \A e \in {Client, Service} :
        LET other == IF e = Client THEN Service ELSE Client IN
        /\ \A i \in DOMAIN got[e] : got[e][i] = Datum(i)
        /\ Len(got[e]) <= sent[other]
        /\ (open[e] /\ ReadEnds(e) /\ ~cut /\ Len(got[other]) = sent[e])
            => Len(got[e]) = sent[other]

\* Closed, and not just the service's connection before it is dialed.
Shut(e) == ~open[e] /\ (e[1] = 4 => dialed)

\* And nothing ends early: between two sides that mean the same port and that
\* nobody cuts, no step of the handshake fails (proto/auth.go:25-83), and the
\* stream ends for a user only when the other hung up, or when share could not
\* reach the service of an opened tunnel (share.go:174-183).
Trusting ==
    agree /\ ~cut => hs.listen # 0 /\ (hs.share = 0 => hs.listen = Established)

EndsForAReason ==
    /\ Trusting
    /\ \A e \in {Client, Service} :
        LET other == IF e = Client THEN Service ELSE Client IN
        open[e] /\ ReadEnds(e) /\ agree /\ ~cut => Shut(other) \/ hs.share = 0

\* A side of the handshake can take its next step; a copy has something to carry
\* and room for it.
MayGoOn(n) ==
    /\ Exchanging(n)
    /\ IF Move(n) \in {"read challenge", "read proof"}
       THEN open[TunnelEnd(n)] /\ inbox[TunnelEnd(n)] # <<>>
       ELSE Room(TunnelEnd(n))

MayCarry(c) ==
    /\ Running(c)
    /\ IF held[c] = <<>> THEN open[Src(c)] /\ inbox[Src(c)] # <<>> ELSE Room(Dst(c))

\* The order of the handshake's reads and writes (proto/auth.go:62-83) never
\* leaves both sides waiting, even for a relay that buffers one item: until both
\* are done, one of them or the relay between them can go on.
HandshakeMoves ==
    (/\ ~cut /\ hs.listen # 0 /\ hs.share # 0
     /\ \E n \in {"listen", "share"} : Exchanging(n))
    => \/ \E n \in {"listen", "share"} : MayGoOn(n)
       \/ \E d \in {"down", "up"} : MayCarry(<<2, d>>)

\* A close on one leg propagates to the others instead of leaking a half-open
\* connection (streamio/splice.go:35-38): when either user or anything between
\* them closes, every end the program holds is closed for good.
EverybodyHangsUp ==
    (\E e \in Ends : Shut(e))
        ~> [](\A e \in Ours : ~open[e])

\* The handshake cannot deadlock (proto/auth.go:66), however little its
\* transport buffers: both sides finish it, or something has ended it.
HandshakeEnds ==
    <>(\/ hs.listen = Established /\ hs.share = Established
       \/ \E n \in {"listen", "share"} : hs[n] = 0)
------------------------------------------------------------------------------
(* Why WholeWhenHeard holds: the data of a way are numbered, and each stage  *)
(* of it holds consecutive numbers.                                          *)

Ways == {"down", "up"}
Back(w) == IF w = "down" THEN "up" ELSE "down"

\* The end that reads the k-th connection of a way, counted from its source,
\* and the copy that reads it.
Inlet(w, k) == IF w = "down" THEN <<k, "R">> ELSE <<5 - k, "L">>
Hand(w, k) == IF w = "down" THEN <<k, "down">> ELSE <<4 - k, "up">>

Sink(w) == Inlet(w, 4)
Source(w) == Sink(Back(w))

\* The tunnel end that reads the handshake of a way, and the one that writes it.
Reader(w) == IF w = "down" THEN "share" ELSE "listen"
Writer(w) == Reader(Back(w))

Whole(w, k) == ~Shut(Inlet(w, k)) /\ ~Shut(Other(Inlet(w, k)))
Drains(w, k) == copy[Hand(w, k)] = "copying" /\ ~Shut(Inlet(w, k))

\* What a side has yet to write of its handshake, and to read of the other's.
ToWrite(n) ==
    IF hs[n] = 0 THEN 0
    ELSE IF n = "listen" THEN <<2, 1, 1, 1, 0>>[hs[n]] ELSE <<2, 2, 1, 0, 0>>[hs[n]]
ToRead(n) ==
    IF hs[n] = 0 THEN 2
    ELSE IF n = "listen" THEN <<2, 2, 1, 0, 0>>[hs[n]] ELSE <<2, 1, 1, 1, 0>>[hs[n]]

\* Nothing failed, the sink is there, and a source that hung up had heard the
\* sink out.
Orderly(w) ==
    /\ ~cut /\ hs.listen # 0 /\ hs.share # 0
    /\ ~Shut(Sink(w))
    /\ Shut(Source(w)) => Len(got[Source(w)]) = sent[Sink(w)]

\* Then the close travels behind the data: a copy of the way ends once all
\* before it is done, the copy back ends after it, and only they close.
Order(w) ==
    /\ \A v \in Ways, k \in 1..3 :
        Shut(Other(Inlet(v, k + 1))) => copy[Hand(v, k)] = "over"
    /\ \A k \in 1..3 :
        /\ copy[Hand(Back(w), 4 - k)] = "over" => copy[Hand(w, k)] = "over"
        /\ copy[Hand(w, k)] = "over" =>
            /\ Shut(Source(w))
            /\ inbox[Inlet(w, k)] = <<>> /\ held[Hand(w, k)] = <<>>
            /\ k > 1 => copy[Hand(w, k - 1)] = "over"

\* The i-th item of a way: the data count from 1, and before the first come
\* the proof and the challenge.
Fits(x, i) == (i >= 1 => x = Datum(i)) /\ (i = 0 => x[1] = "proof")

\* The items after the n-th of a way.
Numbered(q, n) == \A i \in 1..Len(q) : Fits(q[i], n + i)

\* What is further up is further on: exactly so where nothing can be lost.
Link(exact, high, low) == high >= low /\ (exact => high = low)

Due(w, k) == IF k = 2 THEN ToWrite(Writer(w)) ELSE 0
Debt(w, k) == IF k = 3 THEN ToRead(Reader(w)) ELSE 0

\* The n-th item went into the k-th connection last, and the m-th left it last.
Wire(w, k, n, m) ==
    /\ Link(Whole(w, k) \/ Orderly(w), n, m + Len(inbox[Inlet(w, k)]) + Due(w, k))
    /\ Numbered(inbox[Inlet(w, k)], m)

\* The same of the k-th copy.
Splice(w, k, n, m) ==
    /\ Link(Drains(w, k) \/ Orderly(w), n, m + Len(held[Hand(w, k)]) - Debt(w, k))
    /\ Numbered(held[Hand(w, k)], m)

\* into[k] is the number of the last item into the k-th connection, out[k] of
\* the last out of it.
Flow(w, into, out) ==
    /\ into \in [1..4 -> Int] /\ out \in [1..4 -> Int]
    /\ into[1] = sent[Source(w)] /\ out[4] = Len(got[Sink(w)])
    /\ \A k \in 1..4 : Wire(w, k, into[k], out[k])
    /\ \A k \in 1..3 : Splice(w, k, out[k], into[k + 1])
    /\ Numbered(got[Sink(w)], 0)
    /\ ~Spliced(Hand(w, 1)) => into[2] = 0
    /\ ~Spliced(Hand(w, 3)) => into[4] = 0

\* A splice has done nothing before it started and holds one item at most, and
\* the service is not there before it is dialed.
Begun ==
    /\ dialed => hs.share = Established
    /\ ~dialed => ~open[Service] /\ ~open[<<4, "L">>] /\ sent[Service] = 0
    /\ \A c \in Copies :
        /\ ~Spliced(c) => copy[c] = "copying" /\ held[c] = <<>>
        /\ Len(held[c]) <= 1

Flows(w) == \E into, out \in [1..4 -> Int] : Flow(w, into, out)

\* The inductive invariant.
WholeInv ==
    /\ PortInv
    /\ Begun
    /\ \A w \in Ways : Flows(w) /\ (Orderly(w) => Order(w))
=============================================================================
