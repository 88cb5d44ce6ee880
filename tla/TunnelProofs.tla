---------------------------- MODULE TunnelProofs ----------------------------
(****************************************************************************)
(* What a tunnel delivers, for any amount of data and buffering: to the     *)
(* right port only (PortsAgree), all of it when it ends well (HeardIsWhole) *)
(* and an end only for a reason (EndsAreJustified), after a handshake that  *)
(* is never stuck (HandshakeNeverStuck).                                    *)
(*                                                                          *)
(* PortInv bounds what each connection and each copy may carry (Carried).   *)
(* A splice only moves items to where they are allowed as well (Passed),    *)
(* and what is allowed only grows (Grows).                                  *)
(*                                                                          *)
(* WholeInv numbers the items of each way, the handshake's before the first *)
(* of the data, and says which numbers lie in which connection and copy     *)
(* (Flow).  A step moves one number on (WireTake, WirePut, SpliceRead,      *)
(* SpliceWrite), leaves a place alone, or breaks it for good (WireBreaks,   *)
(* SpliceBreaks); nothing is put together again (Weaker).  While nothing is *)
(* broken a close follows the data (Order), so whoever hears it has heard   *)
(* all there was.                                                           *)
(****************************************************************************)
EXTENDS TunnelProperties, TLAPS

LEMMA OtherEnd == \A e \in Ends : Other(e) \in Ends
BY DEF Other, Ends

LEMMA CopyEndpoints == \A c \in Copies : Src(c) \in Ends /\ Dst(c) \in Ends
BY DEF Copies, Src, Dst, Ends

\* What a copy may read, the end that reads after it may read too.
LEMMA Passed ==
    ASSUME NEW c \in Copies
    PROVE  Carried(Src(c)) \subseteq Carried(Other(Dst(c)))
<1>1. PICK i \in 1..3 : c = <<i, "down">> \/ c = <<i, "up">>
  BY DEF Copies
<1>2. CASE c = <<i, "down">>
  <2>1. Src(c) = <<i, "R">> /\ Other(Dst(c)) = <<i + 1, "R">>
    BY <1>2 DEF Src, Dst, Other
  <2>2. CASE i = 1  BY <2>1, <2>2 DEF Carried
  <2>3. CASE i = 2  BY <2>1, <2>3 DEF Carried
  <2>4. CASE i = 3  BY <2>1, <2>4 DEF Carried
  <2> QED  BY <2>2, <2>3, <2>4
<1>3. CASE c = <<i, "up">>
  <2>1. Src(c) = <<i + 1, "L">> /\ Other(Dst(c)) = <<i, "L">>
    BY <1>3 DEF Src, Dst, Other
  <2>2. CASE i = 1  BY <2>1, <2>2 DEF Carried
  <2>3. CASE i = 2  BY <2>1, <2>3 DEF Carried
  <2>4. CASE i = 3  BY <2>1, <2>4 DEF Carried
  <2> QED  BY <2>2, <2>3, <2>4
<1> QED  BY <1>1, <1>2, <1>3

LEMMA CarriedItems == \A e : Carried(e) \subseteq Items
BY DEF Carried

\* The listener's success is for good, and so is what it lets pass.
LEMMA Grows ==
    ASSUME agree' = agree, hs.listen = Established => hs'.listen = Established,
           NEW e
    PROVE  Carried(e) \subseteq Carried(e)'
BY DEF Carried, Items, Proof, Established, Challenge

LEMMA SeqGrows ==
    ASSUME NEW A, NEW B, A \subseteq B, NEW s \in Seq(A)
    PROVE  s \in Seq(B)
OBVIOUS

------------------------------------------------------------------------------
(* What an action leaves in the connections, in terms of what is allowed       *)
(* before it.                                                                  *)

Boxes(b) ==
    b \in [Ends -> Seq(Items)] /\ \A e \in Ends : b[e] \in Seq(Carried(e))

Hands(h) ==
    h \in [Copies -> Seq(Items)] /\ \A c \in Copies : h[c] \in Seq(Carried(Src(c)))

LEMMA Taking ==
    ASSUME Boxes(inbox), NEW e \in Ends, inbox[e] # <<>>, Take(e)
    PROVE  Boxes(inbox') /\ Head(inbox[e]) \in Carried(e)
BY DEF Boxes, Take

LEMMA Putting ==
    ASSUME Boxes(inbox), NEW e \in Ends, NEW x \in Carried(Other(e)), Put(e, x)
    PROVE  Boxes(inbox')
<1>1. Other(e) \in Ends /\ x \in Items
  BY OtherEnd, CarriedItems
<1> QED  BY <1>1 DEF Boxes, Put

LEMMA Voiding ==
    ASSUME Boxes(inbox), NEW e \in Ends, WriteIntoVoid(e)
    PROVE  Boxes(inbox')
<1>1. inbox' = inbox \/ inbox' = [inbox EXCEPT ![e] = <<>>]
  BY DEF WriteIntoVoid
<1>2. CASE inbox' = inbox  BY <1>2 DEF Boxes
<1>3. CASE inbox' = [inbox EXCEPT ![e] = <<>>]  BY <1>3 DEF Boxes
<1> QED  BY <1>1, <1>2, <1>3

LEMMA Closing ==
    ASSUME Boxes(inbox), NEW S, Close(S)
    PROVE  Boxes(inbox') /\ open' \in [Ends -> BOOLEAN]
<1>1. PICK lost : inbox' = [e \in Ends |-> IF e \in S \cup lost THEN <<>> ELSE inbox[e]]
  BY DEF Close
<1>2. Boxes(inbox')
  BY <1>1 DEF Boxes
<1>3. open' \in [Ends -> BOOLEAN]
  BY DEF Close
<1> QED  BY <1>2, <1>3

\* What is left to show of an action that keeps to what was allowed.
LEMMA Step ==
    ASSUME OnlyItsOwnPort', agree' = agree,
           hs.listen = Established => hs'.listen = Established,
           Boxes(inbox') \/ \A e \in Ends : inbox'[e] \in Seq(Carried(e)'),
           Hands(held'),
           hs'.listen >= 4 => agree,
           hs'.share = Established => agree /\ hs'.listen = Established
    PROVE  PortInv'
<1>1. ASSUME NEW e \in Ends PROVE inbox'[e] \in Seq(Carried(e)')
  BY <1>1, Grows, SeqGrows DEF Boxes
<1>2. ASSUME NEW c \in Copies PROVE held'[c] \in Seq(Carried(Src(c))')
  BY <1>2, Grows, SeqGrows, CopyEndpoints DEF Hands
<1> QED  BY <1>1, <1>2 DEF PortInv, Src

------------------------------------------------------------------------------
LEMMA Opened == PortInv => Boxes(inbox) /\ Hands(held)
BY DEF PortInv, OnlyItsOwnPort, TunnelTypeOK, Boxes, Hands

LEMMA TunnelStart == TunnelInit => PortInv
<1> SUFFICES ASSUME TunnelInit PROVE PortInv
  OBVIOUS
<1> USE DEF TunnelInit
<1>1. TunnelTypeOK
  <2>1. inbox \in [Ends -> Seq(Items)] /\ held \in [Copies -> Seq(Items)]
    OBVIOUS
  <2>2. open \in [Ends -> BOOLEAN] /\ copy \in [Copies -> {"copying", "over"}]
    OBVIOUS
  <2>3. hs \in [{"listen", "share"} -> 0..Established]
    BY DEF Established
  <2>4. /\ sent \in [{Client, Service} -> Nat]
        /\ got \in [{Client, Service} -> Seq(Items)]
    OBVIOUS
  <2> QED  BY <2>1, <2>2, <2>3, <2>4 DEF TunnelTypeOK
<1>2. OnlyItsOwnPort /\ hs.listen < 4 /\ hs.share # Established
  BY <1>1 DEF OnlyItsOwnPort, Established
<1>3. \A e \in Ends : inbox[e] \in Seq(Carried(e))
  OBVIOUS
<1>4. \A c \in Copies : held[c] \in Seq(Carried(Src(c)))
  OBVIOUS
<1> QED  BY <1>1, <1>2, <1>3, <1>4 DEF PortInv, TunnelTypeOK

\* The two ways a side's handshake moves, and what they need to be allowed.
LEMMA Failing ==
    ASSUME PortInv, NEW n \in {"listen", "share"}, FailTunnel(n),
           Exchanging(n) \/ n = "share",
           UNCHANGED <<agree, dialed, copies, users>>, cut' \in BOOLEAN
    PROVE  PortInv'
<1>1. Boxes(inbox') /\ open' \in [Ends -> BOOLEAN] /\ Hands(held')
  BY Opened, Closing DEF FailTunnel, copies
<1>2. /\ hs' \in [{"listen", "share"} -> 0..Established]
      /\ hs.listen = Established => hs'.listen = Established
      /\ hs'.listen >= 4 => hs.listen >= 4
      /\ hs'.share = Established => hs.share = Established
      /\ hs'.listen = Established => hs.listen = Established
  BY DEF PortInv, OnlyItsOwnPort, TunnelTypeOK, FailTunnel, Exchanging, Established
<1>3. OnlyItsOwnPort'
  BY <1>1, <1>2 DEF PortInv, OnlyItsOwnPort, TunnelTypeOK, Boxes, copies, users
<1> QED  BY <1>1, <1>2, <1>3, Step DEF PortInv

LEMMA Advancing ==
    ASSUME PortInv, NEW n \in {"listen", "share"}, Exchanging(n), Advance(n),
           n = "listen" /\ hs[n] = 3 => agree,
           n = "share" /\ hs[n] = 4 => agree /\ hs.listen = Established,
           inbox' \in [Ends -> Seq(Items)],
           Boxes(inbox') \/ \A e \in Ends : inbox'[e] \in Seq(Carried(e)'),
           UNCHANGED <<agree, dialed, copies, users, cut>>
    PROVE  PortInv'
<1>1. Hands(held')
  BY Opened DEF copies
<1>2. /\ hs' \in [{"listen", "share"} -> 0..Established]
      /\ hs.listen = Established => hs'.listen = Established
      /\ hs'.listen >= 4 => agree
      /\ hs'.share = Established => agree /\ hs'.listen = Established
  BY DEF PortInv, OnlyItsOwnPort, TunnelTypeOK, Advance, Exchanging, Established
<1>3. OnlyItsOwnPort'
  BY <1>2 DEF PortInv, OnlyItsOwnPort, TunnelTypeOK, Boxes, Advance, copies, users,
              Established
<1> QED  BY <1>1, <1>2, <1>3, Step

------------------------------------------------------------------------------
LEMMA TunnelEnds ==
    ASSUME NEW n \in {"listen", "share"}
    PROVE  /\ TunnelEnd(n) \in Ends
           /\ n = "listen" => TunnelEnd(n) = <<2, "L">> /\ Other(TunnelEnd(n)) = <<2, "R">>
           /\ n = "share" => TunnelEnd(n) = <<3, "R">> /\ Other(TunnelEnd(n)) = <<3, "L">>
BY DEF TunnelEnd, Ends, Other

LEMMA Moves ==
    ASSUME NEW n \in {"listen", "share"}, Exchanging(n)
    PROVE  /\ hs[n] = 1 /\ n = "listen" => Move(n) = "write challenge"
           /\ hs[n] = 2 /\ n = "share" => Move(n) = "write challenge"
           /\ hs[n] = 3 /\ n = "share" => Move(n) = "write proof"
           /\ hs[n] = 3 /\ n = "listen" => Move(n) = "read proof"
           /\ hs[n] = 4 /\ n = "listen" => Move(n) = "write proof"
           /\ hs[n] = 4 /\ n = "share" => Move(n) = "read proof"
           /\ Move(n) = "write proof" /\ n = "listen" => hs[n] = 4
           /\ Move(n) \in {"read challenge", "write challenge", "read proof", "write proof"}
<1>1. CASE hs[n] = 1  BY <1>1 DEF Move, Script
<1>2. CASE hs[n] = 2  BY <1>2 DEF Move, Script
<1>3. CASE hs[n] = 3  BY <1>3 DEF Move, Script
<1>4. CASE hs[n] = 4  BY <1>4 DEF Move, Script
<1>5. hs[n] = 1 \/ hs[n] = 2 \/ hs[n] = 3 \/ hs[n] = 4
  BY DEF Exchanging
<1> QED  BY <1>1, <1>2, <1>3, <1>4, <1>5

\* Writing: the listener's proof leaves as it succeeds.
LEMMA Writing ==
    ASSUME PortInv, NEW n \in {"listen", "share"}, Exchanging(n),
           NEW x \in Items, x[1] # "data", x[1] = "proof" => x = Proof(n),
           x[1] = "proof" /\ n = "listen" => hs[n] = 4,
           ~(n = "listen" /\ hs[n] = 3), ~(n = "share" /\ hs[n] = 4),
           WriteStep(n, x), UNCHANGED <<agree, dialed, copies, users, cut>>
    PROVE  PortInv'
<1> DEFINE e == TunnelEnd(n)
<1>1. e \in Ends /\ Other(e) \in Ends /\ Boxes(inbox) /\ Hands(held)
  BY TunnelEnds, OtherEnd, Opened
<1>2. CASE FailTunnel(n)
  BY <1>2, Failing DEF PortInv, OnlyItsOwnPort, TunnelTypeOK
<1>3. CASE WriteIntoVoid(e) /\ Advance(n)
  <2>1. Boxes(inbox')
    BY <1>1, <1>3, Voiding
  <2> QED  BY <1>3, <2>1, Advancing DEF Boxes
<1>4. ASSUME Put(e, x), Advance(n) PROVE PortInv'
  <2>1. inbox' \in [Ends -> Seq(Items)]
    BY <1>1, <1>4 DEF Boxes, Put
  <2>2. /\ hs.listen = Established => hs'.listen = Established
        /\ n = "listen" /\ hs[n] = 4 => hs'.listen = Established
    BY <1>4 DEF Advance, Exchanging, PortInv, OnlyItsOwnPort, TunnelTypeOK, Established
  <2>3. x \in Carried(Other(e))'
    <3>1. /\ n = "listen" => Other(e) = <<2, "R">>
          /\ n = "share" => Other(e) = <<3, "L">>
      BY TunnelEnds
    <3>2. Proof(n)' = Proof(n)
      BY DEF Proof
    <3>3. CASE n = "listen"
      BY <2>2, <3>1, <3>2, <3>3 DEF Carried
    <3>4. CASE n = "share"
      BY <3>1, <3>2, <3>4 DEF Carried
    <3> QED  BY <3>3, <3>4
  <2>4. ASSUME NEW f \in Ends PROVE inbox'[f] \in Seq(Carried(f)')
    <3>1. inbox[f] \in Seq(Carried(f)')
      BY <1>1, <2>2, Grows, SeqGrows DEF Boxes
    <3> QED  BY <1>1, <1>4, <2>3, <3>1 DEF Put, Boxes
  <2> QED  BY <1>4, <2>1, <2>4, Advancing
<1> QED  BY <1>2, <1>3, <1>4 DEF WriteStep

\* Reading: what a side accepts is a proof of its own port.
LEMMA Reading ==
    ASSUME PortInv, NEW n \in {"listen", "share"}, Exchanging(n),
           ReadStep(n), UNCHANGED <<agree, dialed, copies, users, cut>>
    PROVE  PortInv'
<1> DEFINE e == TunnelEnd(n)
<1>1. e \in Ends /\ Boxes(inbox) /\ Hands(held)
  BY TunnelEnds, Opened
<1>2. CASE FailTunnel(n)
  BY <1>2, Failing DEF PortInv, OnlyItsOwnPort, TunnelTypeOK
<1>3. CASE inbox[e] # <<>> /\ Accepts(n, Head(inbox[e])) /\ Take(e) /\ Advance(n)
  <2> DEFINE x == Head(inbox[e])
  <2>1. Boxes(inbox') /\ x \in Carried(e)
    BY <1>1, <1>3, Taking
  <2>2. ASSUME n = "listen", hs[n] = 3 PROVE agree
    <3>1. x = Proof("listen")
      BY <1>3, <2>2, Moves DEF Accepts
    <3>2. x[1] = "proof" => x = Proof("share")
      BY <2>1, <2>2, TunnelEnds DEF Carried
    <3> QED  BY <3>1, <3>2 DEF Proof
  <2>3. ASSUME n = "share", hs[n] = 4 PROVE agree /\ hs.listen = Established
    <3>1. x = Proof("share")
      BY <1>3, <2>3, Moves DEF Accepts
    <3>2. x[1] = "proof" => x = Proof("listen") /\ hs.listen = Established
      BY <2>1, <2>3, TunnelEnds DEF Carried
    <3> QED  BY <3>1, <3>2 DEF Proof
  <2> QED  BY <1>3, <2>1, <2>2, <2>3, Advancing DEF Boxes
<1> QED  BY <1>2, <1>3 DEF ReadStep


LEMMA Exchanges ==
    ASSUME PortInv, NEW n \in {"listen", "share"}, Exchange(n)
    PROVE  PortInv'
<1>1. Exchanging(n) /\ UNCHANGED <<agree, dialed, copies, users, cut>>
  BY DEF Exchange
<1>2. ASSUME Move(n) = "write challenge", WriteStep(n, Challenge) PROVE PortInv'
  <2>1. ~(n = "listen" /\ hs[n] = 3) /\ ~(n = "share" /\ hs[n] = 4)
    BY <1>1, <1>2, Moves
  <2>2. Challenge \in Items /\ Challenge[1] # "data" /\ Challenge[1] # "proof"
    BY DEF Items, Challenge
  <2> QED  BY <1>1, <1>2, <2>1, <2>2, Writing
<1>3. ASSUME Move(n) = "write proof", WriteStep(n, Proof(n)) PROVE PortInv'
  <2>1. /\ ~(n = "listen" /\ hs[n] = 3) /\ ~(n = "share" /\ hs[n] = 4)
        /\ n = "listen" => hs[n] = 4
    BY <1>1, <1>3, Moves
  <2>2. Proof(n) \in Items /\ Proof(n)[1] # "data"
    BY DEF Items, Proof
  <2> QED  BY <1>1, <1>3, <2>1, <2>2, Writing
<1>4. ASSUME ReadStep(n) PROVE PortInv'
  BY <1>1, <1>4, Reading
<1> QED  BY <1>2, <1>3, <1>4 DEF Exchange

------------------------------------------------------------------------------
(* The rest of the connection's life leaves the handshake alone. *)

LEMMA Untouched ==
    ASSUME PortInv, UNCHANGED <<agree, hs>>, Boxes(inbox'), Hands(held'),
           open' \in [Ends -> BOOLEAN], cut' \in BOOLEAN,
           copy' \in [Copies -> {"copying", "over"}],
           sent' \in [{Client, Service} -> Nat],
           got' \in [{Client, Service} -> Seq(Items)],
           dialed' \in BOOLEAN, dialed' => dialed \/ hs.share = Established
    PROVE  PortInv'
<1>1. OnlyItsOwnPort'
  BY DEF PortInv, OnlyItsOwnPort, TunnelTypeOK, Boxes, Hands
<1> QED  BY <1>1, Step DEF PortInv

LEMMA UserEnds ==
    /\ Client \in Ends /\ Service \in Ends
    /\ \A x : x[1] = "data" /\ x \in Items =>
            x \in Carried(<<1, "R">>) /\ x \in Carried(<<4, "L">>)
    /\ Other(Client) = <<1, "R">> /\ Other(Service) = <<4, "L">>
BY DEF Client, Service, Ends, Other, Carried

LEMMA TunnelStep == PortInv /\ [TunnelNext]_tunnelVars => PortInv'
<1> SUFFICES ASSUME PortInv, [TunnelNext]_tunnelVars PROVE PortInv'
  OBVIOUS
<1>0. /\ Boxes(inbox) /\ Hands(held) /\ open \in [Ends -> BOOLEAN]
      /\ cut \in BOOLEAN /\ dialed \in BOOLEAN
      /\ copy \in [Copies -> {"copying", "over"}]
      /\ sent \in [{Client, Service} -> Nat]
      /\ got \in [{Client, Service} -> Seq(Items)]
  BY Opened DEF PortInv, OnlyItsOwnPort, TunnelTypeOK
<1>1. ASSUME NEW n \in {"listen", "share"}, Exchange(n) PROVE PortInv'
  BY <1>1, Exchanges
<1>2. ASSUME NEW n \in {"listen", "share"}, Expire(n) PROVE PortInv'
  BY <1>2, Failing DEF Expire
<1>3. ASSUME NEW c \in Copies, CopyStep(c) PROVE PortInv'
  <2>0. Src(c) \in Ends /\ Dst(c) \in Ends
    BY CopyEndpoints
  <2>1. CASE CopyRead(c)
    <3>1. Boxes(inbox') /\ Head(inbox[Src(c)]) \in Carried(Src(c))
      BY <1>0, <2>0, <2>1, Taking DEF CopyRead
    <3>2. Head(inbox[Src(c)]) \in Items
      BY <3>1, CarriedItems
    <3>3. Hands(held')
      BY <1>0, <2>1, <3>1, <3>2 DEF CopyRead, Hands
    <3> QED  BY <1>0, <2>1, <3>1, <3>3, Untouched DEF CopyRead, users
  <2>2. CASE CopyWrite(c)
    <3>1. Head(held[c]) \in Carried(Other(Dst(c)))
      <4>1. Head(held[c]) \in Carried(Src(c))
        BY <1>0, <2>2 DEF CopyWrite, Hands
      <4> QED  BY <4>1, Passed
    <3>2. Boxes(inbox')
      BY <1>0, <2>0, <2>2, <3>1, Putting, Voiding DEF CopyWrite
    <3>3. Hands(held')
      BY <1>0, <2>2 DEF CopyWrite, Hands
    <3> QED  BY <1>0, <2>2, <3>2, <3>3, Untouched DEF CopyWrite, users
  <2>3. CASE CopyEnds(c)
    <3>1. Boxes(inbox') /\ open' \in [Ends -> BOOLEAN]
      BY <1>0, <2>3, Closing DEF CopyEnds
    <3>2. Hands(held') /\ copy' \in [Copies -> {"copying", "over"}]
      BY <1>0, <2>3 DEF CopyEnds, Hands
    <3> QED  BY <1>0, <2>3, <3>1, <3>2, Untouched DEF CopyEnds, users
  <2> QED  BY <1>3, <2>1, <2>2, <2>3 DEF CopyStep
<1>4. ASSUME NEW e \in {Client, Service}, UserWrites(e) PROVE PortInv'
  <2>1. Datum(sent[e] + 1) \in Items /\ Datum(sent[e] + 1)[1] = "data"
    BY <1>0, <1>4 DEF Items, Datum
  <2>2. Datum(sent[e] + 1) \in Carried(Other(e)) /\ e \in Ends
    BY <1>4, <2>1, UserEnds
  <2>3. Boxes(inbox')
    BY <1>0, <1>4, <2>2, Putting DEF UserWrites
  <2>4. sent' \in [{Client, Service} -> Nat]
    BY <1>0, <1>4 DEF UserWrites
  <2> QED  BY <1>0, <1>4, <2>3, <2>4, Untouched DEF UserWrites, copies
<1>5. ASSUME NEW e \in {Client, Service}, UserReads(e) PROVE PortInv'
  <2>1. Boxes(inbox') /\ Head(inbox[e]) \in Items
    BY <1>0, <1>5, UserEnds, Taking, CarriedItems DEF UserReads
  <2>2. got' \in [{Client, Service} -> Seq(Items)]
    BY <1>0, <1>5, <2>1 DEF UserReads
  <2> QED  BY <1>0, <1>5, <2>1, <2>2, Untouched DEF UserReads, copies
<1>6. ASSUME NEW e \in {Client, Service}, UserCloses(e) PROVE PortInv'
  <2>1. Boxes(inbox') /\ open' \in [Ends -> BOOLEAN]
    BY <1>0, <1>6, Closing DEF UserCloses
  <2> QED  BY <1>0, <1>6, <2>1, Untouched DEF UserCloses, copies, users
<1>7. CASE Dial
  <2>1. CASE DialService
    <3>1. open' \in [Ends -> BOOLEAN]
      BY <1>0, <2>1 DEF DialService
    <3> QED  BY <1>0, <2>1, <3>1, Untouched DEF DialService, Dialing, copies, users, Boxes, Hands
  <2>2. CASE DialFails
    <3>1. FailTunnel("share")
      BY <2>2 DEF DialFails, FailTunnel
    <3> QED  BY <1>0, <2>2, <3>1, Failing DEF DialFails
  <2> QED  BY <1>7, <2>1, <2>2 DEF Dial
<1>8. CASE CutShort
  <2>1. Boxes(inbox') /\ open' \in [Ends -> BOOLEAN]
    BY <1>0, <1>8, Closing DEF CutShort
  <2> QED  BY <1>0, <1>8, <2>1, Untouched DEF CutShort, copies, users
<1>9. CASE UNCHANGED tunnelVars
  BY <1>0, <1>9, Untouched DEF tunnelVars, wires, copies, users, Boxes, Hands
<1> QED  BY <1>1, <1>2, <1>3, <1>4, <1>5, <1>6, <1>7, <1>8, <1>9 DEF TunnelNext

\* Whatever the relay paired, a listener's tunnel opens only for the port share
\* means too, and share dials its service only after that (proto/auth.go:14-23):
\* for any buffering, any amount of data and any resets.
THEOREM PortsAgree == TunnelSpec => []OnlyItsOwnPort
<1>1. PortInv => OnlyItsOwnPort
  BY DEF PortInv
<1> QED  BY <1>1, TunnelStart, TunnelStep, PTL DEF TunnelSpec
------------------------------------------------------------------------------
(* The shape of the chain, seen from a way.                                    *)

LEMMA Inlets ==
    ASSUME NEW w \in Ways, NEW k \in 1..4
    PROVE  /\ Inlet(w, k) \in Ends
           /\ Other(Inlet(w, k)) = Inlet(Back(w), 5 - k)
           /\ Back(w) \in Ways /\ Back(Back(w)) = w /\ Back(w) # w
           /\ \A v \in Ways, j \in 1..4 : Inlet(w, k) = Inlet(v, j) => w = v /\ k = j
BY DEF Ways, Inlet, Ends, Other, Back

LEMMA EveryEnd == \A e \in Ends : \E w \in Ways, k \in 1..4 : e = Inlet(w, k)
<1> SUFFICES ASSUME NEW e \in Ends PROVE \E w \in Ways, k \in 1..4 : e = Inlet(w, k)
  OBVIOUS
<1>1. PICK k \in 1..4 : e = <<k, "L">> \/ e = <<k, "R">>
  BY DEF Ends
<1>2. CASE e = <<k, "R">>
  BY <1>2 DEF Inlet, Ways
<1>3. CASE e = <<k, "L">>
  <2>1. 5 - k \in 1..4 /\ 5 - (5 - k) = k
    OBVIOUS
  <2>2. e = Inlet("up", 5 - k)
    BY <1>3, <2>1 DEF Inlet
  <2> QED  BY <2>1, <2>2 DEF Ways
<1> QED  BY <1>1, <1>2, <1>3

LEMMA OtherOther == \A e \in Ends : Other(e) # e /\ Other(Other(e)) = e
BY DEF Ends, Other

LEMMA Hands3 ==
    ASSUME NEW w \in Ways, NEW k \in 1..3
    PROVE  /\ Hand(w, k) \in Copies
           /\ Src(Hand(w, k)) = Inlet(w, k)
           /\ Dst(Hand(w, k)) = Inlet(Back(w), 4 - k)
           /\ Dst(Hand(w, k)) = Other(Inlet(w, k + 1))
           /\ Other(Dst(Hand(w, k))) = Inlet(w, k + 1)
           /\ \A v \in Ways, j \in 1..3 : Hand(w, k) = Hand(v, j) => w = v /\ k = j
BY DEF Ways, Inlet, Hand, Copies, Src, Dst, Other, Back

LEMMA EveryCopy == \A c \in Copies : \E w \in Ways, k \in 1..3 : c = Hand(w, k)
<1> SUFFICES ASSUME NEW c \in Copies PROVE \E w \in Ways, k \in 1..3 : c = Hand(w, k)
  OBVIOUS
<1>1. PICK k \in 1..3 : c = <<k, "up">> \/ c = <<k, "down">>
  BY DEF Copies
<1>2. CASE c = <<k, "down">>
  BY <1>2 DEF Hand, Ways
<1>3. CASE c = <<k, "up">>
  <2>1. 4 - k \in 1..3 /\ 4 - (4 - k) = k
    OBVIOUS
  <2>2. c = Hand("up", 4 - k)
    BY <1>3, <2>1 DEF Hand
  <2> QED  BY <2>1, <2>2 DEF Ways
<1> QED  BY <1>1, <1>2, <1>3

LEMMA Users ==
    ASSUME NEW w \in Ways
    PROVE  /\ Sink(w) \in {Client, Service} /\ Source(w) \in {Client, Service}
           /\ Sink(w) # Source(w) /\ {Sink(w), Source(w)} = {Client, Service}
           /\ Sink(w) = Inlet(w, 4) /\ Source(w) = Inlet(Back(w), 4)
           /\ Other(Inlet(w, 1)) = Source(w)
           /\ Source(Back(w)) = Sink(w) /\ Sink(Back(w)) = Source(w)
           /\ Other(Source(w)) = Inlet(w, 1)
BY DEF Ways, Sink, Source, Client, Service, Inlet, Back, Other

LEMMA EveryUser == \A e \in {Client, Service} : \E w \in Ways : e = Sink(w) /\ e = Source(Back(w))
BY DEF Ways, Sink, Source, Client, Service, Inlet, Back

LEMMA Sides ==
    ASSUME NEW w \in Ways
    PROVE  /\ Reader(w) \in {"listen", "share"} /\ Writer(w) \in {"listen", "share"}
           /\ Reader(w) # Writer(w) /\ Writer(Back(w)) = Reader(w) /\ Reader(Back(w)) = Writer(w)
           /\ TunnelEnd(Reader(w)) = Inlet(w, 3)
           /\ TunnelEnd(Writer(w)) = Inlet(Back(w), 3)
           /\ Other(TunnelEnd(Writer(w))) = Inlet(w, 2)
BY DEF Ways, Reader, Writer, TunnelEnd, Inlet, Back, Other

LEMMA EverySide == \A n \in {"listen", "share"} : \E w \in Ways : n = Reader(w) /\ n = Writer(Back(w))
BY DEF Ways, Reader, Writer, Back

------------------------------------------------------------------------------
(* Numbers *)

LEMMA NumberedAppend ==
    ASSUME NEW q \in Seq(Items), NEW n \in Int, NEW x, Numbered(q, n),
           Fits(x, n + Len(q) + 1)
    PROVE  Numbered(Append(q, x), n) /\ Len(Append(q, x)) = Len(q) + 1
<1>1. Len(Append(q, x)) = Len(q) + 1 /\ Len(q) \in Nat
  OBVIOUS
<1>2. ASSUME NEW i \in 1..(Len(q) + 1)
      PROVE  Fits(Append(q, x)[i], n + i)
  <2>1. CASE i = Len(q) + 1
    <3>1. Append(q, x)[i] = x
      BY <2>1
    <3>2. n + Len(q) + 1 = n + i
      BY <1>1, <2>1
    <3> QED  BY <1>2, <3>1, <3>2
  <2>2. CASE i \in 1..Len(q)
    <3>1. Append(q, x)[i] = q[i]
      BY <2>2
    <3> QED  BY <1>2, <2>2, <3>1 DEF Numbered
  <2> QED  BY <1>1, <1>2, <2>1, <2>2
<1> QED  BY <1>1, <1>2 DEF Numbered

LEMMA NumberedTail ==
    ASSUME NEW q \in Seq(Items), NEW n \in Int, Numbered(q, n), q # <<>>
    PROVE  /\ Numbered(Tail(q), n + 1) /\ Len(Tail(q)) = Len(q) - 1
           /\ Fits(Head(q), n + 1)
<1>1. Len(q) \in Nat \ {0} /\ Len(Tail(q)) = Len(q) - 1 /\ Head(q) = q[1]
  OBVIOUS
<1>2. ASSUME NEW i \in 1..(Len(q) - 1)
      PROVE  Fits(Tail(q)[i], (n + 1) + i)
  <2>1. Tail(q)[i] = q[i + 1] /\ i + 1 \in 1..Len(q) /\ n + (i + 1) = (n + 1) + i
    BY <1>1
  <2> QED  BY <1>2, <2>1 DEF Numbered
<1> QED  BY <1>1, <1>2 DEF Numbered

LEMMA NumberedNone == \A n : Numbered(<<>>, n)
BY DEF Numbered

\* A copy reads one item at a time.
LEMMA NumberedOne ==
    ASSUME NEW n \in Int, NEW x, Fits(x, n + 1)
    PROVE  Numbered(<<x>>, n) /\ Len(<<x>>) = 1
BY DEF Numbered

------------------------------------------------------------------------------
(* What a side has left of its handshake. *)

LEMMA LeftToDo ==
    ASSUME PortInv, NEW n \in {"listen", "share"}
    PROVE  /\ ToWrite(n) \in 0..2 /\ ToRead(n) \in 0..2
           /\ hs[n] = 0 => ToWrite(n) = 0 /\ ToRead(n) = 2
           /\ hs[n] = Established => ToWrite(n) = 0 /\ ToRead(n) = 0
<1>1. hs[n] \in 0..5
  BY DEF PortInv, OnlyItsOwnPort, TunnelTypeOK, Established
<1>2. CASE hs[n] = 0  BY <1>2 DEF ToWrite, ToRead, Established
<1>3. CASE hs[n] = 1  BY <1>3 DEF ToWrite, ToRead, Established
<1>4. CASE hs[n] = 2  BY <1>4 DEF ToWrite, ToRead, Established
<1>5. CASE hs[n] = 3  BY <1>5 DEF ToWrite, ToRead, Established
<1>6. CASE hs[n] = 4  BY <1>6 DEF ToWrite, ToRead, Established
<1>7. CASE hs[n] = 5  BY <1>7 DEF ToWrite, ToRead, Established
<1> QED  BY <1>1, <1>2, <1>3, <1>4, <1>5, <1>6, <1>7

ToldToWrite(n) == Move(n) = "write challenge" \/ Move(n) = "write proof"

\* A write of the handshake leaves one less to write, a read one less to read.
LEMMA Progress ==
    ASSUME PortInv, NEW n \in {"listen", "share"}, Exchanging(n), Advance(n)
    PROVE  /\ ToldToWrite(n) => ToWrite(n) = ToWrite(n)' + 1 /\ ToRead(n)' = ToRead(n)
           /\ ~ToldToWrite(n) => ToRead(n) = ToRead(n)' + 1 /\ ToWrite(n)' = ToWrite(n)
           /\ \A m \in {"listen", "share"} \ {n} :
                ToWrite(m)' = ToWrite(m) /\ ToRead(m)' = ToRead(m)
           /\ hs'[n] = hs[n] + 1 /\ hs' \in [{"listen", "share"} -> 0..5]
<1>1. hs \in [{"listen", "share"} -> 0..5] /\ hs[n] \in 1..4 /\ hs' = [hs EXCEPT ![n] = @ + 1]
  BY DEF PortInv, OnlyItsOwnPort, TunnelTypeOK, Established, Exchanging, Advance
<1>2. hs'[n] = hs[n] + 1 /\ hs' \in [{"listen", "share"} -> 0..5]
  BY <1>1
<1>3. \A m \in {"listen", "share"} \ {n} : ToWrite(m)' = ToWrite(m) /\ ToRead(m)' = ToRead(m)
  BY <1>1 DEF ToWrite, ToRead
<1>4. CASE hs[n] = 1  BY <1>2, <1>3, <1>4 DEF ToWrite, ToRead, ToldToWrite, Move, Script
<1>5. CASE hs[n] = 2  BY <1>2, <1>3, <1>5 DEF ToWrite, ToRead, ToldToWrite, Move, Script
<1>6. CASE hs[n] = 3  BY <1>2, <1>3, <1>6 DEF ToWrite, ToRead, ToldToWrite, Move, Script
<1>7. CASE hs[n] = 4  BY <1>2, <1>3, <1>7 DEF ToWrite, ToRead, ToldToWrite, Move, Script
<1>8. hs[n] = 1 \/ hs[n] = 2 \/ hs[n] = 3 \/ hs[n] = 4
  BY <1>1
<1> QED  BY <1>4, <1>5, <1>6, <1>7, <1>8

\* A challenge is written with two things to go, a proof with one.
LEMMA Scripted ==
    ASSUME PortInv, NEW n \in {"listen", "share"}, Exchanging(n)
    PROVE  /\ Move(n) = "write challenge" => Fits(Challenge, 1 - ToWrite(n))
           /\ Move(n) = "write proof" => Fits(Proof(n), 1 - ToWrite(n))
<1>1. hs[n] = 1 \/ hs[n] = 2 \/ hs[n] = 3 \/ hs[n] = 4
  BY DEF Exchanging
<1>2. CASE hs[n] = 1
  BY <1>2 DEF Move, Script, ToWrite, Fits, Proof
<1>3. CASE hs[n] = 2
  BY <1>3 DEF Move, Script, ToWrite, Fits, Proof
<1>4. CASE hs[n] = 3
  BY <1>4 DEF Move, Script, ToWrite, Fits, Proof
<1>5. CASE hs[n] = 4
  BY <1>5 DEF Move, Script, ToWrite, Fits, Proof
<1> QED  BY <1>1, <1>2, <1>3, <1>4, <1>5

\* Whose splice runs is done with the handshake.
LEMMA SplicedIsDone ==
    ASSUME PortInv, Begun, NEW w \in Ways
    PROVE  /\ Spliced(Hand(w, 1)) => hs[Writer(w)] = Established
           /\ Spliced(Hand(w, 3)) => hs[Reader(w)] = Established
           /\ Spliced(Hand(w, 1)) <=> Spliced(Hand(Back(w), 3))
           /\ Spliced(Hand(w, 2))
BY DEF PortInv, OnlyItsOwnPort, Begun, Spliced, Hand, Writer, Reader, Ways, Back

------------------------------------------------------------------------------
(* What never goes back: a close, the end of a copy, a failure, a start.       *)

Later ==
    /\ \A e \in Ends : Shut(e) => Shut(e)'
    /\ \A c \in Copies :
        /\ copy[c] = "over" => copy'[c] = "over"
        /\ Spliced(c) => Spliced(c)'
    /\ \A n \in {"listen", "share"} : hs[n] = 0 => hs'[n] = 0
    /\ cut => cut'
    /\ \A e \in {Client, Service} :
        /\ sent'[e] >= sent[e]
        /\ Shut(e) => got'[e] = got[e]

LEMMA Types ==
    ASSUME PortInv
    PROVE  /\ open \in [Ends -> BOOLEAN] /\ inbox \in [Ends -> Seq(Items)]
           /\ hs \in [{"listen", "share"} -> 0..5]
           /\ copy \in [Copies -> {"copying", "over"}] /\ held \in [Copies -> Seq(Items)]
           /\ sent \in [{Client, Service} -> Nat]
           /\ got \in [{Client, Service} -> Seq(Items)]
           /\ dialed \in BOOLEAN /\ cut \in BOOLEAN /\ Established = 5
BY DEF PortInv, OnlyItsOwnPort, TunnelTypeOK, Established

LEMMA TypesNext ==
    ASSUME PortInv'
    PROVE  /\ open' \in [Ends -> BOOLEAN] /\ inbox' \in [Ends -> Seq(Items)]
           /\ hs' \in [{"listen", "share"} -> 0..5]
           /\ copy' \in [Copies -> {"copying", "over"}] /\ held' \in [Copies -> Seq(Items)]
           /\ sent' \in [{Client, Service} -> Nat]
           /\ got' \in [{Client, Service} -> Seq(Items)]
BY DEF PortInv, OnlyItsOwnPort, TunnelTypeOK, Established

\* A close shuts what it closes and nothing else.
LEMMA CloseShuts ==
    ASSUME PortInv, NEW S, Close(S), dialed' = dialed
    PROVE  /\ \A e \in Ends : Shut(e)' <=> (Shut(e) \/ (e \in S /\ (e[1] = 4 => dialed)))
           /\ \A e \in Ends : open'[e] = (open[e] /\ e \notin S)
<1>1. \A e \in Ends : open'[e] = (open[e] /\ e \notin S)
  BY DEF Close
<1> QED  BY <1>1 DEF Shut

\* What does not close anything, or fail, or start.
LEMMA LaterSame ==
    ASSUME PortInv, open' = open \/ (\E S : Close(S)), dialed' = dialed,
           \A c \in Copies : copy[c] = "over" => copy'[c] = "over",
           hs.listen = Established => hs'.listen = Established,
           \A n \in {"listen", "share"} : hs[n] = 0 => hs'[n] = 0,
           cut => cut',
           \A e \in {Client, Service} :
                sent'[e] >= sent[e] /\ (Shut(e) => got'[e] = got[e])
    PROVE  Later
<1>1. \A e \in Ends : Shut(e) => Shut(e)'
  BY CloseShuts DEF Shut
<1>2. \A c \in Copies : Spliced(c) => Spliced(c)'
  BY DEF Spliced
<1> QED  BY <1>1, <1>2 DEF Later

LEMMA FailIsLater ==
    ASSUME PortInv, Begun, NEW n \in {"listen", "share"}, FailTunnel(n),
           Exchanging(n) \/ (n = "share" /\ ~dialed), dialed' = dialed,
           UNCHANGED copies, UNCHANGED users, cut => cut'
    PROVE  Later /\ Begun' /\ hs'[n] = 0
<1>1. hs' = [hs EXCEPT ![n] = 0] /\ \E S : Close(S)
  BY DEF FailTunnel
<1>2. hs.listen = Established => hs'.listen = Established
  BY <1>1, Types DEF Exchanging
<1>3. \A m \in {"listen", "share"} : hs[m] = 0 => hs'[m] = 0
  BY <1>1, Types
<1>4. Later
  BY <1>1, <1>2, <1>3, LaterSame, Types DEF copies, users
<1>5. dialed => hs'.share = Established
  BY <1>1, Types DEF Begun, Exchanging
<1>6. \A e \in Ends : ~open[e] => ~open'[e]
  BY DEF FailTunnel, Close
<1>7. hs'.listen = Established => hs.listen = Established
  BY <1>1, Types
<1>8. Service \in Ends /\ <<4, "L">> \in Ends
  BY DEF Service, Ends
<1>9. \A c \in Copies :
        /\ ~Spliced(c)' => copy'[c] = "copying" /\ held'[c] = <<>>
        /\ Len(held'[c]) <= 1
  <2>1. copy' = copy /\ held' = held
    BY DEF copies
  <2>2. \A c \in Copies : ~Spliced(c)' => ~Spliced(c)
    BY <1>4 DEF Later
  <2> QED  BY <2>1, <2>2 DEF Begun
<1>10. ~dialed' => ~open'[Service] /\ ~open'[<<4, "L">>] /\ sent'[Service] = 0
  BY <1>6, <1>8 DEF Begun, users
<1>11. Begun'
  BY <1>5, <1>9, <1>10 DEF Begun
<1> QED  BY <1>1, <1>4, <1>11, Types

LEMMA ExchangeIsLater ==
    ASSUME PortInv, Begun, NEW n \in {"listen", "share"}, Exchange(n)
    PROVE  Later /\ Begun'
<1>1. Exchanging(n) /\ UNCHANGED <<agree, dialed, copies, users, cut>>
  BY DEF Exchange
<1>2. CASE FailTunnel(n)
  <2>1. dialed' = dialed /\ UNCHANGED copies /\ UNCHANGED users /\ (cut => cut')
    BY <1>1 DEF copies, users
  <2>2. Exchanging(n) \/ (n = "share" /\ ~dialed)
    BY <1>1
  <2> QED  BY <1>2, <2>1, <2>2, FailIsLater
<1>3. CASE Advance(n)
  <2>1. /\ hs.listen = Established => hs'.listen = Established
        /\ \A m \in {"listen", "share"} : hs[m] = 0 => hs'[m] = 0
    BY <1>1, <1>3, Types DEF Advance, Exchanging
  <2>2. Later
    BY <1>1, <1>3, <2>1, LaterSame, Types DEF Advance, copies, users
  <2>3. dialed => hs'.share = Established
    BY <1>1, <1>3, Types DEF Begun, Advance, Exchanging
  <2>4. \A c \in Copies : ~Spliced(c)' => ~Spliced(c)
    BY <2>2 DEF Later
  <2>5. Begun'
    BY <1>1, <1>3, <2>3, <2>4 DEF Begun, Advance, copies, users
  <2> QED  BY <2>2, <2>5
<1> QED  BY <1>2, <1>3 DEF Exchange, WriteStep, ReadStep

\* Nothing but a start of share's splice opens an end, so all the other steps
\* leave the connection begun as it was.
LEMMA StaysBegun ==
    ASSUME PortInv, Begun, Later, dialed' = dialed, hs' = hs, open' = open \/ (\E S : Close(S)),
           \A c \in Copies : Spliced(c) \/ (copy'[c] = copy[c] /\ held'[c] = held[c]),
           \A c \in Copies : Len(held'[c]) <= 1 \/ held'[c] = held[c],
           dialed \/ sent'[Service] = sent[Service]
    PROVE  Begun'
<1>1. Service \in Ends /\ <<4, "L">> \in Ends
  BY DEF Service, Ends
<1>2. \A e \in Ends : ~open[e] => ~open'[e]
  BY DEF Close
<1>3. ~dialed' => ~open'[Service] /\ ~open'[<<4, "L">>] /\ sent'[Service] = 0
  BY <1>1, <1>2 DEF Begun
<1>4. \A c \in Copies : ~Spliced(c)' => copy'[c] = "copying" /\ held'[c] = <<>>
  BY DEF Begun, Later
<1>5. \A c \in Copies : Len(held'[c]) <= 1
  BY DEF Begun
<1> QED  BY <1>3, <1>4, <1>5 DEF Begun

LEMMA LaterStep ==
    ASSUME PortInv, Begun, [TunnelNext]_tunnelVars
    PROVE  Later /\ Begun'
<1>1. ASSUME NEW n \in {"listen", "share"}, Exchange(n) PROVE Later /\ Begun'
  BY <1>1, ExchangeIsLater
<1>2. ASSUME NEW n \in {"listen", "share"}, Expire(n) PROVE Later /\ Begun'
  <2>1. /\ FailTunnel(n) /\ Exchanging(n) /\ dialed' = dialed /\ UNCHANGED copies
        /\ UNCHANGED users /\ (cut => cut')
    BY <1>2 DEF Expire, copies, users
  <2> QED  BY <2>1, FailIsLater
<1>3. ASSUME NEW c \in Copies, CopyStep(c) PROVE Later /\ Begun'
  <2>1. /\ dialed' = dialed /\ hs' = hs /\ cut' = cut /\ UNCHANGED users /\ Spliced(c)
        /\ open' = open \/ (\E S : Close(S))
    BY <1>3 DEF CopyStep, CopyRead, CopyWrite, CopyEnds, Running
  <2>2. /\ \A d \in Copies : copy[d] = "over" => copy'[d] = "over"
        /\ \A d \in Copies \ {c} : copy'[d] = copy[d] /\ held'[d] = held[d]
    BY <1>3, Types DEF CopyStep, CopyRead, CopyWrite, CopyEnds
  <2>3. Later
    BY <2>1, <2>2, Types, LaterSame DEF users
  <2>4. Len(held'[c]) <= 1
    <3>1. PICK x : held'[c] = <<>> \/ held'[c] = <<x>>
      BY <1>3, Types DEF CopyStep, CopyRead, CopyWrite, CopyEnds
    <3>2. CASE held'[c] = <<>>  BY <3>2
    <3>3. CASE held'[c] = <<x>>  BY <3>3
    <3> QED  BY <3>1, <3>2, <3>3
  <2> QED  BY <2>1, <2>2, <2>3, <2>4, StaysBegun DEF users
<1>4. ASSUME NEW e \in {Client, Service}, UserWrites(e) PROVE Later /\ Begun'
  <2>1. e = Service => open[Service]
    BY <1>4 DEF UserWrites, Room
  <2>2. /\ dialed' = dialed /\ hs' = hs /\ cut' = cut /\ open' = open /\ copy' = copy
        /\ held' = held /\ got' = got /\ sent' = [sent EXCEPT ![e] = @ + 1]
    BY <1>4 DEF UserWrites, copies
  <2>3. \A f \in {Client, Service} : sent'[f] >= sent[f]
    BY <2>2, Types
  <2>4. Later
    BY <2>2, <2>3, Types, LaterSame
  <2>5. dialed \/ sent'[Service] = sent[Service]
    BY <2>1, <2>2, Types DEF Begun
  <2> QED  BY <2>2, <2>4, <2>5, StaysBegun
<1>5. ASSUME NEW e \in {Client, Service}, UserReads(e) PROVE Later /\ Begun'
  <2>1. /\ dialed' = dialed /\ hs' = hs /\ cut' = cut /\ open' = open /\ copy' = copy
        /\ held' = held /\ sent' = sent /\ open[e]
    BY <1>5 DEF UserReads, copies
  <2>2. \A f \in {Client, Service} : Shut(f) => got'[f] = got[f]
    BY <1>5, Types DEF UserReads, Shut
  <2>3. Later
    BY <2>1, <2>2, Types, LaterSame
  <2> QED  BY <2>1, <2>3, StaysBegun
<1>6. ASSUME NEW e \in {Client, Service}, UserCloses(e) PROVE Later /\ Begun'
  <2>1. /\ dialed' = dialed /\ hs' = hs /\ cut' = cut /\ copy' = copy
        /\ held' = held /\ sent' = sent /\ got' = got /\ Close({e})
    BY <1>6 DEF UserCloses, copies, users
  <2>2. Later
    BY <2>1, Types, LaterSame
  <2> QED  BY <2>1, <2>2, StaysBegun
<1>7. CASE DialService
  <2>1. /\ dialed' = TRUE /\ hs' = hs /\ cut' = cut /\ copy' = copy
        /\ held' = held /\ sent' = sent /\ got' = got /\ ~dialed /\ hs.share = Established
    BY <1>7 DEF DialService, Dialing, copies, users
  <2>2. \A e \in Ends : Shut(e) => Shut(e)'
    BY <1>7, <2>1, Types DEF Shut, DialService, Service
  <2>3. \A c \in Copies : Spliced(c) => Spliced(c)'
    BY <2>1 DEF Spliced
  <2>4. Later
    BY <2>1, <2>2, <2>3, Types DEF Later
  <2>5. Begun'
    BY <2>1, <2>3 DEF Begun
  <2> QED  BY <2>4, <2>5
<1>8. CASE DialFails
  <2>1. /\ FailTunnel("share") /\ ~dialed /\ dialed' = dialed /\ UNCHANGED copies
        /\ UNCHANGED users /\ (cut => cut')
    BY <1>8 DEF DialFails, FailTunnel, Dialing, copies, users
  <2> QED  BY <2>1, FailIsLater
<1>9. CASE CutShort
  <2>1. /\ dialed' = dialed /\ hs' = hs /\ cut' /\ copy' = copy
        /\ held' = held /\ sent' = sent /\ got' = got /\ (\E S : Close(S))
    BY <1>9 DEF CutShort, copies, users
  <2>2. Later
    BY <2>1, Types, LaterSame
  <2> QED  BY <2>1, <2>2, StaysBegun
<1>10. CASE UNCHANGED tunnelVars
  <2>1. /\ dialed' = dialed /\ hs' = hs /\ cut' = cut /\ open' = open /\ copy' = copy
        /\ held' = held /\ sent' = sent /\ got' = got
    BY <1>10 DEF tunnelVars, wires, copies, users
  <2>2. Later
    BY <2>1, Types, LaterSame
  <2> QED  BY <2>1, <2>2, StaysBegun
<1> QED  BY <1>1, <1>2, <1>3, <1>4, <1>5, <1>6, <1>7, <1>8, <1>9, <1>10 DEF TunnelNext, Dial

------------------------------------------------------------------------------
(* What the numbers of a way say. *)

LEMMA Lengths ==
    ASSUME PortInv, NEW w \in Ways
    PROVE  /\ \A k \in 1..4 : inbox[Inlet(w, k)] \in Seq(Items) /\ Len(inbox[Inlet(w, k)]) \in Nat
           /\ \A k \in 1..3 : held[Hand(w, k)] \in Seq(Items) /\ Len(held[Hand(w, k)]) \in Nat
           /\ got[Sink(w)] \in Seq(Items) /\ Len(got[Sink(w)]) \in Nat
           /\ sent[Source(w)] \in Nat
           /\ ToWrite(Writer(w)) \in 0..2 /\ ToRead(Reader(w)) \in 0..2
<1>1. \A k \in 1..4 : inbox[Inlet(w, k)] \in Seq(Items)
  BY Types, Inlets
<1>2. \A k \in 1..3 : held[Hand(w, k)] \in Seq(Items)
  BY Types, Hands3
<1>3. got[Sink(w)] \in Seq(Items) /\ sent[Source(w)] \in Nat
  BY Types, Users
<1>4. \A q \in Seq(Items) : Len(q) \in Nat
  OBVIOUS
<1>5. ToWrite(Writer(w)) \in 0..2 /\ ToRead(Reader(w)) \in 0..2
  BY Sides, LeftToDo
<1> QED  BY <1>1, <1>2, <1>3, <1>4, <1>5

\* The numbers of a way, connection by connection and copy by copy.
LEMMA Counts ==
    ASSUME PortInv, NEW w \in Ways, NEW into \in [1..4 -> Int], NEW out \in [1..4 -> Int],
           Flow(w, into, out)
    PROVE  LET L(k) == Len(inbox[Inlet(w, k)])
               H(k) == Len(held[Hand(w, k)])
               W == ToWrite(Writer(w))
               G == ToRead(Reader(w))
           IN /\ L(1) \in Nat /\ L(2) \in Nat /\ L(3) \in Nat /\ L(4) \in Nat
              /\ H(1) \in Nat /\ H(2) \in Nat /\ H(3) \in Nat /\ W \in Nat /\ G \in Nat
              /\ Link(Orderly(w), into[1], out[1] + L(1))
              /\ Link(Orderly(w), into[2], out[2] + L(2) + W)
              /\ Link(Orderly(w), into[3], out[3] + L(3))
              /\ Link(Orderly(w), into[4], out[4] + L(4))
              /\ Link(Orderly(w), out[1], into[2] + H(1))
              /\ Link(Orderly(w), out[2], into[3] + H(2))
              /\ Link(Orderly(w), out[3], into[4] + H(3) - G)
<1> DEFINE L(k) == Len(inbox[Inlet(w, k)])
           H(k) == Len(held[Hand(w, k)])
           W == ToWrite(Writer(w))
           G == ToRead(Reader(w))
           o == Orderly(w)
<1>1. /\ L(1) \in Nat /\ L(2) \in Nat /\ L(3) \in Nat /\ L(4) \in Nat
      /\ H(1) \in Nat /\ H(2) \in Nat /\ H(3) \in Nat /\ W \in Nat /\ G \in Nat
  <2>1. \A k \in 1..4 : Len(inbox[Inlet(w, k)]) \in Nat
    BY Lengths
  <2>2. \A k \in 1..3 : Len(held[Hand(w, k)]) \in Nat
    BY Lengths
  <2>3. W \in 0..2 /\ G \in 0..2
    BY Lengths
  <2>4. \A i \in 0..2 : i \in Nat
    OBVIOUS
  <2>5. L(1) \in Nat /\ L(2) \in Nat /\ L(3) \in Nat /\ L(4) \in Nat
    BY <2>1
  <2>6. H(1) \in Nat /\ H(2) \in Nat /\ H(3) \in Nat
    BY <2>2
  <2> HIDE DEF L, H, W, G
  <2> QED  BY <2>3, <2>4, <2>5, <2>6
<1>2. /\ Due(w, 1) = 0 /\ Due(w, 2) = W /\ Due(w, 3) = 0 /\ Due(w, 4) = 0
      /\ Debt(w, 1) = 0 /\ Debt(w, 2) = 0 /\ Debt(w, 3) = G
  BY DEF Due, Debt
<1>3. /\ Wire(w, 1, into[1], out[1]) /\ Wire(w, 2, into[2], out[2])
      /\ Wire(w, 3, into[3], out[3]) /\ Wire(w, 4, into[4], out[4])
      /\ Splice(w, 1, out[1], into[1 + 1]) /\ Splice(w, 2, out[2], into[2 + 1])
      /\ Splice(w, 3, out[3], into[3 + 1])
  BY DEF Flow
<1>4. /\ Link(o, into[1], out[1] + L(1) + 0)
      /\ Link(o, into[2], out[2] + L(2) + W)
      /\ Link(o, into[3], out[3] + L(3) + 0)
      /\ Link(o, into[4], out[4] + L(4) + 0)
  BY <1>2, <1>3 DEF Wire, Link
<1>5. /\ Link(o, out[1], into[2] + H(1) - 0)
      /\ Link(o, out[2], into[3] + H(2) - 0)
      /\ Link(o, out[3], into[4] + H(3) - G)
  <2>1. 1 + 1 = 2 /\ 2 + 1 = 3 /\ 3 + 1 = 4
    OBVIOUS
  <2> QED  BY <1>2, <1>3, <2>1 DEF Splice, Link
<1>6. /\ into[1] \in Int /\ into[2] \in Int /\ into[3] \in Int /\ into[4] \in Int
      /\ out[1] \in Int /\ out[2] \in Int /\ out[3] \in Int /\ out[4] \in Int
  OBVIOUS
<1>7. \A a, b \in Int : a + b + 0 = a + b /\ a + b - 0 = a + b
  OBVIOUS
<1> HIDE DEF L, H, W, G, o
<1>8. /\ out[1] + L(1) + 0 = out[1] + L(1) /\ out[3] + L(3) + 0 = out[3] + L(3)
      /\ out[4] + L(4) + 0 = out[4] + L(4)
      /\ into[2] + H(1) - 0 = into[2] + H(1) /\ into[3] + H(2) - 0 = into[3] + H(2)
  BY <1>1, <1>6, <1>7
<1>9. /\ Link(o, into[1], out[1] + L(1)) /\ Link(o, into[2], out[2] + L(2) + W)
      /\ Link(o, into[3], out[3] + L(3)) /\ Link(o, into[4], out[4] + L(4))
      /\ Link(o, out[1], into[2] + H(1)) /\ Link(o, out[2], into[3] + H(2))
      /\ Link(o, out[3], into[4] + H(3) - G)
  BY <1>4, <1>5, <1>8
<1> QED  BY <1>1, <1>9 DEF L, H, W, G, o

\* Nothing is read that was not written, and if all of it was read there is
\* nothing under way.
LEMMA Chain ==
    ASSUME PortInv, Begun, NEW w \in Ways, Flows(w)
    PROVE  /\ Len(got[Sink(w)]) <= sent[Source(w)]
           /\ Len(got[Sink(w)]) = sent[Source(w)] => inbox[Inlet(w, 4)] = <<>>
           /\ Len(got[Sink(w)]) = sent[Source(w)] /\ Spliced(Hand(w, 3)) =>
                /\ \A k \in 1..4 : inbox[Inlet(w, k)] = <<>>
                /\ \A k \in 1..3 : held[Hand(w, k)] = <<>>
                /\ ToWrite(Writer(w)) = 0
<1>1. PICK into \in [1..4 -> Int], out \in [1..4 -> Int] : Flow(w, into, out)
  BY DEF Flows
<1> DEFINE L(k) == Len(inbox[Inlet(w, k)])
           H(k) == Len(held[Hand(w, k)])
           N == Len(got[Sink(w)])
           W == ToWrite(Writer(w))
           G == ToRead(Reader(w))
<1>2. N \in Nat /\ sent[Source(w)] \in Nat
  BY Lengths
<1>3. /\ into[1] \in Int /\ into[2] \in Int /\ into[3] \in Int /\ into[4] \in Int
      /\ out[1] \in Int /\ out[2] \in Int /\ out[3] \in Int /\ out[4] \in Int
  BY <1>1
<1>4. /\ into[1] = sent[Source(w)] /\ out[4] = N
      /\ into[1] >= out[1] + L(1) /\ into[2] >= out[2] + L(2) + W
      /\ into[3] >= out[3] + L(3) /\ into[4] >= out[4] + L(4)
      /\ out[1] >= into[2] + H(1) /\ out[2] >= into[3] + H(2)
      /\ out[3] >= into[4] + H(3) - G
      /\ L(1) \in Nat /\ L(2) \in Nat /\ L(3) \in Nat /\ L(4) \in Nat
      /\ H(1) \in Nat /\ H(2) \in Nat /\ H(3) \in Nat /\ W \in Nat /\ G \in Nat
  <2>1. into[1] = sent[Source(w)] /\ out[4] = N
    BY <1>1 DEF Flow
  <2> QED  BY <1>1, <2>1, Counts DEF Link
<1>5. Spliced(Hand(w, 3)) => G = 0
  BY SplicedIsDone, Sides, LeftToDo
<1>6. ~Spliced(Hand(w, 3)) => into[4] = 0
  BY <1>1 DEF Flow
<1> HIDE DEF L, H, N, W, G
<1>7. N <= sent[Source(w)] /\ (N = sent[Source(w)] => L(4) = 0)
  BY <1>2, <1>3, <1>4, <1>5, <1>6
<1>8. N = sent[Source(w)] /\ Spliced(Hand(w, 3)) =>
        /\ L(1) = 0 /\ L(2) = 0 /\ L(3) = 0 /\ L(4) = 0
        /\ H(1) = 0 /\ H(2) = 0 /\ H(3) = 0 /\ W = 0
  BY <1>2, <1>3, <1>4, <1>5
<1>9. \A k \in 1..4 : L(k) = 0 => inbox[Inlet(w, k)] = <<>>
  BY Lengths DEF L
<1>10. \A k \in 1..3 : H(k) = 0 => held[Hand(w, k)] = <<>>
  BY Lengths DEF H
<1>11. N = sent[Source(w)] /\ Spliced(Hand(w, 3)) =>
        (\A k \in 1..4 : L(k) = 0) /\ (\A k \in 1..3 : H(k) = 0)
  BY <1>8
<1> QED  BY <1>7, <1>8, <1>9, <1>10, <1>11 DEF N, W

\* An orderly end was orderly before.
LEMMA OrderlyBack ==
    ASSUME PortInv, PortInv', Begun, Later, NEW w \in Ways, Flows(Back(w))
    PROVE  /\ Orderly(w)' => Orderly(w)
           /\ \A k \in 1..4 : Whole(w, k)' => Whole(w, k)
           /\ \A k \in 1..3 : Drains(w, k)' => Drains(w, k)
<1>1. \A k \in 1..4 : Inlet(w, k) \in Ends /\ Other(Inlet(w, k)) \in Ends
  BY Inlets, OtherEnd
<1>2. \A k \in 1..4 : Whole(w, k)' => Whole(w, k)
  BY <1>1 DEF Whole, Later
<1>3. \A k \in 1..3 : Drains(w, k)' => Drains(w, k)
  <2> SUFFICES ASSUME NEW k \in 1..3, Drains(w, k)' PROVE Drains(w, k)
    OBVIOUS
  <2>1. Hand(w, k) \in Copies /\ Inlet(w, k) \in Ends
    BY <1>1, Hands3
  <2>2. copy'[Hand(w, k)] = "copying" /\ ~Shut(Inlet(w, k))'
    BY DEF Drains
  <2>3. copy[Hand(w, k)] = "copying"
    BY <2>1, <2>2, Types DEF Later
  <2> QED  BY <2>1, <2>2, <2>3 DEF Drains, Later
<1>4. /\ Sink(w) \in Ends /\ Source(w) \in Ends
      /\ Sink(w) \in {Client, Service} /\ Source(w) \in {Client, Service}
  BY Users, Inlets
<1>5. Len(got[Source(w)]) <= sent[Sink(w)] /\ Len(got[Source(w)]) \in Nat /\ sent[Sink(w)] \in Nat
  BY Chain, Users, Inlets, Lengths
<1>6. Orderly(w)' /\ Shut(Source(w)) => Len(got[Source(w)]) = sent[Sink(w)]
  <2>1. Shut(Source(w)) => Shut(Source(w))' /\ got'[Source(w)] = got[Source(w)]
    BY <1>4 DEF Later
  <2>2. sent'[Sink(w)] >= sent[Sink(w)] /\ sent'[Sink(w)] \in Nat
    BY <1>4, TypesNext DEF Later
  <2>3. Orderly(w)' /\ Shut(Source(w))' => Len(got'[Source(w)]) = sent'[Sink(w)]
    BY DEF Orderly
  <2> QED  BY <1>5, <2>1, <2>2, <2>3
<1>7. Orderly(w)' => ~cut /\ hs.listen # 0 /\ hs.share # 0 /\ ~Shut(Sink(w))
  BY <1>4 DEF Orderly, Later
<1> QED  BY <1>2, <1>3, <1>6, <1>7 DEF Orderly

------------------------------------------------------------------------------
(* What a step does to the numbers of one connection or copy of a way.         *)

\* Nothing promises more than before.
Weaker(w) ==
    /\ Orderly(w)' => Orderly(w)
    /\ \A k \in 1..4 : Whole(w, k)' => Whole(w, k)
    /\ \A k \in 1..3 :
        /\ Drains(w, k)' => Drains(w, k)
        /\ Spliced(Hand(w, k)) => Spliced(Hand(w, k))'

\* A connection is left alone, or broken and perhaps emptied.
WireRests(w, k) ==
    inbox'[Inlet(w, k)] = inbox[Inlet(w, k)] /\ Due(w, k)' = Due(w, k)

WireBreaks(w, k) ==
    /\ ~Whole(w, k)' /\ ~Orderly(w)'
    /\ inbox'[Inlet(w, k)] = inbox[Inlet(w, k)] \/ inbox'[Inlet(w, k)] = <<>>
    /\ Due(w, k)' \in 0..Due(w, k)

\* The same of a copy.
SpliceRests(w, k) ==
    held'[Hand(w, k)] = held[Hand(w, k)] /\ Debt(w, k)' = Debt(w, k)

SpliceBreaks(w, k) ==
    /\ ~Drains(w, k)' /\ ~Orderly(w)'
    /\ held'[Hand(w, k)] = held[Hand(w, k)] \/ held'[Hand(w, k)] = <<>>
    /\ Debt(w, k)' \in Nat /\ Debt(w, k)' >= Debt(w, k)

LEMMA WireParts ==
    ASSUME PortInv, NEW w \in Ways, NEW k \in 1..4
    PROVE  /\ inbox[Inlet(w, k)] \in Seq(Items) /\ Len(inbox[Inlet(w, k)]) \in Nat
           /\ Due(w, k) \in Nat
<1>1. ToWrite(Writer(w)) \in 0..2
  BY Lengths
<1>2. Due(w, k) \in 0..2
  BY <1>1 DEF Due
<1> QED  BY <1>2, Lengths

LEMMA SpliceParts ==
    ASSUME PortInv, NEW w \in Ways, NEW k \in 1..3
    PROVE  /\ held[Hand(w, k)] \in Seq(Items) /\ Len(held[Hand(w, k)]) \in Nat
           /\ Debt(w, k) \in Nat
<1>1. ToRead(Reader(w)) \in 0..2
  BY Lengths
<1>2. Debt(w, k) \in 0..2
  BY <1>1 DEF Debt
<1> QED  BY <1>2, Lengths

LEMMA WireKept ==
    ASSUME PortInv, NEW w \in Ways, NEW k \in 1..4, NEW n \in Int, NEW m \in Int,
           Weaker(w), Wire(w, k, n, m), WireRests(w, k) \/ WireBreaks(w, k)
    PROVE  Wire(w, k, n, m)'
<1>1. CASE WireRests(w, k)
  BY <1>1 DEF Weaker, Wire, Link, WireRests
<1>2. CASE WireBreaks(w, k)
  <2> DEFINE q == inbox[Inlet(w, k)]
             p == inbox'[Inlet(w, k)]
  <2>1. Numbered(p, m) /\ Len(p) \in 0..Len(q) /\ Len(q) \in Nat
    <3>1. Len(q) \in Nat /\ Numbered(q, m)
      BY WireParts DEF Wire
    <3>2. CASE p = q
      BY <3>1, <3>2
    <3>3. CASE p = <<>>
      BY <3>1, <3>3, NumberedNone
    <3> QED  BY <1>2, <3>2, <3>3 DEF WireBreaks
  <2>2. Due(w, k)' \in 0..Due(w, k) /\ Due(w, k) \in Nat
    BY <1>2, WireParts DEF WireBreaks
  <2>3. n >= m + Len(q) + Due(w, k)
    BY DEF Wire, Link
  <2>4. n >= m + Len(p) + Due(w, k)'
    BY <2>1, <2>2, <2>3
  <2> QED  BY <1>2, <2>1, <2>4 DEF Wire, Link, WireBreaks
<1> QED  BY <1>1, <1>2

\* The three summands of a count: what is taken is counted before or after.
LEMMA OneTaken ==
    \A m, l, t, d \in Int : t = l - 1 => m + 1 + t + d = m + l + d
OBVIOUS

LEMMA OneAdded ==
    \A n, m, l, t, d \in Int : n = m + l + d /\ t = l + 1 => n + 1 = m + t + d
OBVIOUS

LEMMA WireTake ==
    ASSUME PortInv, NEW w \in Ways, NEW k \in 1..4, NEW n \in Int, NEW m \in Int,
           Weaker(w), Wire(w, k, n, m), inbox[Inlet(w, k)] # <<>>,
           inbox'[Inlet(w, k)] = Tail(inbox[Inlet(w, k)]), Due(w, k)' = Due(w, k)
    PROVE  /\ Wire(w, k, n, m + 1)'
           /\ Fits(Head(inbox[Inlet(w, k)]), m + 1)
<1> DEFINE q == inbox[Inlet(w, k)]
<1>1. q \in Seq(Items) /\ Len(q) \in Nat /\ Due(w, k) \in Nat /\ Numbered(q, m)
  BY WireParts DEF Wire
<1>2. /\ Numbered(Tail(q), m + 1) /\ Len(Tail(q)) = Len(q) - 1
      /\ Fits(Head(q), m + 1)
  BY <1>1, NumberedTail
<1>3. m + 1 + Len(Tail(q)) + Due(w, k)' = m + Len(q) + Due(w, k)
  <2> DEFINE l == Len(q)
             t == Len(Tail(q))
             d == Due(w, k)
  <2>1. t = l - 1 /\ l \in Int /\ t \in Int /\ d \in Int
    BY <1>1, <1>2
  <2> HIDE DEF l, t, d
  <2>2. m + 1 + t + d = m + l + d
    BY <2>1, OneTaken
  <2> QED  BY <2>2 DEF l, t, d
<1> QED  BY <1>2, <1>3 DEF Weaker, Wire, Link

\* What is written to a whole connection follows what is in it.
LEMMA WirePut ==
    ASSUME PortInv, NEW w \in Ways, NEW k \in 1..4, NEW n \in Int, NEW m \in Int, NEW x,
           Weaker(w), Wire(w, k, n, m), Whole(w, k),
           inbox'[Inlet(w, k)] = Append(inbox[Inlet(w, k)], x),
           Due(w, k) = 0, Due(w, k)' = 0, Fits(x, n + 1)
    PROVE  Wire(w, k, n + 1, m)'
<1> DEFINE q == inbox[Inlet(w, k)]
<1>1. n = m + Len(q) + 0
  BY DEF Wire, Link
<1>2. q \in Seq(Items) /\ Len(q) \in Nat /\ Numbered(q, m)
  BY WireParts DEF Wire
<1>3. Numbered(Append(q, x), m) /\ Len(Append(q, x)) = Len(q) + 1
  <2>1. m + Len(q) + 1 = n + 1
    BY <1>1, <1>2
  <2> QED  BY <1>2, <2>1, NumberedAppend
<1>4. n + 1 = m + Len(Append(q, x)) + Due(w, k)'
  <2> DEFINE l == Len(q)
             t == Len(Append(q, x))
  <2>1. t = l + 1 /\ l \in Int /\ t \in Int /\ n = m + l + 0
    BY <1>1, <1>2, <1>3
  <2> HIDE DEF l, t
  <2>2. n + 1 = m + t + 0
    BY <2>1, OneAdded
  <2> QED  BY <2>2 DEF l, t
<1> QED  BY <1>3, <1>4 DEF Wire, Link

\* An item of the handshake has a number below those of the data.
LEMMA WireGreet ==
    ASSUME PortInv, NEW w \in Ways, NEW k \in 1..4, NEW n \in Int, NEW m \in Int, NEW x,
           Weaker(w), Wire(w, k, n, m), n = 0, Whole(w, k), Fits(x, 1 - Due(w, k)),
           inbox'[Inlet(w, k)] = Append(inbox[Inlet(w, k)], x),
           Due(w, k) >= 1, Due(w, k)' = Due(w, k) - 1
    PROVE  Wire(w, k, n, m)'
<1> DEFINE q == inbox[Inlet(w, k)]
<1>1. n = m + Len(q) + Due(w, k)
  BY DEF Wire, Link
<1>2. Fits(x, m + Len(q) + 1)
  <2> DEFINE l == Len(q)
             d == Due(w, k)
  <2>1. l \in Int /\ d \in Int /\ 0 = m + l + d
    BY <1>1, WireParts
  <2> HIDE DEF l, d
  <2>2. m + l + 1 = 1 - d
    BY <2>1
  <2> QED  BY <2>2 DEF l, d
<1>3. q \in Seq(Items) /\ Len(q) \in Nat /\ Numbered(q, m) /\ Due(w, k) \in Nat
  BY WireParts DEF Wire
<1>4. Numbered(Append(q, x), m) /\ Len(Append(q, x)) = Len(q) + 1
  BY <1>2, <1>3, NumberedAppend
<1>5. m + Len(Append(q, x)) + Due(w, k)' = m + Len(q) + Due(w, k)
  <2> DEFINE l == Len(q)
             t == Len(Append(q, x))
  <2>1. t = l + 1 /\ l \in Nat
    BY <1>3, <1>4
  <2> HIDE DEF l, t
  <2> QED  BY <1>3, <2>1
<1> QED  BY <1>4, <1>5 DEF Weaker, Wire, Link

LEMMA WireLost ==
    ASSUME PortInv, NEW w \in Ways, NEW k \in 1..4, NEW n \in Int, NEW m \in Int,
           Weaker(w), Wire(w, k, n, m), WireBreaks(w, k)
    PROVE  Wire(w, k, n + 1, m)'
<1>1. Wire(w, k, n, m)'
  BY WireKept
<1> DEFINE s == m + Len(inbox'[Inlet(w, k)]) + Due(w, k)'
<1>2. n >= s
  BY <1>1 DEF Wire, Link
<1>3. s \in Int
  BY WireParts DEF WireBreaks
<1>4. n + 1 >= s
  BY <1>2, <1>3
<1> QED  BY <1>1, <1>4 DEF Wire, Link, WireBreaks

LEMMA SpliceKept ==
    ASSUME PortInv, NEW w \in Ways, NEW k \in 1..3, NEW n \in Int, NEW m \in Int,
           Weaker(w), Splice(w, k, n, m), SpliceRests(w, k) \/ SpliceBreaks(w, k)
    PROVE  Splice(w, k, n, m)'
<1>1. CASE SpliceRests(w, k)
  BY <1>1 DEF Weaker, Splice, Link, SpliceRests
<1>2. CASE SpliceBreaks(w, k)
  <2> DEFINE q == held[Hand(w, k)]
             p == held'[Hand(w, k)]
  <2>1. Numbered(p, m) /\ Len(p) \in 0..Len(q) /\ Len(q) \in Nat
    <3>1. Len(q) \in Nat /\ Numbered(q, m)
      BY SpliceParts DEF Splice
    <3>2. CASE p = q
      BY <3>1, <3>2
    <3>3. CASE p = <<>>
      BY <3>1, <3>3, NumberedNone
    <3> QED  BY <1>2, <3>2, <3>3 DEF SpliceBreaks
  <2>2. Debt(w, k)' \in Nat /\ Debt(w, k)' >= Debt(w, k) /\ Debt(w, k) \in Nat
    BY <1>2, SpliceParts DEF SpliceBreaks
  <2>3. n >= m + Len(q) - Debt(w, k)
    BY DEF Splice, Link
  <2>4. n >= m + Len(p) - Debt(w, k)'
    BY <2>1, <2>2, <2>3
  <2> QED  BY <1>2, <2>1, <2>4 DEF Splice, Link, SpliceBreaks
<1> QED  BY <1>1, <1>2

\* A copy at work reads the next item.
LEMMA SpliceRead ==
    ASSUME PortInv, NEW w \in Ways, NEW k \in 1..3, NEW n \in Int, NEW m \in Int, NEW x,
           Weaker(w), Splice(w, k, n, m), Drains(w, k), held[Hand(w, k)] = <<>>,
           held'[Hand(w, k)] = <<x>>, Debt(w, k) = 0, Debt(w, k)' = 0,
           Fits(x, n + 1)
    PROVE  Splice(w, k, n + 1, m)'
<1>1. n = m + 0 - 0 /\ Len(<<>>) = 0
  BY DEF Splice, Link
<1>2. Numbered(<<x>>, m) /\ Len(<<x>>) = 1
  BY <1>1, NumberedOne
<1>3. n + 1 = m + Len(<<x>>) - Debt(w, k)'
  BY <1>1, <1>2
<1> QED  BY <1>2, <1>3 DEF Splice, Link

LEMMA SpliceWrite ==
    ASSUME PortInv, NEW w \in Ways, NEW k \in 1..3, NEW n \in Int, NEW m \in Int,
           Weaker(w), Splice(w, k, n, m), held[Hand(w, k)] # <<>>, Len(held[Hand(w, k)]) <= 1,
           held'[Hand(w, k)] = <<>>, Debt(w, k)' = Debt(w, k)
    PROVE  /\ Splice(w, k, n, m + 1)'
           /\ Fits(Head(held[Hand(w, k)]), m + 1)
<1> DEFINE q == held[Hand(w, k)]
<1>1. q \in Seq(Items) /\ Debt(w, k) \in Nat
  BY SpliceParts
<1>2. Len(q) = 1 /\ Len(<<>>) = 0
  <2>1. ASSUME NEW z \in Seq(Items), z # <<>>, Len(z) <= 1 PROVE Len(z) = 1
    <3>1. Len(z) \in Nat \ {0}
      BY <2>1
    <3>2. \A i \in Nat \ {0} : i <= 1 => i = 1
      OBVIOUS
    <3> QED  BY <2>1, <3>1, <3>2
  <2>2. Len(<<>>) = 0
    OBVIOUS
  <2> QED  BY <1>1, <2>1, <2>2
<1>3. Fits(Head(q), m + 1)
  BY <1>1, NumberedTail DEF Splice
<1>4. m + 1 + Len(<<>>) - Debt(w, k)' = m + Len(q) - Debt(w, k)
  BY <1>1, <1>2
<1> QED  BY <1>3, <1>4, NumberedNone DEF Weaker, Splice, Link

\* The handshake reads past the copy.
LEMMA SpliceSkip ==
    ASSUME PortInv, NEW w \in Ways, NEW k \in 1..3, NEW n \in Int, NEW m \in Int,
           Weaker(w), Splice(w, k, n, m), held'[Hand(w, k)] = held[Hand(w, k)],
           Debt(w, k)' \in Nat, Debt(w, k) = Debt(w, k)' + 1
    PROVE  Splice(w, k, n + 1, m)'
<1> DEFINE s == m + Len(held[Hand(w, k)]) - Debt(w, k)
           t == m + Len(held'[Hand(w, k)]) - Debt(w, k)'
<1>1. t = s + 1 /\ s \in Int
  <2> DEFINE l == Len(held[Hand(w, k)])
             d == Debt(w, k)'
  <2>1. l \in Nat /\ Debt(w, k) = d + 1 /\ d \in Nat
    BY SpliceParts
  <2>2. s = m + l - (d + 1) /\ t = m + l - d
    BY <2>1
  <2> HIDE DEF s, t, l, d
  <2> QED  BY <2>1, <2>2
<1>2. /\ n >= s => n + 1 >= t
      /\ n = s => n + 1 = t
  BY <1>1
<1> QED  BY <1>2 DEF Weaker, Splice, Link

\* From its parts, the whole way.
LEMMA FlowNext ==
    ASSUME NEW w \in Ways, NEW into \in [1..4 -> Int], NEW out \in [1..4 -> Int],
           into[1] = sent'[Source(w)], out[4] = Len(got'[Sink(w)]),
           \A k \in 1..4 : Wire(w, k, into[k], out[k])',
           \A k \in 1..3 : Splice(w, k, out[k], into[k + 1])',
           Numbered(got'[Sink(w)], 0),
           ~Spliced(Hand(w, 1))' => into[2] = 0,
           ~Spliced(Hand(w, 3))' => into[4] = 0
    PROVE  Flows(w)'
<1>1. Flow(w, into, out)'
  BY DEF Flow
<1> QED  BY <1>1 DEF Flows

\* A way that a step leaves alone, or breaks.
Kept(w) ==
    /\ sent'[Source(w)] = sent[Source(w)] /\ got'[Sink(w)] = got[Sink(w)]
    /\ \A k \in 1..4 : WireRests(w, k) \/ WireBreaks(w, k)
    /\ \A k \in 1..3 : SpliceRests(w, k) \/ SpliceBreaks(w, k)

LEMMA KeptFlows ==
    ASSUME PortInv, NEW w \in Ways, Weaker(w), Flows(w), Kept(w)
    PROVE  Flows(w)'
<1>1. PICK into \in [1..4 -> Int], out \in [1..4 -> Int] : Flow(w, into, out)
  BY DEF Flows
<1>2. ASSUME NEW k \in 1..4 PROVE Wire(w, k, into[k], out[k])'
  BY <1>1, <1>2, WireKept DEF Flow, Kept
<1>3. ASSUME NEW k \in 1..3 PROVE Splice(w, k, out[k], into[k + 1])'
  <2>1. out[k] \in Int /\ into[k + 1] \in Int
    BY <1>1
  <2> QED  BY <1>1, <1>3, <2>1, SpliceKept DEF Flow, Kept
<1>4. /\ into[1] = sent'[Source(w)] /\ out[4] = Len(got'[Sink(w)])
      /\ Numbered(got'[Sink(w)], 0)
  BY <1>1 DEF Flow, Kept
<1>5. /\ ~Spliced(Hand(w, 1))' => into[2] = 0
      /\ ~Spliced(Hand(w, 3))' => into[4] = 0
  BY <1>1 DEF Flow, Weaker
<1> QED  BY <1>1, <1>2, <1>3, <1>4, <1>5, FlowNext

------------------------------------------------------------------------------
(* In an orderly end the close travels behind the data.                        *)

\* Nothing is under way.
Empty(w) ==
    /\ \A k \in 1..4 : inbox[Inlet(w, k)] = <<>>
    /\ \A k \in 1..3 : held[Hand(w, k)] = <<>>
    /\ ToWrite(Writer(w)) = 0

\* Where something is open, or a splice runs, closed is closed for good.
LEMMA Gone ==
    ASSUME Begun, NEW e \in Ends, open[e]
    PROVE  ~open[Other(e)] <=> Shut(Other(e))
<1>1. e[1] = 4 => e = Service \/ e = <<4, "L">>
  BY DEF Ends, Service
<1>2. e[1] = 4 => dialed
  BY <1>1 DEF Begun
<1> QED  BY <1>2 DEF Shut, Other

LEMMA GoneSplice ==
    ASSUME NEW w \in Ways, NEW k \in 1..3, Spliced(Hand(w, k))
    PROVE  /\ ~open[Inlet(w, k)] <=> Shut(Inlet(w, k))
           /\ ~open[Other(Inlet(w, k))] <=> Shut(Other(Inlet(w, k)))
           /\ ~open[Inlet(w, k + 1)] <=> Shut(Inlet(w, k + 1))
           /\ ~open[Other(Inlet(w, k + 1))] <=> Shut(Other(Inlet(w, k + 1)))
<1>1. w = "down" => Inlet(w, k)[1] = k /\ Inlet(w, k + 1)[1] = k + 1 /\ Hand(w, k)[1] = k
  BY DEF Inlet, Hand
<1>2. w = "up" => /\ Inlet(w, k)[1] = 5 - k /\ Inlet(w, k + 1)[1] = 5 - (k + 1)
                  /\ Hand(w, k)[1] = 4 - k
  BY DEF Inlet, Hand
<1>3. Inlet(w, k)[1] = 4 \/ Inlet(w, k + 1)[1] = 4 => Hand(w, k)[1] = 3
  BY <1>1, <1>2 DEF Ways
<1>4. Inlet(w, k)[1] = 4 \/ Inlet(w, k + 1)[1] = 4 => dialed
  BY <1>3 DEF Spliced
<1>5. \A e : Other(e)[1] = e[1]
  BY DEF Other
<1> QED  BY <1>4, <1>5 DEF Shut

\* What is over is over all the way from the source, which is gone.
LEMMA OverChain ==
    ASSUME Begun, NEW w \in Ways, Order(w), NEW k \in 1..3, copy[Hand(w, k)] = "over"
    PROVE  /\ copy[Hand(w, 1)] = "over" /\ Spliced(Hand(w, 1)) /\ Shut(Source(w))
           /\ k > 1 => copy[Hand(w, k - 1)] = "over"
           /\ k > 2 => copy[Hand(w, 2)] = "over"
<1>1. \A j \in 1..3 : copy[Hand(w, j)] = "over" /\ j > 1 => copy[Hand(w, j - 1)] = "over"
  BY DEF Order
<1>2. /\ copy[Hand(w, 3)] = "over" => copy[Hand(w, 2)] = "over"
      /\ copy[Hand(w, 2)] = "over" => copy[Hand(w, 1)] = "over"
  <2>1. 3 - 1 = 2 /\ 2 - 1 = 1
    OBVIOUS
  <2> QED  BY <1>1, <2>1
<1>3. copy[Hand(w, 1)] = "over" /\ (k > 2 => copy[Hand(w, 2)] = "over")
  <2>1. k = 1 \/ k = 2 \/ k = 3
    OBVIOUS
  <2> QED  BY <1>2, <2>1
<1>4. Spliced(Hand(w, 1))
  BY <1>3, Hands3 DEF Begun
<1> QED  BY <1>1, <1>3, <1>4 DEF Order

\* Nothing reads before a copy that is not over has gone.
LEMMA Behind ==
    ASSUME NEW w \in Ways, Orderly(w), Order(w), NEW k \in 1..3, Shut(Inlet(w, k + 1))
    PROVE  k < 3 /\ copy[Hand(w, k + 1)] = "over" /\ copy[Hand(w, k)] = "over"
<1>1. k # 3
  <2>1. ~Shut(Inlet(w, 4))
    BY Users DEF Orderly
  <2> QED  BY <2>1
<1> DEFINE j == 3 - k
<1>2. j \in 1..3 /\ j + 1 = 4 - k /\ 4 - k \in 1..4 /\ 5 - (4 - k) = k + 1 /\ k < 3
      /\ k + 1 \in 1..3 /\ 4 - (k + 1) = j
  BY <1>1
<1>3. Inlet(w, k + 1) = Other(Inlet(Back(w), j + 1)) /\ Back(w) \in Ways
  <2>1. Back(w) \in Ways /\ Back(Back(w)) = w
    BY Inlets
  <2> QED  BY <1>2, <2>1, Inlets
<1>4. copy[Hand(Back(w), j)] = "over"
  BY <1>2, <1>3 DEF Order
<1>5. copy[Hand(w, k + 1)] = "over"
  BY <1>2, <1>4 DEF Order
<1>6. copy[Hand(w, (k + 1) - 1)] = "over" /\ (k + 1) - 1 = k
  BY <1>2, <1>5 DEF Order
<1> QED  BY <1>2, <1>5, <1>6

\* A source that hung up had heard everything.
LEMMA Quiet ==
    ASSUME PortInv, Begun, NEW w \in Ways, Orderly(w), Shut(Source(w)), Flows(Back(w)),
           Spliced(Hand(w, 1))
    PROVE  Empty(Back(w))
<1>1. Len(got[Sink(Back(w))]) = sent[Source(Back(w))]
  BY Users DEF Orderly
<1>2. Spliced(Hand(Back(w), 3))
  BY SplicedIsDone
<1>3. Back(w) \in Ways
  BY Inlets
<1> QED  BY <1>1, <1>2, <1>3, Chain DEF Empty

LEMMA Reversed ==
    ASSUME PortInv, Begun, NEW w \in Ways, Orderly(w), Order(w), Flows(Back(w)),
           NEW k \in 1..3, Shut(Other(Inlet(w, k))), k = 1 => Spliced(Hand(w, 1))
    PROVE  /\ Empty(Back(w)) /\ Shut(Source(w))
           /\ k > 1 => copy[Hand(w, k - 1)] = "over"
<1>1. CASE k = 1
  <2>1. Shut(Source(w))
    BY <1>1, Users
  <2> QED  BY <1>1, <2>1, Quiet
<1>2. CASE k > 1
  <2>1. k - 1 \in 1..3 /\ (k - 1) + 1 = k
    BY <1>2
  <2>2. copy[Hand(w, k - 1)] = "over"
    BY <2>1 DEF Order
  <2>3. Spliced(Hand(w, 1)) /\ Shut(Source(w))
    BY <2>1, <2>2, OverChain
  <2> QED  BY <2>2, <2>3, Quiet
<1> QED  BY <1>1, <1>2

LEMMA InletShut ==
    ASSUME NEW w \in Ways, Orderly(w), Order(w), NEW k \in 1..3, Shut(Inlet(w, k))
    PROVE  copy[Hand(w, k)] = "over"
<1>1. CASE k = 1
  <2>1. Inlet(w, 1) = Other(Inlet(Back(w), 3 + 1)) /\ Back(w) \in Ways
    <3>1. Back(w) \in Ways /\ Back(Back(w)) = w /\ 5 - 4 = 1 /\ 3 + 1 = 4
      BY Inlets
    <3> QED  BY <3>1, Inlets
  <2>2. copy[Hand(Back(w), 3)] = "over"
    BY <1>1, <2>1 DEF Order
  <2>3. copy[Hand(Back(w), 4 - 1)] = "over" => copy[Hand(w, 1)] = "over"
    BY DEF Order
  <2> QED  BY <1>1, <2>2, <2>3
<1>2. CASE k > 1
  <2>1. k - 1 \in 1..3 /\ (k - 1) + 1 = k
    BY <1>2
  <2> QED  BY <2>1, Behind
<1> QED  BY <1>1, <1>2

LEMMA SplicedBoth ==
    ASSUME NEW w \in Ways, NEW k \in 1..3
    PROVE  /\ Spliced(Hand(Back(w), 4 - k)) <=> Spliced(Hand(w, k))
           /\ Back(w) \in Ways /\ 4 - k \in 1..3 /\ 4 - (4 - k) = k
           /\ Src(Hand(Back(w), 4 - k)) = Other(Inlet(w, k + 1))
           /\ Dst(Hand(Back(w), 4 - k)) = Inlet(w, k)
           /\ Inlet(Back(w), 4 - k) = Other(Inlet(w, k + 1))
           /\ Other(Inlet(Back(w), 4 - k)) = Inlet(w, k + 1)
           /\ Inlet(Back(w), (4 - k) + 1) = Other(Inlet(w, k))
           /\ Other(Inlet(Back(w), (4 - k) + 1)) = Inlet(w, k)
BY DEF Ways, Hand, Inlet, Back, Src, Dst, Other, Spliced

\* Why a copy returns.
Stops(c) == IF held[c] = <<>> THEN ReadEnds(Src(c)) ELSE WriteFails(Dst(c))

\* In an orderly end a copy of the way is done when it returns,
LEMMA EndsInOrder ==
    ASSUME PortInv, Begun, NEW w \in Ways, Orderly(w), Order(w), Flows(Back(w)),
           NEW k \in 1..3, Running(Hand(w, k)), Stops(Hand(w, k))
    PROVE  /\ inbox[Inlet(w, k)] = <<>> /\ held[Hand(w, k)] = <<>>
           /\ Empty(Back(w)) /\ Shut(Source(w))
           /\ k > 1 => copy[Hand(w, k - 1)] = "over"
<1>1. copy[Hand(w, k)] # "over" /\ Spliced(Hand(w, k))
  BY DEF Running
<1>2. ~Shut(Inlet(w, k + 1))
  BY <1>1, Behind
<1>3. ~Shut(Other(Inlet(w, k + 1)))
  BY <1>1 DEF Order
<1>4. ~WriteFails(Dst(Hand(w, k)))
  BY <1>1, <1>2, <1>3, GoneSplice, Hands3 DEF WriteFails
<1>5. ~Shut(Inlet(w, k))
  BY <1>1, InletShut
<1>6. held[Hand(w, k)] = <<>> /\ inbox[Inlet(w, k)] = <<>> /\ Shut(Other(Inlet(w, k)))
  BY <1>1, <1>4, <1>5, GoneSplice, Hands3 DEF Stops, ReadEnds
<1> QED  BY <1>1, <1>6, Reversed

\* and one of the way back returns after it.
LEMMA EndsAfter ==
    ASSUME PortInv, Begun, NEW w \in Ways, Orderly(w), Order(w), Flows(Back(w)),
           NEW k \in 1..3, Running(Hand(Back(w), 4 - k)), Stops(Hand(Back(w), 4 - k))
    PROVE  copy[Hand(w, k)] = "over"
<1> DEFINE c == Hand(Back(w), 4 - k)
<1>1. Spliced(Hand(w, k)) /\ Src(c) = Other(Inlet(w, k + 1)) /\ Dst(c) = Inlet(w, k)
  BY SplicedBoth DEF Running
<1>2. Other(Src(c)) = Inlet(w, k + 1)
  BY <1>1, SplicedBoth, Hands3
<1>3. CASE held[c] = <<>>
  <2>1. ~open[Other(Inlet(w, k + 1))] \/ ~open[Inlet(w, k + 1)]
    BY <1>1, <1>2, <1>3 DEF Stops, ReadEnds
  <2>2. Shut(Other(Inlet(w, k + 1))) \/ Shut(Inlet(w, k + 1))
    BY <1>1, <2>1, GoneSplice
  <2> QED  BY <2>2, Behind DEF Order
<1>4. CASE held[c] # <<>>
  <2>1. ~open[Inlet(w, k)] \/ ~open[Other(Inlet(w, k))]
    BY <1>1, <1>4 DEF Stops, WriteFails
  <2>2. ASSUME Shut(Other(Inlet(w, k))) PROVE FALSE
    <3>1. Empty(Back(w))
      BY <1>1, <2>2, Reversed
    <3> QED  BY <1>4, <3>1, SplicedBoth DEF Empty
  <2> QED  BY <1>1, <2>1, <2>2, GoneSplice, InletShut
<1> QED  BY <1>3, <1>4

\* Neither way can end in order when an item is written to nobody.
LEMMA VoidItem ==
    ASSUME PortInv, Begun, NEW w \in Ways, Orderly(w) => Order(w),
           Orderly(Back(w)) => Order(Back(w)), Flows(w),
           NEW k \in 1..3, Running(Hand(w, k)), held[Hand(w, k)] # <<>>,
           Shut(Inlet(w, k + 1))
    PROVE  ~Orderly(w) /\ ~Orderly(Back(w))
<1>1. ~Orderly(w)
  BY Behind DEF Running
<1>2. ASSUME Orderly(Back(w)) PROVE FALSE
  <2> DEFINE v == Back(w)
  <2>1. v \in Ways /\ Back(v) = w
    BY Inlets
  <2>2. 4 - k \in 1..3 /\ Shut(Other(Inlet(v, 4 - k))) /\ Spliced(Hand(v, 4 - k))
    BY SplicedBoth DEF Running
  <2>3. Empty(w)
    BY <1>2, <2>1, <2>2, Reversed
  <2> QED  BY <2>3 DEF Empty
<1> QED  BY <1>1, <1>2

LEMMA VoidGreeting ==
    ASSUME PortInv, Begun, NEW w \in Ways, Orderly(w) => Order(w),
           Orderly(Back(w)) => Order(Back(w)), Flows(w),
           Exchanging(Writer(w)), ToWrite(Writer(w)) # 0, Shut(Inlet(w, 2))
    PROVE  ~Orderly(w) /\ ~Orderly(Back(w))
<1>1. ASSUME Orderly(w) PROVE FALSE
  <2>1. copy[Hand(w, 1)] = "over"
    <3>1. 1 \in 1..3 /\ 1 + 1 = 2
      OBVIOUS
    <3> QED  BY <1>1, <3>1, Behind
  <2>2. Spliced(Hand(w, 1))
    BY <2>1, Hands3 DEF Begun
  <2> QED  BY <2>2, SplicedIsDone DEF Exchanging, Established
<1>2. ASSUME Orderly(Back(w)) PROVE FALSE
  <2> DEFINE v == Back(w)
  <2>1. v \in Ways /\ Back(v) = w /\ 3 \in 1..3 /\ 5 - 3 = 2
    BY Inlets
  <2>2. Shut(Other(Inlet(v, 3)))
    BY <2>1, Inlets
  <2>3. Empty(w)
    BY <1>2, <2>1, <2>2, Reversed
  <2> QED  BY <2>3 DEF Empty
<1> QED  BY <1>1, <1>2

------------------------------------------------------------------------------
(* Steps that touch the data of no way, or break both.                         *)

LEMMA WeakerStep ==
    ASSUME WholeInv, PortInv', Later, NEW w \in Ways
    PROVE  Weaker(w)
<1>1. PortInv /\ Begun /\ Flows(Back(w))
  <2>1. Back(w) \in Ways
    BY SplicedBoth
  <2> QED  BY <2>1 DEF WholeInv
<1>2. \A k \in 1..3 : Spliced(Hand(w, k)) => Spliced(Hand(w, k))'
  BY Hands3 DEF Later
<1> QED  BY <1>1, <1>2, OrderlyBack DEF Weaker

\* A close empties connections only if it breaks them.
LEMMA Broken ==
    ASSUME PortInv, NEW S \in SUBSET Ends, Close(S), dialed' = dialed,
           \A e \in S : e[1] = 4 => dialed, NEW w \in Ways, NEW k \in 1..4
    PROVE  \/ inbox'[Inlet(w, k)] = inbox[Inlet(w, k)]
           \/ inbox'[Inlet(w, k)] = <<>> /\ ~Whole(w, k)'
<1> DEFINE e == Inlet(w, k)
<1>1. e \in Ends /\ Other(e) \in Ends /\ \A f \in Ends : e = Other(f) => f = Other(e)
  BY Inlets, OtherEnd DEF Ends, Other
<1>2. PICK lost \in SUBSET {Other(f) : f \in {g \in S : open[g] /\ inbox[g] # <<>>}} :
        inbox' = [f \in Ends |-> IF f \in S \cup lost THEN <<>> ELSE inbox[f]]
  BY DEF Close
<1>3. e \in S \cup lost => e \in S \/ Other(e) \in S
  BY <1>1, <1>2
<1>4. e \in S \cup lost => Shut(e)' \/ Shut(Other(e))'
  BY <1>1, <1>3, CloseShuts
<1> QED  BY <1>1, <1>2, <1>4 DEF Whole

\* A side that fails closes what it would have written to and read from.
LEMMA FailedKeeps ==
    ASSUME WholeInv, PortInv', Later, NEW n \in {"listen", "share"}, FailTunnel(n),
           dialed' = dialed, UNCHANGED copies, UNCHANGED users, NEW w \in Ways
    PROVE  Flows(w)' /\ ~Orderly(w)'
<1> DEFINE S == IF n = "listen" THEN {<<2, "L">>, <<1, "R">>} ELSE {<<3, "R">>}
<1>1. PortInv /\ Begun /\ Flows(w) /\ Weaker(w)
  BY WeakerStep DEF WholeInv
<1>2. /\ S \in SUBSET Ends /\ Close(S) /\ TunnelEnd(n) \in S
      /\ \A e \in S : ~(e[1] = 4)
      /\ hs' = [hs EXCEPT ![n] = 0]
  BY DEF FailTunnel, Ends, TunnelEnd
<1>3. hs'[n] = 0 /\ \A m \in {"listen", "share"} \ {n} : hs'[m] = hs[m]
  BY <1>1, <1>2, Types
<1>4. ~Orderly(w)'
  BY <1>3 DEF Orderly
<1>5. TunnelEnd(n) \in Ends /\ Shut(TunnelEnd(n))'
  BY <1>1, <1>2, CloseShuts, TunnelEnds
<1>6. \A m \in {"listen", "share"} \ {n} : ToWrite(m)' = ToWrite(m) /\ ToRead(m)' = ToRead(m)
  BY <1>3 DEF ToWrite, ToRead
<1>7. /\ ToWrite(n)' = 0 /\ ToRead(n)' = 2
  BY <1>3 DEF ToWrite, ToRead
<1>8. ASSUME NEW k \in 1..4 PROVE WireRests(w, k) \/ WireBreaks(w, k)
  <2>1. \/ inbox'[Inlet(w, k)] = inbox[Inlet(w, k)]
        \/ inbox'[Inlet(w, k)] = <<>> /\ ~Whole(w, k)'
    BY <1>1, <1>2, Broken
  <2>2. Due(w, k)' = Due(w, k) \/ (Due(w, k)' = 0 /\ ~Whole(w, k)')
    <3>1. CASE k = 2 /\ Writer(w) = n
      <4>1. TunnelEnd(n) = Other(Inlet(w, 2))
        BY <3>1, Sides, Inlets DEF Ways, Writer, Reader, Back, TunnelEnd, Inlet, Other
      <4> QED  BY <1>5, <1>7, <3>1, <4>1 DEF Due, Whole
    <3>2. CASE k = 2 /\ Writer(w) # n
      BY <1>6, <3>2, Sides DEF Due
    <3>3. CASE k # 2
      BY <3>3 DEF Due
    <3> QED  BY <3>1, <3>2, <3>3
  <2>3. Due(w, k) \in Nat
    BY <1>1, WireParts
  <2> QED  BY <1>4, <2>1, <2>2, <2>3 DEF WireRests, WireBreaks
<1>9. ASSUME NEW k \in 1..3 PROVE SpliceRests(w, k) \/ SpliceBreaks(w, k)
  <2>1. held'[Hand(w, k)] = held[Hand(w, k)]
    BY DEF copies
  <2>2. Debt(w, k)' = Debt(w, k) \/ (Debt(w, k)' = 2 /\ Debt(w, k) \in 0..2 /\ ~Drains(w, k)')
    <3>1. CASE k = 3 /\ Reader(w) = n
      <4>1. TunnelEnd(n) = Inlet(w, 3)
        BY <3>1, Sides
      <4>2. ToRead(n) \in 0..2
        BY <1>1, LeftToDo
      <4> QED  BY <1>5, <1>7, <3>1, <4>1, <4>2 DEF Debt, Drains
    <3>2. CASE k = 3 /\ Reader(w) # n
      BY <1>6, <3>2, Sides DEF Debt
    <3>3. CASE k # 3
      BY <3>3 DEF Debt
    <3> QED  BY <3>1, <3>2, <3>3
  <2> QED  BY <1>4, <2>1, <2>2 DEF SpliceRests, SpliceBreaks
<1>10. Kept(w)
  BY <1>8, <1>9 DEF Kept, users
<1> QED  BY <1>1, <1>4, <1>10, KeptFlows

\* A step that leaves the handshake alone leaves what it has to do.
LEMMA DuesStay ==
    ASSUME hs' = hs, NEW w
    PROVE  /\ \A k : Due(w, k)' = Due(w, k) /\ Debt(w, k)' = Debt(w, k)
           /\ \A n : ToWrite(n)' = ToWrite(n) /\ ToRead(n)' = ToRead(n)
BY DEF Due, Debt, ToWrite, ToRead

LEMMA CutKeeps ==
    ASSUME WholeInv, PortInv', Later, CutShort, NEW w \in Ways
    PROVE  Flows(w)' /\ ~Orderly(w)'
<1>1. PortInv /\ Begun /\ Flows(w) /\ Weaker(w)
  BY WeakerStep DEF WholeInv
<1>2. PICK S \in SUBSET Ends : Close(S) /\ \A e \in S : ~(e[1] = 4)
  BY DEF CutShort, Ends
<1>3. dialed' = dialed /\ hs' = hs /\ copy' = copy /\ held' = held /\ cut'
      /\ sent' = sent /\ got' = got
  BY DEF CutShort, copies, users
<1>4. ~Orderly(w)'
  BY <1>3 DEF Orderly
<1>5. ASSUME NEW k \in 1..4 PROVE WireRests(w, k) \/ WireBreaks(w, k)
  <2>1. \/ inbox'[Inlet(w, k)] = inbox[Inlet(w, k)]
        \/ inbox'[Inlet(w, k)] = <<>> /\ ~Whole(w, k)'
    BY <1>1, <1>2, <1>3, Broken
  <2>2. Due(w, k)' = Due(w, k) /\ Due(w, k) \in Nat
    BY <1>1, <1>3, DuesStay, WireParts
  <2> QED  BY <1>4, <2>1, <2>2 DEF WireRests, WireBreaks
<1>6. Kept(w)
  BY <1>3, <1>5, DuesStay DEF Kept, SpliceRests
<1> QED  BY <1>1, <1>4, <1>6, KeptFlows

\* The order of a way survives what closes nothing on it and brings nothing to
\* a copy that is over.
LEMMA OrderKept ==
    ASSUME NEW w \in Ways, Order(w), copy' = copy, Later,
           \A v \in Ways, k \in 1..3 : Shut(Inlet(v, k))' => Shut(Inlet(v, k)),
           \A k \in 1..3 : copy[Hand(w, k)] = "over" =>
                inbox'[Inlet(w, k)] = <<>> /\ held'[Hand(w, k)] = <<>>
    PROVE  Order(w)'
<1>1. ASSUME NEW v \in Ways, NEW k \in 1..3, Shut(Other(Inlet(v, k + 1)))'
      PROVE  copy'[Hand(v, k)] = "over"
  <2>1. Other(Inlet(v, k + 1)) = Inlet(Back(v), 4 - k) /\ Back(v) \in Ways /\ 4 - k \in 1..3
    BY SplicedBoth
  <2>2. Shut(Inlet(Back(v), 4 - k))
    BY <1>1, <2>1
  <2> QED  BY <2>1, <2>2 DEF Order
<1>2. Shut(Source(w)) => Shut(Source(w))'
  BY Users, Inlets DEF Later
<1> QED  BY <1>1, <1>2 DEF Order

------------------------------------------------------------------------------
(* The steps that move an item.                                                *)

\* A running copy has nothing to wait for from the handshake.
LEMMA NoDues ==
    ASSUME PortInv, Begun, hs' = hs, NEW w \in Ways, NEW k \in 1..3, Spliced(Hand(w, k))
    PROVE  /\ Debt(w, k) = 0 /\ Debt(w, k)' = 0
           /\ Due(w, k + 1) = 0 /\ Due(w, k + 1)' = 0
<1>1. k = 3 => Debt(w, k) = 0
  BY SplicedIsDone, LeftToDo, Sides DEF Debt
<1>2. k # 3 => Debt(w, k) = 0
  BY DEF Debt
<1>3. k = 1 => Due(w, k + 1) = 0
  BY SplicedIsDone, LeftToDo, Sides DEF Due
<1>4. k # 1 => Due(w, k + 1) = 0
  BY DEF Due
<1> QED  BY <1>1, <1>2, <1>3, <1>4, DuesStay

\* A way's numbers move on at some places, and at the others it rests or
\* breaks.
MovesOn(w, into, out, in2, out2) ==
    /\ in2[1] = sent'[Source(w)] /\ out2[4] = Len(got'[Sink(w)])
    /\ Numbered(got'[Sink(w)], 0)
    /\ \A k \in 1..4 :
        \/ Wire(w, k, in2[k], out2[k])'
        \/ /\ in2[k] = into[k] /\ out2[k] = out[k]
           /\ WireRests(w, k) \/ WireBreaks(w, k)
    /\ \A k \in 1..3 :
        \/ Splice(w, k, out2[k], in2[k + 1])'
        \/ /\ out2[k] = out[k] /\ in2[k + 1] = into[k + 1]
           /\ SpliceRests(w, k) \/ SpliceBreaks(w, k)
    /\ Spliced(Hand(w, 1)) \/ in2[2] = into[2]
    /\ Spliced(Hand(w, 3)) \/ in2[4] = into[4]

LEMMA FlowMoves ==
    ASSUME PortInv, NEW w \in Ways, Weaker(w),
           NEW into \in [1..4 -> Int], NEW out \in [1..4 -> Int], Flow(w, into, out),
           NEW in2 \in [1..4 -> Int], NEW out2 \in [1..4 -> Int],
           MovesOn(w, into, out, in2, out2)
    PROVE  Flows(w)'
<1>1. ASSUME NEW k \in 1..4 PROVE Wire(w, k, in2[k], out2[k])'
  <2>1. into[k] \in Int /\ out[k] \in Int /\ Wire(w, k, into[k], out[k])
    BY DEF Flow
  <2>2. WireRests(w, k) \/ WireBreaks(w, k) => Wire(w, k, into[k], out[k])'
    BY <2>1, WireKept
  <2> QED  BY <2>2 DEF MovesOn
<1>2. ASSUME NEW k \in 1..3 PROVE Splice(w, k, out2[k], in2[k + 1])'
  <2>1. out[k] \in Int /\ into[k + 1] \in Int /\ Splice(w, k, out[k], into[k + 1])
    <3>1. k \in 1..4 /\ k + 1 \in 1..4
      OBVIOUS
    <3> QED  BY <3>1 DEF Flow
  <2>2. SpliceRests(w, k) \/ SpliceBreaks(w, k) => Splice(w, k, out[k], into[k + 1])'
    BY <2>1, SpliceKept
  <2> QED  BY <2>2 DEF MovesOn
<1>3. /\ ~Spliced(Hand(w, 1))' => in2[2] = 0
      /\ ~Spliced(Hand(w, 3))' => in2[4] = 0
  <2>1. /\ Spliced(Hand(w, 1)) => Spliced(Hand(w, 1))'
        /\ Spliced(Hand(w, 3)) => Spliced(Hand(w, 3))'
    BY DEF Weaker
  <2>2. /\ ~Spliced(Hand(w, 1)) => into[2] = 0
        /\ ~Spliced(Hand(w, 3)) => into[4] = 0
    BY DEF Flow
  <2> QED  BY <2>1, <2>2 DEF MovesOn
<1> QED  BY <1>1, <1>2, <1>3, FlowNext DEF MovesOn

LEMMA CopyReads ==
    ASSUME WholeInv, PortInv', Later, NEW v \in Ways, NEW j \in 1..3, CopyRead(Hand(v, j)),
           NEW w \in Ways
    PROVE  Flows(w)' /\ (Orderly(w)' => Order(w)')
<1> DEFINE c == Hand(v, j)
           e == Inlet(v, j)
<1>1. PortInv /\ Begun /\ Flows(w) /\ Weaker(w) /\ (Orderly(w) => Order(w))
  BY WeakerStep DEF WholeInv
<1>2. /\ c \in Copies /\ Src(c) = e /\ e \in Ends /\ Spliced(c) /\ copy[c] = "copying"
      /\ held[c] = <<>> /\ open[e] /\ inbox[e] # <<>>
      /\ held' = [held EXCEPT ![c] = <<Head(inbox[e])>>]
      /\ inbox' = [inbox EXCEPT ![e] = Tail(@)]
      /\ open' = open /\ hs' = hs /\ dialed' = dialed /\ copy' = copy
      /\ sent' = sent /\ got' = got
  <2>1. c \in Copies /\ Src(c) = e /\ e \in Ends
    BY Hands3, Inlets
  <2>2. /\ Spliced(c) /\ copy[c] = "copying" /\ held[c] = <<>> /\ open[e] /\ inbox[e] # <<>>
        /\ held' = [held EXCEPT ![c] = <<Head(inbox[e])>>] /\ Take(e)
        /\ open' = open /\ hs' = hs /\ dialed' = dialed /\ copy' = copy /\ UNCHANGED users
    BY <2>1 DEF CopyRead, Running
  <2> QED  BY <2>1, <2>2 DEF Take, users
<1>3. /\ \A k \in 1..4 : Inlet(w, k) \in Ends /\ (Inlet(w, k) = e => w = v /\ k = j)
      /\ \A k \in 1..3 : Hand(w, k) \in Copies /\ (Hand(w, k) = c => w = v /\ k = j)
  BY Inlets, Hands3
<1>4. /\ \A k \in 1..4 : ~(w = v /\ k = j) => WireRests(w, k)
      /\ \A k \in 1..3 : ~(w = v /\ k = j) => SpliceRests(w, k)
  BY <1>1, <1>2, <1>3, Types, DuesStay DEF WireRests, SpliceRests
<1>5. Orderly(w)' => Order(w)'
  <2> SUFFICES ASSUME Orderly(w)' PROVE Order(w)'
    OBVIOUS
  <2>1. Order(w)
    BY <1>1 DEF Weaker
  <2>2. \A f : Shut(f)' <=> Shut(f)
    BY <1>2 DEF Shut
  <2>3. ASSUME NEW k \in 1..3, copy[Hand(w, k)] = "over"
        PROVE  inbox'[Inlet(w, k)] = <<>> /\ held'[Hand(w, k)] = <<>>
    BY <1>2, <1>4, <2>1, <2>3 DEF Order, WireRests, SpliceRests
  <2> QED  BY <1>2, <2>1, <2>2, <2>3, OrderKept
<1>6. CASE w # v
  <2>1. Kept(w)
    BY <1>2, <1>4, <1>6 DEF Kept
  <2> QED  BY <1>1, <2>1, KeptFlows, <1>5
<1>7. CASE w = v
  <2>1. PICK into \in [1..4 -> Int], out \in [1..4 -> Int] : Flow(w, into, out)
    BY <1>1 DEF Flows
  <2> DEFINE out2 == [out EXCEPT ![j] = @ + 1]
  <2>2. out2 \in [1..4 -> Int] /\ out2[j] = out[j] + 1 /\ \A k \in 1..4 : k # j => out2[k] = out[k]
    BY <2>1
  <2>3. Drains(w, j) /\ Debt(w, j) = 0 /\ Debt(w, j)' = 0
    BY <1>1, <1>2, <1>7, NoDues DEF Drains, Shut
  <2>4. into[j] \in Int /\ out[j] \in Int /\ into[j + 1] \in Int /\ j \in 1..4
    BY <2>1
  <2>5. /\ Wire(w, j, into[j], out[j] + 1)'
        /\ Fits(Head(inbox[e]), out[j] + 1)
    <3>1. Wire(w, j, into[j], out[j])
      BY <2>1, <2>4 DEF Flow
    <3>2. inbox'[Inlet(w, j)] = Tail(inbox[Inlet(w, j)]) /\ inbox[Inlet(w, j)] # <<>>
      BY <1>1, <1>2, <1>7, Types
    <3>3. Due(w, j)' = Due(w, j)
      BY <1>2, DuesStay
    <3> QED  BY <1>1, <1>7, <2>4, <3>1, <3>2, <3>3, WireTake
  <2>6. Splice(w, j, out[j] + 1, into[j + 1])'
    <3>1. held'[Hand(w, j)] = <<Head(inbox[e])>>
      BY <1>1, <1>2, <1>7, Types
    <3> QED  BY <1>1, <1>2, <1>7, <2>1, <2>3, <2>4, <2>5, <3>1, SpliceRead DEF Flow
  <2>7. \A k \in 1..4 :
            \/ Wire(w, k, into[k], out2[k])'
            \/ out2[k] = out[k] /\ WireRests(w, k)
    BY <1>4, <2>2, <2>5
  <2>8. \A k \in 1..3 :
            \/ Splice(w, k, out2[k], into[k + 1])'
            \/ out2[k] = out[k] /\ SpliceRests(w, k)
    BY <1>4, <2>2, <2>6
  <2>9. /\ into[1] = sent'[Source(w)] /\ out2[4] = Len(got'[Sink(w)])
        /\ Numbered(got'[Sink(w)], 0)
    <3>1. out2[4] = out[4] /\ sent' = sent /\ got' = got
      BY <1>2, <2>2
    <3> QED  BY <2>1, <3>1 DEF Flow
  <2>10. Flows(w)'
    <3>1. MovesOn(w, into, out, into, out2)
      BY <2>7, <2>8, <2>9 DEF MovesOn
    <3> QED  BY <1>1, <2>1, <2>2, <3>1, FlowMoves
  <2> QED  BY <1>5, <2>10
<1> QED  BY <1>6, <1>7

\* A write to nobody: the item is lost, and the reset may empty the way back.
LEMMA CopyVoids ==
    ASSUME WholeInv, PortInv', Later, NEW v \in Ways, NEW j \in 1..3, CopyWrite(Hand(v, j)),
           WriteIntoVoid(Dst(Hand(v, j))), NEW w \in Ways
    PROVE  /\ ~Orderly(w) /\ ~Orderly(w)'
           /\ w = v => WireBreaks(w, j + 1)
           /\ \A k \in 1..4 : ~(w = v /\ k = j + 1) => WireRests(w, k) \/ WireBreaks(w, k)
<1> DEFINE c == Hand(v, j)
           e == Dst(c)
<1>1. PortInv /\ Begun /\ Weaker(w) /\ \A u \in Ways : Flows(u) /\ (Orderly(u) => Order(u))
  BY WeakerStep DEF WholeInv
<1>2. /\ e \in Ends /\ e = Inlet(Back(v), 4 - j) /\ Other(e) = Inlet(v, j + 1)
      /\ e = Other(Inlet(v, j + 1)) /\ Inlet(v, j + 1) \in Ends
  BY Hands3, Inlets, CopyEndpoints
<1>3. /\ Running(c) /\ held[c] # <<>> /\ hs' = hs
      /\ open[e] /\ ~open[Other(e)]
      /\ inbox' = inbox \/ inbox' = [inbox EXCEPT ![e] = <<>>]
  BY DEF CopyWrite, WriteIntoVoid
<1>4. Shut(Inlet(v, j + 1)) /\ Shut(Inlet(v, j + 1))'
  BY <1>1, <1>2, <1>3, Gone DEF Later
<1>5. ~Orderly(w) /\ ~Orderly(w)'
  <2>1. Back(v) \in Ways /\ (w = v \/ w = Back(v))
    BY DEF Ways, Back
  <2>2. ~Orderly(v) /\ ~Orderly(Back(v))
    BY <1>1, <1>3, <1>4, <2>1, VoidItem
  <2> QED  BY <1>1, <2>1, <2>2 DEF Weaker
<1>6. ASSUME NEW k \in 1..4 PROVE Due(w, k)' = Due(w, k) /\ Due(w, k) \in Nat
  BY <1>1, <1>3, DuesStay, WireParts
<1>7. ASSUME w = v PROVE WireBreaks(w, j + 1)
  <2>1. ~Whole(w, j + 1)'
    BY <1>4, <1>7 DEF Whole
  <2>2. inbox'[Inlet(v, j + 1)] = inbox[Inlet(v, j + 1)]
    <3>1. Inlet(v, j + 1) # e
      BY <1>2 DEF Other, Ends
    <3> QED  BY <1>1, <1>2, <1>3, <3>1, Types
  <2>3. j + 1 \in 1..4
    OBVIOUS
  <2> QED  BY <1>5, <1>6, <1>7, <2>1, <2>2, <2>3 DEF WireBreaks
<1>8. ASSUME NEW k \in 1..4 PROVE WireRests(w, k) \/ WireBreaks(w, k)
  <2>1. CASE Inlet(w, k) = e
    <3>1. ~Whole(w, k)'
      BY <1>2, <1>4, <2>1 DEF Whole
    <3>2. inbox'[Inlet(w, k)] = inbox[Inlet(w, k)] \/ inbox'[Inlet(w, k)] = <<>>
      BY <1>1, <1>2, <1>3, <2>1, Types
    <3> QED  BY <1>5, <1>6, <3>1, <3>2 DEF WireBreaks
  <2>2. CASE Inlet(w, k) # e
    BY <1>1, <1>3, <1>6, <2>2, Inlets, Types DEF WireRests
  <2> QED  BY <2>1, <2>2
<1> QED  BY <1>5, <1>7, <1>8

LEMMA CopyWrites ==
    ASSUME WholeInv, PortInv', Later, NEW v \in Ways, NEW j \in 1..3, CopyWrite(Hand(v, j)),
           NEW w \in Ways
    PROVE  Flows(w)' /\ (Orderly(w)' => Order(w)')
<1> DEFINE c == Hand(v, j)
           e == Inlet(v, j + 1)
<1>1. PortInv /\ Begun /\ Flows(w) /\ Weaker(w) /\ (Orderly(w) => Order(w))
  BY WeakerStep DEF WholeInv
<1>2. /\ c \in Copies /\ e \in Ends /\ j + 1 \in 1..4
      /\ Dst(c) = Other(e) /\ Other(Dst(c)) = e
  BY Hands3, Inlets
<1>3. /\ Spliced(c) /\ copy[c] = "copying" /\ held[c] # <<>> /\ held'[c] = <<>>
      /\ held' = [held EXCEPT ![c] = <<>>]
      /\ (Room(Dst(c)) /\ Put(Dst(c), Head(held[c]))) \/ WriteIntoVoid(Dst(c))
      /\ open' = open /\ hs' = hs /\ dialed' = dialed /\ copy' = copy
      /\ sent' = sent /\ got' = got
  BY <1>1, <1>2, Types DEF CopyWrite, Running, users
<1>4. /\ \A k \in 1..4 : Inlet(w, k) \in Ends /\ (Inlet(w, k) = e => w = v /\ k = j + 1)
      /\ \A k \in 1..3 : Hand(w, k) \in Copies /\ (Hand(w, k) = c => w = v /\ k = j)
  BY <1>2, Inlets, Hands3
<1>5. \A k \in 1..3 : ~(w = v /\ k = j) => SpliceRests(w, k)
  BY <1>1, <1>3, <1>4, Types, DuesStay DEF SpliceRests
<1>6. \A k \in 1..4 : ~(w = v /\ k = j + 1) => WireRests(w, k) \/ WireBreaks(w, k)
  <2>1. CASE Put(Dst(c), Head(held[c]))
    BY <1>1, <1>2, <1>3, <1>4, <2>1, Types, DuesStay DEF WireRests, Put
  <2> QED  BY <1>3, <2>1, CopyVoids
<1>7. ASSUME Orderly(w)' PROVE Order(w)'
  <2>1. Orderly(w) /\ Order(w)
    BY <1>1, <1>7 DEF Weaker
  <2>2. Room(Dst(c)) /\ Put(Dst(c), Head(held[c]))
    BY <1>3, <2>1, CopyVoids
  <2>3. \A f : Shut(f)' <=> Shut(f)
    BY <1>3 DEF Shut
  <2>4. ASSUME NEW k \in 1..3, copy[Hand(w, k)] = "over"
        PROVE  inbox'[Inlet(w, k)] = <<>> /\ held'[Hand(w, k)] = <<>>
    <3>1. inbox[Inlet(w, k)] = <<>> /\ held[Hand(w, k)] = <<>>
      BY <2>1, <2>4 DEF Order
    <3>2. Inlet(w, k) # e
      <4>1. ASSUME w = v, k = j + 1 PROVE FALSE
        <5>1. copy[Hand(w, k - 1)] = "over" /\ k - 1 = j
          BY <2>1, <2>4, <4>1 DEF Order
        <5> QED  BY <1>3, <4>1, <5>1
      <4> QED  BY <1>4, <4>1
    <3>3. inbox'[Inlet(w, k)] = inbox[Inlet(w, k)]
      BY <1>1, <1>2, <1>4, <2>2, <3>2, Types DEF Put
    <3>4. held'[Hand(w, k)] = <<>>
      BY <1>1, <1>3, <1>4, <3>1, Types
    <3> QED  BY <3>1, <3>3, <3>4
  <2> QED  BY <1>3, <2>1, <2>3, <2>4, OrderKept
<1>8. CASE w # v
  <2>1. Kept(w)
    BY <1>3, <1>5, <1>6, <1>8 DEF Kept
  <2> QED  BY <1>1, <1>7, <2>1, KeptFlows
<1>9. CASE w = v
  <2>1. PICK into \in [1..4 -> Int], out \in [1..4 -> Int] : Flow(w, into, out)
    BY <1>1 DEF Flows
  <2> DEFINE in2 == [into EXCEPT ![j + 1] = @ + 1]
             m == into[j + 1]
  <2>2. /\ in2 \in [1..4 -> Int] /\ in2[j + 1] = m + 1
        /\ \A k \in 1..4 : k # j + 1 => in2[k] = into[k]
    BY <1>2, <2>1
  <2>3. Wire(w, j + 1, m, out[j + 1]) /\ Splice(w, j, out[j], m)
    BY <1>2, <2>1 DEF Flow
  <2>4. m \in Int /\ out[j + 1] \in Int /\ out[j] \in Int
    BY <1>2, <2>1
  <2>5. Debt(w, j) = 0 /\ Debt(w, j)' = 0 /\ Due(w, j + 1) = 0 /\ Due(w, j + 1)' = 0
    BY <1>1, <1>3, <1>9, NoDues
  <2>6. /\ Splice(w, j, out[j], m + 1)'
        /\ Fits(Head(held[c]), m + 1)
    <3>1. Len(held[Hand(w, j)]) <= 1
      BY <1>1, <1>2, <1>9 DEF Begun
    <3> QED  BY <1>1, <1>3, <1>9, <2>3, <2>4, <2>5, <3>1, SpliceWrite
  <2>7. Wire(w, j + 1, m + 1, out[j + 1])'
    <3>1. CASE Room(Dst(c)) /\ Put(Dst(c), Head(held[c]))
      <4>1. Whole(w, j + 1)
        BY <1>2, <1>9, <3>1 DEF Room, Whole, Shut
      <4>2. inbox'[Inlet(w, j + 1)] = Append(inbox[Inlet(w, j + 1)], Head(held[c]))
        BY <1>1, <1>2, <1>9, <3>1, Types DEF Put
      <4> QED  BY <1>1, <1>2, <2>3, <2>4, <2>5, <2>6, <4>1, <4>2, WirePut
    <3>2. CASE WriteIntoVoid(Dst(c))
      <4>1. WireBreaks(w, j + 1)
        BY <1>9, <3>2, CopyVoids
      <4> QED  BY <1>1, <1>2, <2>3, <2>4, <4>1, WireLost
    <3> QED  BY <1>3, <3>1, <3>2
  <2>8. MovesOn(w, into, out, in2, out)
    <3>1. ASSUME NEW k \in 1..4
          PROVE  \/ Wire(w, k, in2[k], out[k])'
                 \/ in2[k] = into[k] /\ (WireRests(w, k) \/ WireBreaks(w, k))
      BY <1>6, <2>2, <2>7
    <3>2. ASSUME NEW k \in 1..3
          PROVE  \/ Splice(w, k, out[k], in2[k + 1])'
                 \/ in2[k + 1] = into[k + 1] /\ SpliceRests(w, k)
      <4>1. k # j => k + 1 # j + 1 /\ k + 1 \in 1..4
        OBVIOUS
      <4> QED  BY <1>5, <2>2, <2>6, <4>1
    <3>3. in2[1] = into[1] /\ (j = 1 \/ in2[2] = into[2]) /\ (j = 3 \/ in2[4] = into[4])
      BY <2>2
    <3>4. /\ in2[1] = sent'[Source(w)] /\ out[4] = Len(got'[Sink(w)])
          /\ Numbered(got'[Sink(w)], 0)
      BY <1>3, <2>1, <3>3 DEF Flow
    <3>5. /\ Spliced(Hand(w, 1)) \/ in2[2] = into[2]
          /\ Spliced(Hand(w, 3)) \/ in2[4] = into[4]
      BY <1>3, <1>9, <3>3
    <3> QED  BY <3>1, <3>2, <3>4, <3>5 DEF MovesOn
  <2> QED  BY <1>1, <1>7, <2>1, <2>2, <2>8, FlowMoves
<1> QED  BY <1>8, <1>9

\* A copy returns: what it closes had nothing more to come, or the end is not
\* orderly.
LEMMA OrderlyStop ==
    ASSUME WholeInv, NEW v \in Ways, NEW j \in 1..3, CopyEnds(Hand(v, j)),
           NEW w \in Ways, Orderly(w)
    PROVE  /\ inbox' = inbox /\ held'[Hand(w, 1)] = held[Hand(w, 1)]
           /\ held'[Hand(w, 2)] = held[Hand(w, 2)] /\ held'[Hand(w, 3)] = held[Hand(w, 3)]
           /\ w = v => /\ inbox[Inlet(w, j)] = <<>> /\ held[Hand(w, j)] = <<>>
                       /\ Shut(Source(w)) /\ (j > 1 => copy[Hand(w, j - 1)] = "over")
           /\ w # v => copy[Hand(w, 4 - j)] = "over"
<1> DEFINE c == Hand(v, j)
<1>1. PortInv /\ Begun /\ Order(w) /\ \A u \in Ways : Flows(u)
  BY DEF WholeInv
<1>2. /\ c \in Copies /\ Dst(c) \in Ends /\ Dst(c) = Inlet(Back(v), 4 - j)
      /\ Back(v) \in Ways /\ Back(w) \in Ways /\ 4 - j \in 1..3 /\ 4 - j \in 1..4
      /\ 4 - (4 - j) = j
      /\ w # v => w = Back(v) /\ v = Back(w)
  BY Hands3, CopyEndpoints, SplicedBoth DEF Ways, Back
<1>3. /\ Running(c) /\ Stops(c) /\ held' = [held EXCEPT ![c] = <<>>] /\ Close({Dst(c)})
  BY DEF CopyEnds, Stops
<1>4. ASSUME w = v
      PROVE  /\ inbox[Inlet(w, j)] = <<>> /\ held[Hand(w, j)] = <<>> /\ Empty(Back(w))
             /\ Shut(Source(w)) /\ (j > 1 => copy[Hand(w, j - 1)] = "over")
  BY <1>1, <1>2, <1>3, <1>4, EndsInOrder
<1>5. ASSUME w # v PROVE copy[Hand(w, 4 - j)] = "over"
  BY <1>1, <1>2, <1>3, <1>5, EndsAfter
<1>6. inbox[Dst(c)] = <<>>
  <2>1. CASE w = v
    BY <1>2, <1>4, <2>1 DEF Empty
  <2>2. CASE w # v
    BY <1>1, <1>2, <1>5, <2>2 DEF Order
  <2> QED  BY <2>1, <2>2
<1>7. inbox' = inbox
  <2>1. PICK lost \in SUBSET {Other(f) : f \in {g \in {Dst(c)} : open[g] /\ inbox[g] # <<>>}} :
          inbox' = [f \in Ends |-> IF f \in {Dst(c)} \cup lost THEN <<>> ELSE inbox[f]]
    BY <1>3 DEF Close
  <2>2. lost = {}
    BY <1>6, <2>1
  <2>3. \A f \in Ends : inbox'[f] = inbox[f]
    BY <1>6, <2>1, <2>2
  <2> QED  BY <1>1, <2>1, <2>3, Types
<1>8. \A k \in 1..3 : held'[Hand(w, k)] = held[Hand(w, k)]
  <2> SUFFICES ASSUME NEW k \in 1..3 PROVE held'[Hand(w, k)] = held[Hand(w, k)]
    OBVIOUS
  <2>1. CASE Hand(w, k) = c
    <3>1. w = v /\ k = j
      BY <2>1, Hands3
    <3> QED  BY <1>1, <1>2, <1>3, <1>4, <3>1, Types
  <2>2. CASE Hand(w, k) # c
    BY <1>1, <1>3, <2>2, Hands3, Types
  <2> QED  BY <2>1, <2>2
<1> QED  BY <1>4, <1>5, <1>7, <1>8

LEMMA CopyStops ==
    ASSUME WholeInv, PortInv', Later, NEW v \in Ways, NEW j \in 1..3, CopyEnds(Hand(v, j)),
           NEW w \in Ways
    PROVE  Flows(w)' /\ (Orderly(w)' => Order(w)')
<1> DEFINE c == Hand(v, j)
<1>1. PortInv /\ Begun /\ Flows(w) /\ Weaker(w) /\ (Orderly(w) => Order(w))
  BY WeakerStep DEF WholeInv
<1>2. /\ c \in Copies /\ Dst(c) \in Ends /\ Other(Dst(c)) = Inlet(v, j + 1)
      /\ Back(w) \in Ways
  BY Hands3, CopyEndpoints, Inlets
<1>3. /\ Running(c) /\ Close({Dst(c)}) /\ hs' = hs /\ dialed' = dialed
      /\ copy' = [copy EXCEPT ![c] = "over"] /\ held' = [held EXCEPT ![c] = <<>>]
      /\ sent' = sent /\ got' = got
  BY DEF CopyEnds, users
<1>4. Dst(c)[1] = 4 => dialed
  BY <1>2, <1>3 DEF Running, Spliced, Dst, Copies
<1>5. ASSUME NEW k \in 1..4 PROVE WireRests(w, k) \/ WireBreaks(w, k)
  <2>1. Due(w, k)' = Due(w, k) /\ Due(w, k) \in Nat
    BY <1>1, <1>3, DuesStay, WireParts
  <2>2. CASE Orderly(w)'
    BY <1>1, <2>1, <2>2, OrderlyStop DEF Weaker, WireRests
  <2>3. CASE ~Orderly(w)'
    <3>1. {Dst(c)} \in SUBSET Ends /\ \A e \in {Dst(c)} : e[1] = 4 => dialed
      BY <1>2, <1>4
    <3>2. \/ inbox'[Inlet(w, k)] = inbox[Inlet(w, k)]
          \/ inbox'[Inlet(w, k)] = <<>> /\ ~Whole(w, k)'
      BY <1>1, <1>3, <3>1, Broken
    <3> QED  BY <2>1, <2>3, <3>2 DEF WireRests, WireBreaks
  <2> QED  BY <2>2, <2>3
<1>6. ASSUME NEW k \in 1..3 PROVE SpliceRests(w, k) \/ SpliceBreaks(w, k)
  <2>1. Debt(w, k)' = Debt(w, k) /\ Debt(w, k) \in Nat
    BY <1>1, <1>3, DuesStay, SpliceParts
  <2>2. CASE Hand(w, k) # c
    BY <1>1, <1>3, <2>1, <2>2, Hands3, Types DEF SpliceRests
  <2>3. CASE Hand(w, k) = c
    <3>1. held'[Hand(w, k)] = <<>> /\ copy'[Hand(w, k)] = "over"
      BY <1>1, <1>2, <1>3, <2>3, Types
    <3>2. w = v /\ k = j
      BY <2>3, Hands3
    <3>3. Orderly(w)' => held[Hand(w, k)] = <<>>
      BY <1>1, <3>2, OrderlyStop DEF Weaker
    <3> QED  BY <2>1, <3>1, <3>3 DEF SpliceRests, SpliceBreaks, Drains
  <2> QED  BY <2>2, <2>3
<1>7. Flows(w)'
  <2>1. Kept(w)
    BY <1>3, <1>5, <1>6 DEF Kept
  <2> QED  BY <1>1, <2>1, KeptFlows
<1>8. ASSUME Orderly(w)' PROVE Order(w)'
  <2>1. Orderly(w) /\ Order(w)
    BY <1>1, <1>8 DEF Weaker
  <2>2. /\ inbox' = inbox /\ \A k \in 1..3 : held'[Hand(w, k)] = held[Hand(w, k)]
        /\ w = v => /\ inbox[Inlet(w, j)] = <<>> /\ held[Hand(w, j)] = <<>>
                    /\ Shut(Source(w)) /\ (j > 1 => copy[Hand(w, j - 1)] = "over")
        /\ w # v => copy[Hand(w, 4 - j)] = "over"
    <3>1. \A k \in 1..3 : k = 1 \/ k = 2 \/ k = 3
      OBVIOUS
    <3> QED  BY <2>1, <3>1, OrderlyStop
  <2>3. \A d \in Copies : copy'[d] = "over" <=> (d = c \/ copy[d] = "over")
    BY <1>1, <1>2, <1>3, Types
  <2>4. ASSUME NEW u \in Ways, NEW k \in 1..3, Shut(Other(Inlet(u, k + 1)))'
        PROVE  copy'[Hand(u, k)] = "over"
    <3>1. Other(Inlet(u, k + 1)) \in Ends /\ Other(Other(Inlet(u, k + 1))) = Inlet(u, k + 1)
      BY Inlets, OtherEnd DEF Ends, Other
    <3>2. CASE Shut(Other(Inlet(u, k + 1)))
      BY <2>1, <2>3, <3>2, Hands3 DEF Order
    <3>3. CASE Other(Inlet(u, k + 1)) = Dst(c)
      <4>1. Inlet(u, k + 1) = Inlet(v, j + 1)
        BY <1>2, <3>1, <3>3
      <4>2. k + 1 \in 1..4 /\ j + 1 \in 1..4 /\ (k + 1 = j + 1 => k = j)
        OBVIOUS
      <4>3. u = v /\ k = j
        BY <4>1, <4>2, Inlets
      <4> QED  BY <1>2, <2>3, <4>3
    <3> QED  BY <1>1, <1>3, <2>4, <3>1, <3>2, <3>3, CloseShuts
  <2>5. ASSUME NEW k \in 1..3, copy'[Hand(Back(w), 4 - k)] = "over"
        PROVE  copy'[Hand(w, k)] = "over"
    <3>1. Hand(w, k) \in Copies /\ Hand(Back(w), 4 - k) \in Copies /\ 4 - k \in 1..3
      BY <1>2, Hands3
    <3>2. CASE copy[Hand(Back(w), 4 - k)] = "over"
      BY <2>1, <2>3, <3>1, <3>2 DEF Order
    <3>3. CASE Hand(Back(w), 4 - k) = c
      <4>1. Back(w) = v /\ 4 - k = j
        BY <1>2, <3>1, <3>3, Hands3
      <4>2. w # v /\ 4 - j = k
        BY <4>1 DEF Ways, Back
      <4> QED  BY <2>2, <2>3, <3>1, <4>2
    <3> QED  BY <2>3, <2>5, <3>1, <3>2, <3>3
  <2>6. ASSUME NEW k \in 1..3, copy'[Hand(w, k)] = "over"
        PROVE  /\ Shut(Source(w))'
               /\ inbox'[Inlet(w, k)] = <<>> /\ held'[Hand(w, k)] = <<>>
               /\ k > 1 => copy'[Hand(w, k - 1)] = "over"
    <3>1. /\ Shut(Source(w)) /\ inbox[Inlet(w, k)] = <<>> /\ held[Hand(w, k)] = <<>>
          /\ k > 1 => copy[Hand(w, k - 1)] = "over"
      <4>1. CASE copy[Hand(w, k)] = "over"
        BY <2>1, <4>1 DEF Order
      <4>2. CASE Hand(w, k) = c
        <5>1. w = v /\ k = j
          BY <4>2, Hands3
        <5> QED  BY <2>2, <5>1
      <4> QED  BY <2>3, <2>6, <4>1, <4>2, Hands3
    <3>2. Shut(Source(w))'
      BY <3>1, Users, Inlets DEF Later
    <3>3. k > 1 => copy'[Hand(w, k - 1)] = "over"
      <4>1. k > 1 => Hand(w, k - 1) \in Copies
        <5>1. k > 1 => k - 1 \in 1..3
          OBVIOUS
        <5> QED  BY <5>1, Hands3
      <4> QED  BY <2>3, <3>1, <4>1
    <3> QED  BY <2>2, <3>1, <3>2, <3>3
  <2> QED  BY <2>4, <2>5, <2>6 DEF Order
<1> QED  BY <1>7, <1>8

\* The source writes: what follows goes in after what is there.
LEMMA SourceWrites ==
    ASSUME WholeInv, PortInv', Later, NEW v \in Ways, UserWrites(Source(v)), NEW w \in Ways
    PROVE  Flows(w)' /\ (Orderly(w)' => Order(w)')
<1> DEFINE e == Inlet(v, 1)
           x == Datum(sent[Source(v)] + 1)
<1>1. PortInv /\ Begun /\ Flows(w) /\ Weaker(w) /\ (Orderly(w) => Order(w))
  BY WeakerStep DEF WholeInv
<1>2. /\ e \in Ends /\ Other(Source(v)) = e /\ Other(e) = Source(v)
      /\ Source(v) \in {Client, Service} /\ (w # v => Source(w) # Source(v))
  BY Users, Inlets DEF Ways, Back
<1>3. /\ Room(Source(v)) /\ inbox' = [inbox EXCEPT ![e] = Append(@, x)]
      /\ sent' = [sent EXCEPT ![Source(v)] = @ + 1]
      /\ open' = open /\ hs' = hs /\ dialed' = dialed /\ copy' = copy /\ held' = held
      /\ got' = got
  BY <1>2 DEF UserWrites, Put, copies
<1>4. /\ \A k \in 1..4 : Inlet(w, k) \in Ends /\ (Inlet(w, k) = e => w = v /\ k = 1)
      /\ \A k \in 1..4 : ~(w = v /\ k = 1) => WireRests(w, k)
      /\ \A k \in 1..3 : SpliceRests(w, k)
  <2>1. \A k \in 1..4 : Inlet(w, k) \in Ends /\ (Inlet(w, k) = e => w = v /\ k = 1)
    BY Inlets
  <2>2. \A k : Due(w, k)' = Due(w, k) /\ Debt(w, k)' = Debt(w, k)
    BY <1>3, DuesStay
  <2>3. \A k \in 1..4 : ~(w = v /\ k = 1) => inbox'[Inlet(w, k)] = inbox[Inlet(w, k)]
    BY <1>1, <1>2, <1>3, <2>1, Types
  <2> QED  BY <1>3, <2>1, <2>2, <2>3 DEF WireRests, SpliceRests
<1>5. ASSUME Orderly(w)' PROVE Order(w)'
  <2>1. Order(w)
    BY <1>1, <1>5 DEF Weaker
  <2>2. \A f : Shut(f)' <=> Shut(f)
    BY <1>3 DEF Shut
  <2>3. ASSUME NEW k \in 1..3, copy[Hand(w, k)] = "over"
        PROVE  inbox'[Inlet(w, k)] = <<>> /\ held'[Hand(w, k)] = <<>>
    <3>1. inbox[Inlet(w, k)] = <<>> /\ held[Hand(w, k)] = <<>> /\ Shut(Source(w))
      BY <2>1, <2>3 DEF Order
    <3>2. w # v
      BY <1>3, <3>1 DEF Room, Shut
    <3> QED  BY <1>4, <3>1, <3>2 DEF WireRests, SpliceRests
  <2> QED  BY <1>3, <2>1, <2>2, <2>3, OrderKept
<1>6. CASE w # v
  <2>1. sent'[Source(w)] = sent[Source(w)]
    BY <1>1, <1>2, <1>3, <1>6, Users, Types
  <2>2. Kept(w)
    BY <1>3, <1>4, <1>6, <2>1 DEF Kept
  <2> QED  BY <1>1, <1>5, <2>2, KeptFlows
<1>7. CASE w = v
  <2>1. PICK into \in [1..4 -> Int], out \in [1..4 -> Int] : Flow(w, into, out)
    BY <1>1 DEF Flows
  <2> DEFINE in2 == [into EXCEPT ![1] = @ + 1]
  <2>2. /\ in2 \in [1..4 -> Int] /\ in2[1] = into[1] + 1
        /\ \A k \in 1..4 : k # 1 => in2[k] = into[k]
    BY <2>1
  <2>3. Wire(w, 1, into[1], out[1]) /\ into[1] = sent[Source(w)] /\ into[1] \in Int /\ out[1] \in Int
    BY <2>1 DEF Flow
  <2>4. Due(w, 1) = 0 /\ Due(w, 1)' = 0
    BY DEF Due
  <2>5. Whole(w, 1)
    BY <1>2, <1>3, <1>7 DEF Whole, Shut, Room
  <2>6. inbox'[Inlet(w, 1)] = Append(inbox[Inlet(w, 1)], x)
    BY <1>1, <1>2, <1>3, <1>7, Types
  <2>7. Fits(x, into[1] + 1)
    <3>1. sent[Source(w)] \in Nat
      BY <1>1, Lengths
    <3> QED  BY <1>7, <2>3, <3>1 DEF Fits
  <2>8. Wire(w, 1, into[1] + 1, out[1])'
    <3>1. 1 \in 1..4
      OBVIOUS
    <3> HIDE DEF x
    <3> QED  BY <1>1, <2>3, <2>4, <2>5, <2>6, <2>7, <3>1, WirePut
  <2>9. MovesOn(w, into, out, in2, out)
    <3>1. \A k \in 1..4 :
            \/ Wire(w, k, in2[k], out[k])'
            \/ in2[k] = into[k] /\ WireRests(w, k)
      BY <1>4, <2>2, <2>8
    <3>2. \A k \in 1..3 : in2[k + 1] = into[k + 1] /\ SpliceRests(w, k)
      BY <1>4, <2>2
    <3>3. sent'[Source(w)] = sent[Source(w)] + 1
      BY <1>1, <1>2, <1>3, <1>7, Types
    <3>4. /\ in2[1] = sent'[Source(w)] /\ out[4] = Len(got'[Sink(w)])
          /\ Numbered(got'[Sink(w)], 0)
      BY <1>3, <2>1, <2>2, <2>3, <3>3 DEF Flow
    <3>5. in2[2] = into[2] /\ in2[4] = into[4]
      BY <2>2
    <3> QED  BY <3>1, <3>2, <3>4, <3>5 DEF MovesOn
  <2> QED  BY <1>1, <1>5, <2>1, <2>2, <2>9, FlowMoves
<1> QED  BY <1>6, <1>7

\* The sink reads: what it has is the beginning of what was sent.
LEMMA SinkReads ==
    ASSUME WholeInv, PortInv', Later, NEW v \in Ways, UserReads(Sink(v)), NEW w \in Ways
    PROVE  Flows(w)' /\ (Orderly(w)' => Order(w)')
<1> DEFINE e == Inlet(v, 4)
           x == Head(inbox[e])
<1>1. PortInv /\ Begun /\ Flows(w) /\ Weaker(w) /\ (Orderly(w) => Order(w))
  BY WeakerStep DEF WholeInv
<1>2. /\ e \in Ends /\ Sink(v) = e
      /\ Sink(v) \in {Client, Service} /\ (w # v => Sink(w) # Sink(v))
  BY Users, Inlets DEF Ways, Back
<1>3. /\ inbox[e] # <<>> /\ inbox' = [inbox EXCEPT ![e] = Tail(@)]
      /\ got' = [got EXCEPT ![Sink(v)] = Append(@, x)]
      /\ open' = open /\ hs' = hs /\ dialed' = dialed /\ copy' = copy /\ held' = held
      /\ sent' = sent
  BY <1>2 DEF UserReads, Take, copies
<1>4. /\ \A k \in 1..4 : Inlet(w, k) \in Ends /\ (Inlet(w, k) = e => w = v /\ k = 4)
      /\ \A k \in 1..4 : ~(w = v /\ k = 4) => WireRests(w, k)
      /\ \A k \in 1..3 : SpliceRests(w, k)
  <2>1. \A k \in 1..4 : Inlet(w, k) \in Ends /\ (Inlet(w, k) = e => w = v /\ k = 4)
    BY Inlets
  <2>2. \A k : Due(w, k)' = Due(w, k) /\ Debt(w, k)' = Debt(w, k)
    BY <1>3, DuesStay
  <2>3. \A k \in 1..4 : ~(w = v /\ k = 4) => inbox'[Inlet(w, k)] = inbox[Inlet(w, k)]
    BY <1>1, <1>2, <1>3, <2>1, Types
  <2> QED  BY <1>3, <2>1, <2>2, <2>3 DEF WireRests, SpliceRests
<1>5. ASSUME Orderly(w)' PROVE Order(w)'
  <2>1. Order(w)
    BY <1>1, <1>5 DEF Weaker
  <2>2. \A f : Shut(f)' <=> Shut(f)
    BY <1>3 DEF Shut
  <2>3. ASSUME NEW k \in 1..3, copy[Hand(w, k)] = "over"
        PROVE  inbox'[Inlet(w, k)] = <<>> /\ held'[Hand(w, k)] = <<>>
    <3>1. inbox[Inlet(w, k)] = <<>> /\ held[Hand(w, k)] = <<>> /\ k # 4
      BY <2>1, <2>3 DEF Order
    <3> QED  BY <1>4, <3>1 DEF WireRests, SpliceRests
  <2> QED  BY <1>3, <2>1, <2>2, <2>3, OrderKept
<1>6. CASE w # v
  <2>1. got'[Sink(w)] = got[Sink(w)]
    BY <1>1, <1>2, <1>3, <1>6, Users, Types
  <2>2. Kept(w)
    BY <1>3, <1>4, <1>6, <2>1 DEF Kept
  <2> QED  BY <1>1, <1>5, <2>2, KeptFlows
<1>7. CASE w = v
  <2>1. PICK into \in [1..4 -> Int], out \in [1..4 -> Int] : Flow(w, into, out)
    BY <1>1 DEF Flows
  <2> DEFINE out2 == [out EXCEPT ![4] = @ + 1]
  <2>2. /\ out2 \in [1..4 -> Int] /\ out2[4] = out[4] + 1
        /\ \A k \in 1..4 : k # 4 => out2[k] = out[k]
    BY <2>1
  <2>3. /\ Wire(w, 4, into[4], out[4]) /\ into[4] \in Int /\ out[4] \in Int
        /\ out[4] = Len(got[Sink(w)]) /\ Numbered(got[Sink(w)], 0)
        /\ into[1] = sent[Source(w)]
    BY <2>1 DEF Flow
  <2>4. inbox'[Inlet(w, 4)] = Tail(inbox[Inlet(w, 4)])
    BY <1>1, <1>2, <1>3, <1>7, Types
  <2>5. Due(w, 4)' = Due(w, 4)
    BY <1>3, DuesStay
  <2>6. /\ Wire(w, 4, into[4], out[4] + 1)'
        /\ Fits(x, out[4] + 1)
    <3>1. inbox[Inlet(w, 4)] # <<>> /\ x = Head(inbox[Inlet(w, 4)])
      BY <1>3, <1>7
    <3>2. PortInv /\ Weaker(w) /\ 4 \in 1..4
      BY <1>1
    <3> HIDE DEF x
    <3> QED  BY <2>3, <2>4, <2>5, <3>1, <3>2, WireTake
  <2>7. /\ Numbered(got'[Sink(w)], 0) /\ Len(got'[Sink(w)]) = out[4] + 1
    <3>1. got[Sink(w)] \in Seq(Items) /\ Len(got[Sink(w)]) \in Nat
      BY <1>1, Lengths
    <3>2. got'[Sink(w)] = Append(got[Sink(w)], x)
      BY <1>1, <1>2, <1>3, <1>7, Types
    <3>3. 0 + Len(got[Sink(w)]) + 1 = out[4] + 1
      BY <2>3, <3>1
    <3> QED  BY <2>3, <2>6, <3>1, <3>2, <3>3, NumberedAppend
  <2>8. MovesOn(w, into, out, into, out2)
    <3>1. \A k \in 1..4 :
            \/ Wire(w, k, into[k], out2[k])'
            \/ out2[k] = out[k] /\ WireRests(w, k)
      BY <1>4, <2>2, <2>6
    <3>2. \A k \in 1..3 : out2[k] = out[k] /\ SpliceRests(w, k)
      BY <1>4, <2>2
    <3>3. into[1] = sent'[Source(w)] /\ out2[4] = Len(got'[Sink(w)])
      BY <1>3, <2>2, <2>3, <2>7
    <3> QED  BY <2>7, <3>1, <3>2, <3>3 DEF MovesOn
  <2> QED  BY <1>1, <1>5, <2>1, <2>2, <2>8, FlowMoves
<1> QED  BY <1>6, <1>7

\* A user hangs up: its own end of the way back cannot be orderly any more, and
\* if the other's is, it left nothing unread.
LEMMA UserHangsUp ==
    ASSUME WholeInv, PortInv', Later, NEW v \in Ways, UserCloses(Source(v)), NEW w \in Ways
    PROVE  Flows(w)' /\ (Orderly(w)' => Order(w)')
<1> DEFINE e == Source(v)
<1>1. PortInv /\ Begun /\ Flows(w) /\ Weaker(w) /\ (Orderly(w) => Order(w)) /\ Flows(Back(v))
  BY WeakerStep, SplicedBoth DEF WholeInv
<1>2. /\ e \in Ends /\ e = Inlet(Back(v), 4) /\ Back(v) \in Ways
      /\ w # v => Sink(w) = e
  <2>1. Back(v) \in Ways /\ e = Inlet(Back(v), 4) /\ Sink(Back(v)) = e
    BY Users, SplicedBoth
  <2>2. e \in Ends
    BY <2>1, Inlets
  <2>3. w # v => w = Back(v)
    BY DEF Ways, Back
  <2> QED  BY <2>1, <2>2, <2>3
<1>3. /\ open[e] /\ Close({e}) /\ hs' = hs /\ dialed' = dialed /\ copy' = copy
      /\ held' = held /\ sent' = sent /\ got' = got
  BY DEF UserCloses, copies, users
<1>4. e[1] = 4 => dialed
  <2>1. e[1] = 4 => e = Service \/ e = <<4, "L">>
    BY <1>2 DEF Ends, Service
  <2> QED  BY <1>1, <1>3, <2>1 DEF Begun
<1>5. Shut(e)' /\ \A f \in Ends : Shut(f)' => Shut(f) \/ f = e
  BY <1>1, <1>2, <1>3, <1>4, CloseShuts
<1>6. w # v => ~Orderly(w)'
  BY <1>2, <1>5 DEF Orderly
<1>7. Orderly(w)' => inbox' = inbox
  <2> SUFFICES ASSUME Orderly(w)' PROVE inbox' = inbox
    OBVIOUS
  <2>1. w = v /\ Len(got[Source(v)]) = sent[Sink(v)]
    BY <1>3, <1>5, <1>6 DEF Orderly
  <2>2. Sink(Back(v)) = Source(v) /\ Source(Back(v)) = Sink(v)
    BY Users
  <2>3. inbox[e] = <<>>
    BY <1>1, <1>2, <2>1, <2>2, Chain
  <2>4. PICK lost \in SUBSET {Other(f) : f \in {g \in {e} : open[g] /\ inbox[g] # <<>>}} :
          inbox' = [f \in Ends |-> IF f \in {e} \cup lost THEN <<>> ELSE inbox[f]]
    BY <1>3 DEF Close
  <2>5. lost = {}
    BY <2>3, <2>4
  <2>6. \A f \in Ends : inbox'[f] = inbox[f]
    BY <2>3, <2>4, <2>5
  <2> QED  BY <1>1, <2>4, <2>6, Types
<1>8. ASSUME NEW k \in 1..4 PROVE WireRests(w, k) \/ WireBreaks(w, k)
  <2>1. Due(w, k)' = Due(w, k) /\ Due(w, k) \in Nat
    BY <1>1, <1>3, DuesStay, WireParts
  <2>2. CASE Orderly(w)'
    BY <1>7, <2>1, <2>2 DEF WireRests
  <2>3. CASE ~Orderly(w)'
    <3>1. {e} \in SUBSET Ends /\ \A f \in {e} : f[1] = 4 => dialed
      BY <1>2, <1>4
    <3>2. \/ inbox'[Inlet(w, k)] = inbox[Inlet(w, k)]
          \/ inbox'[Inlet(w, k)] = <<>> /\ ~Whole(w, k)'
      BY <1>1, <1>3, <3>1, Broken
    <3> QED  BY <2>1, <2>3, <3>2 DEF WireRests, WireBreaks
  <2> QED  BY <2>2, <2>3
<1>9. Flows(w)'
  <2>1. Kept(w)
    BY <1>3, <1>8, DuesStay DEF Kept, SpliceRests
  <2> QED  BY <1>1, <2>1, KeptFlows
<1>10. ASSUME Orderly(w)' PROVE Order(w)'
  <2>1. Order(w) /\ inbox' = inbox
    BY <1>1, <1>7, <1>10 DEF Weaker
  <2>2. ASSUME NEW u \in Ways, NEW k \in 1..3, Shut(Inlet(u, k))' PROVE Shut(Inlet(u, k))
    <3>1. Inlet(u, k) \in Ends /\ Inlet(u, k) # e
      <4>1. k \in 1..4 /\ 4 \in 1..4 /\ k # 4
        OBVIOUS
      <4> QED  BY <1>2, <4>1, Inlets
    <3> QED  BY <1>5, <2>2, <3>1
  <2> QED  BY <1>3, <2>1, <2>2, OrderKept DEF Order
<1> QED  BY <1>9, <1>10

\* What moves nothing and closes nothing.
LEMMA Rests ==
    ASSUME WholeInv, PortInv', Later, UNCHANGED <<inbox, hs, copy, held, sent, got>>,
           \A e \in Ends : Shut(e)' => Shut(e), NEW w \in Ways
    PROVE  Flows(w)' /\ (Orderly(w)' => Order(w)')
<1>1. PortInv /\ Begun /\ Flows(w) /\ Weaker(w) /\ (Orderly(w) => Order(w))
  BY WeakerStep DEF WholeInv
<1>2. \A k : Due(w, k)' = Due(w, k) /\ Debt(w, k)' = Debt(w, k)
  BY DuesStay
<1>3. Kept(w)
  BY <1>2 DEF Kept, WireRests, SpliceRests
<1>4. ASSUME NEW u \in Ways, NEW k \in 1..3, Shut(Inlet(u, k))' PROVE Shut(Inlet(u, k))
  BY <1>4, Inlets
<1>5. ASSUME Orderly(w)' PROVE Order(w)'
  <2>1. Order(w)
    BY <1>1, <1>5 DEF Weaker
  <2> QED  BY <1>4, <2>1, OrderKept DEF Order
<1> QED  BY <1>1, <1>3, <1>5, KeptFlows

LEMMA DialKeeps ==
    ASSUME WholeInv, PortInv', Later, DialService, NEW w \in Ways
    PROVE  Flows(w)' /\ (Orderly(w)' => Order(w)')
<1>1. open \in [Ends -> BOOLEAN] /\ ~dialed /\ dialed'
      /\ open' = [open EXCEPT ![<<4, "L">>] = TRUE, ![Service] = TRUE]
      /\ UNCHANGED <<inbox, hs, copy, held, sent, got>>
  BY Types DEF WholeInv, DialService, Dialing, copies, users
<1>2. ASSUME NEW e \in Ends, Shut(e)' PROVE Shut(e)
  <2>1. e[1] = 4 => e = Service \/ e = <<4, "L">>
    BY DEF Ends, Service
  <2>2. e[1] = 4 => open'[e]
    BY <1>1, <2>1
  <2>3. e[1] # 4 => open'[e] = open[e]
    <3>1. e[1] # 4 => e # <<4, "L">> /\ e # Service
      BY DEF Service
    <3> QED  BY <1>1, <3>1
  <2> QED  BY <1>2, <2>2, <2>3 DEF Shut
<1> QED  BY <1>1, <1>2, Rests

------------------------------------------------------------------------------
(* The handshake's items go before the data, and past the copies that have not *)
(* begun.                                                                      *)

LEMMA ToWriteNext ==
    ASSUME PortInv', NEW n \in {"listen", "share"}
    PROVE  ToWrite(n)' \in 0..2 /\ ToRead(n)' \in 0..2
<1>1. hs'[n] \in 0..5
  BY TypesNext
<1>2. CASE hs'[n] = 0  BY <1>2 DEF ToWrite, ToRead
<1>3. CASE hs'[n] = 1  BY <1>3 DEF ToWrite, ToRead
<1>4. CASE hs'[n] = 2  BY <1>4 DEF ToWrite, ToRead
<1>5. CASE hs'[n] = 3  BY <1>5 DEF ToWrite, ToRead
<1>6. CASE hs'[n] = 4  BY <1>6 DEF ToWrite, ToRead
<1>7. CASE hs'[n] = 5  BY <1>7 DEF ToWrite, ToRead
<1>8. \A i \in 0..5 : i = 0 \/ i = 1 \/ i = 2 \/ i = 3 \/ i = 4 \/ i = 5
  OBVIOUS
<1> QED  BY <1>1, <1>2, <1>3, <1>4, <1>5, <1>6, <1>7, <1>8

LEMMA OneLess ==
    \A i, j \in 0..2 : i = j + 1 => i >= 1 /\ j = i - 1 /\ j \in 0..i /\ i # 0
OBVIOUS

\* A side writes a challenge or its proof.
Sends(n, x) ==
    \/ Room(TunnelEnd(n)) /\ Put(TunnelEnd(n), x)
    \/ WriteIntoVoid(TunnelEnd(n))

LEMMA Greets ==
    ASSUME WholeInv, PortInv', Later, NEW v \in Ways, Exchanging(Writer(v)), Advance(Writer(v)),
           ToldToWrite(Writer(v)), NEW x, Sends(Writer(v), x), Fits(x, 1 - ToWrite(Writer(v))),
           dialed' = dialed, UNCHANGED copies, UNCHANGED users, NEW w \in Ways
    PROVE  Flows(w)' /\ (Orderly(w)' => Order(w)')
<1> DEFINE n == Writer(v)
           d == TunnelEnd(n)
           e == Inlet(v, 2)
<1>1. /\ PortInv /\ Begun /\ Flows(w) /\ Weaker(w)
      /\ \A u \in Ways : Flows(u) /\ (Orderly(u) => Order(u))
  BY WeakerStep DEF WholeInv
<1>2. /\ n \in {"listen", "share"} /\ d = Inlet(Back(v), 3) /\ Other(d) = e
      /\ d \in Ends /\ e \in Ends /\ d # e /\ Other(e) = d /\ Back(v) \in Ways
      /\ w # v => w = Back(v)
  <2>1. n \in {"listen", "share"} /\ d = Inlet(Back(v), 3) /\ Other(d) = e
    BY Sides
  <2>2. d \in Ends
    BY <2>1, TunnelEnds
  <2>3. e \in Ends /\ d # e /\ Other(e) = d
    BY <2>1, <2>2, OtherEnd, OtherOther
  <2>4. (w # v => w = Back(v)) /\ Back(v) \in Ways
    BY DEF Ways, Back
  <2> QED  BY <2>1, <2>2, <2>3, <2>4
<1>3. /\ ToWrite(n) = ToWrite(n)' + 1 /\ ToRead(n)' = ToRead(n)
      /\ \A m \in {"listen", "share"} \ {n} : ToWrite(m)' = ToWrite(m) /\ ToRead(m)' = ToRead(m)
  BY <1>1, <1>2, Progress
<1>4. ToWrite(n) \in 0..2 /\ ToRead(n) \in 0..2
  BY <1>1, <1>2, LeftToDo
<1>5. open' = open /\ copy' = copy /\ held' = held /\ sent' = sent /\ got' = got
  BY DEF Advance, copies, users
<1>6. /\ Writer(w) \in {"listen", "share"} /\ Reader(w) \in {"listen", "share"}
      /\ w # v => Writer(w) # n
  BY Sides DEF Ways, Writer, Reader, Back
<1>7. /\ \A k \in 1..4 : ~(w = v /\ k = 2) => Due(w, k)' = Due(w, k)
      /\ \A k \in 1..3 : Debt(w, k)' = Debt(w, k)
  BY <1>3, <1>6 DEF Due, Debt
<1>8. w = v => Due(w, 2) = ToWrite(n) /\ Due(w, 2)' = ToWrite(n)'
  BY DEF Due
<1>9. \A k \in 1..3 : SpliceRests(w, k)
  BY <1>5, <1>7 DEF SpliceRests
<1>10. \A k \in 1..4 : Inlet(w, k) \in Ends /\ (Inlet(w, k) = e => w = v /\ k = 2)
  <2>1. 2 \in 1..4
    OBVIOUS
  <2> QED  BY <2>1, Inlets
<1>11. ~Spliced(Hand(v, 1))
  <2>1. Spliced(Hand(v, 1)) => hs[n] = 5
    BY <1>1, SplicedIsDone DEF Established
  <2>2. hs[n] \in 1..4
    BY DEF Exchanging
  <2> QED  BY <2>1, <2>2
<1>12. CASE Room(d) /\ Put(d, x)
  <2>1. inbox' = [inbox EXCEPT ![e] = Append(@, x)]
    BY <1>2, <1>12 DEF Put
  <2>2. \A k \in 1..4 : ~(w = v /\ k = 2) => WireRests(w, k)
    BY <1>1, <1>7, <1>10, <2>1, Types DEF WireRests
  <2>3. ASSUME w = v PROVE Flows(w)'
    <3>1. PICK into \in [1..4 -> Int], out \in [1..4 -> Int] : Flow(w, into, out)
      BY <1>1 DEF Flows
    <3>2. into[2] = 0 /\ 2 \in 1..4
      BY <1>11, <2>3, <3>1 DEF Flow
    <3>3. Wire(w, 2, into[2], out[2]) /\ into[2] \in Int /\ out[2] \in Int
      BY <3>1, <3>2 DEF Flow
    <3>4. inbox'[Inlet(w, 2)] = Append(inbox[Inlet(w, 2)], x)
      BY <1>1, <1>2, <2>1, <2>3, Types
    <3>5. Due(w, 2) >= 1 /\ Due(w, 2)' = Due(w, 2) - 1
      <4>1. ToWrite(n)' \in 0..2
        BY <1>2, ToWriteNext
      <4>2. ToWrite(n) >= 1 /\ ToWrite(n)' = ToWrite(n) - 1
        BY <1>3, <1>4, <4>1, OneLess
      <4> QED  BY <1>8, <2>3, <4>2
    <3>6. Wire(w, 2, into[2], out[2])'
      <4>1. Whole(w, 2)
        BY <1>2, <1>12, <2>3 DEF Whole, Room, Shut
      <4>2. Fits(x, 1 - Due(w, 2))
        BY <1>8, <2>3
      <4> QED  BY <1>1, <3>2, <3>3, <3>4, <3>5, <4>1, <4>2, WireGreet
    <3>7. MovesOn(w, into, out, into, out)
      <4>1. \A k \in 1..4 : Wire(w, k, into[k], out[k])' \/ WireRests(w, k)
        BY <2>2, <3>6
      <4>2. /\ into[1] = sent'[Source(w)] /\ out[4] = Len(got'[Sink(w)])
            /\ Numbered(got'[Sink(w)], 0)
        BY <1>5, <3>1 DEF Flow
      <4> QED  BY <1>9, <4>1, <4>2 DEF MovesOn
    <3> QED  BY <1>1, <3>1, <3>7, FlowMoves
  <2>4. ASSUME w # v PROVE Flows(w)'
    <3>1. Kept(w)
      BY <1>5, <1>9, <2>2, <2>4 DEF Kept
    <3> QED  BY <1>1, <3>1, KeptFlows
  <2>5. ASSUME Orderly(w)' PROVE Order(w)'
    <3>1. Order(w)
      BY <1>1, <2>5 DEF Weaker
    <3>2. \A f : Shut(f)' <=> Shut(f)
      BY <1>5 DEF Shut
    <3>3. ASSUME NEW k \in 1..3, copy[Hand(w, k)] = "over"
          PROVE  inbox'[Inlet(w, k)] = <<>> /\ held'[Hand(w, k)] = <<>>
      <4>1. inbox[Inlet(w, k)] = <<>> /\ held[Hand(w, k)] = <<>>
        BY <3>1, <3>3 DEF Order
      <4>2. w # v
        BY <1>1, <1>11, <3>1, <3>3, OverChain
      <4>3. k \in 1..4
        OBVIOUS
      <4>4. inbox'[Inlet(w, k)] = inbox[Inlet(w, k)]
        BY <2>2, <4>2, <4>3 DEF WireRests
      <4> QED  BY <1>5, <4>1, <4>4
    <3> QED  BY <1>5, <3>1, <3>2, <3>3, OrderKept
  <2> QED  BY <2>3, <2>4, <2>5
<1>13. CASE WriteIntoVoid(d)
  <2>1. /\ open[d] /\ ~open[e]
        /\ inbox' = inbox \/ inbox' = [inbox EXCEPT ![d] = <<>>]
    BY <1>2, <1>13 DEF WriteIntoVoid
  <2>2. Shut(e) /\ Shut(e)'
    BY <1>1, <1>2, <2>1, Gone DEF Later
  <2>3. ToWrite(n)' \in 0..2
    BY <1>2, ToWriteNext
  <2>4. ToWrite(n)' \in 0..ToWrite(n) /\ ToWrite(n) # 0
    BY <1>3, <1>4, <2>3, OneLess
  <2>5. ~Orderly(w)'
    <3>1. ~Orderly(v) /\ ~Orderly(Back(v))
      BY <1>1, <1>2, <2>2, <2>4, VoidGreeting
    <3> QED  BY <1>1, <1>2, <3>1 DEF Weaker
  <2>6. ASSUME NEW k \in 1..4 PROVE WireRests(w, k) \/ WireBreaks(w, k)
    <3>1. Due(w, k) \in Nat
      BY <1>1, WireParts
    <3>2. CASE Inlet(w, k) = e
      <4>1. w = v /\ k = 2
        BY <1>10, <3>2
      <4>2. inbox'[Inlet(w, k)] = inbox[Inlet(w, k)]
        BY <1>1, <1>2, <2>1, <3>2, Types
      <4>3. Due(w, k)' \in 0..Due(w, k)
        BY <1>8, <2>4, <4>1
      <4> QED  BY <2>2, <2>5, <3>2, <4>2, <4>3 DEF WireBreaks, Whole
    <3>3. CASE Inlet(w, k) = d
      <4>1. ~(w = v /\ k = 2)
        BY <1>2, <3>3
      <4>2. Due(w, k)' = Due(w, k)
        BY <1>7, <4>1
      <4>3. inbox'[Inlet(w, k)] = inbox[Inlet(w, k)] \/ inbox'[Inlet(w, k)] = <<>>
        BY <1>1, <1>2, <2>1, <3>3, Types
      <4>4. Due(w, k)' \in 0..Due(w, k)
        BY <3>1, <4>2
      <4>5. ~Whole(w, k)'
        BY <1>2, <2>2, <3>3 DEF Whole
      <4> QED  BY <2>5, <4>3, <4>4, <4>5 DEF WireBreaks
    <3>4. CASE Inlet(w, k) # e /\ Inlet(w, k) # d
      <4>1. ~(w = v /\ k = 2)
        BY <3>4
      <4>2. inbox'[Inlet(w, k)] = inbox[Inlet(w, k)]
        BY <1>1, <1>10, <2>1, <3>4, Types
      <4> QED  BY <1>7, <4>1, <4>2 DEF WireRests
    <3> QED  BY <3>2, <3>3, <3>4
  <2>7. Kept(w)
    BY <1>5, <1>9, <2>6 DEF Kept
  <2> QED  BY <1>1, <2>5, <2>7, KeptFlows
<1> QED  BY <1>12, <1>13 DEF Sends

\* A side reads what it waits for: the copy that will read there has not begun.
LEMMA Heeds ==
    ASSUME WholeInv, PortInv', Later, NEW v \in Ways, Exchanging(Reader(v)), Advance(Reader(v)),
           ~ToldToWrite(Reader(v)), inbox[Inlet(v, 3)] # <<>>, Take(Inlet(v, 3)),
           dialed' = dialed, UNCHANGED copies, UNCHANGED users, NEW w \in Ways
    PROVE  Flows(w)' /\ (Orderly(w)' => Order(w)')
<1> DEFINE n == Reader(v)
           e == Inlet(v, 3)
<1>1. PortInv /\ Begun /\ Flows(w) /\ Weaker(w) /\ (Orderly(w) => Order(w))
  BY WeakerStep DEF WholeInv
<1>2. n \in {"listen", "share"} /\ e \in Ends /\ 3 \in 1..4
  <2>1. 3 \in 1..4
    OBVIOUS
  <2> QED  BY <2>1, Sides, Inlets
<1>3. /\ ToRead(n) = ToRead(n)' + 1 /\ ToWrite(n)' = ToWrite(n)
      /\ \A m \in {"listen", "share"} \ {n} : ToWrite(m)' = ToWrite(m) /\ ToRead(m)' = ToRead(m)
  BY <1>1, <1>2, Progress
<1>4. ToRead(n)' \in 0..2
  BY <1>2, ToWriteNext
<1>5. /\ open' = open /\ copy' = copy /\ held' = held /\ sent' = sent /\ got' = got
      /\ inbox' = [inbox EXCEPT ![e] = Tail(@)]
  BY DEF Advance, copies, users, Take
<1>6. /\ Writer(w) \in {"listen", "share"} /\ Reader(w) \in {"listen", "share"}
      /\ w # v => Reader(w) # n
  BY Sides DEF Ways, Writer, Reader, Back
<1>7. /\ \A k \in 1..4 : Due(w, k)' = Due(w, k)
      /\ \A k \in 1..3 : ~(w = v /\ k = 3) => Debt(w, k)' = Debt(w, k)
  BY <1>3, <1>6 DEF Due, Debt
<1>8. \A k \in 1..4 : Inlet(w, k) \in Ends /\ (Inlet(w, k) = e => w = v /\ k = 3)
  BY <1>2, Inlets
<1>9. /\ \A k \in 1..4 : ~(w = v /\ k = 3) => WireRests(w, k)
      /\ \A k \in 1..3 : ~(w = v /\ k = 3) => SpliceRests(w, k)
  BY <1>1, <1>5, <1>7, <1>8, Types DEF WireRests, SpliceRests
<1>10. ASSUME Orderly(w)' PROVE Order(w)'
  <2>1. Order(w)
    BY <1>1, <1>10 DEF Weaker
  <2>2. \A f : Shut(f)' <=> Shut(f)
    BY <1>5 DEF Shut
  <2>3. ASSUME NEW k \in 1..3, copy[Hand(w, k)] = "over"
        PROVE  inbox'[Inlet(w, k)] = <<>> /\ held'[Hand(w, k)] = <<>>
    <3>1. inbox[Inlet(w, k)] = <<>> /\ held[Hand(w, k)] = <<>> /\ k \in 1..4
      BY <2>1, <2>3 DEF Order
    <3>2. ~(w = v /\ k = 3)
      BY <3>1
    <3> QED  BY <1>5, <1>9, <3>1, <3>2 DEF WireRests
  <2> QED  BY <1>5, <2>1, <2>2, <2>3, OrderKept
<1>11. CASE w # v
  <2>1. Kept(w)
    BY <1>5, <1>9, <1>11 DEF Kept
  <2> QED  BY <1>1, <1>10, <2>1, KeptFlows
<1>12. CASE w = v
  <2>1. PICK into \in [1..4 -> Int], out \in [1..4 -> Int] : Flow(w, into, out)
    BY <1>1 DEF Flows
  <2> DEFINE out2 == [out EXCEPT ![3] = @ + 1]
  <2>2. /\ out2 \in [1..4 -> Int] /\ out2[3] = out[3] + 1
        /\ \A k \in 1..4 : k # 3 => out2[k] = out[k]
    BY <2>1
  <2>3. /\ Wire(w, 3, into[3], out[3]) /\ into[3] \in Int /\ out[3] \in Int
        /\ Splice(w, 3, out[3], into[3 + 1]) /\ into[3 + 1] \in Int
    BY <2>1 DEF Flow
  <2>4. inbox'[Inlet(w, 3)] = Tail(inbox[Inlet(w, 3)])
    BY <1>1, <1>2, <1>5, <1>12, Types
  <2>5. Wire(w, 3, into[3], out[3] + 1)'
    BY <1>1, <1>2, <1>7, <1>12, <2>3, <2>4, WireTake
  <2>6. Splice(w, 3, out[3] + 1, into[3 + 1])'
    <3>1. Debt(w, 3) = ToRead(n) /\ Debt(w, 3)' = ToRead(n)'
      BY <1>12 DEF Debt
    <3>2. Debt(w, 3)' \in Nat /\ Debt(w, 3) = Debt(w, 3)' + 1
      <4>1. \A i \in 0..2 : i \in Nat
        OBVIOUS
      <4> QED  BY <1>3, <1>4, <3>1, <4>1
    <3>3. 3 \in 1..3
      OBVIOUS
    <3> QED  BY <1>1, <1>5, <2>3, <3>2, <3>3, SpliceSkip
  <2>7. MovesOn(w, into, out, into, out2)
    <3>1. \A k \in 1..4 :
            \/ Wire(w, k, into[k], out2[k])'
            \/ out2[k] = out[k] /\ WireRests(w, k)
      BY <1>9, <2>2, <2>5
    <3>2. \A k \in 1..3 :
            \/ Splice(w, k, out2[k], into[k + 1])'
            \/ out2[k] = out[k] /\ SpliceRests(w, k)
      BY <1>9, <2>2, <2>6
    <3>3. /\ into[1] = sent'[Source(w)] /\ out2[4] = Len(got'[Sink(w)])
          /\ Numbered(got'[Sink(w)], 0)
      BY <1>5, <2>1, <2>2 DEF Flow
    <3> QED  BY <3>1, <3>2, <3>3 DEF MovesOn
  <2> QED  BY <1>1, <1>10, <2>1, <2>2, <2>7, FlowMoves
<1> QED  BY <1>11, <1>12

\* A step of the handshake is one of those, or a failure.
LEMMA ExchangeKeeps ==
    ASSUME WholeInv, PortInv', Later, NEW n \in {"listen", "share"}, Exchange(n), NEW w \in Ways
    PROVE  Flows(w)' /\ (Orderly(w)' => Order(w)')
<1>1. Exchanging(n) /\ dialed' = dialed /\ UNCHANGED copies /\ UNCHANGED users
  BY DEF Exchange, copies, users
<1>2. CASE FailTunnel(n)
  BY <1>1, <1>2, FailedKeeps
<1>3. ASSUME NEW x, ToldToWrite(n), WriteStep(n, x), Fits(x, 1 - ToWrite(n))
      PROVE  Flows(w)' /\ (Orderly(w)' => Order(w)')
  <2>1. PICK v \in Ways : n = Writer(v)
    <3>1. PICK u \in Ways : n = Writer(Back(u))
      BY EverySide
    <3>2. Back(u) \in Ways
      BY DEF Ways, Back
    <3> QED  BY <3>1, <3>2
  <2>2. FailTunnel(n) \/ (Sends(n, x) /\ Advance(n))
    BY <1>3 DEF WriteStep, Sends
  <2>3. Sends(Writer(v), x) /\ Advance(Writer(v)) => Flows(w)' /\ (Orderly(w)' => Order(w)')
    BY <1>1, <1>3, <2>1, Greets
  <2> QED  BY <1>2, <2>1, <2>2, <2>3
<1>4. ASSUME ~ToldToWrite(n), ReadStep(n) PROVE Flows(w)' /\ (Orderly(w)' => Order(w)')
  <2>1. PICK v \in Ways : n = Reader(v)
    BY EverySide
  <2>2. TunnelEnd(n) = Inlet(v, 3)
    BY <2>1, Sides
  <2>3. FailTunnel(n) \/ (inbox[Inlet(v, 3)] # <<>> /\ Take(Inlet(v, 3)) /\ Advance(n))
    BY <1>4, <2>2 DEF ReadStep
  <2>4. inbox[Inlet(v, 3)] # <<>> /\ Take(Inlet(v, 3)) /\ Advance(n)
            => Flows(w)' /\ (Orderly(w)' => Order(w)')
    BY <1>1, <1>4, <2>1, Heeds
  <2> QED  BY <1>2, <2>3, <2>4
<1>5. \/ /\ ToldToWrite(n)
         /\ \E x : WriteStep(n, x) /\ Fits(x, 1 - ToWrite(n))
      \/ ~ToldToWrite(n) /\ ReadStep(n)
  <2>1. PortInv
    BY DEF WholeInv
  <2> QED  BY <1>1, <2>1, Scripted DEF Exchange, ToldToWrite
<1> QED  BY <1>3, <1>4, <1>5

------------------------------------------------------------------------------
LEMMA WholeStep == WholeInv /\ [TunnelNext]_tunnelVars => WholeInv'
<1> SUFFICES ASSUME WholeInv, [TunnelNext]_tunnelVars PROVE WholeInv'
  OBVIOUS
<1>1. PortInv /\ Begun /\ PortInv' /\ Later /\ Begun'
  <2>1. PortInv /\ Begun
    BY DEF WholeInv
  <2>2. PortInv'
    BY <2>1, TunnelStep
  <2> QED  BY <2>1, <2>2, LaterStep
<1>2. ASSUME NEW w \in Ways PROVE Flows(w)' /\ (Orderly(w)' => Order(w)')
  <2>1. ASSUME NEW n \in {"listen", "share"}, Exchange(n)
        PROVE  Flows(w)' /\ (Orderly(w)' => Order(w)')
    BY <1>1, <2>1, ExchangeKeeps
  <2>2. ASSUME NEW n \in {"listen", "share"}, Expire(n)
        PROVE  Flows(w)' /\ (Orderly(w)' => Order(w)')
    <3>1. FailTunnel(n) /\ dialed' = dialed /\ UNCHANGED copies /\ UNCHANGED users
      BY <2>2 DEF Expire, copies, users
    <3> QED  BY <1>1, <3>1, FailedKeeps
  <2>3. ASSUME NEW c \in Copies, CopyStep(c)
        PROVE  Flows(w)' /\ (Orderly(w)' => Order(w)')
    <3>1. PICK v \in Ways, j \in 1..3 : c = Hand(v, j)
      BY EveryCopy
    <3>2. CopyRead(Hand(v, j)) \/ CopyWrite(Hand(v, j)) \/ CopyEnds(Hand(v, j))
      BY <2>3, <3>1 DEF CopyStep
    <3> QED  BY <1>1, <3>2, CopyReads, CopyWrites, CopyStops
  <2>4. ASSUME NEW e \in {Client, Service}, UserWrites(e) \/ UserReads(e) \/ UserCloses(e)
        PROVE  Flows(w)' /\ (Orderly(w)' => Order(w)')
    <3>1. PICK v \in Ways : e = Sink(v) /\ e = Source(Back(v)) /\ Back(v) \in Ways
      BY EveryUser DEF Ways, Back
    <3>2. UserWrites(Source(Back(v))) \/ UserReads(Sink(v)) \/ UserCloses(Source(Back(v)))
      BY <2>4, <3>1
    <3> QED  BY <1>1, <3>1, <3>2, SourceWrites, SinkReads, UserHangsUp
  <2>5. CASE DialService
    BY <1>1, <2>5, DialKeeps
  <2>6. CASE DialFails
    <3>1. /\ FailTunnel("share") /\ dialed' = dialed /\ UNCHANGED copies /\ UNCHANGED users
          /\ "share" \in {"listen", "share"}
      BY <2>6 DEF DialFails, FailTunnel, copies, users
    <3> QED  BY <1>1, <3>1, FailedKeeps
  <2>7. CASE CutShort
    BY <1>1, <2>7, CutKeeps
  <2>8. CASE UNCHANGED tunnelVars
    <3>1. UNCHANGED <<inbox, hs, copy, held, sent, got>> /\ (\A e \in Ends : Shut(e)' => Shut(e))
      BY <2>8 DEF tunnelVars, wires, copies, users, Shut
    <3> QED  BY <1>1, <3>1, Rests
  <2> QED  BY <2>1, <2>2, <2>3, <2>4, <2>5, <2>6, <2>7, <2>8 DEF TunnelNext, Dial
<1> QED  BY <1>1, <1>2 DEF WholeInv

\* Before anything is written: the two items each side has yet to write and to
\* read come before the first of the data.
LEMMA WholeStart == TunnelInit => WholeInv
<1> SUFFICES ASSUME TunnelInit PROVE WholeInv
  OBVIOUS
<1>1. PortInv
  BY TunnelStart
<1>2. /\ ~dialed /\ hs.listen = 1 /\ hs.share = 1
      /\ \A e \in Ends : inbox[e] = <<>> /\ (open[e] <=> e[1] # 4)
      /\ \A c \in Copies : copy[c] = "copying" /\ held[c] = <<>>
      /\ \A e \in {Client, Service} : sent[e] = 0 /\ got[e] = <<>>
  BY DEF TunnelInit
<1>3. Len(<<>>) = 0
  OBVIOUS
<1>4. Begun
  <2>1. Service \in Ends /\ <<4, "L">> \in Ends /\ Service[1] = 4
    BY DEF Service, Ends
  <2>2. \A c \in Copies : Len(held[c]) <= 1
    BY <1>2, <1>3
  <2> QED  BY <1>2, <2>1, <2>2 DEF Begun
<1>5. ASSUME NEW w \in Ways PROVE Flows(w)
  <2> DEFINE into == [k \in 1..4 |-> IF k = 3 THEN -2 ELSE 0]
             out == [k \in 1..4 |-> IF k = 2 \/ k = 3 THEN -2 ELSE 0]
  <2>1. into \in [1..4 -> Int] /\ out \in [1..4 -> Int]
    OBVIOUS
  <2>2. /\ \A k \in 1..4 : inbox[Inlet(w, k)] = <<>>
        /\ \A k \in 1..3 : held[Hand(w, k)] = <<>>
        /\ sent[Source(w)] = 0 /\ got[Sink(w)] = <<>>
    BY <1>2, Inlets, Hands3, Users
  <2>3. ToWrite(Writer(w)) = 2 /\ ToRead(Reader(w)) = 2
    <3>1. \A n \in {"listen", "share"} : ToWrite(n) = 2 /\ ToRead(n) = 2
      BY <1>2 DEF ToWrite, ToRead
    <3> QED  BY <3>1, Sides
  <2>4. ASSUME NEW k \in 1..4 PROVE Wire(w, k, into[k], out[k])
    <3>1. into[k] = out[k] + 0 + Due(w, k)
      BY <2>3 DEF Due
    <3> QED  BY <1>3, <2>2, <3>1, <2>1, NumberedNone DEF Wire, Link
  <2>5. ASSUME NEW k \in 1..3 PROVE Splice(w, k, out[k], into[k + 1])
    <3>1. out[k] = into[k + 1] + 0 - Debt(w, k)
      BY <2>3 DEF Debt
    <3>2. out[k] \in Int
      OBVIOUS
    <3> QED  BY <1>3, <2>2, <3>1, <3>2, NumberedNone DEF Splice, Link
  <2>6. into[1] = sent[Source(w)] /\ out[4] = Len(got[Sink(w)]) /\ into[2] = 0 /\ into[4] = 0
    BY <1>3, <2>2
  <2>7. Numbered(got[Sink(w)], 0)
    BY <2>2, NumberedNone
  <2>8. Flow(w, into, out)
    BY <2>1, <2>4, <2>5, <2>6, <2>7 DEF Flow
  <2> QED  BY <2>1, <2>8 DEF Flows
<1>6. ASSUME NEW w \in Ways PROVE Order(w)
  <2>1. \A e \in Ends : ~Shut(e)
    BY <1>2 DEF Shut
  <2>2. \A v \in Ways, k \in 1..3 : ~Shut(Other(Inlet(v, k + 1)))
    <3>1. \A k \in 1..3 : k + 1 \in 1..4
      OBVIOUS
    <3> QED  BY <2>1, <3>1, Inlets, OtherEnd
  <2>3. \A v \in Ways, k \in 1..3 : copy[Hand(v, k)] # "over"
    BY <1>2, Hands3
  <2>4. \A k \in 1..3 : copy[Hand(Back(w), 4 - k)] # "over"
    <3>1. Back(w) \in Ways /\ \A k \in 1..3 : 4 - k \in 1..3
      BY DEF Ways, Back
    <3> QED  BY <2>3, <3>1
  <2> QED  BY <2>2, <2>3, <2>4 DEF Order
<1> QED  BY <1>1, <1>4, <1>5, <1>6 DEF WholeInv

\* When everything on a way is over and its sink has read what there was, the
\* numbers at its two ends are the same.
LEMMA Heard ==
    ASSUME WholeInv, NEW w \in Ways, open[Sink(w)], ReadEnds(Sink(w)), ~cut,
           Len(got[Source(w)]) = sent[Sink(w)]
    PROVE  Len(got[Sink(w)]) = sent[Source(w)]
<1>1. PortInv /\ Begun /\ Flows(w) /\ (Orderly(w) => Order(w))
  BY DEF WholeInv
<1>2. /\ Sink(w) \in Ends /\ Sink(w) = Inlet(w, 4) /\ Sink(w) \in {Client, Service}
      /\ Source(w) \in {Client, Service} /\ Sink(w) # Source(w)
  BY Users, Inlets
<1>3. inbox[Sink(w)] = <<>> /\ ~open[Other(Sink(w))] /\ Shut(Other(Sink(w))) /\ ~Shut(Sink(w))
  BY <1>1, <1>2, Gone DEF ReadEnds, Shut
<1>4. Len(got[Sink(w)]) <= sent[Source(w)] /\ Len(got[Sink(w)]) \in Nat
  BY <1>1, Chain, Lengths
<1>5. CASE ~dialed
  <2>1. Sink(w) # Service
    BY <1>1, <1>5 DEF Begun
  <2>2. sent[Source(w)] = 0
    BY <1>1, <1>2, <1>5, <2>1 DEF Begun
  <2> QED  BY <1>4, <2>2
<1>6. CASE dialed
  <2>1. hs.listen = 5 /\ hs.share = 5
    BY <1>1, <1>6 DEF PortInv, OnlyItsOwnPort, Begun, Established
  <2>2. Order(w)
    BY <1>1, <1>3, <2>1 DEF Orderly
  <2>3. Orderly(w)
    BY <1>3, <2>1 DEF Orderly
  <2>4. copy[Hand(w, 3)] = "over" /\ copy[Hand(w, 2)] = "over" /\ copy[Hand(w, 1)] = "over"
    <3>1. 3 \in 1..3 /\ 3 + 1 = 4
      OBVIOUS
    <3>2. copy[Hand(w, 3)] = "over"
      BY <1>2, <1>3, <2>2, <3>1 DEF Order
    <3> QED  BY <1>1, <2>2, <3>1, <3>2, OverChain
  <2>5. /\ inbox[Inlet(w, 1)] = <<>> /\ inbox[Inlet(w, 2)] = <<>>
        /\ inbox[Inlet(w, 3)] = <<>> /\ inbox[Inlet(w, 4)] = <<>>
        /\ held[Hand(w, 1)] = <<>> /\ held[Hand(w, 2)] = <<>> /\ held[Hand(w, 3)] = <<>>
    BY <1>2, <1>3, <2>2, <2>4 DEF Order
  <2>6. ToWrite(Writer(w)) = 0 /\ ToRead(Reader(w)) = 0
    <3>1. \A n \in {"listen", "share"} : hs[n] = Established
      BY <2>1 DEF Established
    <3> QED  BY <1>1, <3>1, Sides, LeftToDo
  <2>7. PICK into \in [1..4 -> Int], out \in [1..4 -> Int] : Flow(w, into, out)
    BY <1>1 DEF Flows
  <2>8. Len(<<>>) = 0
    OBVIOUS
  <2>9. /\ into[1] = out[1] + 0 /\ into[2] = out[2] + 0 + 0
        /\ into[3] = out[3] + 0 /\ into[4] = out[4] + 0
        /\ out[1] = into[2] + 0 /\ out[2] = into[3] + 0 /\ out[3] = into[4] + 0 - 0
    <3> DEFINE L(k) == Len(inbox[Inlet(w, k)])
               H(k) == Len(held[Hand(w, k)])
               W == ToWrite(Writer(w))
               G == ToRead(Reader(w))
               o == Orderly(w)
    <3>1. /\ Link(o, into[1], out[1] + L(1)) /\ Link(o, into[2], out[2] + L(2) + W)
          /\ Link(o, into[3], out[3] + L(3)) /\ Link(o, into[4], out[4] + L(4))
          /\ Link(o, out[1], into[2] + H(1)) /\ Link(o, out[2], into[3] + H(2))
          /\ Link(o, out[3], into[4] + H(3) - G)
      BY <1>1, <2>7, Counts, ZenonT(30)
    <3>2. /\ o /\ L(1) = 0 /\ L(2) = 0 /\ L(3) = 0 /\ L(4) = 0
          /\ H(1) = 0 /\ H(2) = 0 /\ H(3) = 0 /\ W = 0 /\ G = 0
      BY <2>3, <2>5, <2>6, <2>8
    <3> HIDE DEF L, H, W, G, o
    <3> QED  BY <3>1, <3>2 DEF Link
  <2>10. /\ into[2] \in Int /\ into[3] \in Int /\ into[4] \in Int
         /\ out[1] \in Int /\ out[2] \in Int /\ out[3] \in Int /\ out[4] \in Int
    BY <2>7
  <2>11. into[1] = sent[Source(w)] /\ out[4] = Len(got[Sink(w)])
    BY <2>7 DEF Flow
  <2> QED  BY <2>9, <2>10, <2>11
<1> QED  BY <1>5, <1>6

\* What a user has read is the beginning of what the other wrote; and when the
\* stream ends of itself, in a conversation whose other half was read to its end,
\* it is all of it: no splice loses the tail (streamio/splice.go:35-38), and the
\* unbuffered writes leave nothing to flush (proto/frame_conn.go:279-280).  For
\* any amount of data and buffering, in every interleaving.
THEOREM HeardIsWhole == TunnelSpec => []WholeWhenHeard
<1>1. WholeInv => WholeWhenHeard
  <2> SUFFICES ASSUME WholeInv, NEW e \in {Client, Service}
               PROVE  LET other == IF e = Client THEN Service ELSE Client IN
                      /\ \A i \in DOMAIN got[e] : got[e][i] = Datum(i)
                      /\ Len(got[e]) <= sent[other]
                      /\ (open[e] /\ ReadEnds(e) /\ ~cut /\ Len(got[other]) = sent[e])
                          => Len(got[e]) = sent[other]
    BY DEF WholeWhenHeard
  <2> DEFINE other == IF e = Client THEN Service ELSE Client
  <2>1. PICK w \in Ways : e = Sink(w)
    BY EveryUser
  <2>2. other = Source(w)
    BY <2>1, Users DEF Client, Service
  <2>3. PortInv /\ Begun /\ Flows(w)
    BY DEF WholeInv
  <2>4. Len(got[e]) <= sent[other]
    BY <2>1, <2>2, <2>3, Chain
  <2>5. ASSUME NEW i \in DOMAIN got[e] PROVE got[e][i] = Datum(i)
    <3>1. got[e] \in Seq(Items)
      BY <2>1, <2>3, Lengths
    <3>2. i \in 1..Len(got[e]) /\ 0 + i >= 1 /\ 0 + i = i
      BY <3>1
    <3>3. Numbered(got[e], 0)
      BY <2>1, <2>3 DEF Flows, Flow
    <3> QED  BY <3>2, <3>3 DEF Numbered, Fits
  <2>6. open[e] /\ ReadEnds(e) /\ ~cut /\ Len(got[other]) = sent[e]
            => Len(got[e]) = sent[other]
    BY <2>1, <2>2, Heard
  <2> QED  BY <2>4, <2>5, <2>6
<1> QED  BY <1>1, WholeStart, WholeStep, PTL DEF TunnelSpec

------------------------------------------------------------------------------
(* Why nothing ends early.                                                     *)

\* What is told to write has something to write, and what is told to read a
\* proof has only that to read.
LEMMA Told ==
    ASSUME PortInv, NEW n \in {"listen", "share"}, Exchanging(n)
    PROVE  /\ ToldToWrite(n) => ToWrite(n) >= 1
           /\ Move(n) = "read proof" => ToRead(n) = 1
           /\ n = "share" => ToRead(n) >= 1
<1>1. hs[n] = 1 \/ hs[n] = 2 \/ hs[n] = 3 \/ hs[n] = 4
  BY DEF Exchanging
<1>2. CASE hs[n] = 1
  BY <1>2 DEF ToldToWrite, Move, Script, ToWrite, ToRead
<1>3. CASE hs[n] = 2
  BY <1>3 DEF ToldToWrite, Move, Script, ToWrite, ToRead
<1>4. CASE hs[n] = 3
  BY <1>4 DEF ToldToWrite, Move, Script, ToWrite, ToRead
<1>5. CASE hs[n] = 4
  BY <1>5 DEF ToldToWrite, Move, Script, ToWrite, ToRead
<1> QED  BY <1>1, <1>2, <1>3, <1>4, <1>5

\* While a handshake goes on its copy has not started, so what is read next is
\* counted: the proof comes after the challenge.
LEMMA NextInLine ==
    ASSUME WholeInv, NEW v \in Ways, Exchanging(Reader(v)), open[Inlet(v, 3)],
           inbox[Inlet(v, 3)] # <<>>
    PROVE  Fits(Head(inbox[Inlet(v, 3)]), 1 - ToRead(Reader(v)))
<1> DEFINE e == Inlet(v, 3)
           c == Hand(v, 3)
           G == ToRead(Reader(v))
<1>1. PortInv /\ Begun /\ Flows(v)
  BY DEF WholeInv
<1>2. 3 \in 1..4 /\ 3 \in 1..3 /\ 3 + 1 = 4 /\ Len(<<>>) = 0
  OBVIOUS
<1>3. ~Spliced(c)
  BY <1>1, SplicedIsDone DEF Exchanging, Established
<1>4. copy[c] = "copying" /\ held[c] = <<>>
  BY <1>1, <1>2, <1>3, Hands3 DEF Begun
<1>5. Drains(v, 3) /\ Debt(v, 3) = G
  BY <1>4 DEF Drains, Shut, Debt
<1>6. PICK into \in [1..4 -> Int], out \in [1..4 -> Int] : Flow(v, into, out)
  BY <1>1 DEF Flows
<1>7. into[4] = 0 /\ Wire(v, 3, into[3], out[3]) /\ Splice(v, 3, out[3], into[3 + 1])
  BY <1>2, <1>3, <1>6 DEF Flow
<1>8. out[3] = 0 + 0 - G
  BY <1>2, <1>4, <1>5, <1>7 DEF Splice, Link
<1>9. Fits(Head(inbox[e]), out[3] + 1)
  <2>1. Numbered(inbox[e], out[3]) /\ out[3] \in Int
    BY <1>6, <1>7 DEF Wire
  <2>2. inbox[e] \in Seq(Items)
    BY <1>1, <1>2, Lengths
  <2> QED  BY <2>1, <2>2, NumberedTail
<1>10. out[3] + 1 = 1 - G
  <2>1. G \in Int
    BY <1>1, Lengths
  <2> HIDE DEF G
  <2> QED  BY <1>8, <2>1
<1> QED  BY <1>9, <1>10

\* A proof that is read where the ports agree is the one expected.
LEMMA ProofIsRight ==
    ASSUME WholeInv, agree, NEW v \in Ways, Exchanging(Reader(v)), open[Inlet(v, 3)],
           inbox[Inlet(v, 3)] # <<>>
    PROVE  Accepts(Reader(v), Head(inbox[Inlet(v, 3)]))
<1> DEFINE n == Reader(v)
           e == Inlet(v, 3)
           x == Head(inbox[e])
<1>1. PortInv
  BY DEF WholeInv
<1>2. n \in {"listen", "share"} /\ e \in Ends
  BY <1>1, Sides, Inlets
<1>3. x \in Carried(e)
  <2>1. inbox[e] \in Seq(Carried(e))
    BY <1>1, <1>2 DEF PortInv
  <2> DEFINE S == Carried(e)
             q == inbox[e]
  <2>2. q \in Seq(S) /\ q # <<>>
    BY <2>1
  <2> HIDE DEF S, q
  <2>3. Head(q) \in S
    BY <2>2
  <2> QED  BY <2>3 DEF S, q
<1>4. Proof("listen") = Proof(n) /\ Proof("share") = Proof(n)
  BY DEF Proof
<1>5. x[1] = "proof" => x = Proof(n)
  BY <1>3, <1>4 DEF Carried, Inlet, Ways
<1>6. Fits(x, 1 - ToRead(n))
  BY NextInLine
<1>7. ToRead(n) = 1 => x = Proof(n)
  <2>1. 1 - 1 = 0
    OBVIOUS
  <2> HIDE DEF x, n
  <2> QED  BY <1>5, <1>6, <2>1 DEF Fits
<1>8. Move(n) = "read proof" => ToRead(n) = 1
  BY <1>1, <1>2, Told
<1> QED  BY <1>7, <1>8 DEF Accepts

\* Who waits for the other's proof has written its own: nobody reads more than
\* was written, and no data go ahead of a handshake.
LEMMA OwesNoMore ==
    ASSUME PortInv, NEW w \in Ways, Flows(w), ~Spliced(Hand(w, 1))
    PROVE  ToWrite(Writer(w)) <= ToRead(Reader(w))
<1>1. PICK into \in [1..4 -> Int], out \in [1..4 -> Int] : Flow(w, into, out)
  BY DEF Flows
<1> DEFINE L(k) == Len(inbox[Inlet(w, k)])
           H(k) == Len(held[Hand(w, k)])
           N == Len(got[Sink(w)])
           W == ToWrite(Writer(w))
           G == ToRead(Reader(w))
<1>2. into[2] = 0 /\ out[4] = N /\ N \in Nat
  BY <1>1, Lengths DEF Flow
<1>3. /\ into[3] \in Int /\ into[4] \in Int /\ out[2] \in Int /\ out[3] \in Int
  BY <1>1
<1>4. /\ into[2] >= out[2] + L(2) + W /\ into[3] >= out[3] + L(3) /\ into[4] >= out[4] + L(4)
      /\ out[2] >= into[3] + H(2) /\ out[3] >= into[4] + H(3) - G
      /\ L(2) \in Nat /\ L(3) \in Nat /\ L(4) \in Nat
      /\ H(2) \in Nat /\ H(3) \in Nat /\ W \in Nat /\ G \in Nat
  BY <1>1, Counts DEF Link
<1> HIDE DEF L, H, N, W, G
<1>5. W <= G
  BY <1>2, <1>3, <1>4
<1> QED  BY <1>5 DEF W, G

\* Where a close has gone through, everything before it has: a side that still
\* has something to read is not cut off from it.
LEMMA AllRead ==
    ASSUME PortInv, NEW w \in Ways, Flows(w), Orderly(w),
           inbox[Inlet(w, 1)] = <<>>, held[Hand(w, 1)] = <<>>,
           inbox[Inlet(w, 2)] = <<>>, held[Hand(w, 2)] = <<>>,
           inbox[Inlet(w, 3)] = <<>>, held[Hand(w, 3)] = <<>>,
           ToWrite(Writer(w)) = 0, ~Spliced(Hand(w, 3))
    PROVE  ToRead(Reader(w)) = 0
<1>1. PICK into \in [1..4 -> Int], out \in [1..4 -> Int] : Flow(w, into, out)
  BY DEF Flows
<1> DEFINE L(k) == Len(inbox[Inlet(w, k)])
           H(k) == Len(held[Hand(w, k)])
           W == ToWrite(Writer(w))
           G == ToRead(Reader(w))
<1>2. into[1] = sent[Source(w)] /\ sent[Source(w)] \in Nat /\ into[4] = 0
  BY <1>1, Lengths DEF Flow
<1>3. /\ into[2] \in Int /\ into[3] \in Int
      /\ out[1] \in Int /\ out[2] \in Int /\ out[3] \in Int
  BY <1>1
<1>4. L(1) = 0 /\ L(2) = 0 /\ L(3) = 0 /\ H(1) = 0 /\ H(2) = 0 /\ H(3) = 0 /\ W = 0
  OBVIOUS
<1>5. /\ into[1] = out[1] + L(1) /\ into[2] = out[2] + L(2) + W /\ into[3] = out[3] + L(3)
      /\ out[1] = into[2] + H(1) /\ out[2] = into[3] + H(2) /\ out[3] = into[4] + H(3) - G
      /\ G \in Nat
  <2> DEFINE o == Orderly(w)
  <2>1. /\ Link(o, into[1], out[1] + L(1)) /\ Link(o, into[2], out[2] + L(2) + W)
        /\ Link(o, into[3], out[3] + L(3)) /\ Link(o, out[1], into[2] + H(1))
        /\ Link(o, out[2], into[3] + H(2)) /\ Link(o, out[3], into[4] + H(3) - G)
        /\ G \in Nat
    BY <1>1, Counts, ZenonT(30)
  <2>2. o
    OBVIOUS
  <2> HIDE DEF L, H, W, G, o
  <2> QED  BY <2>1, <2>2 DEF Link
<1> HIDE DEF L, H, W, G
<1>6. G = 0
  BY <1>2, <1>3, <1>4, <1>5
<1> QED  BY <1>6 DEF G

\* While a side is in its handshake and nobody has cut the tunnel, the way down
\* is orderly: the service is not there yet, so the client has heard it out.
LEMMA Undisturbed ==
    ASSUME WholeInv, ~cut, hs.listen # 0, hs.share # 0,
           NEW n \in {"listen", "share"}, Exchanging(n)
    PROVE  /\ ~dialed /\ Orderly("down") /\ Order("down")
           /\ ~Spliced(Hand("down", 3)) /\ ~Spliced(Hand("up", 1))
           /\ n = "listen" => ~Spliced(Hand("down", 1))
<1>1. PortInv /\ Begun
  BY DEF WholeInv
<1>2. ~dialed
  <2>1. dialed => hs.share = Established /\ hs.listen = Established
    BY <1>1 DEF PortInv, OnlyItsOwnPort, Begun
  <2> QED  BY <2>1 DEF Exchanging, Established
<1>3. hs.listen # 0 /\ hs.share # 0
  OBVIOUS
<1>4. "down" \in Ways /\ "up" \in Ways /\ Back("down") = "up"
  BY DEF Ways, Back
<1>5. /\ Sink("down") = Service /\ Source("down") = Client
      /\ Sink("up") = Client /\ Source("up") = Service
  BY DEF Sink, Source, Inlet, Back, Client, Service
<1>6. ~Shut(Service)
  BY <1>2 DEF Shut, Service
<1>7. Len(got[Client]) = sent[Service]
  <2>1. Flows("up")
    BY <1>4 DEF WholeInv
  <2>2. Len(got[Client]) <= sent[Service] /\ Len(got[Client]) \in Nat
    BY <1>1, <1>4, <1>5, <2>1, Chain, Lengths
  <2>3. sent[Service] = 0
    BY <1>1, <1>2 DEF Begun
  <2> QED  BY <2>2, <2>3
<1>8. Orderly("down")
  BY <1>3, <1>5, <1>6, <1>7 DEF Orderly
<1>9. Order("down")
  BY <1>4, <1>8 DEF WholeInv
<1>10. ~Spliced(Hand("down", 3)) /\ ~Spliced(Hand("up", 1))
  BY <1>2 DEF Spliced, Hand
<1>11. n = "listen" => ~Spliced(Hand("down", 1))
  BY DEF Exchanging, Established, Spliced, Hand
<1> QED  BY <1>2, <1>8, <1>9, <1>10, <1>11

\* Nothing reaches an exchanging side that would end it.
LEMMA Unhindered ==
    ASSUME WholeInv, ~cut, hs.listen # 0, hs.share # 0,
           NEW n \in {"listen", "share"}, Exchanging(n)
    PROVE  /\ ~ReadEnds(TunnelEnd(n))
           /\ ToldToWrite(n) => ~WriteFails(TunnelEnd(n))
<1>1. PortInv /\ Begun /\ \A w \in Ways : Flows(w)
  BY DEF WholeInv
<1>2. /\ ~dialed /\ Orderly("down") /\ Order("down")
      /\ ~Spliced(Hand("down", 3)) /\ ~Spliced(Hand("up", 1))
      /\ n = "listen" => ~Spliced(Hand("down", 1))
  BY Undisturbed
<1>3. /\ "down" \in Ways /\ "up" \in Ways /\ Back("down") = "up"
      /\ 1 \in 1..3 /\ 2 \in 1..3 /\ 3 \in 1..3 /\ 1 + 1 = 2 /\ 2 + 1 = 3 /\ 4 - 2 = 2
  BY DEF Ways, Back
<1>4. ASSUME NEW v \in Ways, NEW k \in 1..3, ~Spliced(Hand(v, k))
      PROVE  copy[Hand(v, k)] # "over"
  BY <1>1, <1>4, Hands3 DEF Begun
<1>5. \A v \in Ways, k \in 1..3 :
        Shut(Other(Inlet(v, k + 1))) => copy[Hand(v, k)] = "over"
  BY <1>2 DEF Order
<1>6. copy[Hand("down", 2)] = "over" => copy[Hand("down", 1)] = "over"
  BY <1>2, <1>3 DEF Order
<1>7. copy[Hand("up", 2)] = "over" => copy[Hand("down", 2)] = "over"
  BY <1>2, <1>3 DEF Order
<1>8. CASE n = "listen"
  <2>1. TunnelEnd(n) = <<2, "L">> /\ Other(TunnelEnd(n)) = <<2, "R">>
    BY <1>8 DEF TunnelEnd, Other
  <2>2. copy[Hand("down", 1)] # "over"
    BY <1>2, <1>3, <1>4, <1>8
  <2>3. ~Shut(Other(Inlet("down", 2))) /\ ~Shut(Other(Inlet("up", 3)))
    BY <1>3, <1>5, <1>6, <1>7, <2>2
  <2>4. Other(Inlet("down", 2)) = <<2, "L">> /\ Other(Inlet("up", 3)) = <<2, "R">>
    BY DEF Inlet, Other
  <2>5. open[TunnelEnd(n)] /\ open[Other(TunnelEnd(n))]
    BY <2>1, <2>3, <2>4 DEF Shut
  <2> QED  BY <2>5 DEF ReadEnds, WriteFails
<1>9. CASE n = "share"
  <2>1. TunnelEnd(n) = <<3, "R">> /\ Other(TunnelEnd(n)) = <<3, "L">>
    BY <1>9 DEF TunnelEnd, Other
  <2>2. /\ Other(Inlet("up", 2)) = <<3, "R">> /\ Other(Inlet("down", 3)) = <<3, "L">>
        /\ Inlet("down", 3) = <<3, "R">>
    BY DEF Inlet, Other
  <2>3. open[TunnelEnd(n)]
    <3>1. ~Shut(Other(Inlet("up", 2)))
      BY <1>2, <1>3, <1>4, <1>5
    <3> QED  BY <2>1, <2>2, <3>1 DEF Shut
  <2>4. ASSUME ~open[Other(TunnelEnd(n))]
        PROVE  copy[Hand("down", 2)] = "over" /\ copy[Hand("down", 1)] = "over"
    <3>1. Shut(Other(Inlet("down", 3)))
      BY <2>1, <2>2, <2>4 DEF Shut
    <3> QED  BY <1>3, <1>5, <1>6, <3>1
  <2>5. ASSUME ~open[Other(TunnelEnd(n))] PROVE hs.listen = Established
    <3>1. Spliced(Hand("down", 1))
      BY <1>3, <1>4, <2>4, <2>5
    <3> QED  BY <3>1 DEF Spliced, Hand
  <2>6. ASSUME ToldToWrite(n), ~open[Other(TunnelEnd(n))] PROVE FALSE
    <3>1. ToWrite("share") <= ToRead("listen")
      BY <1>1, <1>2, <1>3, OwesNoMore DEF Writer, Reader, Back
    <3>2. ToRead("listen") = 0
      BY <1>1, <2>5, <2>6, LeftToDo
    <3>3. ToWrite("share") >= 1 /\ ToWrite("share") \in 0..2
      BY <1>1, <1>9, <2>6, Told, LeftToDo
    <3> QED  BY <3>1, <3>2, <3>3
  <2>7. ASSUME inbox[TunnelEnd(n)] = <<>>, ~open[Other(TunnelEnd(n))] PROVE FALSE
    <3>1. /\ inbox[Inlet("down", 1)] = <<>> /\ held[Hand("down", 1)] = <<>>
          /\ inbox[Inlet("down", 2)] = <<>> /\ held[Hand("down", 2)] = <<>>
      BY <1>2, <1>3, <2>4, <2>7 DEF Order
    <3>2. held[Hand("down", 3)] = <<>>
      BY <1>1, <1>2, <1>3, Hands3 DEF Begun
    <3>3. Writer("down") = "listen" /\ Reader("down") = "share"
      BY DEF Writer, Reader, Back
    <3>4. ToWrite("listen") = 0
      BY <1>1, <2>5, <2>7, LeftToDo
    <3>5. ToRead("share") = 0
      BY <1>1, <1>2, <1>3, <2>1, <2>2, <2>7, <3>1, <3>2, <3>3, <3>4, AllRead
    <3>6. ToRead("share") >= 1
      BY <1>1, <1>9, Told
    <3> QED  BY <3>5, <3>6
  <2> QED  BY <2>3, <2>6, <2>7 DEF ReadEnds, WriteFails
<1> QED  BY <1>8, <1>9

\* So an exchange only goes on.
LEMMA OnlyAdvances ==
    ASSUME WholeInv, Trusting, agree, ~cut, NEW n \in {"listen", "share"}, Exchange(n)
    PROVE  Exchanging(n) /\ Advance(n)
<1>1. Exchanging(n)
  BY DEF Exchange
<1>2. ~ReadEnds(TunnelEnd(n)) /\ (ToldToWrite(n) => ~WriteFails(TunnelEnd(n)))
  <2>1. hs.listen # 0 /\ hs.share # 0
    BY <1>1 DEF Trusting, Exchanging, Established
  <2> QED  BY <1>1, <2>1, Unhindered
<1>3. PICK v \in Ways : n = Reader(v)
  BY EverySide
<1>4. TunnelEnd(n) = Inlet(v, 3)
  BY <1>3, Sides
<1>5. open[TunnelEnd(n)] /\ inbox[TunnelEnd(n)] # <<>> => Accepts(n, Head(inbox[TunnelEnd(n)]))
  BY <1>1, <1>3, <1>4, ProofIsRight
<1>6. ReadStep(n) => Advance(n)
  BY <1>2, <1>5 DEF ReadStep
<1>7. ASSUME NEW x, ToldToWrite(n), WriteStep(n, x) PROVE Advance(n)
  BY <1>2, <1>7 DEF WriteStep
<1>8. ReadStep(n) \/ \E x : ToldToWrite(n) /\ WriteStep(n, x)
  BY DEF Exchange, ToldToWrite
<1> QED  BY <1>1, <1>6, <1>7, <1>8

LEMMA TrustStep == WholeInv /\ Trusting /\ [TunnelNext]_tunnelVars => Trusting'
<1> SUFFICES ASSUME WholeInv, Trusting, [TunnelNext]_tunnelVars, agree', ~cut'
             PROVE  hs'.listen # 0 /\ (hs'.share = 0 => hs'.listen = Established)
  BY DEF Trusting
<1>1. PortInv /\ Later
  BY LaterStep DEF WholeInv
<1>2. agree
  BY DEF TunnelNext, Exchange, Expire, CopyStep, CopyRead, CopyWrite, CopyEnds, UserWrites,
     UserReads, UserCloses, Dial, DialService, DialFails, CutShort, tunnelVars
<1>3. ~cut
  BY <1>1 DEF Later
<1>4. hs.listen # 0 /\ (hs.share = 0 => hs.listen = Established)
  BY <1>2, <1>3 DEF Trusting
<1>5. CASE hs' = hs
  BY <1>4, <1>5
<1>6. ASSUME NEW n \in {"listen", "share"}, Exchange(n)
      PROVE  hs'.listen # 0 /\ (hs'.share = 0 => hs'.listen = Established)
  <2>1. Exchanging(n) /\ Advance(n)
    BY <1>2, <1>3, <1>6, OnlyAdvances
  <2>2. /\ hs'[n] = hs[n] + 1 /\ hs[n] \in 1..4
        /\ \A m \in {"listen", "share"} \ {n} : hs'[m] = hs[m]
    BY <1>1, <2>1, Types DEF Exchanging, Advance
  <2>3. hs'[n] # 0
    BY <2>2
  <2>4. CASE n = "listen"
    BY <1>4, <2>2, <2>3, <2>4 DEF Established
  <2>5. CASE n = "share"
    BY <1>4, <2>2, <2>3, <2>5
  <2> QED  BY <2>4, <2>5
<1>7. CASE DialFails
  <2>1. hs.share = Established /\ hs' = [hs EXCEPT !.share = 0]
    BY <1>7 DEF DialFails, Dialing
  <2>2. hs.listen = Established
    BY <1>1, <2>1 DEF PortInv
  <2> QED  BY <1>1, <1>4, <2>1, <2>2, Types
<1>8. ~\E n \in {"listen", "share"} : Expire(n)
  BY DEF Expire
<1>9. \/ \E n \in {"listen", "share"} : Exchange(n) \/ Expire(n)
      \/ DialFails
      \/ hs' = hs
  BY DEF TunnelNext, CopyStep, CopyRead, CopyWrite, CopyEnds, UserWrites, UserReads, UserCloses,
     Dial, DialService, CutShort, tunnelVars
<1> QED  BY <1>5, <1>6, <1>7, <1>8, <1>9

\* Between two sides that mean the same port, the handshake never fails and the
\* stream ends only because a user hung up, the service could not be reached, or
\* a context, a deadline or the relay cut it: no interleaving of the six copies
\* with the handshake takes an end for one, or a proof for another.
THEOREM EndsAreJustified == TunnelSpec => []EndsForAReason
<1>1. TunnelInit => Trusting
  BY DEF TunnelInit, Trusting
<1>2. WholeInv /\ Trusting => EndsForAReason
  <2> SUFFICES ASSUME WholeInv, Trusting, NEW e \in {Client, Service},
                      open[e], ReadEnds(e), agree, ~cut, hs.share # 0
               PROVE  Shut(IF e = Client THEN Service ELSE Client)
    BY DEF EndsForAReason
  <2>1. PICK w \in Ways : e = Sink(w)
    BY EveryUser
  <2>2. /\ Source(w) = IF e = Client THEN Service ELSE Client
        /\ Sink(w) = Inlet(w, 4) /\ Sink(w) \in Ends
    BY <2>1, Users, Inlets DEF Client, Service
  <2>3. PortInv /\ Begun /\ (Orderly(w) => Order(w))
    BY DEF WholeInv
  <2>4. Shut(Other(Inlet(w, 3 + 1)))
    <3>1. Shut(Other(Sink(w))) /\ 3 + 1 = 4
      BY <2>1, <2>2, <2>3, Gone DEF ReadEnds
    <3> QED  BY <2>2, <3>1
  <2>5. ASSUME ~Shut(Source(w)) PROVE FALSE
    <3>1. Orderly(w)
      BY <2>1, <2>5 DEF Orderly, Trusting, Shut
    <3>2. 3 \in 1..3
      OBVIOUS
    <3> QED  BY <2>3, <2>4, <2>5, <3>1, <3>2 DEF Order
  <2> QED  BY <2>2, <2>5
<1> QED  BY <1>1, <1>2, WholeStart, WholeStep, TrustStep, PTL DEF TunnelSpec

------------------------------------------------------------------------------
(* Why the handshake is never stuck.                                           *)

\* No item before the first of the data goes where only data go.
LEMMA OnlyData ==
    ASSUME NEW S, \A x \in S : x[1] = "data", NEW q \in Seq(S), NEW n \in Int,
           Numbered(q, n), n + Len(q) >= 0
    PROVE  n >= 0
<1> SUFFICES ASSUME n < 0 PROVE FALSE
  OBVIOUS
<1>1. Len(q) \in Nat
  OBVIOUS
<1>2. -n \in 1..Len(q) /\ n + (-n) = 0
  BY <1>1
<1>3. Fits(q[-n], 0)
  BY <1>2 DEF Numbered
<1>4. q[-n] \in S
  BY <1>2
<1>5. q[-n][1] = "proof"
  BY <1>3 DEF Fits
<1> QED  BY <1>4, <1>5

\* So a source's splice has passed on nothing, or some of the data.
LEMMA DataGoOn ==
    ASSUME PortInv, NEW w \in Ways, Orderly(w),
           NEW into \in [1..4 -> Int], NEW out \in [1..4 -> Int], Flow(w, into, out)
    PROVE  into[2] >= 0
<1> DEFINE e == Inlet(w, 1)
           c == Hand(w, 1)
<1>1. /\ 1 \in 1..4 /\ 1 \in 1..3 /\ 1 + 1 = 2
      /\ into[1] \in Int /\ into[2] \in Int /\ out[1] \in Int
  OBVIOUS
<1>2. e \in Ends /\ c \in Copies /\ Src(c) = e
  BY <1>1, Inlets, Hands3
<1>3. \A x \in Carried(e) : x[1] = "data"
  BY DEF Carried, Inlet, Ways
<1>4. inbox[e] \in Seq(Carried(e)) /\ held[c] \in Seq(Carried(e))
  BY <1>2 DEF PortInv
<1>5. Len(inbox[e]) \in Nat /\ Len(held[c]) \in Nat /\ sent[Source(w)] \in Nat
  BY <1>1, Lengths
<1>6. Wire(w, 1, into[1], out[1]) /\ Splice(w, 1, out[1], into[2]) /\ into[1] = sent[Source(w)]
  BY <1>1 DEF Flow
<1>7. Numbered(inbox[e], out[1]) /\ Numbered(held[c], into[2])
  BY <1>6 DEF Wire, Splice
<1>8. into[1] = out[1] + Len(inbox[e]) /\ out[1] = into[2] + Len(held[c])
  <2>1. Link(Orderly(w), into[1], out[1] + Len(inbox[e])) /\ Link(Orderly(w), out[1], into[2] + Len(held[c]))
    BY Counts
  <2> QED  BY <2>1 DEF Link
<1> HIDE DEF e, c
<1>9. out[1] >= 0
  <2>1. out[1] + Len(inbox[e]) >= 0
    BY <1>1, <1>5, <1>6, <1>8
  <2> QED  BY <1>1, <1>3, <1>4, <1>7, <2>1, OnlyData
<1>10. into[2] + Len(held[c]) >= 0
  BY <1>1, <1>5, <1>8, <1>9
<1> QED  BY <1>1, <1>3, <1>4, <1>7, <1>10, OnlyData

\* The relay's part of the tunnel while something of a handshake has to pass it.
Standing ==
    /\ open[<<2, "R">>] /\ open[<<3, "L">>] /\ open[<<3, "R">>]
    /\ \A d \in Ways : copy[Hand(d, 2)] = "copying"

LEMMA RelayStands ==
    ASSUME WholeInv, ~cut, hs.listen # 0, hs.share # 0,
           NEW n \in {"listen", "share"}, Exchanging(n),
           n = "listen" \/ copy[Hand("down", 2)] # "over"
    PROVE  Standing
<1>1. PortInv /\ Begun
  BY DEF WholeInv
<1>2. /\ Orderly("down") /\ Order("down") /\ ~Spliced(Hand("up", 1))
      /\ n = "listen" => ~Spliced(Hand("down", 1))
  BY Undisturbed
<1>3. /\ "down" \in Ways /\ "up" \in Ways /\ Back("down") = "up"
      /\ 1 \in 1..3 /\ 2 \in 1..3 /\ 1 + 1 = 2 /\ 2 + 1 = 3 /\ 4 - 2 = 2 /\ 2 > 1 /\ 2 - 1 = 1
  BY DEF Ways, Back
<1>4. ASSUME NEW v \in Ways, ~Spliced(Hand(v, 1))
      PROVE  copy[Hand(v, 1)] # "over"
  BY <1>1, <1>3, <1>4, Hands3 DEF Begun
<1>5. \A v \in Ways, k \in 1..3 :
        Shut(Other(Inlet(v, k + 1))) => copy[Hand(v, k)] = "over"
  BY <1>2 DEF Order
<1>6. copy[Hand("down", 2)] = "over" => copy[Hand("down", 1)] = "over"
  BY <1>2, <1>3 DEF Order
<1>7. copy[Hand("up", 2)] = "over" => copy[Hand("down", 2)] = "over"
  BY <1>2, <1>3 DEF Order
<1>8. copy[Hand("down", 2)] # "over" /\ copy[Hand("up", 2)] # "over"
      /\ copy[Hand("up", 1)] # "over"
  BY <1>2, <1>3, <1>4, <1>6, <1>7
<1>9. ~Shut(Other(Inlet("up", 3))) /\ ~Shut(Other(Inlet("down", 3))) /\ ~Shut(Other(Inlet("up", 2)))
  BY <1>3, <1>5, <1>8
<1>10. /\ Other(Inlet("up", 3)) = <<2, "R">> /\ Other(Inlet("down", 3)) = <<3, "L">>
       /\ Other(Inlet("up", 2)) = <<3, "R">>
  BY DEF Inlet, Other
<1>11. open[<<2, "R">>] /\ open[<<3, "L">>] /\ open[<<3, "R">>]
  BY <1>9, <1>10 DEF Shut
<1>12. ASSUME NEW d \in Ways PROVE copy[Hand(d, 2)] = "copying"
  <2>1. copy[Hand(d, 2)] \in {"copying", "over"}
    BY <1>1, <1>3, Types, Hands3
  <2> QED  BY <1>8, <2>1 DEF Ways
<1> QED  BY <1>11, <1>12 DEF Standing

\* What it holds it can carry, once the other end has room.
LEMMA RelayCarries ==
    ASSUME WholeInv, Standing, NEW d \in Ways,
           held[Hand(d, 2)] = <<>> => inbox[Inlet(d, 2)] # <<>>,
           held[Hand(d, 2)] # <<>> =>
                inbox[Inlet(d, 3)] = <<>> /\ (d = "up" => open[<<2, "L">>])
    PROVE  MayCarry(<<2, d>>)
<1> DEFINE c == Hand(d, 2)
<1>1. c = <<2, d>> /\ Inlet(d, 2) = Src(c) /\ Inlet(d, 3) = Other(Dst(c))
  BY DEF Hand, Inlet, Src, Dst, Other, Ways
<1>2. /\ d = "down" => Src(c) = <<2, "R">> /\ Dst(c) = <<3, "L">> /\ Other(Dst(c)) = <<3, "R">>
      /\ d = "up" => Src(c) = <<3, "L">> /\ Dst(c) = <<2, "R">> /\ Other(Dst(c)) = <<2, "L">>
      /\ d = "down" \/ d = "up"
  BY <1>1 DEF Src, Dst, Other, Ways
<1>3. Running(c)
  BY <1>1 DEF Running, Spliced, Standing
<1>4. CASE held[c] = <<>>
  <2>1. open[Src(c)]
    BY <1>2 DEF Standing
  <2> QED  BY <1>1, <1>3, <1>4, <2>1 DEF MayCarry
<1>5. CASE held[c] # <<>>
  <2>1. open[Dst(c)] /\ open[Other(Dst(c))]
    BY <1>2, <1>5 DEF Standing
  <2>2. Len(inbox[Other(Dst(c))]) < Cap
    <3>1. Len(<<>>) = 0 /\ 0 < Cap
      BY TunnelAssumption
    <3> QED  BY <1>1, <1>5, <3>1
  <2>3. Room(Dst(c))
    BY <2>1, <2>2 DEF Room
  <2> QED  BY <1>1, <1>3, <1>5, <2>3 DEF MayCarry
<1> QED  BY <1>4, <1>5

\* A side with more to read than the other has to write finds the difference on
\* its way: in the relay's two connections or in its hand.
LEMMA OnItsWay ==
    ASSUME WholeInv, ~cut, hs.listen # 0, hs.share # 0,
           NEW v \in Ways, Exchanging(Reader(v)), ToRead(Reader(v)) > ToWrite(Writer(v))
    PROVE  inbox[Inlet(v, 2)] # <<>> \/ held[Hand(v, 2)] # <<>> \/ inbox[Inlet(v, 3)] # <<>>
<1> SUFFICES ASSUME inbox[Inlet(v, 2)] = <<>>, held[Hand(v, 2)] = <<>>, inbox[Inlet(v, 3)] = <<>>
             PROVE  FALSE
  OBVIOUS
<1> DEFINE W == ToWrite(Writer(v))
           G == ToRead(Reader(v))
           n == Reader(v)
<1>1. PortInv /\ Begun /\ Flows(v)
  BY DEF WholeInv
<1>2. n \in {"listen", "share"} /\ W \in Nat /\ G \in Nat /\ Len(<<>>) = 0
  <2>1. W \in 0..2 /\ G \in 0..2
    BY <1>1, Lengths
  <2> QED  BY <2>1, Sides
<1>3. /\ Orderly("down")
      /\ ~Spliced(Hand("down", 3)) /\ ~Spliced(Hand("up", 1))
      /\ n = "listen" => ~Spliced(Hand("down", 1))
  BY <1>2, Undisturbed
<1>4. /\ 2 \in 1..4 /\ 3 \in 1..4 /\ 2 \in 1..3 /\ 3 \in 1..3 /\ 2 + 1 = 3 /\ 3 + 1 = 4
      /\ v = "down" \/ v = "up"
      /\ v = "down" => n = "share"
      /\ v = "up" => n = "listen"
  BY DEF Ways, Reader
<1>5. PICK into \in [1..4 -> Int], out \in [1..4 -> Int] : Flow(v, into, out)
  BY <1>1 DEF Flows
<1>6. ~Spliced(Hand(v, 3))
  <2>1. v = "up" => ~Spliced(Hand(v, 3))
    BY <1>4 DEF Spliced, Hand, Exchanging, Established
  <2> QED  BY <1>3, <1>4, <2>1
<1>7. into[4] = 0 /\ held[Hand(v, 3)] = <<>> /\ copy[Hand(v, 3)] = "copying"
  BY <1>1, <1>4, <1>5, <1>6, Hands3 DEF Flow, Begun
<1>8. into[2] >= 0
  <2>1. CASE v = "down"
    BY <1>1, <1>3, <1>5, <2>1, DataGoOn
  <2>2. CASE v = "up"
    <3>1. into[2] = 0
      BY <1>3, <1>5, <2>2 DEF Flow
    <3> QED  BY <3>1
  <2> QED  BY <1>4, <2>1, <2>2
<1>9. /\ Whole(v, 2) \/ Orderly(v)
      /\ Drains(v, 2) \/ Orderly(v)
      /\ Whole(v, 3) \/ Orderly(v)
      /\ Drains(v, 3) \/ Orderly(v)
  <2>1. CASE v = "down"
    BY <1>3, <2>1
  <2>2. CASE v = "up"
    <3>1. Standing
      BY <1>2, <1>4, <2>2, RelayStands
    <3>2. open[<<2, "L">>]
      BY <1>4, <2>2, Unhindered DEF ReadEnds, TunnelEnd
    <3>3. /\ Inlet("up", 2) = <<3, "L">> /\ Other(Inlet("up", 2)) = <<3, "R">>
          /\ Inlet("up", 3) = <<2, "L">> /\ Other(Inlet("up", 3)) = <<2, "R">>
      BY DEF Inlet, Other
    <3> QED  BY <1>7, <2>2, <3>1, <3>2, <3>3 DEF Whole, Drains, Shut, Standing
  <2> QED  BY <1>4, <2>1, <2>2
<1>10. /\ Wire(v, 2, into[2], out[2]) /\ Splice(v, 2, out[2], into[3])
       /\ Wire(v, 3, into[3], out[3]) /\ Splice(v, 3, out[3], into[4])
  BY <1>4, <1>5 DEF Flow
<1>11. Due(v, 2) = W /\ Debt(v, 2) = 0 /\ Due(v, 3) = 0 /\ Debt(v, 3) = G
  BY DEF Due, Debt
<1>12. /\ into[2] = out[2] + 0 + W /\ out[2] = into[3] + 0 - 0
       /\ into[3] = out[3] + 0 + 0 /\ out[3] = into[4] + 0 - G
  BY <1>2, <1>7, <1>9, <1>10, <1>11 DEF Wire, Splice, Link
<1>13. into[2] \in Int /\ into[3] \in Int /\ out[2] \in Int /\ out[3] \in Int
  OBVIOUS
<1>14. G > W
  OBVIOUS
<1> HIDE DEF W, G
<1> QED  BY <1>2, <1>7, <1>8, <1>12, <1>13, <1>14

\* So a side that is told to read and is owed more than the other has yet to write
\* has it there, or the relay carries it.
LEMMA ReaderMoves ==
    ASSUME WholeInv, ~cut, hs.listen # 0, hs.share # 0,
           NEW v \in Ways, Exchanging(Reader(v)), ~ToldToWrite(Reader(v)),
           ToRead(Reader(v)) > ToWrite(Writer(v))
    PROVE  MayGoOn(Reader(v)) \/ MayCarry(<<2, v>>)
<1> DEFINE n == Reader(v)
           e == TunnelEnd(n)
<1>1. PortInv /\ n \in {"listen", "share"} /\ e = Inlet(v, 3)
  BY Sides DEF WholeInv
<1>2. /\ v = "down" \/ v = "up"
      /\ v = "down" => n = "share" /\ e = <<3, "R">>
      /\ v = "up" => n = "listen" /\ e = <<2, "L">>
  BY DEF Ways, Reader, TunnelEnd
<1>3. ~ReadEnds(e)
  BY <1>1, Unhindered
<1>4. open[e]
  BY <1>3 DEF ReadEnds
<1>5. CASE inbox[e] # <<>>
  <2>1. Move(n) \in {"read challenge", "read proof"}
    BY <1>1, Moves DEF ToldToWrite
  <2> QED  BY <1>4, <1>5, <2>1 DEF MayGoOn
<1>6. CASE inbox[e] = <<>>
  <2>1. inbox[Inlet(v, 2)] # <<>> \/ held[Hand(v, 2)] # <<>>
    BY <1>1, <1>6, OnItsWay
  <2>2. Standing
    <3>1. CASE v = "up"
      BY <1>2, <1>1, <3>1, RelayStands
    <3>2. CASE v = "down"
      <4>1. Order("down") /\ 2 \in 1..3
        BY <1>1, Undisturbed
      <4>2. copy[Hand("down", 2)] # "over"
        BY <2>1, <3>2, <4>1 DEF Order
      <4> QED  BY <1>1, <4>2, RelayStands
    <3> QED  BY <1>2, <3>1, <3>2
  <2>3. v = "up" => open[<<2, "L">>]
    BY <1>2, <1>4
  <2> QED  BY <1>1, <1>6, <2>1, <2>2, <2>3, RelayCarries
<1> QED  BY <1>5, <1>6

\* A side that is told to write has room, or the relay makes some: what is under
\* way is never more than the other has to read, and that is two items.
LEMMA WriterMoves ==
    ASSUME WholeInv, ~cut, hs.listen # 0, hs.share # 0,
           NEW v \in Ways, Exchanging(Writer(v)), ToldToWrite(Writer(v))
    PROVE  MayGoOn(Writer(v)) \/ MayCarry(<<2, v>>)
<1> DEFINE n == Writer(v)
           e == TunnelEnd(n)
           W == ToWrite(Writer(v))
           G == ToRead(Reader(v))
<1>1. PortInv /\ Begun /\ Flows(v) /\ n \in {"listen", "share"} /\ Other(e) = Inlet(v, 2)
  BY Sides DEF WholeInv
<1>2. /\ v = "down" \/ v = "up"
      /\ v = "down" => n = "listen"
      /\ v = "up" => n = "share" /\ Writer(v) = "share" /\ Reader(v) = "listen"
  BY DEF Ways, Writer, Reader, Back
<1>3. ~WriteFails(e)
  BY <1>1, Unhindered
<1>4. open[e] /\ open[Other(e)]
  BY <1>3 DEF WriteFails
<1>5. Move(n) \notin {"read challenge", "read proof"}
  BY DEF ToldToWrite
<1>6. CASE Len(inbox[Other(e)]) < Cap
  BY <1>4, <1>5, <1>6 DEF MayGoOn, Room
<1>7. CASE ~(Len(inbox[Other(e)]) < Cap)
  <2>1. ~Spliced(Hand(v, 1))
    <3>1. CASE v = "down"
      BY <1>1, <1>2, <3>1, Undisturbed
    <3>2. CASE v = "up"
      BY <1>1, <1>2, <3>2, Undisturbed
    <3> QED  BY <1>2, <3>1, <3>2
  <2>2. W >= 1 /\ W \in 0..2 /\ G \in 0..2
    BY <1>1, Told, Lengths
  <2>3. /\ 2 \in 1..4 /\ 2 \in 1..3 /\ 1 \in 1..3
        /\ Len(inbox[Inlet(v, 2)]) \in Nat /\ Len(held[Hand(v, 2)]) \in Nat
    BY <1>1, Lengths
  <2>4. Len(inbox[Inlet(v, 2)]) >= 1
    BY <1>1, <1>7, <2>3, TunnelAssumption
  <2>5. W + Len(inbox[Inlet(v, 2)]) + Len(held[Hand(v, 2)]) <= G
    <3>1. PICK into \in [1..4 -> Int], out \in [1..4 -> Int] : Flow(v, into, out)
      BY <1>1 DEF Flows
    <3> DEFINE L(k) == Len(inbox[Inlet(v, k)])
               H(k) == Len(held[Hand(v, k)])
               N == Len(got[Sink(v)])
    <3>2. into[2] = 0 /\ out[4] = N /\ N \in Nat
      BY <1>1, <2>1, <3>1, Lengths DEF Flow
    <3>3. into[3] \in Int /\ into[4] \in Int /\ out[2] \in Int /\ out[3] \in Int
      OBVIOUS
    <3>4. /\ into[2] >= out[2] + L(2) + W /\ into[3] >= out[3] + L(3) /\ into[4] >= out[4] + L(4)
          /\ out[2] >= into[3] + H(2) /\ out[3] >= into[4] + H(3) - G
          /\ L(2) \in Nat /\ L(3) \in Nat /\ L(4) \in Nat
          /\ H(2) \in Nat /\ H(3) \in Nat /\ W \in Nat /\ G \in Nat
      BY <1>1, <3>1, Counts DEF Link
    <3> HIDE DEF L, H, N, W, G
    <3>5. W + L(2) + H(2) <= G
      BY <3>2, <3>3, <3>4
    <3> QED  BY <3>5 DEF L, H
  <2>6. Len(held[Hand(v, 2)]) = 0
    <3> DEFINE l == Len(inbox[Inlet(v, 2)])
               h == Len(held[Hand(v, 2)])
    <3>1. l \in Nat /\ h \in Nat /\ l >= 1 /\ W + l + h <= G
      BY <2>3, <2>4, <2>5
    <3> HIDE DEF W, G, l, h
    <3>2. h = 0
      BY <2>2, <3>1
    <3> QED  BY <3>2 DEF h
  <2>7. held[Hand(v, 2)] = <<>> /\ inbox[Inlet(v, 2)] # <<>>
    <3>1. held[Hand(v, 2)] \in Seq(Items) /\ Len(<<>>) = 0
      BY <1>1, <2>3, Lengths
    <3> QED  BY <2>4, <2>6, <3>1
  <2>8. Standing
    <3>1. CASE v = "down"
      BY <1>1, <1>2, <3>1, RelayStands
    <3>2. CASE v = "up"
      <4>1. W <= G
        BY <1>1, <2>1, OwesNoMore
      <4>2. hs.listen # Established
        <5>1. ToRead("listen") >= 1
          BY <1>2, <2>2, <3>2, <4>1
        <5> QED  BY <1>1, <5>1, LeftToDo
      <4>3. copy[Hand("down", 1)] # "over"
        <5>1. ~Spliced(Hand("down", 1))
          BY <4>2 DEF Spliced, Hand
        <5> QED  BY <1>1, <2>3, <5>1, Hands3 DEF Begun, Ways
      <4>4. copy[Hand("down", 2)] # "over"
        <5>1. Order("down") /\ 2 > 1 /\ 2 - 1 = 1
          BY <1>1, Undisturbed
        <5> QED  BY <2>3, <4>3, <5>1 DEF Order
      <4> QED  BY <1>1, <4>4, RelayStands
    <3> QED  BY <1>2, <3>1, <3>2
  <2> QED  BY <1>1, <2>7, <2>8, RelayCarries
<1> QED  BY <1>6, <1>7

LEMMA WritesWhen ==
    \A n \in {"listen", "share"} :
        /\ n = "listen" /\ (hs[n] = 1 \/ hs[n] = 4) => ToldToWrite(n)
        /\ n = "share" /\ (hs[n] = 2 \/ hs[n] = 3) => ToldToWrite(n)
<1> SUFFICES ASSUME NEW n \in {"listen", "share"}, hs[n] \in 1..4
             PROVE  /\ n = "listen" /\ (hs[n] = 1 \/ hs[n] = 4) => ToldToWrite(n)
                    /\ n = "share" /\ (hs[n] = 2 \/ hs[n] = 3) => ToldToWrite(n)
  OBVIOUS
<1> QED  BY Moves DEF Exchanging, ToldToWrite

\* The order of reads and writes: where nobody is told to write, somebody waits
\* for more than the other has yet to write.
LEMMA SomebodyIsOwed ==
    ASSUME PortInv, hs.listen # 0, hs.share # 0,
           \E n \in {"listen", "share"} : Exchanging(n),
           \A n \in {"listen", "share"} : Exchanging(n) => ~ToldToWrite(n)
    PROVE  \E v \in Ways : Exchanging(Reader(v)) /\ ToRead(Reader(v)) > ToWrite(Writer(v))
<1>1. hs.listen \in 0..5 /\ hs.share \in 0..5
  BY Types
<1>2. /\ hs.listen = 1 => ToldToWrite("listen")
      /\ hs.listen = 4 => ToldToWrite("listen")
      /\ hs.share = 2 => ToldToWrite("share")
      /\ hs.share = 3 => ToldToWrite("share")
  BY WritesWhen
<1>3. (hs.listen = 2 \/ hs.listen = 3 \/ hs.listen = 5) /\ (hs.share = 1 \/ hs.share = 4 \/ hs.share = 5)
  BY <1>1, <1>2 DEF Exchanging
<1>4. /\ hs.listen = 2 => ToRead("listen") = 2 /\ ToWrite("listen") = 1
      /\ hs.listen = 3 => ToRead("listen") = 1 /\ ToWrite("listen") = 1
      /\ hs.listen = 5 => ToRead("listen") = 0 /\ ToWrite("listen") = 0
      /\ hs.share = 1 => ToRead("share") = 2 /\ ToWrite("share") = 2
      /\ hs.share = 4 => ToRead("share") = 1 /\ ToWrite("share") = 0
      /\ hs.share = 5 => ToRead("share") = 0 /\ ToWrite("share") = 0
  BY DEF ToRead, ToWrite
<1>5. ~(hs.listen = 5 /\ hs.share = 5)
  BY DEF Exchanging
<1>6. \/ hs.share # 5 /\ ToRead("share") > ToWrite("listen")
      \/ hs.listen # 5 /\ ToRead("listen") > ToWrite("share")
  BY <1>3, <1>4, <1>5
<1>7. /\ hs.share # 5 => Exchanging("share")
      /\ hs.listen # 5 => Exchanging("listen")
  BY <1>3 DEF Exchanging
<1>8. /\ "down" \in Ways /\ Reader("down") = "share" /\ Writer("down") = "listen"
      /\ "up" \in Ways /\ Reader("up") = "listen" /\ Writer("up") = "share"
  BY DEF Ways, Reader, Writer, Back
<1> QED  BY <1>6, <1>7, <1>8

\* The handshake (proto/auth.go:25-83) cannot deadlock however little its transport
\* buffers: while nobody cut the tunnel and neither side failed, whatever the six
\* copies and the users have done, until both sides are through one of them can
\* take its next step or the relay can bring it nearer.
THEOREM HandshakeNeverStuck == TunnelSpec => []HandshakeMoves
<1>1. WholeInv => HandshakeMoves
  <2> SUFFICES ASSUME WholeInv, ~cut, hs.listen # 0, hs.share # 0,
                      \E n \in {"listen", "share"} : Exchanging(n)
               PROVE  \/ \E n \in {"listen", "share"} : MayGoOn(n)
                      \/ \E d \in {"down", "up"} : MayCarry(<<2, d>>)
    BY DEF HandshakeMoves
  <2>1. PortInv
    BY DEF WholeInv
  <2>2. CASE \E n \in {"listen", "share"} : Exchanging(n) /\ ToldToWrite(n)
    <3>1. PICK n \in {"listen", "share"} : Exchanging(n) /\ ToldToWrite(n)
      BY <2>2
    <3>2. PICK v \in Ways : n = Writer(Back(v))
      BY EverySide
    <3>3. Back(v) \in Ways
      BY Inlets
    <3>4. MayGoOn(n) \/ MayCarry(<<2, Back(v)>>)
      BY <3>1, <3>2, <3>3, WriterMoves
    <3> QED  BY <3>3, <3>4 DEF Ways
  <2>3. CASE \A n \in {"listen", "share"} : Exchanging(n) => ~ToldToWrite(n)
    <3>1. PICK v \in Ways : Exchanging(Reader(v)) /\ ToRead(Reader(v)) > ToWrite(Writer(v))
      BY <2>1, <2>3, SomebodyIsOwed
    <3>2. Reader(v) \in {"listen", "share"}
      BY Sides
    <3>3. MayGoOn(Reader(v)) \/ MayCarry(<<2, v>>)
      BY <2>3, <3>1, <3>2, ReaderMoves
    <3> QED  BY <3>2, <3>3 DEF Ways
  <2> QED  BY <2>2, <2>3
<1> QED  BY <1>1, WholeStart, WholeStep, PTL DEF TunnelSpec
=============================================================================
