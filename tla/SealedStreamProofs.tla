------------------------- MODULE SealedStreamProofs -------------------------
(***************************************************************************)
(* The sealed stream, for any counter, frame size and number of faults:    *)
(* what comes out is a beginning of what went in, no nonce is spent twice, *)
(* and a stream nothing happened to is read whole.                         *)
(***************************************************************************)
EXTENDS SealedStreamProperties, TLAPS

USE SealedAssumption

------------------------------------------------------------------------------
(* What the transport can do to a sequence of pieces *)

\* Damage makes a wire of pieces that were on the wire, or Junk.
LEMMA DamagedWire ==
  ASSUME wire \in Seq(Pieces), NEW w, NEW i \in 1..Len(wire),
         w \in {Lose(i), Repeat(i), Alter(i)} \cup {Swap(i, k) : k \in 1..Len(wire)}
  PROVE  /\ w \in Seq(Pieces)
         /\ \A j \in DOMAIN w : w[j] = Junk \/ \E h \in DOMAIN wire : w[j] = wire[h]
<1>1. Junk \in Pieces /\ Len(wire) \in Nat /\ DOMAIN wire = 1..Len(wire)
  BY DEF Pieces
<1>2. CASE w = Lose(i)
  <2>1. Len(wire) - 1 \in Nat /\ \A j \in 1..(Len(wire) - 1) : wire[IF j < i THEN j ELSE j + 1] \in Pieces
    BY <1>1
  <2>2. Lose(i) \in Seq(Pieces) /\ DOMAIN Lose(i) = 1..(Len(wire) - 1)
    BY <2>1 DEF Lose
  <2>3. \A j \in 1..(Len(wire) - 1) : \E h \in 1..Len(wire) : Lose(i)[j] = wire[h]
    <3> TAKE j \in 1..(Len(wire) - 1)
    <3>1. Lose(i)[j] = wire[IF j < i THEN j ELSE j + 1]
      BY DEF Lose
    <3> QED
      BY <1>1, <3>1
  <2> QED
    BY <1>1, <1>2, <2>2, <2>3
<1>3. CASE w = Repeat(i)
  <2>1. Len(wire) + 1 \in Nat /\ \A j \in 1..(Len(wire) + 1) : wire[IF j <= i THEN j ELSE j - 1] \in Pieces
    BY <1>1
  <2>2. Repeat(i) \in Seq(Pieces) /\ DOMAIN Repeat(i) = 1..(Len(wire) + 1)
    BY <2>1 DEF Repeat
  <2>3. \A j \in 1..(Len(wire) + 1) : \E h \in 1..Len(wire) : Repeat(i)[j] = wire[h]
    <3> TAKE j \in 1..(Len(wire) + 1)
    <3>1. Repeat(i)[j] = wire[IF j <= i THEN j ELSE j - 1]
      BY DEF Repeat
    <3> QED
      BY <1>1, <3>1
  <2> QED
    BY <1>1, <1>3, <2>2, <2>3
<1>4. CASE w = Alter(i)
  <2>1. w \in Seq(Pieces) /\ DOMAIN w = DOMAIN wire
    BY <1>1, <1>4 DEF Alter
  <2>2. \A j \in DOMAIN w : w[j] = Junk \/ w[j] = wire[j]
    BY <1>1, <1>4 DEF Alter
  <2> QED
    BY <2>1, <2>2
<1>5. ASSUME NEW k \in 1..Len(wire), w = Swap(i, k)
      PROVE  /\ w \in Seq(Pieces)
             /\ \A j \in DOMAIN w : w[j] = Junk \/ \E h \in DOMAIN wire : w[j] = wire[h]
  <2>1. wire[i] \in Pieces /\ wire[k] \in Pieces
    BY <1>1
  <2>2. w \in Seq(Pieces) /\ DOMAIN w = DOMAIN wire
    BY <1>1, <1>5, <2>1 DEF Swap
  <2>3. \A j \in DOMAIN w : w[j] = wire[j] \/ w[j] = wire[i] \/ w[j] = wire[k]
    BY <1>1, <1>5 DEF Swap
  <2> QED
    BY <1>1, <2>2, <2>3
<1> QED
  BY <1>2, <1>3, <1>4, <1>5

\* A cut keeps the first pieces, and perhaps a torn one behind them.
LEMMA CutWire ==
  ASSUME wire \in Seq(Pieces), NEW w, NEW i \in 0..Len(wire),
         w \in {SubSeq(wire, 1, i), Append(SubSeq(wire, 1, i), Torn)}
  PROVE  /\ w \in Seq(Pieces)
         /\ \A j \in DOMAIN w : w[j] = Torn \/ \E h \in DOMAIN wire : w[j] = wire[h]
<1> DEFINE front == SubSeq(wire, 1, i)
<1>1. front \in Seq(Pieces) /\ Len(front) = i /\ \A j \in 1..i : front[j] = wire[j]
  OBVIOUS
<1>2. Torn \in Pieces
  BY DEF Pieces
<1> HIDE DEF front
<1>3. /\ Append(front, Torn) \in Seq(Pieces) /\ Len(Append(front, Torn)) = i + 1
      /\ \A j \in 1..i : Append(front, Torn)[j] = front[j]
      /\ Append(front, Torn)[i + 1] = Torn
  BY <1>1, <1>2
<1>4. CASE w = front
  BY <1>1, <1>4
<1>5. CASE w = Append(front, Torn)
  <2>1. \A j \in DOMAIN w : j \in 1..i \/ j = i + 1
    BY <1>3, <1>5
  <2> QED
    BY <1>1, <1>3, <1>5, <2>1
<1> QED
  BY <1>4, <1>5 DEF front

------------------------------------------------------------------------------
(* What the writer adds *)

\* A chunk is a frame of its own counter, within what was asked.
LEMMA ChunkIsFrame ==
  ASSUME TypeOK, Writing
  PROVE  /\ Chunk \in Frames /\ Chunk.kind = "frame" /\ Chunk.seq = writeSeq
         /\ Chunk.from = written /\ written < Chunk.to /\ Chunk.to <= asked
         /\ Chunk.to \in Nat
<1> DEFINE left == asked - written
           size == IF left > FrameUnits THEN FrameUnits ELSE left
<1>1. left \in Nat /\ left > 0
  BY DEF TypeOK, Writing
<1>2. size \in Nat /\ 0 < size /\ size <= left
  BY <1>1
<1>3. Chunk = [kind |-> "frame", seq |-> writeSeq, from |-> written, to |-> written + size]
  BY DEF Chunk, Frame
<1>4. writeSeq \in Nat /\ written \in Nat /\ asked \in Nat
  BY DEF TypeOK
<1> HIDE DEF left, size
<1>5. written + size <= asked
  BY <1>2, <1>4 DEF left
<1> QED
  BY <1>2, <1>3, <1>4, <1>5 DEF Frames

\* What a write leaves on the wire is a sequence of pieces, and the only frame
\* in it is the chunk.
LEMMA PacketPieces ==
  ASSUME TypeOK, Writing, NEW rest \in Remains
  PROVE  /\ rest \in Seq(Pieces)
         /\ \A j \in DOMAIN rest : rest[j] \in {Prefix, Torn, Chunk}
<1>1. Chunk \in Pieces /\ Prefix \in Pieces /\ Torn \in Pieces
  BY ChunkIsFrame DEF Pieces
<1>2. \/ rest \in {<<>>, <<Torn>>, <<Chunk>>, <<Prefix, Chunk>>}
      \/ rest \in {<<Prefix>>, <<Prefix, Torn>>}
  BY DEF Remains, Packet
<1>3. CASE rest = <<>>
  BY <1>3
<1>4. CASE rest \in {<<Torn>>, <<Chunk>>, <<Prefix>>}
  <2>1. PICK piece \in {Prefix, Torn, Chunk} : rest = <<piece>>
    BY <1>4
  <2> QED
    BY <1>1, <2>1
<1>5. CASE rest \in {<<Prefix, Chunk>>, <<Prefix, Torn>>}
  <2>1. PICK piece \in {Torn, Chunk} : rest = <<Prefix, piece>>
    BY <1>5
  <2> QED
    BY <1>1, <2>1
<1> QED
  BY <1>2, <1>3, <1>4, <1>5

\* Pieces behind a wire: each is one of the old or one of the new.
LEMMA Behind ==
  ASSUME NEW w \in Seq(Pieces), NEW rest \in Seq(Pieces)
  PROVE  /\ w \o rest \in Seq(Pieces)
         /\ Len(w \o rest) = Len(w) + Len(rest)
         /\ \A j \in DOMAIN (w \o rest) :
                \/ j \in DOMAIN w /\ (w \o rest)[j] = w[j]
                \/ \E h \in DOMAIN rest : (w \o rest)[j] = rest[h]
<1>1. w \o rest \in Seq(Pieces) /\ Len(w \o rest) = Len(w) + Len(rest)
  OBVIOUS
<1>2. \A j \in 1..(Len(w) + Len(rest)) : (w \o rest)[j] = IF j <= Len(w) THEN w[j] ELSE rest[j - Len(w)]
  OBVIOUS
<1>3. \A j \in 1..(Len(w) + Len(rest)) : j > Len(w) => j - Len(w) \in 1..Len(rest)
  OBVIOUS
<1> QED
  BY <1>1, <1>2, <1>3

\* What arrived is a piece, and what is behind it are the other pieces.
LEMMA HeadAndTail ==
  ASSUME TypeOK, wire # <<>>
  PROVE  /\ Head(wire) = wire[1] /\ Head(wire) \in Pieces /\ 1 \in DOMAIN wire
         /\ Tail(wire) \in Seq(Pieces) /\ Len(Tail(wire)) = Len(wire) - 1
         /\ \A j \in DOMAIN Tail(wire) : j + 1 \in DOMAIN wire /\ Tail(wire)[j] = wire[j + 1]
  BY DEF TypeOK

------------------------------------------------------------------------------
(* Type correctness *)

LEMMA TypeInit == SealedInit => TypeOK
<1> SUFFICES ASSUME SealedInit PROVE TypeOK
  OBVIOUS
<1>1. wire \in Seq(Pieces) /\ got \in Seq(Nat) /\ sealed \subseteq Frames
  BY DEF SealedInit
<1>2. plain \in [from : Nat, to : Nat]
  BY DEF SealedInit
<1>3. prefixSent \in BOOLEAN /\ ended \in BOOLEAN /\ prefixSeen \in BOOLEAN /\ prefixOK \in BOOLEAN
  BY DEF SealedInit
<1>4. /\ asked \in Nat /\ written \in Nat /\ written <= asked /\ faults \in Nat
      /\ writeSeq \in 0..MaxSeq /\ readSeq \in 0..MaxSeq
  BY DEF SealedInit
<1>5. /\ writeErr \in {"none", "exhausted", "broken"}
      /\ readErr \in {"none", "exhausted", "broken", "eof"}
  BY DEF SealedInit
<1> QED
  BY <1>1, <1>2, <1>3, <1>4, <1>5 DEF TypeOK

LEMMA TypeStep == TypeOK /\ [Next]_vars => TypeOK'
<1> SUFFICES ASSUME TypeOK, [Next]_vars PROVE TypeOK'
  OBVIOUS
<1> USE DEF writerVars, wireVars, readerVars
<1>1. ASSUME NEW n \in 1..MaxUnits, StartWrite(n) PROVE TypeOK'
  BY <1>1 DEF StartWrite, TypeOK
<1>2. CASE Exhaust \/ Close
  BY <1>2 DEF Exhaust, Close, Writing, TypeOK
<1>3. ASSUME NEW rest \in Remains, Writing
      PROVE wire \o rest \in Seq(Pieces)
  BY <1>3, PacketPieces, Behind DEF TypeOK
<1>4. CASE WriteFrame
  <2>1. Writing /\ Packet \in Remains
    BY <1>4 DEF WriteFrame, Seal, Remains
  <2>2. wire' \in Seq(Pieces)
    BY <1>3, <1>4, <2>1 DEF WriteFrame
  <2> QED
    BY <1>4, <2>1, <2>2, ChunkIsFrame DEF WriteFrame, Seal, TypeOK
<1>5. CASE WriteFails
  <2>1. Writing /\ <<>> \in Remains
    BY <1>5 DEF WriteFails, Seal, Remains
  <2>2. wire' \in Seq(Pieces)
    BY <1>3, <1>5, <2>1 DEF WriteFails
  <2> QED
    BY <1>5, <2>1, <2>2, ChunkIsFrame DEF WriteFails, Seal, TypeOK
<1>6. CASE Damage
  <2>1. wire' \in Seq(Pieces)
    BY <1>6, DamagedWire DEF Damage, TypeOK
  <2> QED
    BY <1>6, <2>1 DEF Damage, TypeOK
<1>7. CASE Cut
  <2>1. wire' \in Seq(Pieces)
    BY <1>7, CutWire DEF Cut, TypeOK
  <2> QED
    BY <1>7, <2>1 DEF Cut, TypeOK
<1>8. CASE ExhaustRead \/ ReadEnd
  BY <1>8 DEF ExhaustRead, ReadEnd, FailRead, TypeOK
<1>9. CASE TakePrefix
  <2>1. wire' \in Seq(Pieces)
    BY <1>9, HeadAndTail DEF TakePrefix, Arrived
  <2> QED
    BY <1>9, <2>1 DEF TakePrefix, TypeOK
<1>10. CASE TakeFrame
  <2>1. wire' \in Seq(Pieces) /\ Head(wire) \in Pieces
    BY <1>10, HeadAndTail DEF TakeFrame, Arrived
  <2>2. CASE Opens(Head(wire))
    <3>1. Head(wire) \in Frames
      BY <2>1, <2>2 DEF Opens, Pieces, Prefix, Junk, Torn
    <3>2. plain' \in [from : Nat, to : Nat] /\ readSeq' = readSeq + 1 /\ readSeq < MaxSeq
      BY <1>10, <2>2, <3>1 DEF TakeFrame, Frames
    <3> QED
      BY <1>10, <2>1, <2>2, <3>2 DEF TakeFrame, TypeOK
  <2>3. CASE ~Opens(Head(wire))
    BY <1>10, <2>1, <2>3 DEF TakeFrame, FailRead, TypeOK
  <2> QED
    BY <2>2, <2>3
<1>11. CASE ReadUnit
  <2>1. plain.from \in Nat /\ got' \in Seq(Nat) /\ plain' \in [from : Nat, to : Nat]
    <3>1. plain \in [from : Nat, to : Nat] /\ got \in Seq(Nat)
      BY DEF TypeOK
    <3>2. got' = Append(got, plain.from) /\ plain' = [plain EXCEPT !.from = @ + 1]
      BY <1>11 DEF ReadUnit
    <3> QED
      BY <3>1, <3>2
  <2> QED
    BY <1>11, <2>1 DEF ReadUnit, TypeOK
<1>12. CASE UNCHANGED vars
  BY <1>12 DEF vars, TypeOK
<1> QED
  BY <1>1, <1>2, <1>4, <1>5, <1>6, <1>7, <1>8, <1>9, <1>10, <1>11, <1>12 DEF Next

------------------------------------------------------------------------------
(* Nonces are spent once, and what comes out went in *)

\* Sealing the next chunk keeps the frames numbered and chained, whether its
\* write is reported or fails.
LEMMA SealKeeps ==
  ASSUME TypeOK, NonceOnce, Chained, Seal, asked' = asked,
         \/ written' = Chunk.to /\ writeErr' = writeErr
         \/ written' = written /\ writeErr' = "broken"
  PROVE  NonceOnce' /\ Chained'
<1>1. Writing /\ sealed' = sealed \cup {Chunk} /\ writeSeq' = writeSeq + 1 /\ writeSeq \in Nat
  BY DEF Seal, TypeOK
<1>2. /\ Chunk.seq = writeSeq /\ Chunk.from = written /\ written < Chunk.to /\ Chunk.to <= asked
      /\ Chunk.to \in Nat /\ written \in Nat /\ asked \in Nat
  BY <1>1, ChunkIsFrame DEF TypeOK
<1>3. \A f \in sealed : /\ f.seq \in Nat /\ f.from \in Nat /\ f.to \in Nat
                        /\ f.seq < writeSeq /\ f.to <= written
  BY <1>1 DEF TypeOK, Frames, Chained, Writing
<1>4. NonceOnce'
  BY <1>1, <1>2, <1>3 DEF NonceOnce
<1>5. \A f \in sealed' :
        /\ f.seq < writeSeq' /\ f.from < f.to /\ f.to <= asked'
        /\ f.seq = 0 => f.from = 0
        /\ writeErr' # "broken" => f.to <= written'
        /\ f.seq = writeSeq' - 1 /\ writeErr' # "broken" => f.to = written'
  <2> TAKE f \in sealed'
  <2>1. CASE f = Chunk
    BY <1>1, <1>2, <2>1 DEF Chained
  <2>2. CASE f \in sealed
    BY <1>1, <1>2, <1>3, <2>2 DEF Chained
  <2> QED
    BY <1>1, <2>1, <2>2
<1>6. \A f, g \in sealed' : g.seq = f.seq + 1 => g.from = f.to
  <2> TAKE f, g \in sealed'
  <2>1. CASE f \in sealed /\ g \in sealed
    BY <2>1 DEF Chained
  <2>2. CASE f = Chunk
    BY <1>1, <1>2, <1>3, <2>2
  <2>3. CASE f \in sealed /\ g = Chunk
    BY <1>1, <1>2, <1>3, <2>3 DEF Chained, Writing
  <2> QED
    BY <1>1, <2>1, <2>2, <2>3
<1> QED
  BY <1>1, <1>4, <1>5, <1>6 DEF Chained

LEMMA StreamInit == SealedInit => StreamInv
<1> SUFFICES ASSUME SealedInit PROVE StreamInv
  OBVIOUS
<1>1. NonceOnce /\ Chained /\ OnlySealed
  BY DEF SealedInit, NonceOnce, Chained, OnlySealed
<1>2. ReaderPlace /\ InOrder
  BY DEF SealedInit, ReaderPlace, InOrder
<1> QED
  BY <1>1, <1>2, TypeInit DEF StreamInv

\* A step that leaves the reader alone and only adds frames keeps its place.
LEMMA ReaderFrame ==
  ASSUME ReaderPlace, InOrder, TypeOK, UNCHANGED readerVars,
         sealed \subseteq sealed', asked' \in Nat, asked <= asked'
  PROVE  ReaderPlace' /\ InOrder'
<1>1. ReaderPlace'
  BY DEF ReaderPlace, readerVars
<1>2. InOrder'
  BY DEF InOrder, readerVars, TypeOK
<1> QED
  BY <1>1, <1>2

\* The reader takes pieces from the front: those left were on the wire.
LEMMA TailOnlySealed ==
  ASSUME TypeOK, OnlySealed, wire # <<>>, wire' = Tail(wire), sealed' = sealed
  PROVE  OnlySealed'
  BY HeadAndTail DEF OnlySealed

LEMMA StreamStep == StreamInv /\ [Next]_vars => StreamInv'
<1> SUFFICES ASSUME StreamInv, [Next]_vars PROVE StreamInv'
  OBVIOUS
<1>0. TypeOK /\ NonceOnce /\ Chained /\ OnlySealed /\ ReaderPlace /\ InOrder
  BY DEF StreamInv
<1> USE DEF writerVars, wireVars
<1>1. TypeOK'
  BY <1>0, TypeStep
<1>2. ASSUME NEW n \in 1..MaxUnits, StartWrite(n) PROVE StreamInv'
  <2>1. asked' = asked + n /\ asked \in Nat
    BY <1>0, <1>2 DEF StartWrite, TypeOK
  <2>2. NonceOnce' /\ OnlySealed'
    BY <1>0, <1>2 DEF StartWrite, NonceOnce, OnlySealed
  <2>3. Chained'
    BY <1>0, <1>2, <2>1 DEF StartWrite, Chained, TypeOK, Frames
  <2> QED
    BY <1>0, <1>1, <1>2, <2>1, <2>2, <2>3, ReaderFrame DEF StartWrite, StreamInv
<1>3. CASE Exhaust \/ Close
  <2>1. NonceOnce' /\ OnlySealed'
    BY <1>0, <1>3 DEF Exhaust, Close, NonceOnce, OnlySealed
  <2>2. Chained'
    BY <1>0, <1>3 DEF Exhaust, Close, Writing, Chained
  <2> QED
    BY <1>0, <1>1, <1>3, <2>1, <2>2, ReaderFrame DEF Exhaust, Close, StreamInv, TypeOK
<1>4. CASE WriteFrame \/ WriteFails
  <2>1. PICK rest \in Remains : wire' = wire \o rest
    BY <1>4 DEF WriteFrame, WriteFails, Remains
  <2>2. Seal /\ Writing /\ sealed' = sealed \cup {Chunk} /\ asked' = asked
    BY <1>4 DEF WriteFrame, WriteFails, Seal
  <2>3. NonceOnce' /\ Chained'
    BY <1>0, <1>4, <2>2, SealKeeps DEF WriteFrame, WriteFails
  <2>4. OnlySealed'
    <3>1. rest \in Seq(Pieces) /\ \A j \in DOMAIN rest : rest[j] \in {Prefix, Torn, Chunk}
      BY <1>0, <2>2, PacketPieces
    <3>2. \A j \in DOMAIN wire' : \/ j \in DOMAIN wire /\ wire'[j] = wire[j]
                                  \/ \E h \in DOMAIN rest : wire'[j] = rest[h]
      BY <1>0, <2>1, <3>1, Behind DEF TypeOK
    <3>3. Prefix.kind # "frame" /\ Torn.kind # "frame"
      BY DEF Prefix, Torn
    <3>4. ASSUME NEW j \in DOMAIN wire', wire'[j].kind = "frame"
          PROVE  wire'[j] \in sealed'
      <4>1. CASE j \in DOMAIN wire /\ wire'[j] = wire[j]
        BY <1>0, <2>2, <3>4, <4>1 DEF OnlySealed
      <4>2. CASE \E h \in DOMAIN rest : wire'[j] = rest[h]
        BY <2>2, <3>1, <3>3, <3>4, <4>2
      <4> QED
        BY <3>2, <4>1, <4>2
    <3> QED
      BY <3>4 DEF OnlySealed
  <2> QED
    <3>1. UNCHANGED readerVars /\ sealed \subseteq sealed' /\ asked' \in Nat /\ asked <= asked'
      BY <1>0, <1>4, <2>2 DEF WriteFrame, WriteFails, TypeOK
    <3> QED
      BY <1>0, <1>1, <2>3, <2>4, <3>1, ReaderFrame DEF StreamInv
<1>5. CASE Damage \/ Cut
  <2>1. \A j \in DOMAIN wire' : wire'[j] = Junk \/ wire'[j] = Torn
                                \/ \E h \in DOMAIN wire : wire'[j] = wire[h]
    <3>1. CASE Damage
      BY <1>0, <3>1, DamagedWire DEF Damage, TypeOK
    <3>2. CASE Cut
      BY <1>0, <3>2, CutWire DEF Cut, TypeOK
    <3> QED
      BY <1>5, <3>1, <3>2
  <2>2. Junk.kind # "frame" /\ Torn.kind # "frame"
    BY DEF Junk, Torn
  <2>3. OnlySealed'
    BY <1>0, <1>5, <2>1, <2>2 DEF OnlySealed, Damage, Cut
  <2>4. NonceOnce' /\ Chained'
    BY <1>0, <1>5 DEF Damage, Cut, NonceOnce, Chained
  <2> QED
    <3>1. UNCHANGED readerVars /\ sealed \subseteq sealed' /\ asked' \in Nat /\ asked <= asked'
      BY <1>0, <1>5 DEF Damage, Cut, TypeOK
    <3> QED
      BY <1>0, <1>1, <2>3, <2>4, <3>1, ReaderFrame DEF StreamInv
<1>6. ASSUME UNCHANGED writerVars PROVE NonceOnce' /\ Chained'
  BY <1>0, <1>6 DEF NonceOnce, Chained
<1>7. CASE ExhaustRead \/ ReadEnd
  <2>1. OnlySealed'
    BY <1>0, <1>7 DEF ExhaustRead, ReadEnd, OnlySealed
  <2>2. ReaderPlace' /\ InOrder'
    BY <1>0, <1>7 DEF ExhaustRead, ReadEnd, FailRead, ReaderPlace, InOrder
  <2> QED
    BY <1>1, <1>6, <1>7, <2>1, <2>2 DEF ExhaustRead, ReadEnd, StreamInv
<1>8. CASE TakePrefix
  <2>1. wire # <<>> /\ wire' = Tail(wire) /\ UNCHANGED writerVars
    BY <1>8 DEF TakePrefix, Arrived
  <2>2. ReaderPlace' /\ InOrder'
    BY <1>0, <1>8 DEF TakePrefix, ReaderPlace, InOrder
  <2> QED
    BY <1>0, <1>1, <1>6, <2>1, <2>2, TailOnlySealed DEF StreamInv
<1>9. CASE TakeFrame
  <2>1. wire # <<>> /\ wire' = Tail(wire) /\ UNCHANGED writerVars
    BY <1>9 DEF TakeFrame, Arrived
  <2>2. ASSUME Opens(Head(wire)) PROVE ReaderPlace' /\ InOrder'
    <3> DEFINE f == Head(wire)
    <3>1. f \in sealed /\ f.seq = readSeq /\ f.from \in Nat /\ f.to \in Nat /\ f.from < f.to
      BY <1>0, <2>1, <2>2, HeadAndTail DEF Opens, OnlySealed, Chained, TypeOK, Frames
    <3>2. /\ readSeq' = readSeq + 1 /\ plain' = [from |-> f.from, to |-> f.to]
          /\ got' = got /\ prefixOK' = prefixOK /\ prefixSeen' = prefixSeen /\ prefixSeen
          /\ plain.from = plain.to /\ readSeq \in Nat
      BY <1>0, <1>9, <2>2 DEF TakeFrame, NeedsFrame, TypeOK
    <3>3. f.from = plain.to
      BY <1>0, <3>1, <3>2 DEF ReaderPlace, Chained, TypeOK, Frames
    <3> HIDE DEF f
    <3>4. ReaderPlace'
      BY <1>0, <2>1, <3>1, <3>2, <3>3 DEF ReaderPlace
    <3>5. InOrder'
      BY <1>0, <2>1, <3>2 DEF InOrder
    <3> QED
      BY <3>4, <3>5
  <2>3. ASSUME ~Opens(Head(wire)) PROVE ReaderPlace' /\ InOrder'
    BY <1>0, <1>9, <2>3 DEF TakeFrame, FailRead, ReaderPlace, InOrder
  <2> QED
    BY <1>0, <1>1, <1>6, <2>1, <2>2, <2>3, TailOnlySealed DEF StreamInv
<1>10. CASE ReadUnit
  <2>1. /\ UNCHANGED <<writerVars, wireVars, readSeq, prefixSeen, readErr, prefixOK>>
        /\ plain.from \in Nat /\ plain.to \in Nat /\ plain.from < plain.to
        /\ got' = Append(got, plain.from)
        /\ plain'.from = plain.from + 1 /\ plain'.to = plain.to
    BY <1>0, <1>10 DEF ReadUnit, TypeOK
  <2>2. Len(got') = plain'.from /\ \A i \in DOMAIN got' : got'[i] = i - 1
    BY <1>0, <2>1 DEF ReaderPlace, InOrder, TypeOK
  <2>3. plain.to <= asked
    BY <1>0, <2>1 DEF ReaderPlace, Chained, TypeOK
  <2>4. ReaderPlace'
    BY <1>0, <2>1, <2>2 DEF ReaderPlace
  <2>5. InOrder'
    BY <1>0, <2>1, <2>2, <2>3 DEF InOrder, TypeOK
  <2>6. OnlySealed'
    BY <1>0, <2>1 DEF OnlySealed
  <2> QED
    BY <1>1, <1>6, <2>1, <2>4, <2>5, <2>6 DEF StreamInv
<1>11. CASE UNCHANGED vars
  <2>1. NonceOnce' /\ Chained' /\ OnlySealed'
    BY <1>0, <1>11 DEF vars, NonceOnce, Chained, OnlySealed
  <2>2. ReaderPlace' /\ InOrder'
    BY <1>0, <1>11 DEF vars, readerVars, ReaderPlace, InOrder
  <2> QED
    BY <1>1, <2>1, <2>2 DEF StreamInv
<1> QED
  BY <1>2, <1>3, <1>4, <1>5, <1>7, <1>8, <1>9, <1>10, <1>11 DEF Next

\* A nonce is spent once, even by a writer whose connection fails.
THEOREM NoncesAreSpentOnce == Spec => []NonceOnce
<1>1. StreamInv => NonceOnce
  BY DEF StreamInv
<1> QED
  BY <1>1, StreamInit, StreamStep, PTL DEF Spec

\* Whatever the relay and the networks do to frames, an application never reads
\* anything but a beginning of what the other wrote.
THEOREM ReadsABeginning == Spec => []InOrder
<1>1. StreamInv => InOrder
  BY DEF StreamInv
<1> QED
  BY <1>1, StreamInit, StreamStep, PTL DEF Spec

------------------------------------------------------------------------------
(* A stream nothing happened to is read whole *)

QuietInv == InStep /\ StoppedAtEnd

LEMMA QuietInit == SealedInit => QuietInv
  BY DEF SealedInit, QuietInv, InStep, StoppedAtEnd, Ahead

\* A step that leaves the wire and the counters alone keeps them in step.
LEMMA InStepFrame ==
  ASSUME InStep, Quiet' => Quiet,
         UNCHANGED <<wire, writeSeq, readSeq, prefixSent, prefixSeen, prefixOK>>
  PROVE  InStep'
  BY DEF InStep, Ahead

\* A write that succeeds puts the next frame behind the others.
LEMMA WriteInStep ==
  ASSUME StreamInv, InStep, WriteFrame, Quiet
  PROVE  InStep'
<1>1. /\ TypeOK /\ ReaderPlace /\ Writing
      /\ prefixSent' = TRUE /\ writeSeq' = writeSeq + 1 /\ wire' = wire \o Packet
      /\ UNCHANGED <<readSeq, prefixSeen, prefixOK>>
  BY DEF StreamInv, WriteFrame, Seal, readerVars
<1>2. Chunk.kind = "frame" /\ Chunk.seq = writeSeq /\ Chunk \in Pieces /\ Prefix \in Pieces
  BY <1>1, ChunkIsFrame DEF Pieces
<1>3. writeSeq \in Nat /\ readSeq \in Nat /\ wire \in Seq(Pieces) /\ Len(wire) \in Nat
  BY <1>1 DEF TypeOK
<1>4. CASE prefixSent
  <2>1. Ahead' = Ahead /\ Ahead \in {0, 1}
    BY <1>1, <1>4 DEF Ahead
  <2>2. /\ wire' = wire \o <<Chunk>> /\ Len(wire') = Len(wire) + 1
        /\ wire'[Len(wire) + 1] = Chunk
        /\ \A i \in 1..Len(wire) : wire'[i] = wire[i]
    BY <1>1, <1>2, <1>3, <1>4 DEF Packet
  <2>3. /\ Len(wire) = Ahead + writeSeq - readSeq
        /\ Ahead = 1 => wire[1] = Prefix
        /\ \A i \in 1..Len(wire) :
            i > Ahead => wire[i].kind = "frame" /\ wire[i].seq = readSeq + i - 1 - Ahead
        /\ prefixSeen => prefixOK
        /\ writeSeq > 0 /\ writeSeq >= readSeq
    <3>1. /\ Len(wire) = Ahead + writeSeq - readSeq
          /\ Ahead = 1 => wire[1] = Prefix
          /\ prefixSeen => prefixOK
          /\ writeSeq > 0
      BY <1>4 DEF InStep
    <3>2. \A i \in 1..Len(wire) :
            i > Ahead => wire[i].kind = "frame" /\ wire[i].seq = readSeq + i - 1 - Ahead
      BY <1>3 DEF InStep
    <3>3. writeSeq >= readSeq
      BY <1>1, <1>3, <1>4, <3>1 DEF ReaderPlace, Ahead
    <3> QED
      BY <3>1, <3>2, <3>3
  <2>4. DOMAIN wire' = 1..(Len(wire) + 1)
    BY <1>1, <1>2, <1>3, <1>4 DEF Packet
  <2>5. \A i \in DOMAIN wire' :
            i > Ahead => wire'[i].kind = "frame" /\ wire'[i].seq = readSeq + i - 1 - Ahead
    <3> SUFFICES ASSUME NEW i \in 1..(Len(wire) + 1), i > Ahead
                 PROVE  wire'[i].kind = "frame" /\ wire'[i].seq = readSeq + i - 1 - Ahead
      BY <2>4
    <3>1. CASE i \in 1..Len(wire)
      BY <2>2, <2>3, <3>1
    <3>2. CASE i = Len(wire) + 1
      BY <1>2, <1>3, <2>1, <2>2, <2>3, <3>2
    <3> QED
      BY <1>3, <3>1, <3>2
  <2>6. Ahead = 1 => wire'[1] = Prefix
    BY <1>3, <2>2, <2>3
  <2>7. Len(wire') = Ahead' + writeSeq' - readSeq'
    BY <1>1, <1>3, <2>1, <2>2, <2>3
  <2>8. /\ prefixSent' <=> writeSeq' > 0
        /\ prefixSeen' => prefixSent' /\ prefixOK'
    BY <1>1, <1>3, <2>3
  <2>9. \A i \in DOMAIN wire' :
            i > Ahead' => wire'[i].kind = "frame" /\ wire'[i].seq = readSeq' + i - 1 - Ahead'
    BY <1>1, <2>1, <2>5
  <2> QED
    BY <2>1, <2>6, <2>7, <2>8, <2>9 DEF InStep
<1>5. CASE ~prefixSent
  <2>1. writeSeq = 0 /\ ~prefixSeen /\ readSeq = 0 /\ Len(wire) = 0
    BY <1>1, <1>3, <1>5 DEF InStep, ReaderPlace, Ahead
  <2>2. wire' = <<Prefix, Chunk>>
    BY <1>1, <1>2, <1>3, <1>5, <2>1 DEF Packet
  <2>3. Ahead' = 1
    BY <1>1, <2>1 DEF Ahead
  <2>4. Len(wire') = 2 /\ wire'[1] = Prefix /\ wire'[2] = Chunk /\ DOMAIN wire' = 1..2
    BY <2>2
  <2> QED
    BY <1>1, <1>2, <2>1, <2>3, <2>4 DEF InStep
<1> QED
  BY <1>4, <1>5

\* The reader finds the prefix first.
LEMMA PrefixInStep ==
  ASSUME StreamInv, InStep, TakePrefix, Quiet
  PROVE  InStep'
<1>1. TypeOK /\ ReaderPlace /\ wire # <<>> /\ ~prefixSeen /\ readSeq = 0
  BY DEF StreamInv, TakePrefix, Arrived, ReaderPlace
<1>2. /\ prefixSeen' = TRUE /\ prefixOK' = (Head(wire) = Prefix) /\ wire' = Tail(wire)
      /\ UNCHANGED <<writeSeq, prefixSent, readSeq>>
  BY DEF TakePrefix, writerVars
<1>3. prefixSent
  <2>1. Len(wire) > 0 /\ writeSeq \in Nat
    BY <1>1 DEF TypeOK
  <2> QED
    BY <1>1, <2>1 DEF InStep, Ahead
<1>4. Ahead = 1 /\ Ahead' = 0
  BY <1>1, <1>2, <1>3 DEF Ahead
<1>5. /\ Len(wire) = 1 + writeSeq /\ wire[1] = Prefix /\ writeSeq > 0
      /\ \A i \in DOMAIN wire : i > 1 => wire[i].kind = "frame" /\ wire[i].seq = i - 2
  <2>1. DOMAIN wire = 1..Len(wire) /\ Len(wire) \in Nat /\ writeSeq \in Nat
    BY <1>1 DEF TypeOK
  <2>2. Len(wire) = 1 + writeSeq - 0 /\ wire[1] = Prefix /\ writeSeq > 0
    BY <1>1, <1>3, <1>4 DEF InStep
  <2>3. \A i \in DOMAIN wire : i > 1 => wire[i].kind = "frame" /\ wire[i].seq = 0 + i - 1 - 1
    BY <1>1, <1>4 DEF InStep
  <2>4. \A i \in DOMAIN wire : 0 + i - 1 - 1 = i - 2
    BY <2>1
  <2> QED
    BY <2>1, <2>2, <2>3, <2>4
<1>6. /\ Head(wire) = wire[1] /\ Len(Tail(wire)) = Len(wire) - 1
      /\ DOMAIN Tail(wire) = 1..(Len(wire) - 1)
      /\ \A j \in DOMAIN Tail(wire) : j + 1 \in DOMAIN wire /\ Tail(wire)[j] = wire[j + 1]
  BY <1>1, HeadAndTail DEF TypeOK
<1>7. prefixOK' = TRUE
  BY <1>2, <1>5, <1>6
<1>8. \A i \in DOMAIN wire' : wire'[i].kind = "frame" /\ wire'[i].seq = i - 1
  BY <1>2, <1>5, <1>6
<1> QED
  BY <1>1, <1>2, <1>3, <1>4, <1>5, <1>6, <1>7, <1>8 DEF InStep, TypeOK

\* What the reader finds behind it is the frame of its counter.
LEMMA HeadOpens ==
  ASSUME StreamInv, InStep, Quiet, wire # <<>>, prefixSeen
  PROVE  Opens(Head(wire)) /\ Ahead = 0
<1>1. TypeOK /\ Head(wire) = wire[1] /\ 1 \in DOMAIN wire
  BY HeadAndTail DEF StreamInv
<1>2. Ahead = 0 /\ prefixOK
  BY DEF Ahead, InStep
<1>3. wire[1].kind = "frame" /\ wire[1].seq = readSeq + 1 - 1 - 0
  BY <1>1, <1>2 DEF InStep
<1> QED
  BY <1>1, <1>2, <1>3 DEF Opens, TypeOK

LEMMA FrameInStep ==
  ASSUME StreamInv, InStep, TakeFrame, Quiet
  PROVE  InStep' /\ readErr' = "none"
<1>1. TypeOK /\ wire # <<>> /\ prefixSeen /\ readErr = "none"
  BY DEF StreamInv, TakeFrame, Arrived, NeedsFrame
<1>2. Opens(Head(wire)) /\ Ahead = 0
  BY <1>1, HeadOpens
<1>3. /\ readSeq' = readSeq + 1 /\ wire' = Tail(wire)
      /\ UNCHANGED <<writeSeq, prefixSent, prefixSeen, prefixOK, readErr>>
  BY <1>2 DEF TakeFrame, writerVars
<1>4. Ahead' = 0
  BY <1>1, <1>3 DEF Ahead
<1>5. /\ Len(wire) = writeSeq - readSeq /\ prefixSent /\ prefixOK /\ writeSeq > 0
      /\ \A i \in DOMAIN wire : wire[i].kind = "frame" /\ wire[i].seq = readSeq + i - 1
  BY <1>1, <1>2 DEF InStep, TypeOK
<1>6. /\ Len(Tail(wire)) = Len(wire) - 1
      /\ \A j \in DOMAIN Tail(wire) : /\ j \in Nat /\ j + 1 \in DOMAIN wire
                                      /\ Tail(wire)[j] = wire[j + 1]
  BY <1>1, HeadAndTail DEF TypeOK
<1>7. \A i \in DOMAIN wire' : wire'[i].kind = "frame" /\ wire'[i].seq = readSeq' + i - 1 - 0
  BY <1>1, <1>3, <1>5, <1>6 DEF TypeOK
<1>8. Len(wire') = 0 + writeSeq' - readSeq'
  BY <1>1, <1>3, <1>5, <1>6 DEF TypeOK
<1> QED
  BY <1>1, <1>3, <1>4, <1>5, <1>7, <1>8 DEF InStep

\* An end the reader meets while all is quiet is a clean one.
LEMMA EndIsClean ==
  ASSUME StreamInv, InStep, Quiet, ~Arrived
  PROVE  wire = <<>>
<1> SUFFICES ASSUME wire # <<>> PROVE FALSE
  OBVIOUS
<1>1. /\ TypeOK /\ Head(wire) = wire[1] /\ 1 \in DOMAIN wire
      /\ wire[1] = Torn
  BY HeadAndTail DEF StreamInv, Arrived
<1>2. Ahead \in {0, 1}
  BY DEF Ahead
<1>3. wire[1] = Prefix \/ wire[1].kind = "frame"
  BY <1>1, <1>2 DEF InStep
<1> QED
  BY <1>1, <1>3 DEF Prefix, Torn

LEMMA QuietStep == StreamInv /\ QuietInv /\ [Next]_vars => QuietInv'
<1> SUFFICES ASSUME StreamInv, QuietInv, [Next]_vars, Quiet' PROVE QuietInv'
  BY DEF QuietInv, InStep, StoppedAtEnd
<1>0. InStep /\ StoppedAtEnd /\ TypeOK
  BY DEF QuietInv, StreamInv
<1> USE DEF writerVars, wireVars, readerVars
<1>1. ASSUME NEW n \in 1..MaxUnits, StartWrite(n) PROVE QuietInv'
  <2>1. Quiet
    BY <1>1 DEF StartWrite, Quiet
  <2> QED
    BY <1>0, <1>1, <2>1, InStepFrame DEF StartWrite, QuietInv, StoppedAtEnd
<1>2. CASE Exhaust \/ Close
  <2>1. Quiet
    BY <1>2 DEF Exhaust, Close, Quiet, Writing
  <2> QED
    BY <1>0, <1>2, <2>1, InStepFrame DEF Exhaust, Close, QuietInv, StoppedAtEnd
<1>3. CASE WriteFrame
  <2>1. Quiet
    BY <1>3 DEF WriteFrame, Quiet
  <2>2. StoppedAtEnd'
    BY <1>0, <1>3, <2>1 DEF WriteFrame, StoppedAtEnd
  <2> QED
    BY <1>0, <1>3, <2>1, <2>2, WriteInStep DEF QuietInv
<1>4. CASE WriteFails
  BY <1>4 DEF WriteFails, Quiet
<1>5. CASE Damage \/ Cut
  BY <1>0, <1>5 DEF Damage, Cut, Quiet, TypeOK
<1>6. CASE ExhaustRead
  <2>1. Quiet
    BY <1>6 DEF ExhaustRead, Quiet
  <2> QED
    BY <1>0, <1>6, <2>1, InStepFrame DEF ExhaustRead, FailRead, NeedsFrame, QuietInv, StoppedAtEnd
<1>7. CASE TakePrefix
  <2>1. Quiet
    BY <1>7 DEF TakePrefix, Quiet
  <2>2. StoppedAtEnd'
    BY <1>0, <1>7, <2>1 DEF TakePrefix, NeedsFrame, StoppedAtEnd
  <2> QED
    BY <1>0, <1>7, <2>1, <2>2, PrefixInStep DEF QuietInv
<1>8. CASE TakeFrame
  <2>1. Quiet
    BY <1>8 DEF TakeFrame, Quiet
  <2>2. InStep' /\ readErr' = "none"
    BY <1>0, <1>8, <2>1, FrameInStep
  <2> QED
    BY <2>2 DEF QuietInv, StoppedAtEnd
<1>9. CASE ReadEnd
  <2>1. Quiet
    BY <1>9 DEF ReadEnd, Quiet
  <2>2. wire = <<>>
    BY <1>0, <1>9, <2>1, EndIsClean DEF ReadEnd
  <2> QED
    BY <1>0, <1>9, <2>1, <2>2, InStepFrame DEF ReadEnd, FailRead, NeedsFrame, QuietInv, StoppedAtEnd
<1>10. CASE ReadUnit
  <2>1. Quiet
    BY <1>10 DEF ReadUnit, Quiet
  <2> QED
    BY <1>0, <1>10, <2>1, InStepFrame DEF ReadUnit, QuietInv, StoppedAtEnd
<1>11. CASE UNCHANGED vars
  <2>1. Quiet
    BY <1>11 DEF vars, Quiet
  <2> QED
    BY <1>0, <1>11, <2>1, InStepFrame DEF vars, QuietInv, StoppedAtEnd
<1> QED
  BY <1>1, <1>2, <1>3, <1>4, <1>5, <1>6, <1>7, <1>8, <1>9, <1>10, <1>11 DEF Next

\* Where nothing but the end happens to a stream its reader never fails, and has
\* read all that was reported written when it stops.
THEOREM QuietStreamIsWhole == Spec => []WholeWhenQuiet
<1>1. StreamInv /\ QuietInv => WholeWhenQuiet
  <2> SUFFICES ASSUME StreamInv, QuietInv, Quiet, readErr # "none"
               PROVE  Len(got) = written
    BY DEF QuietInv, StoppedAtEnd, WholeWhenQuiet
  <2>1. /\ TypeOK /\ Chained /\ ReaderPlace
        /\ plain.from = plain.to /\ writeErr # "broken"
        /\ readErr = "eof" \/ readErr = "exhausted"
    BY DEF StreamInv, QuietInv, StoppedAtEnd, TypeOK, Quiet
  <2>2. writeSeq \in Nat /\ readSeq \in Nat /\ writeSeq <= MaxSeq /\ Ahead \in {0, 1}
    BY <2>1 DEF TypeOK, Ahead
  <2>3. Len(wire) \in Nat /\ Len(wire) = Ahead + writeSeq - readSeq
    BY <2>1 DEF QuietInv, InStep, TypeOK
  <2>4. readSeq = writeSeq
    <3>1. CASE readErr = "eof"
      <4>1. Len(wire) = 0
        BY <3>1 DEF QuietInv, StoppedAtEnd
      <4>2. Ahead = 1 => readSeq = 0
        BY <2>1 DEF Ahead, ReaderPlace
      <4> QED
        BY <2>2, <2>3, <4>1, <4>2
    <3>2. CASE readErr = "exhausted"
      <4>1. readSeq = MaxSeq
        BY <3>2 DEF QuietInv, StoppedAtEnd
      <4>2. Ahead = 1 => readSeq = 0
        BY <2>1 DEF Ahead, ReaderPlace
      <4>3. Ahead = 1 => writeSeq > 0
        BY DEF Ahead, QuietInv, InStep
      <4> QED
        BY <2>2, <2>3, <4>1, <4>2, <4>3
    <3> QED
      BY <2>1, <3>1, <3>2
  <2>5. CASE readSeq = 0
    BY <2>1, <2>4, <2>5 DEF ReaderPlace, Chained
  <2>6. CASE readSeq > 0
    <3>1. PICK f \in sealed : f.seq = readSeq - 1 /\ f.to = plain.to
      BY <2>1, <2>6 DEF ReaderPlace
    <3>2. f.to = written
      BY <2>1, <2>4, <3>1 DEF Chained
    <3> QED
      BY <2>1, <3>1, <3>2 DEF ReaderPlace
  <2> QED
    BY <2>2, <2>5, <2>6
<1> QED
  BY <1>1, StreamInit, StreamStep, QuietInit, QuietStep, PTL DEF Spec
=============================================================================
