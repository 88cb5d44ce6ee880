----------------------- MODULE SealedStreamProperties -----------------------
(***************************************************************************)
(* What an encrypted stream owes the two who talk over it.                 *)
(***************************************************************************)
EXTENDS SealedStream

TypeOK ==
    /\ asked \in Nat /\ written \in Nat /\ written <= asked
    /\ writeSeq \in 0..MaxSeq /\ prefixSent \in BOOLEAN
    /\ writeErr \in {"none", "exhausted", "broken"}
    /\ sealed \subseteq Frames
    /\ wire \in Seq(Pieces)
    /\ ended \in BOOLEAN /\ faults \in Nat
    /\ readSeq \in 0..MaxSeq /\ prefixSeen \in BOOLEAN /\ prefixOK \in BOOLEAN
    /\ readErr \in {"none", "exhausted", "broken", "eof"}
    /\ plain \in [from : Nat, to : Nat]
    /\ got \in Seq(Nat)

\* No two different frames are ever sealed under one counter, failed writes
\* included: a nonce is spent once (frame_conn.go:122-125).
NonceOnce == \A f, g \in sealed : f.seq = g.seq => f = g

\* Frames follow each other without a gap: each begins where the last ended,
\* and all but one that failed have been reported written.
Chained ==
    /\ \A f \in sealed :
        /\ f.seq < writeSeq
        /\ f.from < f.to /\ f.to <= asked
        /\ f.seq = 0 => f.from = 0
        /\ writeErr # "broken" => f.to <= written
        /\ f.seq = writeSeq - 1 /\ writeErr # "broken" => f.to = written
    /\ \A f, g \in sealed : g.seq = f.seq + 1 => g.from = f.to
    /\ writeSeq = 0 => written = 0

\* The transport may move and repeat frames; it seals none.
OnlySealed == \A i \in DOMAIN wire : wire[i].kind = "frame" => wire[i] \in sealed

\* Where the reader is: at the end of the frame it opened last.
ReaderPlace ==
    /\ plain.from <= plain.to
    /\ Len(got) = plain.from
    /\ readSeq = 0 => plain.to = 0
    /\ readSeq > 0 => \E f \in sealed : f.seq = readSeq - 1 /\ f.to = plain.to
    /\ prefixOK => prefixSeen
    /\ ~prefixSeen => readSeq = 0

\* Whatever happens to the bytes under way, the plaintext that comes out is a
\* beginning of what went in: nothing is altered, skipped, repeated or added
\* (frame_conn.go:58-63).
InOrder ==
    /\ \A i \in DOMAIN got : got[i] = i - 1
    /\ Len(got) <= asked

\* The inductive invariant.
StreamInv == TypeOK /\ NonceOnce /\ Chained /\ OnlySealed /\ ReaderPlace /\ InOrder

\* Nothing has happened to the stream but its end.
Quiet == faults = 0 /\ writeErr # "broken"

\* The prefix is on its way.
Ahead == IF prefixSent /\ ~prefixSeen THEN 1 ELSE 0

\* While all is quiet the wire holds the frames from the reader's counter to the
\* writer's, behind the prefix if the reader has not had it.
InStep ==
    Quiet =>
        /\ prefixSent <=> writeSeq > 0
        /\ prefixSeen => prefixSent /\ prefixOK
        /\ Len(wire) = Ahead + writeSeq - readSeq
        /\ Ahead = 1 => wire[1] = Prefix
        /\ \A i \in DOMAIN wire :
            i > Ahead => wire[i].kind = "frame" /\ wire[i].seq = readSeq + i - 1 - Ahead

\* A reader that stopped while all was quiet stopped at the end.
StoppedAtEnd ==
    Quiet =>
        /\ readErr # "broken"
        /\ readErr # "none" => plain.from = plain.to
        /\ readErr = "eof" => ended /\ wire = <<>>
        /\ readErr = "exhausted" => readSeq = MaxSeq

\* A stream nothing happened to never fails on its reader, however reads and
\* writes interleave: the counters do not drift (frame_conn.go:67-70).  When
\* the reader is told of the end it has had every unit Write reported written.
WholeWhenQuiet ==
    Quiet =>
        /\ readErr # "broken"
        /\ readErr # "none" => Len(got) = written
=============================================================================
