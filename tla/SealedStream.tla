---------------------------- MODULE SealedStream ----------------------------
(***************************************************************************)
(* One direction of an EncryptedConn (proto/frame_conn.go): a writer that  *)
(* seals what it is given in numbered frames, a reader that opens them,    *)
(* and between them the relay and two networks.  Tunnel takes this stream  *)
(* for what it is shown to be here.                                        *)
(*                                                                         *)
(* Plaintext is counted in units, each named by its place in what the      *)
(* application writes.  A frame opens only under the key, the prefix and   *)
(* the counter it was sealed with: a frame of another stream, which has    *)
(* another key, is Junk here like one that was altered.                    *)
(***************************************************************************)
EXTENDS Integers, Sequences

CONSTANTS
    MaxSeq,         \* the counter's last value, math.MaxUint64
    FrameUnits,     \* maxFramePlaintext
    MaxUnits,       \* bound on what the application writes
    MaxFaults       \* bound on what happens to the bytes under way

ASSUME SealedAssumption ==
    /\ MaxSeq \in Nat /\ FrameUnits \in Nat \ {0}
    /\ MaxUnits \in Nat /\ MaxFaults \in Nat

VARIABLES
    asked,          \* units handed to Write so far
    written,        \* units Write has reported written
    writeSeq, prefixSent, writeErr,
    sealed,         \* every frame ever sealed: the nonces spent
    wire,           \* what is under way to the reader
    ended,          \* nothing more is put on the wire
    faults,         \* what has happened to the wire
    readSeq, prefixSeen, readErr,
    prefixOK,       \* readPrefix is the writer's
    plain,          \* the units of a frame that no Read has returned yet
    got             \* what Reads have returned

writerVars == <<asked, written, writeSeq, prefixSent, writeErr, sealed>>
wireVars == <<wire, ended, faults>>
readerVars == <<readSeq, prefixSeen, readErr, prefixOK, plain, got>>
vars == <<writerVars, wireVars, readerVars>>

Prefix == [kind |-> "prefix"]
Junk == [kind |-> "junk"]       \* bytes that open under no nonce of this stream
Torn == [kind |-> "torn"]       \* the beginning of a prefix, a header or a body
Frame(seq, from, to) == [kind |-> "frame", seq |-> seq, from |-> from, to |-> to]
Frames == [kind : {"frame"}, seq : Nat, from : Nat, to : Nat]
Pieces == Frames \cup {Prefix, Junk, Torn}

SealedInit ==
    /\ asked = 0 /\ written = 0
    /\ writeSeq = 0 /\ prefixSent = FALSE /\ writeErr = "none" /\ sealed = {}
    /\ wire = <<>> /\ ended = FALSE /\ faults = 0
    /\ readSeq = 0 /\ prefixSeen = FALSE /\ readErr = "none" /\ prefixOK = FALSE
    /\ plain = [from |-> 0, to |-> 0]
    /\ got = <<>>

------------------------------------------------------------------------------
(* The writer *)

\* Write holds writeMu until it returns: one at a time.
StartWrite(n) ==
    /\ writeErr = "none" /\ asked = written
    /\ n > 0 /\ asked + n <= MaxUnits
    /\ asked' = asked + n
    /\ UNCHANGED <<written, writeSeq, prefixSent, writeErr, sealed, wireVars, readerVars>>

Writing == writeErr = "none" /\ written < asked

Exhaust ==
    /\ Writing /\ writeSeq = MaxSeq
    /\ writeErr' = "exhausted"
    /\ UNCHANGED <<asked, written, writeSeq, prefixSent, sealed, wireVars, readerVars>>

\* The next chunk of the Write in progress, sealed.
Chunk ==
    LET left == asked - written IN
    Frame(writeSeq, written, written + (IF left > FrameUnits THEN FrameUnits ELSE left))

\* The prefix rides in front of the first frame, in the same write.
Packet == IF prefixSent THEN <<Chunk>> ELSE <<Prefix, Chunk>>

Seal ==
    /\ Writing /\ writeSeq < MaxSeq
    /\ sealed' = sealed \cup {Chunk}
    /\ writeSeq' = writeSeq + 1

(* Plausible bugs: each is substituted for its original to see that a        *)
(* property notices.                                                         *)

\* The prefix is not remembered as sent.
WriteFrameAgain ==
    /\ ~ended
    /\ Seal
    /\ wire' = wire \o <<Prefix, Chunk>>
    /\ written' = Chunk.to
    /\ UNCHANGED <<asked, prefixSent, writeErr, ended, faults, readerVars>>

\* A failed write is forgotten, its counter not spent and its data dropped.
WriteFailsForgotten ==
    /\ Writing /\ writeSeq < MaxSeq
    /\ sealed' = sealed \cup {Chunk}
    /\ asked' = written + 1 /\ written' = written + 1
    /\ UNCHANGED <<writeSeq, prefixSent, writeErr, wireVars, readerVars>>

\* The reader believes a counter that travels with the frame.
OpensAny(f) == prefixOK /\ f.kind = "frame"

WriteFrame ==
    /\ ~ended
    /\ Seal
    /\ wire' = wire \o Packet
    /\ prefixSent' = TRUE
    /\ written' = Chunk.to
    /\ UNCHANGED <<asked, writeErr, ended, faults, readerVars>>

\* What a write that fails leaves on the wire: any part of it, or all.
Remains ==
    {<<>>, <<Torn>>, Packet}
    \cup IF prefixSent THEN {} ELSE {<<Prefix>>, <<Prefix, Torn>>}

\* writeFull fails: the error is kept, and the counter has moved all the same.
WriteFails ==
    /\ Seal
    /\ \E rest \in Remains : wire' = wire \o IF ended THEN <<>> ELSE rest
    /\ writeErr' = "broken"
    /\ UNCHANGED <<asked, written, prefixSent, ended, faults, readerVars>>

\* The splice closes the stream, in the middle of a Write perhaps.
Close ==
    /\ ~ended
    /\ ended' = TRUE
    /\ UNCHANGED <<writerVars, wire, faults, readerVars>>

------------------------------------------------------------------------------
(* The relay and the networks: they may do anything to bytes but seal them *)

Lose(i) == [j \in 1..(Len(wire) - 1) |-> wire[IF j < i THEN j ELSE j + 1]]
Repeat(i) == [j \in 1..(Len(wire) + 1) |-> wire[IF j <= i THEN j ELSE j - 1]]
Swap(i, k) == [wire EXCEPT ![i] = wire[k], ![k] = wire[i]]
Alter(i) == [wire EXCEPT ![i] = Junk]

Damage ==
    /\ faults < MaxFaults
    /\ \E i \in 1..Len(wire) :
        wire' \in {Lose(i), Repeat(i), Alter(i)} \cup {Swap(i, k) : k \in 1..Len(wire)}
    /\ faults' = faults + 1
    /\ UNCHANGED <<writerVars, ended, readerVars>>

\* A connection is reset, the relay stops, the reader's own side closes: the
\* rest is lost.
Cut ==
    /\ faults < MaxFaults
    /\ \E i \in 0..Len(wire) :
        wire' \in {SubSeq(wire, 1, i), Append(SubSeq(wire, 1, i), Torn)}
    /\ ended' = TRUE
    /\ faults' = faults + 1
    /\ UNCHANGED <<writerVars, readerVars>>

------------------------------------------------------------------------------
(* The reader *)

\* Read goes to the wire only when it has nothing left to return.
NeedsFrame == readErr = "none" /\ plain.from = plain.to

FailRead(err) ==
    /\ readErr' = err
    /\ UNCHANGED <<readSeq, prefixSeen, prefixOK, plain, got>>

ExhaustRead ==
    /\ NeedsFrame /\ readSeq = MaxSeq
    /\ FailRead("exhausted")
    /\ UNCHANGED <<writerVars, wireVars>>

\* What io.ReadFull can take whole.
Arrived == wire # <<>> /\ Head(wire) # Torn

TakePrefix ==
    /\ NeedsFrame /\ readSeq < MaxSeq /\ ~prefixSeen /\ Arrived
    /\ prefixSeen' = TRUE
    /\ prefixOK' = (Head(wire) = Prefix)
    /\ wire' = Tail(wire)
    /\ UNCHANGED <<writerVars, ended, faults, readSeq, readErr, plain, got>>

\* The reader counts frames itself: the counter does not travel.
Opens(f) == prefixOK /\ f.kind = "frame" /\ f.seq = readSeq

TakeFrame ==
    /\ NeedsFrame /\ readSeq < MaxSeq /\ prefixSeen /\ Arrived
    /\ LET f == Head(wire) IN
       IF Opens(f)
       THEN /\ readSeq' = readSeq + 1
            /\ plain' = [from |-> f.from, to |-> f.to]
            /\ UNCHANGED <<prefixSeen, readErr, prefixOK, got>>
       ELSE FailRead("broken")
    /\ wire' = Tail(wire)
    /\ UNCHANGED <<writerVars, ended, faults>>

\* The end is clean where a prefix or a header would begin, and only there.
ReadEnd ==
    /\ NeedsFrame /\ readSeq < MaxSeq /\ ended /\ ~Arrived
    /\ FailRead(IF wire = <<>> THEN "eof" ELSE "broken")
    /\ UNCHANGED <<writerVars, wireVars>>

\* A Read returns what fits its buffer: one unit, the smallest.
ReadUnit ==
    /\ readErr = "none" /\ plain.from < plain.to
    /\ got' = Append(got, plain.from)
    /\ plain' = [plain EXCEPT !.from = @ + 1]
    /\ UNCHANGED <<writerVars, wireVars, readSeq, prefixSeen, readErr, prefixOK>>

------------------------------------------------------------------------------
Next ==
    \/ \E n \in 1..MaxUnits : StartWrite(n)
    \/ Exhaust \/ WriteFrame \/ WriteFails \/ Close
    \/ Damage \/ Cut
    \/ ExhaustRead \/ TakePrefix \/ TakeFrame \/ ReadEnd \/ ReadUnit

Spec == SealedInit /\ [][Next]_vars
=============================================================================
