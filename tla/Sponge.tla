------------------------------- MODULE Sponge -------------------------------
(***************************************************************************)
(* Hashing of messages of any length (HashBytesX, SpongeHashX): frames of  *)
(* frameSize inputs, the first of which is, after the first frame, the     *)
(* hash of the frame before.  Hash (Compress here) is symbolic: it has no  *)
(* collisions, and no hash is a number that is read from bytes.            *)
(***************************************************************************)
EXTENDS Integers, Sequences

CONSTANTS
    Bytes,
    ZeroByte,
    spongeChunkSize,   \* 31
    FrameSizes,        \* the frame sizes callers may ask for
    MaxLength          \* bound on the length of a message

ASSUME SpongeAssumption ==
    /\ ZeroByte \in Bytes
    /\ spongeChunkSize \in Nat \ {0}
    /\ FrameSizes \subseteq 2 .. 16
    /\ MaxLength \in Nat

VARIABLE msg   \* the message so far

\* The number SetBytes makes of a chunk of bytes.
Number(chunk) == <<"bytes", chunk>>

Zero == Number([i \in 1 .. spongeChunkSize |-> ZeroByte])

Compress(frame) == <<"hash", frame>>

NoHash == <<>>   \* nil

\* A frame that begins with x, and that is not filled any further.
Frame(x, frameSize) == [j \in 1 .. frameSize |-> IF j = 1 THEN x ELSE Zero]

Start(frameSize) == [frame |-> Frame(Zero, frameSize), k |-> 0, dirty |-> FALSE, hash |-> NoHash]

Put(s, x) == [s EXCEPT !.frame[s.k + 1] = x, !.dirty = TRUE]

\* Faulty variants: the frame after a full one does not begin with its hash; it
\* begins with it, and the next input goes there, too.
AbsorbUnchained(s, x, frameSize) ==
    LET full == Put(s, x) IN
    IF s.k < frameSize - 1 THEN [full EXCEPT !.k = s.k + 1]
    ELSE [frame |-> Frame(Zero, frameSize), k |-> 1, dirty |-> FALSE,
          hash |-> Compress(full.frame)]

AbsorbOver(s, x, frameSize) ==
    LET full == Put(s, x) IN
    IF s.k < frameSize - 1 THEN [full EXCEPT !.k = s.k + 1]
    ELSE [frame |-> Frame(Compress(full.frame), frameSize), k |-> 0, dirty |-> FALSE,
          hash |-> Compress(full.frame)]

\* One round of either loop.
Absorb(s, x, frameSize) ==
    LET full == Put(s, x) IN
    IF s.k < frameSize - 1 THEN [full EXCEPT !.k = s.k + 1]
    ELSE [frame |-> Frame(Compress(full.frame), frameSize), k |-> 1, dirty |-> FALSE,
          hash |-> Compress(full.frame)]

Squeeze(s) == IF s.dirty THEN Compress(s.frame) ELSE s.hash

\* The rounds of a loop: absorbed[n] is after n of them.
Absorbed(inputs, frameSize) ==
    LET absorbed[n \in 0 .. Len(inputs)] ==
          IF n = 0 THEN Start(frameSize) ELSE Absorb(absorbed[n - 1], inputs[n], frameSize)
    IN  absorbed[Len(inputs)]

SpongeHashX(inputs, frameSize) == Squeeze(Absorbed(inputs, frameSize))

\* Bytes of a message, with zeros behind it.
ByteAt(m, i) == IF i <= Len(m) THEN m[i] ELSE ZeroByte

Chunk(m, i) ==
    Number([j \in 1 .. spongeChunkSize |-> ByteAt(m, spongeChunkSize * (i - 1) + j)])

Whole(m) == Len(m) \div spongeChunkSize

WholeChunks(m) == [i \in 1 .. Whole(m) |-> Chunk(m, i)]

\* What is left behind the last whole chunk does not go through the loop.
HashBytesX(m, frameSize) ==
    LET s == Absorbed(WholeChunks(m), frameSize) IN
    Squeeze(IF Len(m) % spongeChunkSize = 0 THEN s ELSE Put(s, Chunk(m, Whole(m) + 1)))

-----------------------------------------------------------------------------
SpongeInit == msg = <<>>

AppendByte == Len(msg) < MaxLength /\ \E b \in Bytes : msg' = Append(msg, b)

SpongeSpec == SpongeInit /\ [][AppendByte]_msg

-----------------------------------------------------------------------------
(***************************************************************************)
(* Properties.                                                             *)
(***************************************************************************)
Chunks(m) ==
    [i \in 1 .. Whole(m) + (IF Len(m) % spongeChunkSize = 0 THEN 0 ELSE 1) |-> Chunk(m, i)]

\* The hashes of the frames of a list of inputs, as many as can be.  Each but the
\* first has the hash of those before in front; they overlap in this one place.
FrameHashes(inputs, frameSize) ==
    LET input(i) == IF i <= Len(inputs) THEN inputs[i] ELSE Zero
        hash[n \in 1 .. Len(inputs)] ==
          Compress([j \in 1 .. frameSize |->
                      IF n > 1 /\ j = 1 THEN hash[n - 1]
                      ELSE input((n - 1) * (frameSize - 1) + j)])
    IN  hash

\* How many frames n inputs need.
FrameCount(n, frameSize) == IF n = 1 THEN 1 ELSE (n - 2) \div (frameSize - 1) + 1

\* Whatever the lengths of message and frame, hashing bytes is hashing their
\* chunks frame by frame: the last chunk is padded, counted and hashed once, also
\* where it completes a frame, and where there is none.
HashBytesIsSponge ==
    \A frameSize \in FrameSizes :
        LET chunks == Chunks(msg) IN
        /\ HashBytesX(msg, frameSize) = SpongeHashX(chunks, frameSize)
        /\ msg # <<>> => HashBytesX(msg, frameSize)
                           = FrameHashes(chunks, frameSize)[FrameCount(Len(chunks), frameSize)]

ZerosBehind(m, n) == \A i \in DOMAIN m : i > n => m[i] = ZeroByte

Messages == UNION {[1 .. n -> Bytes] : n \in 1 .. MaxLength}

HashOf == [frameSize \in FrameSizes |-> [m \in Messages |-> HashBytesX(m, frameSize)]]

\* Two messages have one hash only where the padding makes them one: the longer
\* is the shorter with zeros behind it.
OnlyZerosCollide ==
    \A frameSize \in FrameSizes : \A other \in Messages :
        msg \in Messages /\ Len(other) <= Len(msg)
        /\ HashOf[frameSize][other] = HashOf[frameSize][msg] =>
             other = SubSeq(msg, 1, Len(other)) /\ ZerosBehind(msg, Len(other))

=============================================================================
