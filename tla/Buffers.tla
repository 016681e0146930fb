------------------------------- MODULE Buffers -------------------------------
(***************************************************************************)
(* ptls_buffer_t: a buffer that starts in memory of the caller and grows,  *)
(* the values and the length-prefixed blocks, nested in one another, that  *)
(* are written into it (ptls_buffer_push...), and how a block is opened    *)
(* when it is read (ptls_decode_open_block).                               *)
(*                                                                         *)
(* The constants scale the machine down: a byte has Radix values, SizeMax  *)
(* is SIZE_MAX.  What lies behind off is not represented; a byte written   *)
(* behind the capacity makes wild TRUE.                                    *)
(***************************************************************************)
EXTENDS Integers, Sequences

CONSTANTS
    Radix,       \* 256: values of a byte
    SizeMax,     \* SIZE_MAX
    MinCapacity, \* 1024: least memory allocated
    SmallSizes,  \* sizes of the caller's memory
    PushLens,    \* lengths of what is pushed
    Deltas,      \* amounts reserved ahead
    QuicInts,    \* numbers pushed as QUIC varints
    Capacities,  \* widths of the fixed sizes of blocks
    MaxOff,      \* bound: bytes written
    MaxDepth     \* bound: blocks open at a time

ASSUME BuffersAssumption ==
    /\ Radix \in Nat /\ Radix % 4 = 0 /\ Radix > 0
    /\ MinCapacity \in 1 .. SizeMax
    /\ SmallSizes \subseteq 0 .. SizeMax
    /\ Deltas \subseteq 0 .. SizeMax
    /\ QuicInts \subseteq 0 .. Radix^8 \div 4 - 1
    /\ Capacities \subseteq 1 .. 7

VARIABLES
    bbuf,    \* the ptls_buffer_t: capacity, data (the off bytes in use), wild
    bframes, \* the blocks being written: kind and body_start
    bwant,   \* history: what was pushed into each of them, bwant[1] outside
    blast,   \* history: the block closed by the last step
    berr     \* ret of the macro that went to Exit, or "ok"

bufvars == <<bbuf, bframes, bwant, blast, berr>>

NoBlock == [at |-> 0, kind |-> 0, body |-> <<>>]
Zeros(n) == [i \in 1 .. n |-> 0]
Quic == 0   \* the kind of a block whose size is a QUIC varint; else its capacity

---------------------------------------------------------------------------
(* Memory.                                                                 *)

\* The capacity after enough doublings, the size itself once doubling would
\* overflow.
NewCapacity(capacity, required) ==
    LET c == IF capacity < MinCapacity THEN MinCapacity ELSE capacity
        enough(n) == c * 2^n >= required \/ c * 2^n > SizeMax \div 2
        n == CHOOSE k \in 0 .. SizeMax : enough(k) /\ \A j \in 0 .. k - 1 : ~enough(j)
    IN IF c * 2^n >= required THEN c * 2^n ELSE required

\* ptls_buffer_reserve_aligned and buffer_alloc, on a buffer of the right
\* direction that is not disposed of; fail: malloc returns NULL.
Reserve(b, delta, fail) ==
    LET required == Len(b.data) + delta
    IN IF delta > SizeMax - Len(b.data) THEN [ok |-> FALSE, b |-> b]
       ELSE IF b.capacity >= required THEN [ok |-> TRUE, b |-> b]
       ELSE IF fail THEN [ok |-> FALSE, b |-> b]
       ELSE [ok |-> TRUE, b |-> [b EXCEPT !.capacity = NewCapacity(@, required)]]

\* off moves on over bytes just written.
Written(b, cells) ==
    [b EXCEPT !.data = @ \o cells, !.wild = @ \/ Len(b.data) + Len(cells) > b.capacity]

\* ptls_buffer__do_pushv
PushV(b, cells, fail) ==
    IF cells = <<>> THEN [ok |-> TRUE, b |-> b]
    ELSE LET r == Reserve(b, Len(cells), fail)
         IN IF r.ok THEN [ok |-> TRUE, b |-> Written(r.b, cells)] ELSE r

---------------------------------------------------------------------------
(* Sizes.                                                                  *)

\* n bytes, most significant first.
BigEndian(v, n) == [i \in 1 .. n |-> (v \div Radix^(n - i)) % Radix]

\* ptls_encode_quicint: the two top bits of the first byte tell the length.
EncodeQuicInt(v) ==
    LET tagged(n, tag) == [BigEndian(v, n) EXCEPT ![1] = tag * (Radix \div 4) + @]
    IN IF v <= Radix \div 4 - 1 THEN BigEndian(v, 1)
       ELSE IF v <= Radix^2 \div 4 - 1 THEN tagged(2, 1)
       ELSE IF v <= Radix^4 \div 4 - 1 THEN tagged(4, 2) ELSE tagged(8, 3)

\* Mutated Moved: the body is moved by the length of the size.
Moved_TooFar(data, size, len) ==
    LET end == Len(data)
    IN [i \in 1 .. end + len - 1 |->
           IF i > end - size + len THEN data[i - len]
           ELSE IF i <= end THEN data[i] ELSE 0]

\* The memmove of ptls_buffer__adjust_quic_blocksize: the body, the last size
\* bytes, makes room for a size of len bytes where there was one.
Moved(data, size, len) ==
    LET end == Len(data)
    IN [i \in 1 .. end + len - 1 |->
           IF i > end - size - 1 + len THEN data[i - (len - 1)]
           ELSE IF i <= end THEN data[i] ELSE 0]

\* bytes over those from position at on.
Overwrite(data, at, bytes) ==
    [i \in DOMAIN data |-> IF i - at \in 1 .. Len(bytes) THEN bytes[i - at] ELSE data[i]]

\* ptls_buffer__adjust_quic_blocksize
AdjustQuicBlocksize(b, size, fail) ==
    LET field == EncodeQuicInt(size)
        r == IF Len(field) = 1 THEN [ok |-> TRUE, b |-> b] ELSE Reserve(b, Len(field) - 1, fail)
        moved == IF Len(field) = 1 THEN b.data ELSE Moved(b.data, size, Len(field))
    IN IF ~r.ok THEN r
       ELSE [ok |-> TRUE,
             b |-> [r.b EXCEPT !.data = Overwrite(moved, Len(moved) - size - Len(field), field),
                               !.wild = @ \/ Len(moved) > r.b.capacity]]

---------------------------------------------------------------------------
(* Reading.                                                                *)

DecodeError == [ok |-> FALSE, start |-> 0, size |-> 0]

\* The value of bytes at..at+n-1 (counted from 0), most significant first.
ValueAt(data, at, n) ==
    LET v[k \in 0 .. n] == IF k = 0 THEN 0 ELSE v[k - 1] * Radix + data[at + k] IN v[n]

\* ptls_decode_quicint at position at.
DecodeQuicInt(data, at) ==
    IF at = Len(data) THEN DecodeError
    ELSE LET first == data[at + 1]
             tag == first \div (Radix \div 4)
             left == 2^tag - 1
         IN IF Len(data) - at - 1 < left THEN DecodeError
            ELSE [ok |-> TRUE, start |-> at + 1 + left,
                  size |-> (first % (Radix \div 4)) * Radix^left + ValueAt(data, at + 1, left)]

\* ptls_decode_open_block up to the body.
OpenBlock(data, at, kind) ==
    LET r == IF kind = Quic THEN DecodeQuicInt(data, at)
             ELSE IF kind > Len(data) - at THEN DecodeError
             ELSE [ok |-> TRUE, start |-> at + kind, size |-> ValueAt(data, at, kind)]
    IN IF r.ok /\ r.size > Len(data) - r.start THEN DecodeError ELSE r

---------------------------------------------------------------------------
(* Operations.                                                             *)

Innermost(s) == s[Len(s)]
OnTop(s, x) == [s EXCEPT ![Len(s)] = x]
Popped(s) == SubSeq(s, 1, Len(s) - 1)

\* ret != 0: goto Exit.
Exit(r) == berr' = IF r.ok THEN "ok" ELSE "no_memory"

\* ptls_buffer_pushv of n bytes (their value marks them: all Radix - 1).
BufPush(n, fail) ==
    LET cells == [i \in 1 .. n |-> Radix - 1]
        r == PushV(bbuf, cells, fail)
    IN /\ berr = "ok" /\ Len(bbuf.data) + n <= MaxOff
       /\ bbuf' = r.b
       /\ Exit(r)
       /\ bwant' = IF r.ok THEN OnTop(bwant, Innermost(bwant) \o cells) ELSE bwant
       /\ blast' = NoBlock
       /\ UNCHANGED bframes

\* ptls_buffer_reserve alone, ahead of a read or of a cipher's output.
BufReserve(delta, fail) ==
    LET r == Reserve(bbuf, delta, fail)
    IN /\ berr = "ok"
       /\ bbuf' = [r.b EXCEPT !.wild = @ \/ (r.ok /\ r.b.capacity - Len(r.b.data) < delta)]
       /\ Exit(r)
       /\ blast' = NoBlock
       /\ UNCHANGED <<bframes, bwant>>

\* ptls_buffer_push_quicint: room for the longest form is reserved.
BufPushQuicInt(v, fail) ==
    LET r == Reserve(bbuf, 8, fail)
        cells == EncodeQuicInt(v)
    IN /\ berr = "ok" /\ Len(bbuf.data) + Len(cells) <= MaxOff
       /\ bbuf' = IF r.ok THEN Written(r.b, cells) ELSE r.b
       /\ Exit(r)
       /\ bwant' = IF r.ok THEN OnTop(bwant, Innermost(bwant) \o cells) ELSE bwant
       /\ blast' = NoBlock
       /\ UNCHANGED bframes

\* ptls_buffer_push_block up to the body: zeroes in place of the size.
BufOpen(kind, fail) ==
    LET width == IF kind = Quic THEN 1 ELSE kind
        r == PushV(bbuf, Zeros(width), fail)
    IN /\ berr = "ok" /\ Len(bframes) < MaxDepth /\ Len(bbuf.data) + width <= MaxOff
       /\ bbuf' = r.b
       /\ Exit(r)
       /\ bframes' = IF r.ok THEN Append(bframes, [kind |-> kind, start |-> Len(r.b.data)]) ELSE bframes
       /\ bwant' = IF r.ok THEN Append(bwant, <<>>) ELSE bwant
       /\ blast' = NoBlock

\* ptls_buffer_push_block behind the body.
BufClose(fail) ==
    LET f == Innermost(bframes)
        size == Len(bbuf.data) - f.start
        overflow == f.kind # Quic /\ size >= Radix^f.kind
        r == IF f.kind = Quic THEN AdjustQuicBlocksize(bbuf, size, fail)
             ELSE [ok |-> ~overflow,
                   b |-> IF overflow THEN bbuf
                         ELSE [bbuf EXCEPT !.data = Overwrite(@, f.start - f.kind, BigEndian(size, f.kind))]]
        field == IF f.kind = Quic THEN EncodeQuicInt(size) ELSE BigEndian(size, f.kind)
    IN /\ berr = "ok" /\ bframes # <<>>
       /\ bbuf' = r.b
       /\ IF overflow THEN berr' = "block_overflow" ELSE Exit(r)
       /\ IF r.ok
          THEN /\ bframes' = Popped(bframes)
               /\ bwant' = OnTop(Popped(bwant), Innermost(Popped(bwant)) \o field \o Innermost(bwant))
               /\ blast' = [at |-> f.start - (IF f.kind = Quic THEN 1 ELSE f.kind),
                            kind |-> f.kind, body |-> Innermost(bwant)]
          ELSE blast' = NoBlock /\ UNCHANGED <<bframes, bwant>>

\* ptls_buffer_init with memory of the caller.
BuffersInit ==
    /\ \E n \in SmallSizes : bbuf = [capacity |-> n, data |-> <<>>, wild |-> FALSE]
    /\ bframes = <<>> /\ bwant = <<<<>>>> /\ blast = NoBlock /\ berr = "ok"

BuffersNext ==
    \E fail \in BOOLEAN :
        \/ \E n \in PushLens : BufPush(n, fail)
        \/ \E d \in Deltas : BufReserve(d, fail)
        \/ \E v \in QuicInts : BufPushQuicInt(v, fail)
        \/ \E kind \in Capacities \cup {Quic} : BufOpen(kind, fail)
        \/ BufClose(fail)

BuffersSpec == BuffersInit /\ [][BuffersNext]_bufvars

---------------------------------------------------------------------------
(* Properties.                                                             *)

\* No byte is written behind the memory there is, at capacities up to the
\* largest size and whatever is reserved; the capacity itself does not
\* overflow, and doubling it ends.
StaysInMemory ==
    /\ ~bbuf.wild
    /\ Len(bbuf.data) <= bbuf.capacity /\ bbuf.capacity <= SizeMax

\* What is in the buffer is what was pushed, in order: growing, a failed
\* allocation and the move that makes room for a longer size neither lose nor
\* repeat a byte of the block or of those around it.
HoldsWhatWasPushed ==
    LET width(i) == IF bframes[i].kind = Quic THEN 1 ELSE bframes[i].kind
        all[i \in 1 .. Len(bwant)] ==
            IF i = 1 THEN bwant[1] ELSE all[i - 1] \o Zeros(width(i - 1)) \o bwant[i]
    IN bbuf.data = all[Len(bwant)]

\* A block just written is read back: it opens at its place with its whole
\* body and nothing behind; and cut off anywhere it does not open.
ReadsBack ==
    blast # NoBlock =>
        LET r == OpenBlock(bbuf.data, blast.at, blast.kind)
        IN /\ r.ok /\ r.start + r.size = Len(bbuf.data)
           /\ SubSeq(bbuf.data, r.start + 1, Len(bbuf.data)) = blast.body
           /\ \A n \in blast.at .. Len(bbuf.data) - 1 :
                 ~OpenBlock(SubSeq(bbuf.data, 1, n), blast.at, blast.kind).ok

\* A buffer (ptls_buffer_reserve, ptls_buffer_push and its blocks) stays in its
\* memory, holds what was pushed, and what was written as a block reads back.
BufferSound == StaysInMemory /\ HoldsWhatWasPushed /\ ReadsBack

==============================================================================
