------------------------------- MODULE Fusion --------------------------------
(***************************************************************************)
(* The AES-GCM engine of lib/fusion.c.  It runs AES on six lanes and GHASH *)
(* on six blocks at a time, GHASH one batch behind AES when it encrypts    *)
(* and in step with it when it decrypts, and hides the encryption of the   *)
(* first counter block (ek0, which masks the tag) and of the QUIC header   *)
(* protection sample in lanes the payload does not need.                   *)
(*                                                                         *)
(* AES and the field multiplication are symbols: a lane is the block fed   *)
(* to AES and the GHASH sum is the sequence of (block, power of H) pairs.  *)
(* Lengths and offsets are the program's own, in bytes, and the output     *)
(* overlays the input.                                                     *)
(***************************************************************************)
EXTENDS Integers, Sequences, SequencesExt, FiniteSets

CONSTANTS InLens,       \* lengths of a payload
          AadLens,      \* lengths of the additional data
          SampleOffs,   \* where the sample for header protection may start in the output
          SegLens,      \* lengths of the pieces of a payload given as a vector
          Places,       \* where such a piece may lie in memory, and how long it is
          OutPlace,     \* where the output of such a call starts
          FirstCapacity \* capacity a context is made for (1500 in aesgcm_setup)

ASSUME FusionAssumption ==
    /\ \A p \in Places : p.base \in Nat /\ p.len \in Nat
    /\ InLens \cup AadLens \cup SampleOffs \cup SegLens \cup {FirstCapacity, OutPlace} \subseteq Nat

Block == 16
Lanes == 6
Batch == Block * Lanes
NoSample == -1
Ceil(n) == (n + Block - 1) \div Block
Least(a, b) == IF a < b THEN a ELSE b

VARIABLES fphase,     \* "idle", "encrypt", "decrypt", "iterate", "done"
          job,        \* the arguments of the call
          fcapacity,  \* aesgcm->capacity
          ghashCnt,   \* aesgcm->ghash_cnt: powers of H at hand, ghash[0] .. ghash[ghashCnt - 1]
          lanes,      \* bits0 .. bits5
          ctr,        \* the counter, 1 for the first block
          ek0,        \* "unfed", "fed" to a lane, "ready"
          supp,       \* the sample: "off", "wanted", "inlane", "done"
          suppOut,    \* what is written as the supplementary output
          aesPos,     \* bytes of the payload AES has written
          aadPos,     \* bytes of the additional data given to GHASH
          ghPos,      \* bytes of the ciphertext given to GHASH
          gdata,      \* the blocks GHASH takes next
          acDue,      \* the block of lengths is still to be hashed
          nondata,    \* lanes that carry no payload (decrypt)
          power,      \* ghash_precompute
          feeds,      \* GHASH so far
          text,       \* blocks written: offset, length, lane
          segs,       \* a payload in pieces: what is left of their lengths (iterate), the pieces (gather)
          plain       \* for a gathered vector: where each byte handed to AES comes from

fvars == << fphase, job, fcapacity, ghashCnt, lanes, ctr, ek0, supp, suppOut, aesPos, aadPos, ghPos, gdata,
            acDue, nondata, power, feeds, text, segs, plain >>

(***************************************************************************)
(* Capacity: aesgcm_calc_ghash_cnt, ptls_fusion_aesgcm_set_capacity and    *)
(* aesgcm_ensure_capacity.                                                 *)
(***************************************************************************)
CalcGhashCnt(n) == Ceil(n) + 2

EnsureCapacity(inlen, aadlen) ==
    IF inlen + aadlen > fcapacity /\ CalcGhashCnt(inlen + aadlen) > ghashCnt
    THEN fcapacity' = inlen + aadlen /\ ghashCnt' = CalcGhashCnt(inlen + aadlen)
    ELSE UNCHANGED << fcapacity, ghashCnt >>

Blocks(inlen, aadlen) == Ceil(aadlen) + Ceil(inlen)

\* A block of the additional data; the block of lengths.
AadBlock(i) == << "aad", i >>
Lengths == << "ac", 0 >>
\* A block of ciphertext as GHASH reads it: AES of an encryption must have written it, that of a
\* decryption must not have overwritten it.
CtBlock(i, written) ==
    LET there == Least(i * Block, job.inlen) <= written
    IN  << IF job.op = "decrypt" THEN IF (i - 1) * Block < written THEN "plain" ELSE "ct"
           ELSE IF there THEN "ct" ELSE "unwritten", i >>

\* The blocks a batch of GHASH takes: additional data first, then ciphertext.
AadTaken(room) == Least(room, Ceil(job.aadlen - aadPos))
CtTaken(room) == Least(room, Ceil(job.inlen - ghPos))
Advance(pos, n, len) == Least(pos + n * Block, len)
Gathered(n, m, written) == [i \in 1 .. n |-> AadBlock(aadPos \div Block + i)]
    \o [i \in 1 .. m |-> CtBlock(ghPos \div Block + i, written)]

\* gfmul_nextstep128 over the batch, the powers of H descending.
Fed(data, from) == feeds \o [i \in 1 .. Len(data) |-> << data[i], from - i >>]

(***************************************************************************)
(* Encryption                                                              *)
(***************************************************************************)
Unfed == << "unfed", 0 >>
InLane == << "fed", 0 >>
\* The sample as it is read: only bytes that are written count.
Sample(written) == << "sample", IF job.sample + Block <= written THEN 1 ELSE 0 >>

\* AESECB6_INIT: the next six counters, except for the lanes the payload leaves to ek0 and, once its
\* bytes have been hashed and thus written, to the sample, whose key stays with lane 4.
InitLanes(left, written, hashed, e, s) ==
    LET spare == left <= Block * (Lanes - 1)
        takes == spare /\ left <= Block * (Lanes - 2) /\ s = "wanted" /\ job.sample + Block <= hashed
    IN  /\ ctr' = ctr + IF spare THEN Lanes - 1 ELSE Lanes
        /\ lanes' = [i \in 0 .. 5 |->
               CASE i = 4 /\ takes -> Sample(written)
                 [] i = 4 /\ ~takes /\ s \in {"inlane", "done"} -> << "other key", ctr + 5 >>
                 [] i = 5 /\ spare -> IF e = Unfed THEN << "ctr", 1 >> ELSE lanes[5]
                 [] OTHER -> << "ctr", ctr + i + 1 >>]
        /\ ek0' = IF spare /\ e = Unfed THEN InLane ELSE e
        /\ supp' = IF takes THEN "inlane" ELSE s

\* What the three entry points have in common.
FusionStart(op, inlen, aadlen, sample) ==
    /\ fphase = "idle"
    /\ fphase' = op
    /\ job' = [op |-> op, inlen |-> inlen, aadlen |-> aadlen, sample |-> sample]
    /\ EnsureCapacity(inlen, aadlen)
    /\ aesPos' = 0
    /\ ghPos' = 0
    /\ text' = << >>
    /\ suppOut' = << >>
    /\ acDue' = TRUE

\* ptls_fusion_aesgcm_encrypt up to MainLoop.
EncryptStart(inlen, aadlen, sample) ==
    LET spare == inlen <= Block * (Lanes - 1)
    IN  /\ FusionStart("encrypt", inlen, aadlen, sample)
        /\ power' = Blocks(inlen, aadlen) + 1
        /\ feeds' = << >>
        /\ ctr' = IF spare THEN Lanes ELSE Lanes + 1
        /\ lanes' = [i \in 0 .. 5 |-> << "ctr", IF i = 5 /\ spare THEN 1 ELSE i + 2 >>]
        /\ ek0' = IF spare THEN InLane ELSE Unfed
        /\ supp' = IF sample = NoSample THEN "off" ELSE "wanted"
        /\ gdata' = [i \in 1 .. Least(Lanes, Ceil(aadlen)) |-> AadBlock(i)]
        /\ aadPos' = Least(aadlen, Batch)
        /\ nondata' = 0

\* The blocks AES writes in one pass, from the given lane on.
Pieces(from) ==
    [k \in 1 .. Least(Lanes - from, Ceil(job.inlen - aesPos)) |->
        << aesPos + (k - 1) * Block, Least(Block, job.inlen - aesPos - (k - 1) * Block), lanes[from + k - 1] >>]

\* One pass of MainLoop: GHASH of the last batch, AES of the next, then the set-up of another pass.
EncryptPass ==
    LET tail == job.inlen - aesPos < Batch
        n == AadTaken(Lanes)
        m == CtTaken(Lanes - n)
        ends == n + m < Lanes
        written == Advance(aesPos, Lanes, job.inlen)
    IN  /\ fphase = "encrypt"
        /\ acDue
        /\ feeds' = Fed(gdata, power)
        /\ power' = power - Len(gdata)
        /\ text' = text \o Pieces(0)
        /\ aesPos' = written
        /\ suppOut' = IF tail /\ supp = "inlane" THEN lanes[4] ELSE suppOut
        /\ InitLanes(job.inlen - written, written, (ghPos \div Block) * Block,
                     IF tail /\ ek0 = InLane THEN lanes[5] ELSE ek0,
                     IF tail /\ supp = "inlane" THEN "done" ELSE supp)
        /\ gdata' = Gathered(n, m, written) \o IF ends THEN << Lengths >> ELSE << >>
        /\ acDue' = ~ends
        /\ aadPos' = Advance(aadPos, n, job.aadlen)
        /\ ghPos' = Advance(ghPos, m, job.inlen)
        /\ UNCHANGED << fphase, job, fcapacity, ghashCnt, nondata, segs, plain >>

\* Finish: the rest of GHASH, the tag, and last the sample, which may lie in the tag.
EncryptFinish ==
    /\ fphase = "encrypt"
    /\ ~acDue
    /\ feeds' = Fed(gdata, power)
    /\ power' = power - Len(gdata)
    /\ suppOut' = CASE supp = "inlane" -> lanes[4]
                    [] supp = "wanted" -> Sample(job.inlen + Block)
                    [] OTHER -> suppOut
    /\ fphase' = "done"
    /\ UNCHANGED << job, fcapacity, ghashCnt, lanes, ctr, ek0, supp, aesPos, aadPos, ghPos, gdata, acDue,
                    nondata, text, segs, plain >>

(***************************************************************************)
(* Decryption: GHASH of a batch goes before AES of the same batch.         *)
(***************************************************************************)
DecryptStart(inlen, aadlen) ==
    /\ FusionStart("decrypt", inlen, aadlen, NoSample)
    /\ power' = Blocks(inlen, aadlen) + 1
    /\ feeds' = << >>
    /\ ctr' = 1
    /\ lanes' = [i \in 0 .. 5 |-> << "ctr", IF i = 0 THEN 1 ELSE 0 >>]
    /\ ek0' = Unfed
    /\ supp' = "off"
    /\ gdata' = << >>
    /\ aadPos' = 0
    /\ nondata' = 1
    /\ segs' = << >>

\* Mutated AppliesAll: a batch of payload is taken for full although some lanes carry none.
AppliesAll_AnyLane(k, left) == left >= Batch

AppliesAll(k, left) == k = 0 /\ left >= Batch

\* One pass of the main loop; k lanes carry ek0 or nothing.
DecryptPass ==
    LET n == AadTaken(Lanes)
        m == CtTaken(Lanes - n)
        last == n + m < Lanes /\ acDue
        data == Gathered(n, m, aesPos) \o IF last THEN << Lengths >> ELSE << >>
        k == nondata + n
        left == job.inlen - aesPos
        all == AppliesAll(k, left)
        first == IF all THEN 0 ELSE k
        fresh == IF k >= Lanes THEN 0 ELSE Lanes - k
        room == IF all THEN Lanes ELSE fresh
        bits == [i \in 0 .. 5 |-> IF i >= k THEN << "ctr", ctr + 1 + i - k >> ELSE lanes[i]]
        written == Least(Ceil(left), room)
        finishes == ~all /\ room > 0 /\ left <= room * Block
    IN  /\ fphase = "decrypt"
        /\ feeds' = (IF finishes /\ acDue /\ ~last THEN Append(Fed(data, power), << Lengths, power - Len(data) - 1 >>)
                     ELSE Fed(data, power))
        /\ power' = power - Len(data) - IF finishes /\ acDue /\ ~last THEN 1 ELSE 0
        /\ acDue' = (acDue /\ ~last)
        /\ aadPos' = Advance(aadPos, n, job.aadlen)
        /\ ghPos' = Advance(ghPos, m, job.inlen)
        /\ lanes' = bits
        /\ ctr' = ctr + fresh
        /\ ek0' = IF ek0 = Unfed /\ ~all THEN bits[0] ELSE ek0
        /\ text' = text \o [i \in 1 .. written |->
               << aesPos + (i - 1) * Block, Least(Block, left - (i - 1) * Block), bits[first + i - 1] >>]
        /\ aesPos' = Advance(aesPos, written, job.inlen)
        /\ nondata' = 0
        /\ fphase' = IF finishes THEN "done" ELSE "decrypt"
        /\ UNCHANGED << job, fcapacity, ghashCnt, supp, suppOut, gdata, segs, plain >>

(***************************************************************************)
(* A payload in pieces.  aead_do_encrypt_v_s reads them block by block     *)
(* (fusion_aesgcm_encrypt_iter), with GHASH one multiplication at a time.  *)
(***************************************************************************)
SumOf(s) == LET sum[i \in 0 .. Len(s)] == IF i = 0 THEN 0 ELSE sum[i - 1] + s[i] IN sum[Len(s)]
Horner(acc, b) == Append([i \in 1 .. Len(acc) |-> << acc[i][1], acc[i][2] + 1 >>], << b, 0 >>)

\* fusion_input_next, fusion_input_read and fusion_input_consume: what is missing of n bytes, what is left.
Take(s, n) ==
    FoldLeft(LAMBDA a, x : [need |-> a.need - Least(a.need, x), rest |-> Append(a.rest, x - Least(a.need, x))],
             [need |-> n, rest |-> << >>], s)

IterateStart(s, aadlen) ==
    /\ FusionStart("iterate", SumOf(s), aadlen, NoSample)
    /\ power' = 1
    /\ feeds' = FoldLeft(Horner, << >>, [i \in 1 .. Ceil(aadlen) |-> AadBlock(i)])
    /\ ctr' = 1
    /\ lanes' = [i \in 0 .. 5 |-> << "ctr", 0 >>]
    /\ ek0' = << "ctr", 1 >>
    /\ supp' = "off"
    /\ gdata' = << >>
    /\ aadPos' = aadlen
    /\ nondata' = 0
    /\ segs' = s
    /\ UNCHANGED plain

IterateBlock ==
    LET got == Take(segs, Least(Block, job.inlen - aesPos))
        len == Least(Block, job.inlen - aesPos) - got.need
    IN  /\ fphase = "iterate"
        /\ aesPos # job.inlen
        /\ segs' = got.rest
        /\ ctr' = ctr + 1
        /\ text' = Append(text, << aesPos, len, << "ctr", ctr + 1 >> >>)
        /\ feeds' = Horner(feeds, << "ct", Len(text) + 1 >>)
        /\ aesPos' = aesPos + len
        /\ UNCHANGED << fphase, job, fcapacity, ghashCnt, lanes, ek0, supp, suppOut, aadPos, ghPos, gdata, acDue,
                        nondata, power, plain >>

IterateFinish ==
    /\ fphase = "iterate"
    /\ aesPos = job.inlen
    /\ feeds' = Horner(feeds, Lengths)
    /\ acDue' = FALSE
    /\ fphase' = "done"
    /\ UNCHANGED << job, fcapacity, ghashCnt, lanes, ctr, ek0, supp, suppOut, aesPos, aadPos, ghPos, gdata,
                    nondata, power, text, segs, plain >>

(***************************************************************************)
(* aead_do_encrypt_v moves the pieces into the output, or into a scratch   *)
(* buffer if one of them lies in the output but not where it belongs, and  *)
(* encrypts in place.  A piece is an address and a length; the content of  *)
(* the memory is the address a byte had at first.                          *)
(***************************************************************************)
Offset(v, i) == SumOf([j \in 1 .. i - 1 |-> v[j].len])
VectorLen(v) == SumOf([j \in 1 .. Len(v) |-> v[j].len])
Scratch == 16      \* an address beyond the pieces and the output

InTheWay(v, i) ==
    /\ v[i].len # 0
    /\ v[i].base < OutPlace + VectorLen(v)
    /\ OutPlace < v[i].base + v[i].len
    /\ v[i].base # OutPlace + Offset(v, i)

Gather(v) ==
    LET buf == IF \E i \in DOMAIN v : InTheWay(v, i) THEN Scratch ELSE OutPlace
        Move(mem, i) == [a \in DOMAIN mem |->
            IF a \in buf + Offset(v, i) .. buf + Offset(v, i) + v[i].len - 1
            THEN mem[v[i].base + a - buf - Offset(v, i)] ELSE mem[a]]
        Moved == FoldLeft(Move, [a \in 0 .. Scratch + VectorLen(v) |-> a], [i \in 1 .. Len(v) |-> i])
    IN  [a \in 1 .. VectorLen(v) |-> Moved[buf + a - 1]]

EncryptVector(v) ==
    /\ EncryptStart(VectorLen(v), 0, NoSample)
    /\ segs' = v
    /\ plain' = IF Len(v) = 1 THEN [a \in 1 .. v[1].len |-> v[1].base + a - 1] ELSE Gather(v)

\* The call is over: what the other variables say of it is forgotten, and the context, which keeps its
\* capacity, is ready for the next one.
FusionReturns ==
    /\ fphase = "done"
    /\ fphase' = "idle"
    /\ job' = [op |-> "none", inlen |-> 0, aadlen |-> 0, sample |-> NoSample]
    /\ lanes' = [i \in 0 .. 5 |-> << "ctr", 0 >>]
    /\ ctr' = 0
    /\ ek0' = Unfed
    /\ supp' = "off"
    /\ suppOut' = << >>
    /\ aesPos' = 0
    /\ aadPos' = 0
    /\ ghPos' = 0
    /\ gdata' = << >>
    /\ acDue' = FALSE
    /\ nondata' = 0
    /\ power' = 0
    /\ feeds' = << >>
    /\ text' = << >>
    /\ segs' = << >>
    /\ plain' = << >>
    /\ UNCHANGED << fcapacity, ghashCnt >>

\* aesgcm_setup
FusionInit ==
    /\ fphase = "idle"
    /\ job = [op |-> "none", inlen |-> 0, aadlen |-> 0, sample |-> NoSample]
    /\ fcapacity = FirstCapacity
    /\ ghashCnt = CalcGhashCnt(FirstCapacity)
    /\ lanes = [i \in 0 .. 5 |-> << "ctr", 0 >>]
    /\ ctr = 0
    /\ ek0 = Unfed
    /\ supp = "off"
    /\ suppOut = << >>
    /\ aesPos = 0
    /\ aadPos = 0
    /\ ghPos = 0
    /\ gdata = << >>
    /\ acDue = FALSE
    /\ nondata = 0
    /\ power = 0
    /\ feeds = << >>
    /\ text = << >>
    /\ segs = << >>
    /\ plain = << >>

FusionNext ==
    \/ \E n \in InLens, a \in AadLens :
         \/ \E o \in {NoSample} \cup {p \in SampleOffs : p <= n} : EncryptStart(n, a, o) /\ UNCHANGED << segs, plain >>
         \/ DecryptStart(n, a) /\ UNCHANGED plain
    \/ \E k \in 1 .. 3 : \E s \in [1 .. k -> SegLens], a \in AadLens : fcapacity = FirstCapacity /\ IterateStart(s, a)
    \/ \E k \in 1 .. 3 : \E v \in [1 .. k -> Places] : fcapacity = FirstCapacity /\ EncryptVector(v)
    \/ EncryptPass \/ EncryptFinish \/ DecryptPass \/ IterateBlock \/ IterateFinish \/ FusionReturns

FusionSpec == FusionInit /\ [][FusionNext]_fvars

(***************************************************************************)
(* Properties                                                              *)
(***************************************************************************)
\* Whatever the lengths, the six lanes and the batches of GHASH compute AES-GCM: block i of the payload
\* is combined with counter i + 1, the tag is masked with counter 1, and GHASH takes the additional
\* data, the ciphertext and the lengths, each once, in order, and each with its power of H, the
\* ciphertext as it is on the wire although input and output share memory.
FusionIsGcm == fphase = "done" =>
    /\ text = [i \in 1 .. Ceil(job.inlen) |->
                 << (i - 1) * Block, Least(Block, job.inlen - (i - 1) * Block), << "ctr", i + 1 >> >>]
    /\ ek0 = << "ctr", 1 >>
    /\ LET n == Blocks(job.inlen, job.aadlen) + 1
           na == Ceil(job.aadlen)
       IN  feeds = [i \in 1 .. n |-> << CASE i <= na -> AadBlock(i) [] i = n -> Lengths
                                          [] OTHER -> << "ct", i - na >>, n - i >>]

\* GHASH only uses powers of H that the context holds, however its capacity grew and however the bytes
\* are divided between the additional data and the payload.
PowersInRange == fphase \in {"encrypt", "decrypt"} => power >= 0 /\ power <= ghashCnt

\* The sample that protects the packet header is taken from the packet as it goes out: it is read after
\* its bytes, the tag's included, are written.
SampleIsFinal == fphase = "done" /\ job.sample # NoSample => suppOut = << "sample", 1 >>

\* A payload in pieces is the concatenation of the pieces as they were, wherever they lie.
GatherInOrder == fphase = "encrypt" /\ segs # << >> =>
    plain = FlattenSeq([i \in DOMAIN segs |-> [j \in 1 .. segs[i].len |-> segs[i].base + j - 1]])

\* The engine (aesgcm_encrypt, aesgcm_decrypt and the vector forms) is AES-GCM, within its tables and
\* on the right bytes.
FusionSound == FusionIsGcm /\ PowersInRange /\ SampleIsFinal /\ GatherInOrder

===============================================================================
