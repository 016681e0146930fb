-------------------------------- MODULE Kdf --------------------------------
(***************************************************************************)
(* HMAC as an object with update and final, and what the library derives   *)
(* with it: HKDF-Extract, HKDF-Expand, the TLS 1.2 P_hash, and the chains  *)
(* of HKDF-Expand-Label behind traffic keys, the resumption secret and the *)
(* exporter.  One HMAC context is reused through all the iterations of a   *)
(* derivation, so every digest depends on how the previous final left it.  *)
(*                                                                         *)
(* Hashing is symbolic: a digest is <<"d", content>>, where content is the *)
(* sequence of the pieces hashed; a key in a piece carries the set of pads *)
(* that are XORed into it (XORing a pad twice removes it).                 *)
(***************************************************************************)
EXTENDS Integers, Sequences

CONSTANTS
    Digest,      \* digest_size, in bytes
    CounterMod,  \* 2^8: the block counter of HKDF-Expand is a uint8_t
    OutLens,     \* lengths asked of HKDF-Expand and P_hash
    HmacPieces,  \* what the user of a bare HMAC context passes to update
    MaxUse       \* calls made on a bare HMAC context

ASSUME KdfAssumption ==
    /\ Digest \in Nat \ {0}
    /\ CounterMod \in Nat /\ CounterMod > 3
    /\ OutLens \subseteq Nat
    /\ MaxUse \in Nat

VARIABLES
    kphase,      \* "choose", "hash", "expand", "phash", "use" or "done"
    kjob,        \* the function called, with its arguments
    calls,       \* the HKDF-Expand calls it still has to make
    hmac,        \* the HMAC context: live, the pads in its key, the content hashed so far
    iter,        \* the loop variable
    digest,      \* the local digest buffer (An in the P_hash)
    mem,         \* what has been written to each output buffer
    said,        \* history: the updates since the context was created or reset
    computed,    \* history: the last digest delivered, and what it is to be the HMAC of
    used,        \* calls made on the bare context
    kret         \* the result

kdfVars == <<kphase, kjob, calls, hmac, iter, digest, mem, said, computed, used, kret>>

NoMemory == "no memory"
Modes == {"free", "reset"}
Buffers == {"out", "key", "iv", "secret", "derived", "hash"}
Cleared == <<>>

NoHmac == [live |-> FALSE, key |-> <<"none">>, pads |-> {}, content |-> <<>>]

----------------------------------------------------------------------------
\* The underlying hash and HMAC.

\* final of a hash context, any mode
HashFinal(content) == <<"d", content>>

KeyPiece(key, pads) == <<"key", key, pads>>

Toggle(pads, pad) == (pads \ {pad}) \cup ({pad} \ pads)

\* hmac_apply_key: the pad is XORed in, the key hashed, and the pad XORed out
ApplyKey(h, pad) ==
    LET padded == Toggle(h.pads, pad) IN
    [h EXCEPT !.content = Append(@, KeyPiece(h.key, padded)),
              !.pads = Toggle(padded, pad)]

\* ptls_hmac_create
HmacCreate(key) ==
    ApplyKey([live |-> TRUE, key |-> key, pads |-> {}, content |-> <<>>], "36")

\* hmac_update with several pieces
HmacUpdate(h, pieces) == [h EXCEPT !.content = @ \o pieces]

\* hmac_final hashes the digest of the inner hash under the outer key.
Outer(h) ==
    LET inner == HashFinal(h.content) IN
    HmacUpdate(ApplyKey([h EXCEPT !.content = <<>>], "5c"), <<inner>>)

HmacDigest(h) == HashFinal(Outer(h).content)

\* Mutated HmacFinal: RESET does not begin the next inner hash with the key.
HmacFinal_NoKey(h, wanted, mode) ==
    LET at == IF wanted THEN Outer(h) ELSE h IN
    IF mode = "free" THEN NoHmac ELSE [at EXCEPT !.content = <<>>]

\* What hmac_final leaves of the context; wanted is md != NULL
HmacFinal(h, wanted, mode) ==
    LET at == IF wanted THEN Outer(h) ELSE h IN
    IF mode = "free" THEN NoHmac ELSE ApplyKey([at EXCEPT !.content = <<>>], "36")

\* Updates and a final on a context, with the histories
Hashes(h, before, pieces, mode) ==
    LET after == HmacUpdate(h, pieces) IN
    /\ hmac' = HmacFinal(after, TRUE, mode)
    /\ computed' = [digest |-> HmacDigest(after), key |-> h.key, of |-> before \o pieces]
    /\ said' = <<>>

----------------------------------------------------------------------------
\* The calls of HKDF-Expand-Label that each derivation makes.

Bytes(value, n) == [j \in 1 .. n |-> <<value, j>>]

\* ptls_hkdf_expand_label: the info is the length, the label and the hash value.
Label(secret, label, value, len, dest) ==
    [ prk |-> secret, info |-> <<"info", len % 65536, label>>, value |-> value,
      len |-> len, dest |-> dest ]

Derivations ==
    [ keys       |-> << Label(<<"traffic">>, "key", <<"none">>, 2 * Digest, "key"),
                        Label(<<"traffic">>, "iv", <<"none">>, Digest + 1, "iv") >>,
      resumption |-> << Label(<<"master">>, "res master", <<"transcript">>, Digest, "secret"),
                        Label(<<"mem", "secret">>, "resumption", <<"nonce">>, Digest, "secret") >>,
      export     |-> << Label(<<"exporter master">>, "the label", <<"empty">>, Digest, "derived"),
                        Label(<<"mem", "derived">>, "exporter", <<"mem", "hash">>, 2 * Digest + 1, "out") >> ]

\* The key and the hash value of a call are constants or what an earlier call has written.
Operand(value) == IF value[1] = "mem" THEN <<"bytes", mem[value[2]]>> ELSE value

\* The buffers get_traffic_keys, derive_resumption_secret and ptls_export_secret clear at the end
ClearedBy(name, ok) ==
    CASE name = "keys" /\ ~ok -> {"key", "iv"}
      [] name = "resumption" /\ ~ok -> {"secret"}
      [] name = "export" -> {"derived", "hash"}
      [] OTHER -> {}

----------------------------------------------------------------------------
KdfInit ==
    /\ kphase = "choose"
    /\ kjob = [name |-> "none", len |-> 0, label |-> FALSE]
    /\ calls = <<>>
    /\ hmac = NoHmac
    /\ iter = 0
    /\ digest = Cleared
    /\ mem = [b \in Buffers |-> <<>>]
    /\ said = <<>>
    /\ computed = [digest |-> <<"none">>, key |-> <<"none">>, of |-> <<>>]
    /\ used = 0
    /\ kret = "ok"

\* The job ends with a result; the chains of derivations clear what they must.
KdfEnds(ret) ==
    /\ kphase' = "done"
    /\ kret' = ret
    /\ mem' = [b \in Buffers |-> IF b \in ClearedBy(kjob.name, ret = "ok") THEN Cleared ELSE mem[b]]

\* ptls_hkdf_extract; no salt means a salt of zeroes
Extract ==
    /\ kphase = "choose"
    /\ \E salt \in {<<"salt">>, <<"zeroes">>} :
        /\ kjob' = [name |-> "extract", len |-> Digest, label |-> (salt = <<"salt">>)]
        /\ \/ /\ Hashes(HmacCreate(salt), <<>>, <<<<"ikm">>>>, "free")
              /\ mem' = [mem EXCEPT !["out"] =
                    Bytes(HmacDigest(HmacUpdate(HmacCreate(salt), <<<<"ikm">>>>)), Digest)]
              /\ kret' = "ok"
           \/ kret' = NoMemory /\ UNCHANGED <<hmac, computed, said, mem>>
    /\ kphase' = "done"
    /\ UNCHANGED <<calls, iter, digest, used>>

\* A call of ptls_hkdf_expand, or of a function that makes two of them
BeginExpand ==
    /\ kphase = "choose"
    /\ \/ \E len \in OutLens :
            /\ kjob' = [name |-> "expand", len |-> len, label |-> FALSE]
            /\ calls' = <<[ prk |-> <<"prk">>, info |-> <<"info">>, value |-> <<"none">>,
                           len |-> len, dest |-> "out" ]>>
            /\ kphase' = "expand"
       \/ \E name \in DOMAIN Derivations :
            /\ kjob' = [name |-> name, len |-> 0, label |-> TRUE]
            /\ calls' = Derivations[name]
            /\ kphase' = IF name = "export" THEN "hash" ELSE "expand"
    /\ iter' = 0
    /\ UNCHANGED <<hmac, digest, mem, said, computed, used, kret>>

\* ptls_calc_hash of the exporter's context value, which comes before its two calls; when there is no
\* memory for the context, ptls_export_secret returns at once.
CalcHash ==
    /\ kphase = "hash"
    /\ \/ /\ mem' = [mem EXCEPT !["hash"] = Bytes(HashFinal(<<<<"context">>>>), Digest)]
          /\ kphase' = "expand"
          /\ UNCHANGED kret
       \/ /\ kphase' = "done" /\ kret' = NoMemory
          /\ UNCHANGED mem
    /\ UNCHANGED <<kjob, calls, hmac, iter, digest, said, computed, used>>

\* The part of a digest that goes to an output of len bytes at offset off
Chunk(value, off, len) == Bytes(value, IF off + Digest > len THEN len - off ELSE Digest)

\* One iteration of ptls_hkdf_expand; the first one creates the context.
ExpandIteration ==
    /\ kphase = "expand"
    /\ iter * Digest < Head(calls).len
    /\ LET call == Head(calls)
           h == IF hmac.live THEN HmacUpdate(hmac, <<digest>>) ELSE HmacCreate(Operand(call.prk))
           before == IF hmac.live THEN <<digest>> ELSE <<>>
           pieces == <<call.info, Operand(call.value), <<"byte", (iter + 1) % CounterMod>>>>
           md == HmacDigest(HmacUpdate(h, pieces)) IN
       /\ Hashes(h, before, pieces, "reset")
       /\ digest' = md
       /\ mem' = [mem EXCEPT ![call.dest] =
            SubSeq(@, 1, IF iter = 0 THEN 0 ELSE iter * Digest) \o Chunk(md, iter * Digest, call.len)]
    /\ iter' = iter + 1
    /\ UNCHANGED <<kphase, kjob, calls, used, kret>>

\* ptls_hmac_create fails, which ends the whole derivation
ExpandNoMemory ==
    /\ kphase = "expand" /\ ~hmac.live
    /\ iter * Digest < Head(calls).len
    /\ KdfEnds(NoMemory)
    /\ UNCHANGED <<kjob, calls, hmac, iter, digest, said, computed, used>>

\* The loop is over: the context, if one was made, is freed, and the next call begins.
ExpandEnd ==
    /\ kphase = "expand"
    /\ iter * Digest >= Head(calls).len
    /\ hmac' = IF hmac.live THEN HmacFinal(hmac, FALSE, "free") ELSE hmac
    /\ said' = <<>>
    /\ digest' = Cleared
    /\ calls' = Tail(calls)
    /\ iter' = 0
    /\ IF Len(calls) = 1
         THEN KdfEnds("ok")
         ELSE UNCHANGED <<kphase, kret, mem>>
    /\ UNCHANGED <<kjob, computed, used>>

LabelSeed(label) == (IF label THEN <<<<"label">>>> ELSE <<>>) \o <<<<"seed">>>>

\* ptls_tls12_phash up to A(1)
PHashBegin ==
    /\ kphase = "choose"
    /\ \E len \in OutLens, label \in BOOLEAN :
        /\ kjob' = [name |-> "phash", len |-> len, label |-> label]
        /\ \/ LET h == HmacCreate(<<"secret">>) IN
              /\ Hashes(h, <<>>, LabelSeed(label), "reset")
              /\ digest' = HmacDigest(HmacUpdate(h, LabelSeed(label)))
              /\ kphase' = "phash"
              /\ UNCHANGED kret
           \/ /\ kphase' = "done" /\ kret' = NoMemory
              /\ UNCHANGED <<hmac, computed, said, digest>>
    /\ iter' = 0
    /\ UNCHANGED <<calls, mem, used>>

\* The last chunk goes through An.
PHashLast ==
    /\ kphase = "phash"
    /\ kjob.len - iter <= Digest
    /\ LET pieces == <<digest>> \o LabelSeed(kjob.label)
           md == HmacDigest(HmacUpdate(hmac, pieces)) IN
       /\ Hashes(hmac, <<>>, pieces, "free")
       /\ mem' = [mem EXCEPT !["out"] = @ \o Bytes(md, kjob.len - iter)]
    /\ digest' = Cleared
    /\ kphase' = "done"
    /\ UNCHANGED <<kjob, calls, iter, used, kret>>

\* An iteration that is not the last: a chunk of the output, then the next A(i)
PHashIteration ==
    /\ kphase = "phash"
    /\ kjob.len - iter > Digest
    /\ LET pieces == <<digest>> \o LabelSeed(kjob.label)
           h == HmacUpdate(hmac, pieces)
           again == HmacFinal(h, TRUE, "reset") IN
       /\ mem' = [mem EXCEPT !["out"] = @ \o Bytes(HmacDigest(h), Digest)]
       /\ Hashes(again, <<>>, <<digest>>, "reset")
       /\ digest' = HmacDigest(HmacUpdate(again, <<digest>>))
    /\ iter' = iter + Digest
    /\ UNCHANGED <<kphase, kjob, calls, used, kret>>

\* A bare HMAC context, as the ticket encryption and the callers of the library use it
UseBegin ==
    /\ kphase = "choose"
    /\ kphase' = "use"
    /\ kjob' = [kjob EXCEPT !.name = "use"]
    /\ hmac' = HmacCreate(<<"user key">>)
    /\ said' = <<>>
    /\ UNCHANGED <<calls, iter, digest, mem, computed, used, kret>>

UseUpdate ==
    /\ kphase = "use" /\ hmac.live /\ used < MaxUse
    /\ \E piece \in HmacPieces :
        /\ hmac' = HmacUpdate(hmac, <<piece>>)
        /\ said' = Append(said, piece)
    /\ used' = used + 1
    /\ UNCHANGED <<kphase, kjob, calls, iter, digest, mem, computed, kret>>

UseFinal ==
    /\ kphase = "use" /\ hmac.live /\ used < MaxUse
    /\ \E mode \in Modes :
        /\ \/ Hashes(hmac, said, <<>>, mode)
           \/ hmac' = HmacFinal(hmac, FALSE, mode) /\ said' = <<>> /\ UNCHANGED computed
        /\ kphase' = IF mode = "free" THEN "done" ELSE kphase
    /\ used' = used + 1
    /\ UNCHANGED <<kjob, calls, iter, digest, mem, kret>>

KdfNext ==
    \/ Extract \/ BeginExpand \/ CalcHash \/ ExpandIteration \/ ExpandNoMemory \/ ExpandEnd
    \/ PHashBegin \/ PHashIteration \/ PHashLast
    \/ UseBegin \/ UseUpdate \/ UseFinal

KdfSpec == KdfInit /\ [][KdfNext]_kdfVars

----------------------------------------------------------------------------
\* The definitions of RFC 2104, RFC 5869 and RFC 5246, section 5.

HmacRef(key, pieces) ==
    <<"d", << KeyPiece(key, {"5c"}), <<"d", <<KeyPiece(key, {"36"})>> \o pieces>> >> >>

FirstBytes(blocks, len) ==
    [j \in 1 .. len |-> <<blocks[((j - 1) \div Digest) + 1], ((j - 1) % Digest) + 1>>]

KdfBlocks(len) == 1 .. (len + Digest - 1) \div Digest

\* Info is a sequence of pieces.
ExpandRef(prk, info, len) ==
    LET T[n \in KdfBlocks(len)] ==
            HmacRef(prk, (IF n = 1 THEN <<>> ELSE <<T[n - 1]>>) \o info \o <<<<"byte", n>>>>)
    IN FirstBytes(T, len)

\* RFC 5869 defines HKDF-Expand up to 255 blocks.
ExpandLimit == (CounterMod - 1) * Digest

PHashRef(secret, seed, len) ==
    LET A[n \in KdfBlocks(len)] == HmacRef(secret, IF n = 1 THEN seed ELSE <<A[n - 1]>>)
    IN FirstBytes([n \in KdfBlocks(len) |-> HmacRef(secret, <<A[n]>> \o seed)], len)

CallRef(call, prk, value) == ExpandRef(prk, <<call.info, value>>, call.len)

\* The output of a chain of two calls, the second keyed by the first's output
ChainRef(name, value) ==
    LET first == Derivations[name][1]
        second == Derivations[name][2]
    IN CallRef(second, <<"bytes", CallRef(first, first.prk, first.value)>>, value)

ContextHashRef == <<"bytes", FirstBytes(<< <<"d", <<<<"context">>>>>> >>, Digest)>>

\* A derivation that reports success has computed what the RFC defines: ptls_hkdf_extract,
\* ptls_tls12_phash of any length, the chains in get_traffic_keys, derive_resumption_secret and
\* ptls_export_secret, and ptls_hkdf_expand up to the 255 blocks for which RFC 5869 defines it.
\* Asked for more, ptls_hkdf_expand reports success all the same, with the whole length written and
\* the first 255 blocks those of the RFC; from there on its counter starts again at zero.
KdfIsRfc ==
    kphase = "done" /\ kret = "ok" =>
      CASE kjob.name = "extract" ->
             mem["out"] = FirstBytes(<<HmacRef(IF kjob.label THEN <<"salt">> ELSE <<"zeroes">>,
                                               <<<<"ikm">>>>)>>, Digest)
        [] kjob.name = "expand" ->
             LET defined == IF kjob.len < ExpandLimit THEN kjob.len ELSE ExpandLimit IN
             /\ Len(mem["out"]) = kjob.len
             /\ SubSeq(mem["out"], 1, defined)
                  = ExpandRef(<<"prk">>, <<<<"info">>, <<"none">>>>, defined)
        [] kjob.name = "phash" ->
             mem["out"] = PHashRef(<<"secret">>, LabelSeed(kjob.label), kjob.len)
        [] kjob.name = "keys" ->
             /\ mem["key"] = CallRef(Derivations["keys"][1], <<"traffic">>, <<"none">>)
             /\ mem["iv"] = CallRef(Derivations["keys"][2], <<"traffic">>, <<"none">>)
        [] kjob.name = "resumption" -> mem["secret"] = ChainRef("resumption", <<"nonce">>)
        [] kjob.name = "export" -> mem["out"] = ChainRef("export", ContextHashRef)
        [] OTHER -> TRUE

\* Every digest an HMAC context delivers is the HMAC, under its key, of exactly what was passed to
\* update since the context was created or last reset, with or without a digest asked for:
\* hmac_final starts the next message with the key as it was.
HmacIsRfc ==
    computed.digest # <<"none">> => computed.digest = HmacRef(computed.key, computed.of)

\* A function that has returned has freed its HMAC context and cleared its local digest; one that
\* failed half way leaves no key, iv or secret behind, and the exporter never leaves the
\* intermediate secret or the hash of the context value.
NoSecretsLeft ==
    kphase = "done" =>
      /\ ~hmac.live
      /\ digest = Cleared
      /\ mem["derived"] = Cleared /\ mem["hash"] = Cleared
      /\ kret # "ok" => \A b \in Buffers : mem[b] = Cleared

\* hmac_final, ptls_hkdf_extract, ptls_hkdf_expand, ptls_tls12_phash and the derivations built on them
\* compute what the RFCs define and leave nothing secret behind.
KdfSound == KdfIsRfc /\ HmacIsRfc /\ NoSecretsLeft

=============================================================================
