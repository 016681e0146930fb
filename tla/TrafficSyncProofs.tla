-------------------------- MODULE TrafficSyncProofs --------------------------
(***************************************************************************)
(* Proofs about Traffic, continued: the two ends stay in step, nothing     *)
(* leaves in the clear, keys are not worn out and a peer's request for a   *)
(* KeyUpdate is not lost.  TrafficProofs orders everything an endpoint     *)
(* ever sealed; here, while no send call failed half way, the records on   *)
(* the wire also leave no gap.                                             *)
(***************************************************************************)
EXTENDS TrafficProofs

\* The same generation and sequence number.
At(p, q) == p.gen = q.gen /\ p.seq = q.seq

\* Where a context that stood at p is after it sealed s.
End(p, s) == IF Len(s) = 0 THEN p ELSE After(s[Len(s)])

\* s is what a live context at p seals: no gap, nothing in the clear.
Linked(p, s) ==
    \A k \in 1..Len(s) : ~s[k].plain /\ At(s[k], IF k = 1 THEN p ELSE After(s[k - 1]))

\* Unless a send call failed half way, the wire has no gap and the context in
\* use stands at its end, with an AEAD context.
Contiguous ==
    \A e \in Endpoints :
        ~broken[e] =>
            /\ Linked(Start, wire[e])
            /\ txState[e] # "freed" => Current(e).live /\ At(Current(e), End(Start, wire[e]))

\* What a send call may do to a live context: use up nonces or a key and emit
\* nothing, or emit exactly what leads from c to d.
ExactSend(c, d, out, used) ==
    c.live => \/ out = <<>> /\ used # <<>>
              \/ d.live /\ Linked(c, out) /\ At(d, End(c, out))

\* The data records of one call stay below the limit plus one call's records.
Bounded(out) ==
    \A k \in 1..Len(out) : out[k].kind = "data" => out[k].seq < SeqLimit + MaxChunks - 1

\* A KeyUpdate went out protected.
HasUpdate(out) == \E k \in 1..Len(out) : out[k].kind = "ku" /\ ~out[k].plain

(***************************************************************************)
(* Sequences of records without a gap                                      *)
(***************************************************************************)

\* Two stretches without a gap, one behind the other, have none.
LEMMA LinkedConcat ==
    ASSUME NEW p, NEW c, NEW s \in Seq(Record), NEW t \in Seq(Record),
           Linked(p, s), At(c, End(p, s)), Linked(c, t)
    PROVE  Linked(p, s \o t) /\ \A d : At(d, End(c, t)) => At(d, End(p, s \o t))
<1> DEFINE st == s \o t
<1>1. Len(s) \in Nat /\ Len(t) \in Nat /\ Len(st) = Len(s) + Len(t)
  BY Concat
<1>2. \A i \in 1..Len(s) : st[i] = s[i]
  BY Concat
<1>3. \A i \in 1..Len(st) : i \notin 1..Len(s) => i - Len(s) \in 1..Len(t) /\ st[i] = t[i - Len(s)]
  BY Concat
<1> HIDE DEF st
<1>4. ASSUME NEW k \in 1..Len(st)
      PROVE  ~st[k].plain /\ At(st[k], IF k = 1 THEN p ELSE After(st[k - 1]))
  <2>1. CASE k \in 1..Len(s)
    <3>1. st[k] = s[k] /\ (k # 1 => st[k - 1] = s[k - 1])
      BY <1>1, <1>2, <2>1
    <3> QED BY <2>1, <3>1 DEF Linked
  <2>2. CASE k \notin 1..Len(s)
    <3> DEFINE j == k - Len(s)
    <3>1. j \in 1..Len(t) /\ st[k] = t[j]
      BY <1>3, <2>2
    <3>2. ~t[j].plain /\ At(t[j], IF j = 1 THEN c ELSE After(t[j - 1]))
      BY <3>1 DEF Linked
    <3>3. CASE j = 1
      <4>1. At(t[j], End(p, s))
        BY <3>2, <3>3 DEF At
      <4>2. End(p, s) = IF k = 1 THEN p ELSE After(st[k - 1])
        <5>1. k = Len(s) + 1
          BY <1>1, <3>3
        <5>2. CASE Len(s) = 0
          BY <5>1, <5>2 DEF End
        <5>3. CASE Len(s) # 0
          <6>1. k # 1 /\ k - 1 = Len(s) /\ Len(s) \in 1..Len(s)
            BY <1>1, <5>1, <5>3
          <6> QED BY <1>2, <5>3, <6>1 DEF End
        <5> QED BY <5>2, <5>3
      <4> QED BY <3>1, <3>2, <4>1, <4>2
    <3>4. CASE j # 1
      <4>1. k # 1 /\ k - 1 \in 1..Len(st) /\ k - 1 \notin 1..Len(s) /\ (k - 1) - Len(s) = j - 1
        BY <1>1, <3>1, <3>4
      <4>2. st[k - 1] = t[j - 1]
        BY <1>3, <4>1
      <4> HIDE DEF j
      <4> QED BY <3>1, <3>2, <3>4, <4>1, <4>2
    <3> QED BY <3>3, <3>4
  <2> QED BY <2>1, <2>2
<1>5. ASSUME NEW d, At(d, End(c, t)) PROVE At(d, End(p, st))
  <2>1. CASE Len(t) = 0
    <3>1. Len(st) = Len(s) /\ (Len(s) # 0 => Len(s) \in 1..Len(s))
      BY <1>1, <2>1
    <3>2. End(p, st) = End(p, s)
      BY <1>2, <3>1 DEF End
    <3>3. At(d, c)
      BY <1>5, <2>1 DEF End
    <3> QED BY <3>2, <3>3 DEF At
  <2>2. CASE Len(t) # 0
    <3>1. Len(st) \in 1..Len(st) /\ Len(st) \notin 1..Len(s) /\ Len(st) - Len(s) = Len(t) /\ Len(st) # 0
      BY <1>1, <2>2
    <3>2. st[Len(st)] = t[Len(t)]
      BY <1>3, <3>1
    <3> QED BY <1>5, <2>2, <3>1, <3>2 DEF End
  <2> QED BY <2>1, <2>2
<1>6. Linked(p, st)
  BY <1>4 DEF Linked
<1> QED BY <1>5, <1>6 DEF st

\* The empty stretch.
LEMMA LinkedNothing ==
    ASSUME NEW c
    PROVE  Linked(c, <<>>) /\ At(c, End(c, <<>>)) /\ Bounded(<<>>)
BY DEF Linked, At, End, Bounded

\* A stretch of one record.
LEMMA LinkedOne ==
    ASSUME NEW c, NEW r, ~r.plain, At(r, c)
    PROVE  Linked(c, <<r>>) /\ End(c, <<r>>) = After(r)
<1>1. Len(<<r>>) = 1 /\ <<r>>[1] = r /\ \A k \in 1..1 : k = 1
  OBVIOUS
<1> QED BY <1>1 DEF Linked, End

\* An alert.
LEMMA ExactOne ==
    ASSUME NEW c \in Protection, NEW kind \in Kinds \ {"ku", "data"}
    PROVE  /\ ExactSend(c, Advance(c, 1), <<Seal(c, 0, kind, FALSE)>>, Nonces(c, 1))
           /\ Bounded(<<Seal(c, 0, kind, FALSE)>>)
<1> DEFINE r == Seal(c, 0, kind, FALSE)
           d == Advance(c, 1)
<1>1. c.gen \in Nat /\ c.seq \in Nat /\ c.live \in BOOLEAN
  BY DEF Protection
<1>2. r.gen = c.gen /\ r.seq = c.seq /\ r.kind \notin {"ku", "data"} /\ r.plain = ~c.live
  BY <1>1 DEF Seal
<1>3. c.live => d.gen = c.gen /\ d.seq = c.seq + 1 /\ d.live
  BY <1>1 DEF Advance, Protection
<1>4. c.live => After(r).gen = c.gen /\ After(r).seq = c.seq + 1
  BY <1>2 DEF After
<1> HIDE DEF r, d
<1>5. c.live => d.live /\ Linked(c, <<r>>) /\ At(d, End(c, <<r>>))
  BY <1>2, <1>3, <1>4, LinkedOne DEF At
<1>6. Bounded(<<r>>)
  <2>1. Len(<<r>>) = 1 /\ <<r>>[1] = r /\ \A k \in 1..1 : k = 1
    OBVIOUS
  <2> QED BY <1>2, <2>1 DEF Bounded
<1> QED BY <1>5, <1>6 DEF ExactSend, r, d

\* update_send_key: a live context either emits the KeyUpdate and moves to the
\* next key, fails before anything, or uses up a nonce and emits nothing.
LEMMA ExactUpdate ==
    ASSUME NEW c \in Protection, NEW req \in BOOLEAN, NEW fault
    PROVE  LET u == UpdateSendKey(c, req, fault)
           IN  /\ ExactSend(c, u.enc, u.out, u.used)
               /\ Bounded(u.out)
               /\ fault \notin {"reserve", "hkdf", "aead"} =>
                     /\ u.enc.live /\ u.enc.seq = 0 /\ u.out # <<>>
                     /\ c.live => u.used # <<>> /\ HasUpdate(u.out)
<1> DEFINE r == Seal(c, 0, "ku", req)
           used == Nonces(c, 1)
<1>1. c.gen \in Nat /\ c.seq \in Nat /\ c.live \in BOOLEAN
  BY DEF Protection
<1>2. r.gen = c.gen /\ r.seq = c.seq /\ r.kind = "ku" /\ r.plain = ~c.live
  BY <1>1 DEF Seal
<1>3. c.live => used # <<>>
  <2>1. c.live => Len(used) = 1
    BY DEF Nonces
  <2> HIDE DEF used
  <2> QED BY <2>1
<1>4. After(r).gen = c.gen + 1 /\ After(r).seq = 0
  BY <1>2 DEF After
<1> HIDE DEF r, used
<1>5. CASE fault = "reserve"
  <2>1. UpdateSendKey(c, req, fault) = [enc |-> c, out |-> <<>>, used |-> <<>>]
    BY <1>5 DEF UpdateSendKey
  <2>2. ExactSend(c, c, <<>>, <<>>)
    BY LinkedNothing DEF ExactSend
  <2> QED BY <1>5, <2>1, <2>2, LinkedNothing
<1>6. CASE fault \in {"hkdf", "aead"}
  <2>1. PICK d : UpdateSendKey(c, req, fault) = [enc |-> d, out |-> <<>>, used |-> used]
    <3>1. CASE fault = "hkdf"
      BY <3>1 DEF UpdateSendKey, used
    <3>2. CASE fault = "aead"
      BY <3>2 DEF UpdateSendKey, used
    <3> QED BY <1>6, <3>1, <3>2
  <2>2. ExactSend(c, d, <<>>, used)
    BY <1>3 DEF ExactSend
  <2> QED BY <1>6, <2>1, <2>2, LinkedNothing
<1>7. CASE fault \notin {"reserve", "hkdf", "aead"}
  <2> DEFINE d == NextKey(c)
  <2>1. UpdateSendKey(c, req, fault) = [enc |-> d, out |-> <<r>>, used |-> used]
    BY <1>7 DEF UpdateSendKey, r, used
  <2>2. d.gen = c.gen + 1 /\ d.seq = 0 /\ d.live
    BY DEF NextKey
  <2> HIDE DEF d
  <2>3. Len(<<r>>) = 1 /\ <<r>>[1] = r /\ <<r>> # <<>> /\ \A k \in 1..1 : k = 1
    OBVIOUS
  <2>4. c.live => Linked(c, <<r>>) /\ At(d, End(c, <<r>>))
    BY <1>2, <1>4, <2>2, LinkedOne DEF At
  <2>5. ExactSend(c, d, <<r>>, used)
    BY <2>2, <2>4 DEF ExactSend
  <2>6. Bounded(<<r>>)
    BY <1>2, <2>3 DEF Bounded
  <2>7. c.live => HasUpdate(<<r>>)
    <3>1. 1 \in 1..1
      OBVIOUS
    <3> QED BY <1>2, <2>3, <3>1 DEF HasUpdate
  <2> QED BY <1>3, <2>1, <2>2, <2>3, <2>5, <2>6, <2>7
<1> QED BY <1>5, <1>6, <1>7

\* The data records of one call, sealed by a live context.
LEMMA ExactData ==
    ASSUME NEW c \in Protection, NEW n \in Nat, c.live
    PROVE  /\ Linked(c, DataRecords(c, n))
           /\ At(Advance(c, n), End(c, DataRecords(c, n)))
           /\ Advance(c, n).live
           /\ (c.seq < SeqLimit /\ n <= MaxChunks) => Bounded(DataRecords(c, n))
<1> DEFINE d == Advance(c, n)
           out == DataRecords(c, n)
<1>1. c.gen \in Nat /\ c.seq \in Nat
  BY DEF Protection
<1>2. d.gen = c.gen /\ d.seq = c.seq + n /\ d.live
  BY <1>1 DEF Advance, Protection
<1>3. Len(out) = n /\ \A k \in 1..n : out[k] = Seal(c, k - 1, "data", FALSE)
  BY DEF DataRecords
<1>4. \A k \in 1..n : /\ out[k].gen = c.gen /\ out[k].seq = c.seq + (k - 1)
                      /\ out[k].kind = "data" /\ ~out[k].plain
  <2> TAKE k \in 1..n
  <2>1. Seal(c, k - 1, "data", FALSE).gen = c.gen /\ Seal(c, k - 1, "data", FALSE).seq = c.seq + (k - 1)
    BY DEF Seal
  <2>2. Seal(c, k - 1, "data", FALSE).kind = "data" /\ ~Seal(c, k - 1, "data", FALSE).plain
    BY DEF Seal
  <2> HIDE DEF out
  <2> QED BY <1>3, <2>1, <2>2
<1> HIDE DEF d, out
<1>5. \A k \in 1..n : After(out[k]).gen = c.gen /\ After(out[k]).seq = c.seq + k
  BY <1>1, <1>4 DEF After
<1>6. Linked(c, out)
  <2>1. ASSUME NEW k \in 1..n
        PROVE  ~out[k].plain /\ At(out[k], IF k = 1 THEN c ELSE After(out[k - 1]))
    <3>1. CASE k = 1
      BY <1>1, <1>4, <3>1 DEF At
    <3>2. CASE k # 1
      <4>1. k - 1 \in 1..n
        BY <3>2
      <4>2. After(out[k - 1]).gen = c.gen /\ After(out[k - 1]).seq = c.seq + (k - 1)
        BY <1>5, <4>1
      <4> QED BY <1>4, <3>2, <4>2 DEF At
    <3> QED BY <3>1, <3>2
  <2> QED BY <1>3, <2>1 DEF Linked
<1>7. At(d, End(c, out))
  <2>1. CASE n = 0
    BY <1>1, <1>2, <1>3, <2>1 DEF At, End
  <2>2. CASE n # 0
    <3>1. n \in 1..n
      BY <2>2
    <3> QED BY <1>2, <1>3, <1>5, <2>2, <3>1 DEF At, End
  <2> QED BY <2>1, <2>2
<1>8. (c.seq < SeqLimit /\ n <= MaxChunks) => Bounded(out)
  <2>1. SeqLimit \in Nat /\ MaxChunks \in Nat
    BY ConstantsAssumption
  <2>2. ASSUME c.seq < SeqLimit, n <= MaxChunks, NEW k \in 1..n
        PROVE  out[k].seq < SeqLimit + MaxChunks - 1
    <3>1. out[k].seq = c.seq + (k - 1)
      BY <1>4
    <3> QED BY <1>1, <2>1, <2>2, <3>1
  <2> QED BY <1>3, <2>2 DEF Bounded
<1> QED BY <1>2, <1>6, <1>7, <1>8 DEF d, out

\* ptls_send and ptls_tx_sendv: exact, within the limit, and a pending update
\* stays pending, goes out, or was used up by a call that failed half way.
LEMMA SendEffectExact ==
    ASSUME TypeOK, NEW e \in Endpoints, NEW o \in Owners, NEW n \in 0..MaxChunks, NEW fault,
           enc[e][o].live, fault = "data" => n > 0, SendEffect(e, o, n, fault)
    PROVE  \E d \in Protection, out \in Seq(Record), used \in Seq(Position) :
               /\ Transmit(e, o, d, out, used)
               /\ ExactSend(enc[e][o], d, out, used)
               /\ Bounded(out)
               /\ needs[e][o] => needs'[e][o] \/ HasUpdate(out) \/ (out = <<>> /\ used # <<>>)
<1> DEFINE c == enc[e][o]
           ku == NeedsUpdate(e, o)
           u  == IF ku THEN UpdateSendKey(c, request[e][o], fault)
                 ELSE [enc |-> c, out |-> <<>>, used |-> <<>>]
           failed == ku /\ fault \in {"reserve", "hkdf", "aead"}
<1>1. c \in Protection /\ request[e][o] \in BOOLEAN /\ c.live /\ c.seq \in Nat
  BY DEF TypeOK, Protection
<1>2. SeqLimit \in Nat \ {0} /\ MaxChunks \in Nat /\ n \in Nat /\ n <= MaxChunks
  BY ConstantsAssumption
<1>3. /\ u.enc \in Protection /\ u.out \in Seq(Record) /\ u.used \in Seq(Position)
      /\ ExactSend(c, u.enc, u.out, u.used) /\ Bounded(u.out)
  <2>1. CASE ku
    BY <2>1, <1>1, UpdateSendKeyTypes, ExactUpdate
  <2>2. CASE ~ku
    <3>1. u.enc = c /\ u.out = <<>> /\ u.used = <<>>
      BY <2>2
    <3> HIDE DEF u, c
    <3> QED BY <3>1, <1>1, LinkedNothing DEF ExactSend
  <2> QED BY <2>1, <2>2
<1>4. ~failed => /\ u.enc.live /\ u.enc.seq < SeqLimit
                 /\ Linked(c, u.out) /\ At(u.enc, End(c, u.out))
                 /\ ku => u.used # <<>> /\ HasUpdate(u.out) /\ u.out # <<>>
  <2>1. CASE ku /\ ~failed
    <3>1. u.enc.live /\ u.enc.seq = 0 /\ u.out # <<>> /\ u.used # <<>> /\ HasUpdate(u.out)
      BY <1>1, <2>1, ExactUpdate
    <3> HIDE DEF u, c
    <3> QED BY <1>1, <1>2, <1>3, <3>1 DEF ExactSend
  <2>2. CASE ~ku
    <3>1. u.enc = c /\ u.out = <<>> /\ u.used = <<>>
      BY <2>2
    <3>2. c.seq < SeqLimit
      BY <1>1, <1>2, <2>2 DEF NeedsUpdate
    <3> HIDE DEF u, c, ku
    <3> QED BY <3>1, <3>2, <2>2, <1>1, LinkedNothing
  <2> QED BY <2>1, <2>2
<1>5. needs[e][o] => ku
  BY DEF NeedsUpdate
<1>6. needs \in [Endpoints -> [Owners -> BOOLEAN]]
  BY DEF TypeOK
<1> HIDE DEF c, ku, u
<1>7. CASE failed
  <2>1. Transmit(e, o, u.enc, <<>>, u.used) /\ needs' = [needs EXCEPT ![e][o] = TRUE]
    BY <1>7 DEF SendEffect, c, ku, u
  <2>2. needs'[e][o]
    BY <1>6, <2>1
  <2>3. ExactSend(c, u.enc, <<>>, u.used)
    <3>1. CASE u.out = <<>>
      BY <1>3, <3>1
    <3>2. CASE u.out # <<>>
      <4>1. u = UpdateSendKey(c, request[e][o], fault)
        BY <1>7 DEF u
      <4>2. u.out = <<>>
        BY <1>7, <4>1 DEF UpdateSendKey
      <4> QED BY <3>2, <4>2
    <3> QED BY <3>1, <3>2
  <2>4. Bounded(<<>>) /\ <<>> \in Seq(Record)
    BY LinkedNothing
  <2> QED BY <1>3, <2>1, <2>2, <2>3, <2>4 DEF c
<1>8. CASE ~failed /\ fault = "data"
  <2> DEFINE d == Advance(u.enc, n - 1)
             used == Nonces(u.enc, n - 1)
  <2>1. Transmit(e, o, d, <<>>, u.used \o used)
    BY <1>8 DEF SendEffect, c, ku, u
  <2>2. n - 1 \in Nat
    BY <1>2, <1>8
  <2>3. d \in Protection /\ used \in Seq(Position)
    BY <1>3, <2>2, ContextTypes, SealTypes
  <2>4. u.used \o used \in Seq(Position) /\ Len(u.used \o used) = Len(u.used) + Len(used)
        /\ Len(u.used) \in Nat /\ Len(used) \in Nat
    BY <1>3, <2>3, Concat
  <2>5. ASSUME u.used \o used = <<>> PROVE ~ku /\ d = c
    <3>1. Len(u.used) = 0 /\ Len(used) = 0
      BY <2>4, <2>5
    <3>2. ~ku
      <4>1. u.used = <<>>
        BY <1>3, <3>1
      <4> QED BY <1>4, <1>8, <4>1
    <3>3. u.enc = c
      BY <3>2 DEF u
    <3>4. n - 1 = 0
      BY <2>2, <3>1, <1>4, <1>8 DEF Nonces
    <3>5. Advance(c, 0) = c
      BY <1>1 DEF Advance, Protection
    <3> QED BY <3>2, <3>3, <3>4, <3>5
  <2> HIDE DEF d, used
  <2>6. ExactSend(c, d, <<>>, u.used \o used)
    <3>1. CASE u.used \o used = <<>>
      BY <1>1, <2>5, <3>1, LinkedNothing DEF ExactSend
    <3>2. CASE u.used \o used # <<>>
      BY <3>2 DEF ExactSend
    <3> QED BY <3>1, <3>2
  <2>7. needs[e][o] => u.used \o used # <<>>
    BY <1>5, <2>5
  <2>8. Bounded(<<>>) /\ <<>> \in Seq(Record)
    BY LinkedNothing
  <2> QED BY <2>1, <2>3, <2>4, <2>6, <2>7, <2>8 DEF c
<1>9. CASE ~failed /\ fault # "data"
  <2> DEFINE d == Advance(u.enc, n)
             used == Nonces(u.enc, n)
             data == DataRecords(u.enc, n)
             out == u.out \o data
  <2>1. Transmit(e, o, d, out, u.used \o used)
    BY <1>9 DEF SendEffect, c, ku, u
  <2>2. d \in Protection /\ used \in Seq(Position) /\ data \in Seq(Record)
    BY <1>2, <1>3, ContextTypes, SealTypes
  <2>3. /\ Linked(u.enc, data) /\ At(d, End(u.enc, data)) /\ d.live /\ Bounded(data)
    BY <1>2, <1>3, <1>4, <1>9, ExactData
  <2> HIDE DEF d, used, data
  <2>4. Linked(c, out) /\ At(d, End(c, out))
    BY <1>3, <1>4, <1>9, <2>2, <2>3, LinkedConcat
  <2>5. u.used \o used \in Seq(Position)
    BY <1>3, <2>2
  <2>6. /\ out \in Seq(Record) /\ Len(out) = Len(u.out) + Len(data)
        /\ Len(u.out) \in Nat /\ Len(data) \in Nat
        /\ \A i \in 1..Len(u.out) : out[i] = u.out[i]
        /\ \A i \in 1..Len(out) : i \notin 1..Len(u.out) =>
              i - Len(u.out) \in 1..Len(data) /\ out[i] = data[i - Len(u.out)]
    BY <1>3, <2>2, Concat
  <2> HIDE DEF out
  <2>7. Bounded(out)
    BY <1>3, <2>3, <2>6 DEF Bounded
  <2>8. needs[e][o] => HasUpdate(out)
    <3>1. \A i \in 1..Len(u.out) : i \in 1..Len(out)
      BY <2>6
    <3> QED BY <1>4, <1>5, <1>9, <2>6, <3>1 DEF HasUpdate
  <2>9. ExactSend(c, d, out, u.used \o used)
    BY <2>3, <2>4 DEF ExactSend
  <2> QED BY <2>1, <2>2, <2>5, <2>6, <2>7, <2>8, <2>9 DEF c
<1> QED BY <1>7, <1>8, <1>9

(***************************************************************************)
(* No gap on the wire                                                      *)
(***************************************************************************)

\* An exact send leaves no gap, or breaks the direction for good.
LEMMA TransmitContiguous ==
    ASSUME TypeOK, Contiguous,
           NEW e \in Endpoints, NEW o \in Owners, Available(e, o), UNCHANGED txState,
           NEW d \in Protection, NEW out \in Seq(Record), NEW used \in Seq(Position),
           Transmit(e, o, d, out, used), ExactSend(enc[e][o], d, out, used)
    PROVE  Contiguous'
<1> DEFINE c == enc[e][o]
           w == wire[e]
<1>1. w \in Seq(Record) /\ broken[e] \in BOOLEAN
  BY DEF TypeOK
<1>2. Current(e) = c /\ txState[e] # "freed" /\ Current(e)' = d
  BY DEF Available, Current, Transmit, TypeOK, Owners
<1>3. \A g \in Endpoints \ {e} : /\ Current(g)' = Current(g) /\ wire'[g] = wire[g]
                                 /\ broken'[g] = broken[g] /\ txState'[g] = txState[g]
  BY DEF Current, Transmit, TypeOK
<1>4. wire'[e] = w \o out /\ (~broken'[e] => ~broken[e] /\ ~(used # <<>> /\ out = <<>>))
  BY DEF Transmit, TypeOK
<1>5. ASSUME ~broken'[e]
      PROVE  Linked(Start, w \o out) /\ d.live /\ At(d, End(Start, w \o out))
  <2>1. Linked(Start, w) /\ c.live /\ At(c, End(Start, w))
    BY <1>2, <1>4, <1>5 DEF Contiguous
  <2>2. d.live /\ Linked(c, out) /\ At(d, End(c, out))
    BY <1>4, <1>5, <2>1 DEF ExactSend
  <2> HIDE DEF c, w
  <2> QED BY <1>1, <2>1, <2>2, LinkedConcat
<1> SUFFICES ASSUME NEW g \in Endpoints, ~broken'[g]
             PROVE  /\ Linked(Start, wire'[g])
                    /\ txState'[g] # "freed" =>
                          (Current(g)').live /\ At(Current(g)', End(Start, wire'[g]))
  BY DEF Contiguous, Start, Linked, End, At, After
<1>6. CASE g = e
  BY <1>2, <1>4, <1>5, <1>6
<1>7. CASE g # e
  BY <1>3, <1>7 DEF Contiguous
<1> QED BY <1>6, <1>7

\* Nothing moves when contexts, wire and the history of failures stay.
LEMMA SameContiguous ==
    ASSUME Contiguous, UNCHANGED <<wire, broken>>,
           \A e \in Endpoints : txState'[e] # "freed" =>
               /\ txState[e] # "freed"
               /\ At(Current(e)', Current(e)) /\ (Current(e).live => (Current(e)').live)
    PROVE  Contiguous'
<1> SUFFICES ASSUME NEW g \in Endpoints, ~broken[g]
             PROVE  /\ Linked(Start, wire[g])
                    /\ txState'[g] # "freed" =>
                          (Current(g)').live /\ At(Current(g)', End(Start, wire[g]))
  BY DEF Contiguous, Start, Linked, End, At, After
<1>1. Linked(Start, wire[g]) /\ (txState[g] # "freed" => Current(g).live /\ At(Current(g), End(Start, wire[g])))
  BY DEF Contiguous
<1>2. CASE txState'[g] # "freed"
  <2>1. txState[g] # "freed" /\ At(Current(g)', Current(g)) /\ (Current(g)').live
    BY <1>1, <1>2
  <2>2. At(Current(g)', End(Start, wire[g]))
    BY <1>1, <2>1 DEF At
  <2> QED BY <1>1, <2>1, <2>2
<1> QED BY <1>1, <1>2

(***************************************************************************)
(* Requests                                                                *)
(***************************************************************************)

\* e must still hold the request its peer made.
MustRemember(e) ==
    /\ owed[e] /\ ~broken[e] /\ ~migrated[e] /\ txState[e] # "freed"
    /\ closed[e] # "internal_error"

\* Where e holds it.
Remembers(e) ==
    \/ \E o \in Owners : Available(e, o) /\ needs[e][o]
    \/ keyUpdateRequests[e] > 0
    \/ taken[e] > 0

\* RequestRemembered, by its parts.
LEMMA RememberedParts == RequestRemembered <=> \A e \in Endpoints : MustRemember(e) => Remembers(e)
BY DEF RequestRemembered, MustRemember, Remembers

\* A step of e that does not lose its request keeps everyone's.
LEMMA RememberStep ==
    ASSUME RequestRemembered, NEW e \in Endpoints,
           \A g \in Endpoints \ {e} :
               /\ owed'[g] = owed[g] /\ broken'[g] = broken[g] /\ migrated'[g] = migrated[g]
               /\ txState'[g] = txState[g] /\ closed'[g] = closed[g] /\ needs'[g] = needs[g]
               /\ keyUpdateRequests'[g] = keyUpdateRequests[g] /\ taken'[g] = taken[g],
           MustRemember(e)' => Remembers(e)'
    PROVE  RequestRemembered'
<1>1. ASSUME NEW g \in Endpoints PROVE MustRemember(g)' => Remembers(g)'
  <2>1. CASE g = e
    BY <2>1
  <2>2. CASE g # e
    <3>1. MustRemember(g)' <=> MustRemember(g)
      BY <2>2 DEF MustRemember
    <3>2. Remembers(g)' <=> Remembers(g)
      BY <2>2 DEF Remembers, Available
    <3> QED BY <3>1, <3>2, RememberedParts
  <2> QED BY <2>1, <2>2
<1> QED BY <1>1 DEF RequestRemembered, MustRemember, Remembers

\* A send call on the object that owns the transmission.
LEMMA SendRemembers ==
    ASSUME TypeOK, RequestRemembered, NEW e \in Endpoints, NEW o \in Owners, Available(e, o),
           NEW d, NEW out, NEW used, Transmit(e, o, d, out, used),
           UNCHANGED <<txState, closed, migrated, keyUpdateRequests>>,
           needs' \in [Endpoints -> [Owners -> BOOLEAN]],
           \A g \in Endpoints \ {e} : needs'[g] = needs[g] /\ taken'[g] = taken[g],
           needs[e][o] => needs'[e][o] \/ HasUpdate(out) \/ (out = <<>> /\ used # <<>>),
           taken[e] > 0 => taken'[e] > 0 \/ HasUpdate(out) \/ broken[e]
    PROVE  RequestRemembered'
<1>1. \A g \in Endpoints \ {e} : owed'[g] = owed[g] /\ broken'[g] = broken[g]
  BY DEF Transmit, TypeOK
<1>2. owed'[e] => owed[e] /\ ~HasUpdate(out)
  BY DEF Transmit, TypeOK, HasUpdate
<1>3. ~broken'[e] => ~broken[e] /\ ~(out = <<>> /\ used # <<>>)
  BY DEF Transmit, TypeOK
<1>4. \A q \in Owners : Available(e, q) => q = o /\ Available(e, q)'
  BY DEF Available, Owners
<1>5. ASSUME MustRemember(e)' PROVE Remembers(e)'
  <2>1. MustRemember(e) /\ ~HasUpdate(out) /\ ~(out = <<>> /\ used # <<>>) /\ ~broken[e]
    BY <1>2, <1>3, <1>5 DEF MustRemember
  <2>2. Remembers(e)
    BY <2>1, RememberedParts
  <2>3. CASE \E q \in Owners : Available(e, q) /\ needs[e][q]
    <3>1. needs'[e][o] /\ Available(e, o)'
      BY <1>4, <2>1, <2>3
    <3> QED BY <3>1 DEF Remembers
  <2>4. CASE keyUpdateRequests[e] > 0
    BY <2>4 DEF Remembers
  <2>5. CASE taken[e] > 0
    <3>1. taken'[e] > 0
      BY <2>1, <2>5
    <3> QED BY <3>1 DEF Remembers
  <2> QED BY <2>2, <2>3, <2>4, <2>5 DEF Remembers
<1> QED BY <1>1, <1>5, RememberStep

(***************************************************************************)
(* The inductive invariant                                                 *)
(***************************************************************************)

SyncInv == Contiguous /\ RequestRemembered /\ KeyNotWornOut

\* Records within the limit keep the wire within the limit.
LEMMA TransmitBounded ==
    ASSUME TypeOK, KeyNotWornOut, NEW e \in Endpoints, NEW o \in Owners,
           NEW d, NEW out \in Seq(Record), NEW used, Transmit(e, o, d, out, used), Bounded(out)
    PROVE  KeyNotWornOut'
<1> DEFINE w == wire[e]
           t == w \o out
<1>1. w \in Seq(Record) /\ wire'[e] = t /\ \A g \in Endpoints \ {e} : wire'[g] = wire[g]
  BY DEF Transmit, TypeOK
<1>2. ASSUME NEW i \in 1..Len(t) PROVE t[i].kind = "data" => t[i].seq < SeqLimit + MaxChunks - 1
  <2>1. CASE i \in 1..Len(w)
    <3>1. t[i] = w[i]
      BY <1>1, <2>1, Concat
    <3> HIDE DEF t
    <3> QED BY <2>1, <3>1 DEF KeyNotWornOut
  <2>2. CASE i \notin 1..Len(w)
    <3>1. i - Len(w) \in 1..Len(out) /\ t[i] = out[i - Len(w)]
      BY <1>1, <2>2, Concat
    <3> HIDE DEF t
    <3> QED BY <3>1 DEF Bounded
  <2> QED BY <2>1, <2>2
<1> HIDE DEF t
<1>3. ASSUME NEW g \in Endpoints
      PROVE  \A i \in 1..Len(wire'[g]) :
                 wire'[g][i].kind = "data" => wire'[g][i].seq < SeqLimit + MaxChunks - 1
  <2>1. CASE g = e
    BY <1>1, <1>2, <2>1
  <2>2. CASE g # e
    BY <1>1, <2>2 DEF KeyNotWornOut
  <2> QED BY <2>1, <2>2
<1> QED BY <1>3 DEF KeyNotWornOut

\* The initial states: the server's tickets are on the wire without a gap.
LEMMA InitSync == Init => SyncInv
<1> SUFFICES ASSUME Init PROVE SyncInv
  OBVIOUS
<1>1. NumTickets \in Nat /\ Client # Server
  BY ConstantsAssumption
<1>2. Fresh.live /\ Fresh.gen = 0 /\ Fresh.seq = 0 /\ Start.gen = 0 /\ Start.seq = 0
  BY DEF Fresh, Start
<1> DEFINE tickets == [i \in 1..NumTickets |-> Seal(Fresh, i - 1, "nst", FALSE)]
           c == Advance(Fresh, NumTickets)
<1>3. c.gen = 0 /\ c.seq = NumTickets /\ c.live
  BY <1>1, <1>2 DEF Advance, Fresh
<1>4. Len(tickets) = NumTickets
  BY <1>1
<1>5. ASSUME NEW i \in 1..NumTickets
      PROVE  /\ tickets[i].gen = 0 /\ tickets[i].seq = i - 1 /\ ~tickets[i].plain /\ tickets[i].kind = "nst"
             /\ After(tickets[i]).gen = 0 /\ After(tickets[i]).seq = i
  <2> DEFINE x == Seal(Fresh, i - 1, "nst", FALSE)
  <2>1. x.gen = 0 /\ x.kind = "nst"
    BY <1>2 DEF Seal
  <2>2. x.seq = i - 1
    BY <1>1, <1>2 DEF Seal
  <2>3. ~x.plain
    BY <1>2 DEF Seal
  <2>4. tickets[i] = x
    OBVIOUS
  <2> HIDE DEF x, tickets
  <2>5. After(x).gen = 0 /\ After(x).seq = i
    BY <1>1, <2>1, <2>2, <2>3 DEF After
  <2> QED BY <2>1, <2>2, <2>3, <2>4, <2>5
<1>6. /\ txState[Client] = "none" /\ txState[Server] = "none"
      /\ Current(Client) = Fresh /\ Current(Server) = c
      /\ wire[Client] = <<>> /\ wire[Server] = tickets
  BY <1>1 DEF Init, Current, Endpoints, Owners
<1> HIDE DEF tickets, c
<1>7. Linked(Start, tickets) /\ At(c, End(Start, tickets))
  <2>1. ASSUME NEW k \in 1..NumTickets
        PROVE  ~tickets[k].plain /\ At(tickets[k], IF k = 1 THEN Start ELSE After(tickets[k - 1]))
    <3>1. CASE k = 1
      BY <1>2, <1>5, <3>1 DEF At
    <3>2. CASE k # 1
      <4>1. k - 1 \in 1..NumTickets
        BY <1>1, <3>2
      <4>2. tickets[k].gen = 0 /\ tickets[k].seq = k - 1 /\ ~tickets[k].plain
        BY <1>5
      <4>3. After(tickets[k - 1]).gen = 0 /\ After(tickets[k - 1]).seq = k - 1
        BY <1>5, <4>1
      <4> QED BY <3>2, <4>2, <4>3 DEF At
    <3> QED BY <3>1, <3>2
  <2>2. At(c, End(Start, tickets))
    <3>1. CASE NumTickets = 0
      BY <1>2, <1>3, <1>4, <3>1 DEF At, End
    <3>2. CASE NumTickets # 0
      <4>1. NumTickets \in 1..NumTickets
        BY <1>1, <3>2
      <4> QED BY <1>3, <1>4, <1>5, <3>2, <4>1 DEF At, End
    <3> QED BY <3>1, <3>2
  <2> QED BY <1>4, <2>1, <2>2 DEF Linked
<1>8. Linked(Start, <<>>) /\ At(Fresh, End(Start, <<>>))
  BY <1>2, LinkedNothing DEF At, End
<1>9. Contiguous
  BY <1>2, <1>3, <1>6, <1>7, <1>8 DEF Contiguous, Endpoints
<1>10. RequestRemembered
  BY DEF Init, RequestRemembered
<1>11. KeyNotWornOut
  <2>1. \A i \in 1..Len(wire[Server]) : wire[Server][i].kind # "data"
    BY <1>4, <1>5, <1>6
  <2>2. \A i \in 1..Len(wire[Client]) : FALSE
    BY <1>6
  <2> QED BY <2>1, <2>2 DEF KeyNotWornOut, Endpoints
<1> QED BY <1>9, <1>10, <1>11 DEF SyncInv

\* Every step keeps it.
LEMMA NextSync == TypeOK /\ SyncInv /\ [Next]_vars => SyncInv'
<1> SUFFICES ASSUME TypeOK, SyncInv, [Next]_vars PROVE SyncInv'
  OBVIOUS
<1> USE DEF SyncInv
<1>1. CASE UNCHANGED vars
  <2>1. Contiguous'
    BY <1>1 DEF vars, Contiguous, Current, Start, Linked, End, At, After
  <2>2. RequestRemembered'
    BY <1>1 DEF vars, RequestRemembered, Available
  <2>3. KeyNotWornOut'
    BY <1>1 DEF vars, KeyNotWornOut
  <2> QED BY <2>1, <2>2, <2>3
<1>2. ASSUME NEW e \in Endpoints, NEW o \in Owners, NEW n \in 0..MaxChunks,
             NEW f \in SendFaults, PtlsSend(e, o, n, f)
      PROVE  SyncInv'
  <2>1. /\ n \in Nat /\ (f = "data" => n > 0) /\ SendEffect(e, o, n, f) /\ enc[e][o].live
        /\ Available(e, o)
        /\ UNCHANGED <<txState, taken, closed, migrated, keyUpdateRequests>>
    BY <1>2 DEF PtlsSend, SendFault, rxVars
  <2>2. PICK d \in Protection, out \in Seq(Record), used \in Seq(Position) :
            /\ Transmit(e, o, d, out, used)
            /\ ExactSend(enc[e][o], d, out, used)
            /\ Bounded(out)
            /\ needs[e][o] => needs'[e][o] \/ HasUpdate(out) \/ (out = <<>> /\ used # <<>>)
    BY <2>1, SendEffectExact
  <2>3. needs' \in [Endpoints -> [Owners -> BOOLEAN]]
    BY <2>1, SendEffectTypes
  <2>4. \A g \in Endpoints \ {e} : needs'[g] = needs[g]
    <3>1. needs' = [needs EXCEPT ![e][o] = TRUE] \/ needs' = [needs EXCEPT ![e][o] = FALSE]
      BY <2>1 DEF SendEffect
    <3> QED BY <3>1 DEF TypeOK
  <2>5. Contiguous'
    BY <2>1, <2>2, TransmitContiguous
  <2>6. RequestRemembered'
    BY <2>1, <2>2, <2>3, <2>4, SendRemembers
  <2>7. KeyNotWornOut'
    BY <2>2, TransmitBounded
  <2> QED BY <2>5, <2>6, <2>7
<1>3. ASSUME NEW e \in Endpoints, NEW req \in BOOLEAN, PtlsUpdateKey(e, req)
      PROVE  SyncInv'
  <2>1. /\ UNCHANGED <<enc, wire, broken, txState, owed, migrated, closed, keyUpdateRequests, taken>>
        /\ needs' = [needs EXCEPT ![e]["tls"] = TRUE]
    BY <1>3 DEF PtlsUpdateKey, rxVars
  <2>2. Contiguous'
    BY <2>1, SameContiguous DEF Current, At
  <2>3. KeyNotWornOut'
    BY <2>1 DEF KeyNotWornOut
  <2>4. \A g \in Endpoints, o \in Owners : needs[g][o] => needs'[g][o]
    BY <2>1 DEF TypeOK
  <2>5. RequestRemembered'
    BY <2>1, <2>4 DEF RequestRemembered, Available
  <2> QED BY <2>2, <2>3, <2>5
<1>4. ASSUME NEW e \in Endpoints, NEW o \in Owners, PtlsSendAlert(e, o)
      PROVE  SyncInv'
  <2> DEFINE c == enc[e][o]
             r == Seal(c, 0, "alert", FALSE)
  <2>1. c \in Protection /\ 1 \in Nat /\ "alert" \in Kinds /\ "alert" \in Kinds \ {"ku", "data"}
    BY DEF TypeOK, Kinds
  <2>2. /\ Transmit(e, o, Advance(c, 1), <<r>>, Nonces(c, 1))
        /\ Available(e, o)
        /\ UNCHANGED <<txState, needs, taken, closed, migrated, keyUpdateRequests>>
    BY <1>4 DEF PtlsSendAlert, rxVars
  <2>3. Advance(c, 1) \in Protection
    BY <2>1, ContextTypes
  <2>4. Nonces(c, 1) \in Seq(Position)
    BY <2>1, SealTypes
  <2>5. r \in Record
    BY <2>1, SealTypes
  <2>6. <<r>> \in Seq(Record)
    BY <2>5, Singleton
  <2>7. ExactSend(c, Advance(c, 1), <<r>>, Nonces(c, 1)) /\ Bounded(<<r>>)
    BY <2>1, ExactOne
  <2> HIDE DEF r
  <2>8. Contiguous'
    BY <2>2, <2>3, <2>4, <2>6, <2>7, TransmitContiguous
  <2> HIDE DEF c
  <2>9. KeyNotWornOut'
    BY <2>2, <2>6, <2>7, TransmitBounded
  <2>10. RequestRemembered'
    <3>1. needs' \in [Endpoints -> [Owners -> BOOLEAN]]
      BY <2>2 DEF TypeOK
    <3>2. \A g \in Endpoints \ {e} : needs'[g] = needs[g] /\ taken'[g] = taken[g]
      BY <2>2
    <3> QED BY <2>2, <3>1, <3>2, SendRemembers
  <2> QED BY <2>8, <2>9, <2>10
<1>5. ASSUME NEW e \in Endpoints, PtlsDetachTx(e)
      PROVE  SyncInv'
  <2>1. /\ txState[e] = "none" /\ txState'[e] = "live"
        /\ enc'[e] = Moved(enc[e], NoProtection) /\ needs'[e] = Moved(needs[e], FALSE)
    BY <1>5 DEF PtlsDetachTx, TypeOK
  <2>2. \A g \in Endpoints \ {e} : enc'[g] = enc[g] /\ needs'[g] = needs[g] /\ txState'[g] = txState[g]
    BY <1>5 DEF PtlsDetachTx, TypeOK
  <2>3. UNCHANGED <<wire, broken, owed, migrated, closed, keyUpdateRequests, taken>>
    BY <1>5 DEF PtlsDetachTx, rxVars
  <2>4. "tx" \in Owners /\ "tls" \in Owners /\ \A o \in Owners : o = "tls" \/ o = "tx"
    BY DEF Owners
  <2>5. Moved(enc[e], NoProtection)["tx"] = enc[e]["tls"] /\ Moved(needs[e], FALSE)["tx"] = needs[e]["tls"]
    BY <2>4 DEF Moved
  <2>6. Contiguous'
    <3>1. \A g \in Endpoints : Current(g)' = Current(g) /\ (txState'[g] # "freed" => txState[g] # "freed")
      BY <2>1, <2>2, <2>5 DEF Current
    <3> QED BY <2>3, <3>1, SameContiguous DEF At
  <2>7. KeyNotWornOut'
    BY <2>3 DEF KeyNotWornOut
  <2>8. ASSUME MustRemember(e)' PROVE Remembers(e)'
    <3>1. MustRemember(e)
      BY <2>1, <2>3, <2>8 DEF MustRemember
    <3>2. Remembers(e)
      BY <3>1, RememberedParts
    <3>3. CASE \E o \in Owners : Available(e, o) /\ needs[e][o]
      <4>1. needs[e]["tls"]
        BY <2>1, <2>4, <3>3 DEF Available
      <4>2. needs'[e]["tx"] /\ Available(e, "tx")'
        BY <2>1, <2>5, <4>1 DEF Available
      <4> QED BY <2>4, <4>2 DEF Remembers
    <3>4. CASE keyUpdateRequests[e] > 0 \/ taken[e] > 0
      BY <2>3, <3>4 DEF Remembers
    <3> QED BY <3>2, <3>3, <3>4 DEF Remembers
  <2>9. RequestRemembered'
    BY <2>2, <2>3, <2>8, RememberStep
  <2> QED BY <2>6, <2>7, <2>9
<1>6. ASSUME NEW e \in Endpoints, PtlsTxFree(e)
      PROVE  SyncInv'
  <2>1. \A g \in Endpoints \ {e} : enc'[g] = enc[g] /\ needs'[g] = needs[g] /\ txState'[g] = txState[g]
    BY <1>6 DEF PtlsTxFree, TypeOK
  <2>2. txState'[e] = "freed"
    BY <1>6 DEF PtlsTxFree, TypeOK
  <2>3. UNCHANGED <<wire, broken, owed, migrated, closed, keyUpdateRequests, taken>>
    BY <1>6 DEF PtlsTxFree, rxVars
  <2>4. Contiguous'
    <3>1. \A g \in Endpoints \ {e} : Current(g)' = Current(g)
      BY <2>1 DEF Current
    <3> QED BY <2>1, <2>2, <2>3, <3>1, SameContiguous DEF At
  <2>5. KeyNotWornOut'
    BY <2>3 DEF KeyNotWornOut
  <2>6. ~MustRemember(e)'
    BY <2>2 DEF MustRemember
  <2>7. RequestRemembered'
    BY <2>1, <2>3, <2>6, RememberStep
  <2> QED BY <2>4, <2>5, <2>7
<1>7. ASSUME NEW e \in Endpoints, PtlsTakeKeyUpdateRequest(e)
      PROVE  SyncInv'
  <2>1. UNCHANGED <<enc, wire, broken, txState, needs, owed, migrated, closed>>
    BY <1>7 DEF PtlsTakeKeyUpdateRequest, txVars
  <2>2. \A g \in Endpoints \ {e} : keyUpdateRequests'[g] = keyUpdateRequests[g] /\ taken'[g] = taken[g]
    BY <1>7 DEF PtlsTakeKeyUpdateRequest, TypeOK
  <2>3. taken'[e] > 0
    <3>1. taken'[e] = taken[e] + 1 /\ taken[e] \in Nat
      BY <1>7 DEF PtlsTakeKeyUpdateRequest, TypeOK
    <3> QED BY <3>1
  <2>4. Contiguous'
    BY <2>1, SameContiguous DEF Current, At
  <2>5. KeyNotWornOut'
    BY <2>1 DEF KeyNotWornOut
  <2>6. RequestRemembered'
    BY <2>1, <2>2, <2>3, RememberStep DEF Remembers
  <2> QED BY <2>4, <2>5, <2>6
<1>8. ASSUME NEW e \in Endpoints, NEW req \in BOOLEAN, NEW f \in SendFaults,
             PtlsTxUpdateKey(e, req, f)
      PROVE  SyncInv'
  <2> DEFINE c == enc[e]["tx"]
             u == UpdateSendKey(c, req, f)
  <2>1. "tx" \in Owners /\ c \in Protection
    BY DEF Owners, TypeOK
  <2>2. /\ u.enc \in Protection /\ u.out \in Seq(Record) /\ u.used \in Seq(Position)
        /\ ExactSend(c, u.enc, u.out, u.used) /\ Bounded(u.out)
        /\ f = "none" /\ c.live => HasUpdate(u.out)
    BY <2>1, UpdateSendKeyTypes, ExactUpdate
  <2>3. /\ Transmit(e, "tx", u.enc, u.out, u.used)
        /\ txState[e] = "live"
        /\ UNCHANGED <<txState, needs, closed, migrated, keyUpdateRequests>>
    BY <1>8 DEF PtlsTxUpdateKey, TxUpdateKeyEffect, rxVars
  <2>4. Available(e, "tx")
    BY <2>3 DEF Available
  <2>5. ~c.live => broken[e]
    <3>1. Current(e) = c
      BY <2>3 DEF Current
    <3> QED BY <2>3, <3>1 DEF Contiguous
  <2>6. /\ \A g \in Endpoints \ {e} : taken'[g] = taken[g]
        /\ taken[e] > 0 => taken'[e] > 0 \/ f = "none"
    <3>1. taken' = taken \/ taken' = [taken EXCEPT ![e] = IF f = "none" THEN @ - 1 ELSE @]
      BY <1>8 DEF PtlsTxUpdateKey
    <3> QED BY <3>1 DEF TypeOK
  <2> HIDE DEF u
  <2>7. Contiguous'
    BY <2>1, <2>2, <2>3, <2>4, TransmitContiguous
  <2> HIDE DEF c
  <2>8. KeyNotWornOut'
    BY <2>1, <2>2, <2>3, TransmitBounded
  <2>9. RequestRemembered'
    <3>1. needs' \in [Endpoints -> [Owners -> BOOLEAN]]
      BY <2>3 DEF TypeOK
    <3>2. \A g \in Endpoints \ {e} : needs'[g] = needs[g]
      BY <2>3
    <3>3. taken[e] > 0 => taken'[e] > 0 \/ HasUpdate(u.out) \/ broken[e]
      BY <2>2, <2>5, <2>6
    <3> QED BY <2>1, <2>3, <2>4, <2>6, <3>1, <3>2, <3>3, SendRemembers
  <2> QED BY <2>7, <2>8, <2>9
<1>9. ASSUME NEW e \in Endpoints, NEW i \in 1..Len(wire[Peer(e)]), NEW f, PtlsReceive(e, i, f)
      PROVE  SyncInv'
  <2> DEFINE r == wire[Peer(e)][i]
  <2>1. r \in Record
    BY DEF TypeOK, Peer, Endpoints
  <2>2. /\ closed[e] = "no" /\ HandleInput(e, r, f)
        /\ UNCHANGED <<enc, wire, txState, broken, taken, migrated>>
    BY <1>9 DEF PtlsReceive
  <2> HIDE DEF r
  <2>3. Contiguous'
    BY <2>2, SameContiguous DEF Current, At
  <2>4. KeyNotWornOut'
    BY <2>2 DEF KeyNotWornOut
  <2>5. CASE ~(Opens(e, r) /\ r.kind = "ku")
    <3>1. UNCHANGED <<needs, keyUpdateRequests, owed>>
      BY <2>2, <2>5 DEF HandleInput
    <3>2. \A g \in Endpoints \ {e} : closed'[g] = closed[g]
      BY <2>2, <2>5 DEF HandleInput, Undecryptable, TypeOK
    <3>3. ASSUME MustRemember(e)' PROVE Remembers(e)'
      <4>1. MustRemember(e)
        BY <2>2, <3>1, <3>3 DEF MustRemember
      <4>2. Remembers(e)
        BY <4>1, RememberedParts
      <4> QED BY <2>2, <3>1, <4>2 DEF Remembers, Available
    <3>4. RequestRemembered'
      BY <2>2, <3>1, <3>2, <3>3, RememberStep
    <3> QED BY <2>3, <2>4, <3>4
  <2>6. CASE Opens(e, r) /\ r.kind = "ku"
    <3>1. HandleKeyUpdate(e, r.req, f) /\ r.req \in BOOLEAN
      BY <2>1, <2>2, <2>6 DEF HandleInput, Opens, Record
    <3>2. \A g \in Endpoints \ {e} :
              /\ needs'[g] = needs[g] /\ keyUpdateRequests'[g] = keyUpdateRequests[g]
              /\ owed'[g] = owed[g] /\ closed'[g] = closed[g]
      <4>1. CASE f = "rx"
        BY <3>1, <4>1 DEF HandleKeyUpdate, TypeOK
      <4>2. CASE f # "rx"
        BY <3>1, <4>2 DEF HandleKeyUpdate, TypeOK
      <4> QED BY <4>1, <4>2
    <3>3. ASSUME MustRemember(e)' PROVE Remembers(e)'
      <4>1. "tls" \in Owners /\ keyUpdateRequests[e] \in Nat
        BY DEF Owners, TypeOK
      <4>2. CASE f = "rx"
        <5>1. UNCHANGED <<needs, keyUpdateRequests, owed>>
          BY <3>1, <4>2 DEF HandleKeyUpdate
        <5>2. MustRemember(e)
          BY <2>2, <3>3, <5>1 DEF MustRemember
        <5> QED BY <2>2, <5>1, <5>2, RememberedParts DEF Remembers, Available
      <4>3. CASE f # "rx" /\ r.req /\ Detached(e)
        <5>1. closed'[e] # "internal_error"
          BY <3>3 DEF MustRemember
        <5>2. ~RequestsFull(e)
          BY <3>1, <4>3, <5>1 DEF HandleKeyUpdate, TypeOK
        <5>3. keyUpdateRequests'[e] = keyUpdateRequests[e] + 1
          BY <3>1, <4>3, <5>2 DEF HandleKeyUpdate, TypeOK
        <5> QED BY <4>1, <5>3 DEF Remembers
      <4>4. CASE f # "rx" /\ r.req /\ ~Detached(e)
        <5>1. needs'[e]["tls"]
          BY <3>1, <4>1, <4>4 DEF HandleKeyUpdate, TypeOK
        <5>2. Available(e, "tls")'
          BY <2>2, <4>4 DEF Detached, Available
        <5> QED BY <4>1, <5>1, <5>2 DEF Remembers
      <4>5. CASE f # "rx" /\ ~r.req
        <5>1. needs' = needs
          BY <3>1, <4>5 DEF HandleKeyUpdate
        <5>2. keyUpdateRequests'[e] = keyUpdateRequests[e] /\ owed'[e] = owed[e] /\ closed'[e] = closed[e]
          BY <3>1, <4>5 DEF HandleKeyUpdate, TypeOK
        <5>3. MustRemember(e)
          BY <2>2, <3>3, <5>2 DEF MustRemember
        <5> QED BY <2>2, <5>1, <5>2, <5>3, RememberedParts DEF Remembers, Available
      <4> QED BY <3>1, <4>2, <4>3, <4>4, <4>5
    <3>4. RequestRemembered'
      BY <2>2, <3>2, <3>3, RememberStep
    <3> QED BY <2>3, <2>4, <3>4
  <2> QED BY <2>5, <2>6
<1>10. ASSUME NEW e \in Endpoints, ReceiveNext(e) \/ ReceiveAny(e) \/ ReceiveFault(e)
       PROVE  SyncInv'
  <2>1. got[e] \in Seq(Record) /\ wire[Peer(e)] \in Seq(Record)
    BY DEF TypeOK, Peer, Endpoints
  <2>2. \E i \in 1..Len(wire[Peer(e)]), f \in {"none", "rx"} : PtlsReceive(e, i, f)
    <3>1. CASE ReceiveNext(e)
      BY <2>1, <3>1 DEF ReceiveNext
    <3>2. CASE ReceiveAny(e)
      BY <3>2 DEF ReceiveAny
    <3>3. CASE ReceiveFault(e)
      BY <2>1, <3>3 DEF ReceiveFault
    <3> QED BY <1>10, <3>1, <3>2, <3>3
  <2> QED BY <2>2, <1>9
<1>11. ASSUME NEW e \in Endpoints, ExportImport(e)
       PROVE  SyncInv'
  <2> DEFINE c == enc[e]["tls"]
             d == Imported(c)
  <2>1. "tls" \in Owners /\ c \in Protection
    BY DEF Owners, TypeOK
  <2>2. d.gen = c.gen /\ d.seq = c.seq /\ d.live
    BY <2>1 DEF Imported, Protection
  <2>3. /\ txState[e] = "none"
        /\ enc' = [enc EXCEPT ![e]["tls"] = d]
        /\ migrated'[e]
        /\ UNCHANGED <<txState, wire, broken, owed, closed, keyUpdateRequests, taken>>
    BY <1>11, <2>1 DEF ExportImport, TypeOK
  <2>4. \A g \in Endpoints \ {e} : needs'[g] = needs[g] /\ migrated'[g] = migrated[g]
    BY <1>11 DEF ExportImport, TypeOK
  <2> HIDE DEF d
  <2>5. Current(e) = c /\ Current(e)' = d
    BY <2>1, <2>3 DEF Current, TypeOK
  <2>6. \A g \in Endpoints \ {e} : Current(g)' = Current(g)
    BY <2>3 DEF Current, TypeOK
  <2> HIDE DEF c
  <2>7. Contiguous'
    BY <2>2, <2>3, <2>5, <2>6, SameContiguous DEF At
  <2>8. KeyNotWornOut'
    BY <2>3 DEF KeyNotWornOut
  <2>9. ~MustRemember(e)'
    BY <2>3 DEF MustRemember
  <2>10. RequestRemembered'
    BY <2>3, <2>4, <2>9, RememberStep
  <2> QED BY <2>7, <2>8, <2>10
<1> QED BY <1>1, <1>2, <1>3, <1>4, <1>5, <1>6, <1>7, <1>8, <1>10, <1>11 DEF Next

\* It is an invariant.
LEMMA SyncCorrect == Spec => []SyncInv
<1>1. Spec => []TypeOK
  BY TypeCorrect
<1> QED BY <1>1, InitSync, NextSync, PTL DEF Spec

(***************************************************************************)
(* Theorems                                                                *)
(***************************************************************************)

\* No record of an endpoint leaves in the clear unless one of its key updates
\* failed half way: only then is a traffic_protection without an AEAD context.
THEOREM NeverInTheClear == Spec => []NothingInTheClear
<1>1. SyncInv => NothingInTheClear
  BY DEF SyncInv, Contiguous, Linked, NothingInTheClear
<1> QED BY <1>1, SyncCorrect, PTL

\* However many records one key has sealed before, ptls_send and ptls_tx_sendv
\* seal data at most one call's records beyond the limit of the forced update.
THEOREM KeysNotWornOut == Spec => []KeyNotWornOut
<1>1. SyncInv => KeyNotWornOut
  BY DEF SyncInv
<1> QED BY <1>1, SyncCorrect, PTL

\* A KeyUpdate the peer asked for stays pending in the object that owns the
\* transmission, in key_update_requests or in the application's hands, through
\* ptls_detach_tx and failing sends, until a protected KeyUpdate goes out.
THEOREM RequestsRemembered == Spec => []RequestRemembered
<1>1. SyncInv => RequestRemembered
  BY DEF SyncInv
<1> QED BY <1>1, SyncCorrect, PTL

\* Sender and receiver change keys at the same record: as long as no send call
\* failed half way, the next record of the stream opens.
THEOREM StaysInSync == Spec => []InSync
<1>1. TypeOK /\ OrderInv /\ SyncInv => InSync
  <2> SUFFICES ASSUME TypeOK, OrderInv, SyncInv, NEW e \in Endpoints,
                      ~broken[Peer(e)], closed[e] = "no", Len(got[e]) < Len(wire[Peer(e)])
               PROVE  Opens(e, wire[Peer(e)][Len(got[e]) + 1])
    BY DEF InSync
  <2> DEFINE w == wire[Peer(e)]
             n == Len(got[e])
  <2>1. Peer(e) \in Endpoints /\ got[e] \in Seq(Record) /\ w \in Seq(Record) /\ n \in Nat /\ Len(w) \in Nat
    BY DEF Peer, Endpoints, TypeOK
  <2>2. n + 1 \in 1..Len(w) /\ Linked(Start, w)
    BY <2>1 DEF SyncInv, Contiguous
  <2>3. ~w[n + 1].plain /\ At(w[n + 1], IF n + 1 = 1 THEN Start ELSE After(w[(n + 1) - 1]))
    BY <2>2 DEF Linked
  <2>4. dec[e].gen = Expected(e).gen /\ dec[e].seq = Expected(e).seq
    BY DEF OrderInv, ReceiverPosition
  <2>5. \A j \in 1..n : got[e][j] = w[j]
    BY DEF OrderInv, OpenedIsPrefix
  <2>6. Expected(e) = IF n = 0 THEN Start ELSE After(w[n])
    <3>1. CASE n = 0
      BY <2>1, <3>1 DEF Expected
    <3>2. CASE n # 0
      <4>1. got[e] # <<>> /\ n \in 1..n
        BY <2>1, <3>2
      <4> QED BY <2>5, <3>2, <4>1 DEF Expected
    <3> QED BY <3>1, <3>2
  <2> HIDE DEF w, n
  <2>7. (n + 1) - 1 = n /\ (n + 1 = 1 <=> n = 0)
    BY <2>1
  <2>8. At(w[n + 1], Expected(e))
    BY <2>3, <2>6, <2>7
  <2>9. Opens(e, w[n + 1])
    BY <2>3, <2>4, <2>8 DEF Opens, At
  <2> QED BY <2>9 DEF w, n
<1> QED BY <1>1, TypeCorrect, OrderCorrect, SyncCorrect, PTL
=============================================================================
