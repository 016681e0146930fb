---------------------------- MODULE HandshakeProofs ----------------------------
(***************************************************************************)
(* Who is authenticated, and which secret a ticket holds, when the two     *)
(* state machines have run the handshake: proofs of Authenticated and of   *)
(* TicketsMatchWithoutAuth for every configuration of the two ends and any *)
(* amount of data.                                                         *)
(*                                                                         *)
(* Both rest on one argument: a key is derived from the transcript, so two *)
(* ends that use the same key have exchanged the same messages, and what   *)
(* an end decided is in its transcript: the selected PSK in ServerHello,   *)
(* accepted 0-RTT data in EncryptedExtensions.                             *)
(*                                                                         *)
(* Behind them is the ground HandshakeSyncProofs stands on: the story of a *)
(* configuration, what is in flight at each place of it, which record      *)
(* comes next in such a stream and how it grows.                           *)
(***************************************************************************)
EXTENDS Handshake, SequenceTheorems, TLAPS

-----------------------------------------------------------------------------
(* Sequences whose elements have no common type: messages and records.     *)

IsSeq(s) == \E S : s \in Seq(S)

Elems(s) == {s[i] : i \in DOMAIN s}

(* Short sequences. *)
LEMMA ShortSeq ==
  /\ IsSeq(<<>>) /\ Elems(<<>>) = {}
  /\ \A x : IsSeq(<<x>>) /\ Elems(<<x>>) = {x}
  /\ \A x, y : IsSeq(<<x, y>>) /\ Elems(<<x, y>>) = {x, y}
<1>1. IsSeq(<<>>) /\ Elems(<<>>) = {}
  <2>1. <<>> \in Seq({})
    OBVIOUS
  <2> QED BY <2>1 DEF IsSeq, Elems
<1>2. ASSUME NEW x PROVE IsSeq(<<x>>) /\ Elems(<<x>>) = {x}
  <2>1. <<x>> \in Seq({x})
    OBVIOUS
  <2>2. DOMAIN <<x>> = {1} /\ <<x>>[1] = x
    OBVIOUS
  <2> QED BY <2>1, <2>2 DEF IsSeq, Elems
<1>3. ASSUME NEW x, NEW y PROVE IsSeq(<<x, y>>) /\ Elems(<<x, y>>) = {x, y}
  <2>1. <<x, y>> \in Seq({x, y})
    OBVIOUS
  <2>2. DOMAIN <<x, y>> = {1, 2} /\ <<x, y>>[1] = x /\ <<x, y>>[2] = y
    OBVIOUS
  <2> QED BY <2>1, <2>2 DEF IsSeq, Elems
<1> QED BY <1>1, <1>2, <1>3

(* Concatenation. *)
LEMMA CatSeq ==
  ASSUME NEW s, NEW t, IsSeq(s), IsSeq(t)
  PROVE  IsSeq(s \o t) /\ Elems(s \o t) = Elems(s) \cup Elems(t)
<1>1. PICK S : s \in Seq(S)
  BY DEF IsSeq
<1>2. PICK T : t \in Seq(T)
  BY DEF IsSeq
<1> DEFINE U == S \cup T
<1>3. s \in Seq(U) /\ t \in Seq(U)
  BY <1>1, <1>2, SeqMonotonic
<1> HIDE DEF U
<1>4. /\ s \o t \in Seq(U)
      /\ Len(s \o t) = Len(s) + Len(t)
      /\ \A i \in 1 .. Len(s) + Len(t) :
            (s \o t)[i] = IF i <= Len(s) THEN s[i] ELSE t[i - Len(s)]
  BY <1>3, ConcatProperties
<1>5. /\ Len(s) \in Nat /\ DOMAIN s = 1 .. Len(s)
      /\ Len(t) \in Nat /\ DOMAIN t = 1 .. Len(t)
      /\ DOMAIN (s \o t) = 1 .. Len(s) + Len(t)
  BY <1>3, <1>4, LenProperties
<1>6. ASSUME NEW x \in Elems(s \o t) PROVE x \in Elems(s) \cup Elems(t)
  <2>1. PICK i \in 1 .. Len(s) + Len(t) : x = (s \o t)[i]
    BY <1>5 DEF Elems
  <2>2. CASE i <= Len(s)
    BY <1>4, <1>5, <2>1, <2>2 DEF Elems
  <2>3. CASE ~(i <= Len(s))
    <3>1. i - Len(s) \in 1 .. Len(t) /\ x = t[i - Len(s)]
      BY <1>4, <1>5, <2>1, <2>3
    <3> QED BY <1>5, <3>1 DEF Elems
  <2> QED BY <2>2, <2>3
<1>7. ASSUME NEW x \in Elems(s) PROVE x \in Elems(s \o t)
  <2>1. PICK i \in 1 .. Len(s) : x = s[i]
    BY <1>5 DEF Elems
  <2>2. i \in 1 .. Len(s) + Len(t) /\ (s \o t)[i] = s[i]
    BY <1>4, <1>5
  <2> QED BY <1>5, <2>1, <2>2 DEF Elems
<1>8. ASSUME NEW x \in Elems(t) PROVE x \in Elems(s \o t)
  <2>1. PICK i \in 1 .. Len(t) : x = t[i]
    BY <1>5 DEF Elems
  <2>2. i + Len(s) \in 1 .. Len(s) + Len(t) /\ (s \o t)[i + Len(s)] = t[i]
    BY <1>4, <1>5
  <2> QED BY <1>5, <2>1, <2>2 DEF Elems
<1> QED BY <1>4, <1>6, <1>7, <1>8 DEF IsSeq

(* Neutral element and associativity. *)
LEMMA CatLaws ==
  ASSUME NEW s, NEW t, NEW u, IsSeq(s), IsSeq(t), IsSeq(u)
  PROVE  (s \o t) \o u = s \o (t \o u) /\ s \o <<>> = s /\ <<>> \o s = s
<1>1. PICK S, T, U : s \in Seq(S) /\ t \in Seq(T) /\ u \in Seq(U)
  BY DEF IsSeq
<1>2. s \in Seq(S \cup T \cup U) /\ t \in Seq(S \cup T \cup U) /\ u \in Seq(S \cup T \cup U)
  BY <1>1, SeqMonotonic
<1> QED BY <1>2, ConcatAssociative, ConcatEmptySeq

(* Associativity alone. *)
LEMMA CatAssoc ==
  \A s, t, u : IsSeq(s) /\ IsSeq(t) /\ IsSeq(u) => (s \o t) \o u = s \o (t \o u)
<1> TAKE s, t, u
<1> HAVE IsSeq(s) /\ IsSeq(t) /\ IsSeq(u)
<1> QED BY CatLaws, SMTT(30)

(* The last element of a sequence that has just been extended. *)
LEMMA LastOf ==
  ASSUME NEW s, IsSeq(s), NEW m
  PROVE  (s \o <<m>>)[Len(s \o <<m>>)] = m
<1>1. PICK S : s \in Seq(S)
  BY DEF IsSeq
<1>2. s \in Seq(S \cup {m}) /\ <<m>> \in Seq(S \cup {m})
  BY <1>1, SeqMonotonic
<1>3. Len(s) \in Nat /\ Len(<<m>>) = 1 /\ <<m>>[1] = m
  BY <1>1, LenProperties
<1>4. Len(s \o <<m>>) = Len(s) + 1 /\ (s \o <<m>>)[Len(s) + 1] = m
  BY <1>2, <1>3, ConcatProperties
<1> QED BY <1>4

(* Reading a record off the stream. *)
LEMMA HeadAndTail ==
  ASSUME NEW s, IsSeq(s), s # <<>>
  PROVE  Head(s) \in Elems(s) /\ IsSeq(Tail(s)) /\ Elems(Tail(s)) \subseteq Elems(s)
<1>1. PICK S : s \in Seq(S)
  BY DEF IsSeq
<1>2. Len(s) \in Nat \ {0} /\ DOMAIN s = 1 .. Len(s) /\ Head(s) = s[1]
  BY <1>1, EmptySeq, LenProperties
<1>3. /\ Tail(s) \in Seq(S) /\ Len(Tail(s)) = Len(s) - 1
      /\ \A i \in 1 .. Len(Tail(s)) : Tail(s)[i] = s[i + 1]
  BY <1>1, HeadTailProperties
<1>4. DOMAIN Tail(s) = 1 .. Len(s) - 1
  BY <1>3, LenProperties
<1>5. ASSUME NEW x \in Elems(Tail(s)) PROVE x \in Elems(s)
  <2>1. PICK i \in 1 .. Len(s) - 1 : x = Tail(s)[i]
    BY <1>4 DEF Elems
  <2>2. i + 1 \in 1 .. Len(s) /\ x = s[i + 1]
    BY <1>2, <1>3, <2>1
  <2> QED BY <1>2, <2>2 DEF Elems
<1>6. Head(s) \in Elems(s)
  BY <1>2 DEF Elems
<1> QED BY <1>3, <1>5, <1>6 DEF IsSeq

(* One record for each message, under the key of the context. *)
LEMMA SealSeq ==
  ASSUME NEW p, NEW items, IsSeq(items)
  PROVE  /\ IsSeq(Seal(p, items))
         /\ \A r \in Elems(Seal(p, items)) :
               r.key = p.key /\ \E x \in Elems(items) : r.msg = x.msg /\ r.mac = x.mac
<1>1. Len(items) \in Nat /\ DOMAIN items = 1 .. Len(items)
  BY LenProperties DEF IsSeq
<1> DEFINE f == Seal(p, items)
<1>2. /\ DOMAIN f = 1 .. Len(items)
      /\ \A i \in 1 .. Len(items) :
            f[i].key = p.key /\ f[i].msg = items[i].msg /\ f[i].mac = items[i].mac
  BY DEF Seal
<1>3. f = [i \in 1 .. Len(items) |-> f[i]]
  BY DEF Seal
<1> HIDE DEF f
<1>4. f \in [1 .. Len(items) -> Elems(f)]
  BY <1>2, <1>3 DEF Elems
<1>5. f \in Seq(Elems(f))
  BY <1>1, <1>4
<1>6. IsSeq(f)
  BY <1>5 DEF IsSeq
<1>7. ASSUME NEW r \in Elems(f)
      PROVE  r.key = p.key /\ \E x \in Elems(items) : r.msg = x.msg /\ r.mac = x.mac
  <2>1. PICK i \in 1 .. Len(items) : r = f[i]
    BY <1>2 DEF Elems
  <2>2. items[i] \in Elems(items)
    BY <1>1 DEF Elems
  <2> QED BY <1>2, <2>1, <2>2
<1> QED BY <1>6, <1>7 DEF f

(* The messages of a flight, as the transcript has them. *)
LEMMA MessagesSeq ==
  ASSUME NEW items, IsSeq(items)
  PROVE  IsSeq(Messages(items)) /\ Elems(Messages(items)) = {x.msg : x \in Elems(items)}
<1>1. Len(items) \in Nat /\ DOMAIN items = 1 .. Len(items)
  BY LenProperties DEF IsSeq
<1> DEFINE f == Messages(items)
<1>2. DOMAIN f = 1 .. Len(items) /\ \A i \in 1 .. Len(items) : f[i] = items[i].msg
  BY DEF Messages
<1>3. f = [i \in 1 .. Len(items) |-> f[i]]
  BY DEF Messages
<1> HIDE DEF f
<1>4. f \in [1 .. Len(items) -> Elems(f)]
  BY <1>2, <1>3 DEF Elems
<1>5. f \in Seq(Elems(f))
  BY <1>1, <1>4
<1>6. Elems(f) = {x.msg : x \in Elems(items)}
  BY <1>1, <1>2 DEF Elems
<1> QED BY <1>5, <1>6 DEF f, IsSeq

-----------------------------------------------------------------------------
(* The invariant. *)

(* EncryptedExtensions with early_data is in the transcript, or none is. *)
EarlyIn(th) == \E m \in Elems(th) : m.type = "ee" /\ m.early
NoExt(th) == \A m \in Elems(th) : m.type # "ee"

(* The last message a key is derived from; for handshake keys, ServerHello. *)
LastPsk(th) == th[Len(th)].psk

(* The handshake key of the client's direction, in use as k or waiting. *)
HsKey(pending, k) == IF pending # NoKey THEN pending ELSE k

ClientFinished == [type |-> "fin", key |-> "c hs"]

(* What the client sends between the server's Finished, with which the key k of *)
(* application data is derived, and the end, when it is not to authenticate.    *)
ClientEnd(k) ==
    k.th \o ((IF EarlyIn(k.th) THEN <<Plain("eoed")>> ELSE <<>>) \o <<ClientFinished>>)

(* The resumption secret that goes with k. *)
ResumptionOf(k) == [label |-> "res", psk |-> k.psk, dhe |-> k.dhe, th |-> ClientEnd(k)]

ContextFields == {"key", "seq"}
ScheduleFields == {"psk", "dhe", "th"}
ClientFields ==
    {"state", "enc", "dec", "pending", "sched", "share", "usingEarly", "offeredPsk", "isPsk",
     "certReq", "ccs", "verified", "done", "error"}
ServerFields ==
    {"state", "enc", "dec", "pending", "pendingAp", "sched", "isPsk", "skipped", "accepted",
     "retries", "ccs", "verified", "done", "error"}

ScheduleShape(s) == DOMAIN s = ScheduleFields /\ IsSeq(s.th)

Shape(e, fields) ==
    /\ DOMAIN e = fields
    /\ DOMAIN e.enc = ContextFields /\ DOMAIN e.dec = ContextFields
    /\ ScheduleShape(e.sched)

(* The states between ServerHello and the end. *)
ClientMiddle == {"expect_ee", "expect_cr_or_cert", "expect_cert", "expect_cv", "expect_fin"}

ClientAuthentic(c) == c.state \in {"expect_fin", "post"} => c.verified \/ c.isPsk

ClientOK(c) ==
    /\ Shape(c, ClientFields)
    /\ ClientAuthentic(c)
    /\ c.state = "start" => c.error = "none"
    /\ c.error = "none" =>
         /\ c.state \in {"start", "expect_sh", "expect_sh2"} => c.pending = NoKey /\ NoExt(c.sched.th)
         /\ c.state = "expect_ee" => (c.pending # NoKey <=> c.usingEarly) /\ NoExt(c.sched.th)
         /\ c.state \in ClientMiddle => LastPsk(HsKey(c.pending, c.enc.key).th) = c.isPsk
         /\ c.state \in ClientMiddle \ {"expect_ee"} =>
               (c.pending # NoKey /\ c.usingEarly <=> EarlyIn(c.sched.th))
         /\ c.certReq => cfg.auth
         /\ c.state = "post" =>
               /\ c.dec.key.label = "s ap"
               /\ ~cfg.auth => Key("res", c.sched) = ResumptionOf(c.dec.key)

(* A Finished of the client is of a key derived with the PSK it has selected. *)
FinishedOK(c, r) == r.msg.type = "fin" => c.state = "post" /\ LastPsk(r.mac.key.th) = c.isPsk

ServerMiddle == {"generating_cv", "expect_cert", "expect_cv", "expect_eoed", "expect_fin"}

ServerAuthentic(s) ==
    cfg.auth =>
        /\ s.state \in {"expect_fin", "post"} => s.verified \/ cfg.failOpen
        /\ s.state \in ServerMiddle \cup {"post"} => ~s.isPsk

ServerOK(s) ==
    /\ Shape(s, ServerFields)
    /\ ServerAuthentic(s)
    /\ s.error = "none" =>
         /\ s.state \in {"expect_ch", "expect_ch2"} => NoExt(s.sched.th)
         /\ s.state \in ServerMiddle => LastPsk(HsKey(s.pending, s.dec.key).th) = s.isPsk
         /\ s.state = "generating_cv" =>
               /\ s.pending # NoKey <=> EarlyIn(s.sched.th)
               /\ cfg.auth => s.pending = NoKey
         /\ s.state \in {"expect_cert", "expect_cv", "expect_fin"} => s.pending = NoKey
         /\ s.state = "expect_eoed" => ~cfg.auth /\ s.pending # NoKey

(* A server that is done agrees with a client that is done. *)
Agree(s, c) == s.state = "post" => c.state = "post" /\ s.isPsk = c.isPsk

(* The server's tickets hold the secret that goes with the key they are sealed *)
(* with.                                                                       *)
FromServerOK(r) ==
    /\ r.msg.type = "cr" => cfg.auth
    /\ r.msg.type = "nst" => r.mac.key = ResumptionOf(r.key)

HandshakeInv ==
    /\ cfg \in Configs
    /\ ClientOK(cl)
    /\ ServerOK(sv)
    /\ Agree(sv, cl)
    /\ IsSeq(toServer) /\ \A r \in Elems(toServer) : FinishedOK(cl, r)
    /\ IsSeq(toClient) /\ \A r \in Elems(toClient) : FromServerOK(r)
    /\ TicketsMatchWithoutAuth

-----------------------------------------------------------------------------
(* Contexts and schedules. *)

(* Sealing records keeps the key. *)
LEMMA UsedContext ==
  ASSUME NEW p, DOMAIN p = ContextFields, NEW n
  PROVE  DOMAIN Used(p, n) = ContextFields /\ Used(p, n).key = p.key
BY DEF Used, ContextFields

(* So does opening one. *)
LEMMA ReadContext ==
  ASSUME NEW p, DOMAIN p = ContextFields, NEW r
  PROVE  DOMAIN Read(p, r) = ContextFields /\ Read(p, r).key = p.key
BY UsedContext DEF Read

(* A new context. *)
LEMMA NewContext ==
  /\ \A k : DOMAIN Protect(k) = ContextFields /\ Protect(k).key = k
  /\ DOMAIN NoProtection = ContextFields
BY DEF Protect, NoProtection, ContextFields

(* Hashing messages. *)
LEMMA HashSchedule ==
  ASSUME NEW s, ScheduleShape(s), NEW ms, IsSeq(ms)
  PROVE  /\ ScheduleShape(Hash(s, ms))
         /\ Hash(s, ms).psk = s.psk /\ Hash(s, ms).dhe = s.dhe /\ Hash(s, ms).th = s.th \o ms
         /\ Elems(Hash(s, ms).th) = Elems(s.th) \cup Elems(ms)
<1>1. /\ DOMAIN Hash(s, ms) = ScheduleFields
      /\ Hash(s, ms).psk = s.psk /\ Hash(s, ms).dhe = s.dhe /\ Hash(s, ms).th = s.th \o ms
  BY DEF Hash, ScheduleShape, ScheduleFields
<1>2. IsSeq(s.th \o ms) /\ Elems(s.th \o ms) = Elems(s.th) \cup Elems(ms)
  BY CatSeq DEF ScheduleShape
<1> QED BY <1>1, <1>2 DEF ScheduleShape

(* Replacing the first ClientHello by its hash. *)
LEMMA HashCH1Schedule ==
  ASSUME NEW s, ScheduleShape(s)
  PROVE  ScheduleShape(HashCH1(s)) /\ NoExt(HashCH1(s).th)
<1> DEFINE m == [type |-> "message_hash", of |-> s.th]
<1>1. DOMAIN HashCH1(s) = ScheduleFields /\ HashCH1(s).th = <<m>>
  BY DEF HashCH1, ScheduleShape, ScheduleFields
<1>2. m.type = "message_hash"
  OBVIOUS
<1> HIDE DEF m
<1> QED BY <1>1, <1>2, ShortSeq DEF ScheduleShape, NoExt

(* A single message is sealed. *)
LEMMA SealOne ==
  ASSUME NEW p, NEW m, NEW mac
  PROVE  /\ IsSeq(Seal(p, <<Item(m, mac)>>))
         /\ \A r \in Elems(Seal(p, <<Item(m, mac)>>)) : r.key = p.key /\ r.msg = m /\ r.mac = mac
<1>1. IsSeq(<<Item(m, mac)>>) /\ Elems(<<Item(m, mac)>>) = {Item(m, mac)}
  BY ShortSeq
<1>2. Item(m, mac).msg = m /\ Item(m, mac).mac = mac
  BY DEF Item
<1> QED BY <1>1, <1>2, SealSeq

(* ChangeCipherSpec records. *)
LEMMA CcsRecords ==
  ASSUME NEW on
  PROVE  /\ IsSeq(ChangeCipherSpec(on))
         /\ \A r \in Elems(ChangeCipherSpec(on)) : r.msg.type = "ccs"
<1>1. Plain("ccs").type = "ccs"
  BY DEF Plain
<1> QED BY <1>1, SealOne, ShortSeq DEF ChangeCipherSpec

-----------------------------------------------------------------------------
(* The client. *)

(* A step of the client: its new state, and the records it sends. *)
ClientGoes(d, out) ==
    /\ cl' = d /\ toServer' = toServer \o out
    /\ ClientOK(d)
    /\ cl.state = "post" => d.state = "post" /\ d.isPsk = cl.isPsk
    /\ IsSeq(out) /\ \A r \in Elems(out) : FinishedOK(d, r)

(* c is the client as a handler may have left it before it failed. *)
FailsFrom(c) ==
    /\ Shape(c, ClientFields)
    /\ ClientAuthentic(c)
    /\ c.state = cl.state /\ c.isPsk = cl.isPsk /\ c.state # "start"

(* Reading a record changes the sequence number alone. *)
LEMMA ClientRead ==
  ASSUME ClientOK(cl), cl.state # "start", NEW r, NEW c, c = [cl EXCEPT !.dec = Read(@, r)]
  PROVE  /\ ClientOK(c) /\ FailsFrom(c) /\ c.error = cl.error
         /\ c.dec.key = cl.dec.key /\ c.sched = cl.sched
<1>1. DOMAIN cl = ClientFields /\ DOMAIN cl.dec = ContextFields
  BY DEF ClientOK, Shape
<1>2. /\ DOMAIN c = ClientFields /\ c.dec = Read(cl.dec, r)
      /\ c.state = cl.state /\ c.enc = cl.enc /\ c.pending = cl.pending /\ c.sched = cl.sched
      /\ c.usingEarly = cl.usingEarly /\ c.isPsk = cl.isPsk /\ c.certReq = cl.certReq
      /\ c.verified = cl.verified /\ c.error = cl.error
  BY <1>1 DEF ClientFields
<1>3. DOMAIN c.dec = ContextFields /\ c.dec.key = cl.dec.key
  BY <1>1, <1>2, ReadContext
<1>4. Shape(c, ClientFields)
  BY <1>2, <1>3 DEF ClientOK, Shape
<1>5. ClientOK(c)
  BY <1>2, <1>3, <1>4 DEF ClientOK, ClientAuthentic
<1> QED BY <1>2, <1>3, <1>4, <1>5 DEF FailsFrom, ClientOK

(* A handler fails: an alert at most is sent. *)
LEMMA ClientFails ==
  ASSUME NEW c, FailsFrom(c), NEW code, code # "none", ClientFail(c, code)
  PROVE  \E d, out : ClientGoes(d, out)
<1> DEFINE silent == c.done \/ code = "peer_alert"
           d == [c EXCEPT !.error = code]
           out == IF silent THEN <<>> ELSE Seal(NoProtection, <<Alert(code)>>)
<1>1. cl' = d /\ toServer' = toServer \o out
  BY DEF ClientFail
<1>2. DOMAIN c = ClientFields /\ DOMAIN c.enc = ContextFields
  BY DEF FailsFrom, Shape
<1>3. /\ DOMAIN d = ClientFields /\ DOMAIN d.enc = ContextFields /\ d.dec = c.dec
      /\ d.sched = c.sched /\ d.error = code /\ d.state = c.state /\ d.isPsk = c.isPsk
      /\ d.verified = c.verified
  BY <1>2 DEF ClientFields
<1>4. IsSeq(out) /\ \A r \in Elems(out) : r.msg.type = "alert"
  <2>1. /\ IsSeq(Seal(NoProtection, <<Alert(code)>>))
        /\ \A r \in Elems(Seal(NoProtection, <<Alert(code)>>)) : r.msg = [type |-> "alert", code |-> code]
    BY SealOne DEF Alert
  <2> QED BY <2>1, ShortSeq
<1> HIDE DEF d, out
<1>5. ClientOK(d)
  BY <1>3 DEF FailsFrom, ClientOK, Shape, ClientAuthentic
<1>6. ClientGoes(d, out)
  BY <1>1, <1>3, <1>4, <1>5 DEF ClientGoes, FinishedOK, FailsFrom
<1> QED BY <1>6

(* send_client_hello. *)
LEMMA SentHelloOK ==
  ASSUME NEW c, Shape(c, ClientFields), c.pending = NoKey, c.error = "none",
         NoExt(c.sched.th), c.certReq => cfg.auth, NEW cookie,
         NEW state \in {"expect_sh", "expect_sh2"}
  PROVE  LET h == SentHello(c, cookie, state)
         IN  /\ ClientOK(h.tls) /\ h.tls.state = state
             /\ IsSeq(h.out) /\ \A r \in Elems(h.out) : r.msg.type # "fin"
<1> DEFINE m == ClientHello(c, cookie)
           s == Hash(c.sched, <<m>>)
           mac == IF Identity = "none" THEN NoMac ELSE Binder(s)
           hello == Seal(c.enc, <<Item(m, mac)>>)
           enc == IF c.usingEarly THEN Protect(Key("c e", s)) ELSE Used(c.enc, 1)
           tls == [c EXCEPT !.sched = s, !.state = state, !.enc = enc,
                            !.ccs = @ /\ ~c.usingEarly]
           out == hello \o ChangeCipherSpec(c.ccs /\ c.usingEarly)
<1>1. SentHello(c, cookie, state) = [tls |-> tls, out |-> out]
  BY DEF SentHello
<1>2. m.type = "ch"
  BY DEF ClientHello
<1>3. ScheduleShape(s) /\ NoExt(s.th)
  <2>1. IsSeq(<<m>>) /\ Elems(<<m>>) = {m}
    BY ShortSeq
  <2> HIDE DEF m
  <2>2. ScheduleShape(c.sched)
    BY DEF Shape
  <2>3. ScheduleShape(s) /\ Elems(s.th) = Elems(c.sched.th) \cup Elems(<<m>>)
    BY <2>1, <2>2, HashSchedule
  <2> HIDE DEF s
  <2> QED BY <1>2, <2>1, <2>3 DEF NoExt
<1>4. DOMAIN enc = ContextFields
  BY UsedContext, NewContext DEF Shape
<1>5. IsSeq(hello) /\ \A r \in Elems(hello) : r.msg.type = "ch"
  BY <1>2, SealOne
<1>6. IsSeq(out) /\ \A r \in Elems(out) : r.msg.type # "fin"
  <2> HIDE DEF hello
  <2>1. /\ IsSeq(ChangeCipherSpec(c.ccs /\ c.usingEarly))
        /\ \A r \in Elems(ChangeCipherSpec(c.ccs /\ c.usingEarly)) : r.msg.type = "ccs"
    BY CcsRecords
  <2> QED BY <1>5, <2>1, CatSeq
<1> HIDE DEF m, s, enc, out
<1>7. /\ DOMAIN tls = ClientFields /\ tls.sched = s /\ tls.state = state /\ tls.enc = enc
      /\ tls.dec = c.dec /\ tls.pending = c.pending /\ tls.error = c.error
      /\ tls.certReq = c.certReq
  BY DEF Shape, ClientFields
<1> HIDE DEF tls
<1>8. Shape(tls, ClientFields)
  BY <1>3, <1>4, <1>7 DEF Shape
<1>9. ClientOK(tls)
  BY <1>3, <1>7, <1>8 DEF ClientOK, ClientAuthentic, ClientMiddle
<1> QED BY <1>1, <1>6, <1>7, <1>9

(* The first flight. *)
LEMMA ClientStarts ==
  ASSUME ClientOK(cl), ClientStart
  PROVE  \E d, out : ClientGoes(d, out)
<1> DEFINE c == [cl EXCEPT !.offeredPsk = Identity # "none",
                           !.usingEarly = cfg.early /\ Identity # "none",
                           !.share = IF Identity = "ticket" THEN cfg.ticketGroup
                                     ELSE IF cfg.negotiateFirst THEN "none" ELSE "g1",
                           !.sched.psk = IF Identity = "none" THEN "zero" ELSE Identity]
           h == SentHello(c, <<>>, "expect_sh")
<1>1. cl.state = "start" /\ cl' = h.tls /\ toServer' = toServer \o h.out
  BY DEF ClientStart
<1>2. /\ DOMAIN c = ClientFields /\ c.enc = cl.enc /\ c.dec = cl.dec /\ c.pending = cl.pending
      /\ c.error = cl.error /\ c.certReq = cl.certReq
      /\ DOMAIN c.sched = DOMAIN cl.sched /\ c.sched.th = cl.sched.th
  BY DEF ClientOK, Shape, ScheduleShape, ScheduleFields, ClientFields
<1> HIDE DEF c
<1>3. /\ Shape(c, ClientFields) /\ c.pending = NoKey /\ c.error = "none" /\ NoExt(c.sched.th)
      /\ (c.certReq => cfg.auth)
  BY <1>1, <1>2 DEF ClientOK, Shape, ScheduleShape
<1>4. ClientOK(h.tls) /\ IsSeq(h.out) /\ \A r \in Elems(h.out) : r.msg.type # "fin"
  BY <1>3, SentHelloOK
<1> HIDE DEF h
<1>5. ClientGoes(h.tls, h.out)
  BY <1>1, <1>4 DEF ClientGoes, FinishedOK
<1> QED BY <1>5

(* Hashing a single message. *)
LEMMA HashOne ==
  ASSUME NEW s, ScheduleShape(s), NEW m
  PROVE  /\ ScheduleShape(Hash(s, <<m>>))
         /\ Hash(s, <<m>>).psk = s.psk /\ Hash(s, <<m>>).dhe = s.dhe
         /\ Hash(s, <<m>>).th = s.th \o <<m>>
         /\ Elems(Hash(s, <<m>>).th) = Elems(s.th) \cup {m}
<1>1. IsSeq(<<m>>) /\ Elems(<<m>>) = {m}
  BY ShortSeq
<1> DEFINE ms == <<m>>
<1> HIDE DEF ms
<1>2. /\ ScheduleShape(Hash(s, ms))
      /\ Hash(s, ms).psk = s.psk /\ Hash(s, ms).dhe = s.dhe /\ Hash(s, ms).th = s.th \o ms
      /\ Elems(Hash(s, ms).th) = Elems(s.th) \cup Elems(ms)
  BY <1>1, HashSchedule DEF ms
<1>3. Elems(Hash(s, ms).th) = Elems(s.th) \cup {m}
  BY <1>1, <1>2 DEF ms
<1> QED BY <1>2, <1>3 DEF ms

(* A second flight, or a failure. *)
LEMMA ClientRetries ==
  ASSUME NEW c, ClientOK(c), FailsFrom(c), c.error = "none", NEW r, ClientHandleRetry(c, r)
  PROVE  \E d, out : ClientGoes(d, out)
<1> DEFINE m == r.msg
           share == IF m.group = "none" THEN c.share ELSE m.group
           e == ReleaseEarlyKey(c)
           s == Hash(HashCH1(c.sched), <<m>>)
           d == [e EXCEPT !.sched = s, !.share = share]
           h == SentHello(d, m.cookie, "expect_sh2")
<1>1. /\ c.state \in {"expect_sh", "expect_sh2"} /\ m.type = "hrr"
      /\ \/ ClientReply(h.tls, h.out)
         \/ ClientFail(d, "illegal_parameter")
  BY DEF ClientHandleRetry
<1>2. ScheduleShape(s) /\ NoExt(s.th)
  <2>1. ScheduleShape(HashCH1(c.sched)) /\ NoExt(HashCH1(c.sched).th)
    BY HashCH1Schedule DEF ClientOK, Shape
  <2>2. ScheduleShape(s) /\ Elems(s.th) = Elems(HashCH1(c.sched).th) \cup {m}
    BY <2>1, HashOne
  <2> HIDE DEF s
  <2> QED BY <1>1, <2>1, <2>2 DEF NoExt
<1>3. /\ DOMAIN e = ClientFields /\ DOMAIN e.enc = ContextFields /\ e.dec = c.dec
      /\ e.pending = c.pending /\ e.certReq = c.certReq /\ e.error = c.error
      /\ e.state = c.state /\ e.isPsk = c.isPsk /\ e.verified = c.verified
  BY NewContext DEF ClientOK, Shape, ClientFields, ReleaseEarlyKey
<1> HIDE DEF e, s, share
<1>4. /\ DOMAIN d = ClientFields /\ DOMAIN d.enc = ContextFields /\ d.dec = c.dec
      /\ d.pending = c.pending /\ d.certReq = c.certReq /\ d.error = c.error
      /\ d.state = c.state /\ d.isPsk = c.isPsk /\ d.verified = c.verified /\ d.sched = s
  BY <1>3 DEF ClientFields
<1> HIDE DEF d
<1>5. Shape(d, ClientFields)
  BY <1>2, <1>4 DEF ClientOK, Shape
<1>6. CASE ClientFail(d, "illegal_parameter")
  <2>1. FailsFrom(d)
    BY <1>4, <1>5 DEF FailsFrom, ClientAuthentic
  <2> QED BY <1>6, <2>1, ClientFails
<1>7. CASE ClientReply(h.tls, h.out)
  <2>1. d.pending = NoKey /\ d.error = "none" /\ NoExt(d.sched.th) /\ (d.certReq => cfg.auth)
    BY <1>1, <1>2, <1>4 DEF ClientOK
  <2>2. ClientOK(h.tls) /\ IsSeq(h.out) /\ \A x \in Elems(h.out) : x.msg.type # "fin"
    BY <1>5, <2>1, SentHelloOK
  <2>3. cl' = h.tls /\ toServer' = toServer \o h.out /\ cl.state # "post"
    BY <1>1, <1>7 DEF ClientReply, FailsFrom
  <2> HIDE DEF h
  <2>4. ClientGoes(h.tls, h.out)
    BY <2>2, <2>3 DEF ClientGoes, FinishedOK
  <2> QED BY <2>4
<1> QED BY <1>1, <1>6, <1>7

(* A handler that goes on and sends nothing. *)
LEMMA ClientGoesOn ==
  ASSUME NEW d, ClientOK(d), ClientReply(d, <<>>),
         cl.state = "post" => d.state = "post" /\ d.isPsk = cl.isPsk,
         IsSeq(toServer)
  PROVE  \E x, out : ClientGoes(x, out)
<1>1. IsSeq(<<>>) /\ Elems(<<>>) = {}
  BY ShortSeq
<1>2. ClientGoes(d, <<>>)
  BY <1>1 DEF ClientGoes, ClientReply
<1> QED BY <1>2

(* A key that is derived has a label, which NoKey has not. *)
LEMMA KeyFacts ==
  ASSUME NEW s, NEW label
  PROVE  /\ Key(label, s).label = label /\ Key(label, s).th = s.th
         /\ Key(label, s).psk = s.psk /\ Key(label, s).dhe = s.dhe
         /\ label # "none" => Key(label, s) # NoKey
BY DEF Key, NoKey

(* ServerHello: the handshake keys. *)
LEMMA ClientHellos ==
  ASSUME NEW c, ClientOK(c), FailsFrom(c), c.error = "none", IsSeq(toServer), NEW r,
         ClientHandleHello(c, r)
  PROVE  \E d, out : ClientGoes(d, out)
<1> DEFINE m == r.msg
           s0 == [c.sched EXCEPT !.psk = SelectedPsk(c, m),
                                 !.dhe = IF m.share = "none" THEN "zero" ELSE m.share]
           s == Hash(s0, <<m>>)
           d == [c EXCEPT !.isPsk = m.psk, !.sched = s, !.dec = Protect(Key("s hs", s)),
                          !.enc = IF c.usingEarly THEN @ ELSE Protect(Key("c hs", s)),
                          !.pending = IF c.usingEarly THEN Key("c hs", s) ELSE @,
                          !.state = "expect_ee"]
<1>1. /\ c.state \in {"expect_sh", "expect_sh2"} /\ m.type = "sh"
      /\ \/ ClientReply(d, <<>>)
         \/ ServerHelloError(c, m) # "none" /\ ClientFail(c, ServerHelloError(c, m))
  BY DEF ClientHandleHello
<1>2. CASE ServerHelloError(c, m) # "none" /\ ClientFail(c, ServerHelloError(c, m))
  BY <1>2, ClientFails
<1>3. CASE ClientReply(d, <<>>)
  <2>1. DOMAIN s0 = ScheduleFields /\ s0.th = c.sched.th
    BY DEF ClientOK, Shape, ScheduleShape, ScheduleFields
  <2>2. ScheduleShape(s0)
    BY <2>1 DEF ClientOK, Shape, ScheduleShape
  <2> HIDE DEF s0
  <2>3. ScheduleShape(s) /\ s.th = s0.th \o <<m>> /\ Elems(s.th) = Elems(s0.th) \cup {m}
    BY <2>2, HashOne
  <2>4. LastPsk(s.th) = m.psk
    BY <2>2, <2>3, LastOf DEF LastPsk, ScheduleShape
  <2> HIDE DEF s
  <2>5. NoExt(s.th)
    BY <1>1, <2>1, <2>3 DEF ClientOK, NoExt
  <2>6. /\ DOMAIN d = ClientFields /\ d.isPsk = m.psk /\ d.sched = s
        /\ d.dec = Protect(Key("s hs", s))
        /\ d.enc = (IF c.usingEarly THEN c.enc ELSE Protect(Key("c hs", s)))
        /\ d.pending = (IF c.usingEarly THEN Key("c hs", s) ELSE c.pending)
        /\ d.state = "expect_ee" /\ d.usingEarly = c.usingEarly /\ d.certReq = c.certReq
        /\ d.error = c.error
    BY DEF ClientOK, Shape, ClientFields
  <2>7. c.pending = NoKey
    BY <1>1 DEF ClientOK
  <2> HIDE DEF d, m
  <2>k. Key("c hs", s) # NoKey /\ Key("c hs", s).th = s.th
    BY KeyFacts
  <2>n. /\ Protect(Key("c hs", s)).key = Key("c hs", s)
        /\ DOMAIN Protect(Key("c hs", s)) = ContextFields
        /\ DOMAIN Protect(Key("s hs", s)) = ContextFields
    BY NewContext
  <2>8. /\ d.pending # NoKey <=> d.usingEarly
        /\ HsKey(d.pending, d.enc.key) = Key("c hs", s)
    BY <2>6, <2>7, <2>k, <2>n DEF HsKey
  <2>9. LastPsk(HsKey(d.pending, d.enc.key).th) = d.isPsk
    BY <2>4, <2>6, <2>8, <2>k DEF LastPsk
  <2>10. Shape(d, ClientFields)
    <3>1. DOMAIN c.enc = ContextFields
      BY DEF ClientOK, Shape
    <3>2. DOMAIN d.enc = ContextFields /\ DOMAIN d.dec = ContextFields
      BY <2>6, <2>n, <3>1
    <3> QED BY <2>3, <2>6, <3>2 DEF Shape
  <2>11. ClientOK(d)
    BY <2>5, <2>6, <2>8, <2>9, <2>10 DEF ClientOK, ClientAuthentic, ClientMiddle
  <2>12. cl.state # "post"
    BY <1>1 DEF FailsFrom
  <2> QED BY <1>3, <2>11, <2>12, ClientGoesOn
<1> QED BY <1>1, <1>2, <1>3

(* A handler between EncryptedExtensions and Finished only adds its message to *)
(* the transcript and moves on.                                                *)
LEMMA ClientHashes ==
  ASSUME NEW c, ClientOK(c), c.error = "none", c.state \in ClientMiddle \ {"expect_ee"},
         NEW m, m.type # "ee", NEW d, DOMAIN d = ClientFields,
         d.enc = c.enc, d.dec = c.dec, d.pending = c.pending, d.usingEarly = c.usingEarly,
         d.isPsk = c.isPsk, d.error = c.error, d.sched = Hash(c.sched, <<m>>),
         d.state \in ClientMiddle \ {"expect_ee"}, d.certReq => cfg.auth, ClientAuthentic(d)
  PROVE  ClientOK(d)
<1>1. ScheduleShape(c.sched)
  BY DEF ClientOK, Shape
<1>2. ScheduleShape(d.sched) /\ Elems(d.sched.th) = Elems(c.sched.th) \cup {m}
  BY <1>1, HashOne
<1>3. EarlyIn(d.sched.th) <=> EarlyIn(c.sched.th)
  BY <1>2 DEF EarlyIn
<1>4. Shape(d, ClientFields)
  BY <1>2 DEF ClientOK, Shape
<1>5. /\ LastPsk(HsKey(c.pending, c.enc.key).th) = c.isPsk
      /\ c.pending # NoKey /\ c.usingEarly <=> EarlyIn(c.sched.th)
  BY DEF ClientOK
<1>6. /\ d.state \in ClientMiddle /\ d.state # "expect_ee"
      /\ d.state \notin {"start", "expect_sh", "expect_sh2", "post"}
  BY DEF ClientMiddle
<1> QED BY <1>3, <1>4, <1>5, <1>6 DEF ClientOK

(* EncryptedExtensions: whether 0-RTT data was accepted is now in the transcript. *)
LEMMA ClientExtensions ==
  ASSUME NEW c, ClientOK(c), FailsFrom(c), c.error = "none", IsSeq(toServer), NEW r,
         ClientHandleEncryptedExtensions(c, r)
  PROVE  \E d, out : ClientGoes(d, out)
<1> DEFINE m == r.msg
           s == Hash(c.sched, <<m>>)
           d == [c EXCEPT !.usingEarly = m.early, !.sched = s,
                          !.state = IF c.isPsk THEN "expect_fin" ELSE "expect_cr_or_cert"]
<1>1. /\ c.state = "expect_ee" /\ m.type = "ee"
      /\ \/ ClientFail(c, "illegal_parameter")
         \/ (m.early => c.usingEarly) /\ ClientReply(d, <<>>)
  BY DEF ClientHandleEncryptedExtensions
<1>2. CASE ClientFail(c, "illegal_parameter")
  BY <1>2, ClientFails
<1>3. CASE (m.early => c.usingEarly) /\ ClientReply(d, <<>>)
  <2>1. ScheduleShape(c.sched) /\ NoExt(c.sched.th)
    BY <1>1 DEF ClientOK, Shape
  <2>2. ScheduleShape(s) /\ Elems(s.th) = Elems(c.sched.th) \cup {m}
    BY <2>1, HashOne
  <2> HIDE DEF s
  <2>3. EarlyIn(s.th) <=> m.early
    BY <1>1, <2>1, <2>2 DEF EarlyIn, NoExt
  <2>4. /\ DOMAIN d = ClientFields /\ d.enc = c.enc /\ d.dec = c.dec /\ d.pending = c.pending
        /\ d.usingEarly = m.early /\ d.isPsk = c.isPsk /\ d.error = c.error /\ d.sched = s
        /\ d.certReq = c.certReq /\ d.verified = c.verified
        /\ d.state = (IF c.isPsk THEN "expect_fin" ELSE "expect_cr_or_cert")
    BY DEF ClientOK, Shape, ClientFields
  <2> HIDE DEF d, m
  <2>5. c.pending # NoKey <=> c.usingEarly
    BY <1>1 DEF ClientOK
  <2>6. d.pending # NoKey /\ d.usingEarly <=> EarlyIn(d.sched.th)
    BY <1>3, <2>3, <2>4, <2>5
  <2>7. Shape(d, ClientFields)
    BY <2>2, <2>4 DEF ClientOK, Shape
  <2>8. ClientAuthentic(d)
    BY <2>4 DEF ClientAuthentic
  <2>9. LastPsk(HsKey(d.pending, d.enc.key).th) = d.isPsk
    BY <1>1, <2>4 DEF ClientOK, ClientMiddle
  <2>10. d.state \in {"expect_fin", "expect_cr_or_cert"} /\ (d.certReq => cfg.auth)
    BY <2>4 DEF ClientOK
  <2>11. ClientOK(d)
    BY <2>6, <2>7, <2>8, <2>9, <2>10 DEF ClientOK
  <2>12. cl.state # "post"
    BY <1>1 DEF FailsFrom
  <2> QED BY <1>3, <2>11, <2>12, ClientGoesOn
<1> QED BY <1>1, <1>2, <1>3

(* CertificateRequest comes from a server that authenticates its clients. *)
LEMMA ClientRequested ==
  ASSUME NEW c, ClientOK(c), FailsFrom(c), c.error = "none", IsSeq(toServer), NEW r,
         FromServerOK(r), ClientHandleCertificateRequest(c, r)
  PROVE  \E d, out : ClientGoes(d, out)
<1> DEFINE d == [c EXCEPT !.certReq = TRUE, !.sched = Hash(@, <<r.msg>>), !.state = "expect_cert"]
<1>1. c.state = "expect_cr_or_cert" /\ r.msg.type = "cr" /\ ClientReply(d, <<>>)
  BY DEF ClientHandleCertificateRequest
<1>2. /\ DOMAIN d = ClientFields /\ d.enc = c.enc /\ d.dec = c.dec /\ d.pending = c.pending
      /\ d.usingEarly = c.usingEarly /\ d.isPsk = c.isPsk /\ d.error = c.error
      /\ d.sched = Hash(c.sched, <<r.msg>>) /\ d.state = "expect_cert"
  BY DEF ClientOK, Shape, ClientFields
<1>3. cfg.auth
  BY <1>1 DEF FromServerOK
<1> HIDE DEF d
<1>4. ClientAuthentic(d)
  BY <1>2 DEF ClientAuthentic
<1>5. ClientOK(d)
  <2>1. /\ c.state \in ClientMiddle \ {"expect_ee"} /\ d.state \in ClientMiddle \ {"expect_ee"}
        /\ r.msg.type # "ee"
    BY <1>1, <1>2 DEF ClientMiddle
  <2> QED BY <1>2, <1>3, <1>4, <2>1, ClientHashes
<1>6. cl.state # "post"
  BY <1>1 DEF FailsFrom
<1> QED BY <1>1, <1>5, <1>6, ClientGoesOn

(* Certificate. *)
LEMMA ClientCertificate ==
  ASSUME NEW c, ClientOK(c), FailsFrom(c), c.error = "none", IsSeq(toServer), NEW r,
         ClientHandleCertificate(c, r)
  PROVE  \E d, out : ClientGoes(d, out)
<1> DEFINE d == [c EXCEPT !.sched = Hash(@, <<r.msg>>), !.state = "expect_cv"]
<1>1. /\ c.state \in {"expect_cr_or_cert", "expect_cert"} /\ r.msg.type = "cert"
      /\ \/ ClientFail(c, "bad_certificate")
         \/ ClientFail(c, "illegal_parameter")
         \/ ClientReply(d, <<>>)
  BY DEF ClientHandleCertificate
<1>2. CASE ClientFail(c, "bad_certificate") \/ ClientFail(c, "illegal_parameter")
  BY <1>2, ClientFails
<1>3. CASE ClientReply(d, <<>>)
  <2>1. /\ DOMAIN d = ClientFields /\ d.enc = c.enc /\ d.dec = c.dec /\ d.pending = c.pending
        /\ d.usingEarly = c.usingEarly /\ d.isPsk = c.isPsk /\ d.error = c.error
        /\ d.sched = Hash(c.sched, <<r.msg>>) /\ d.state = "expect_cv" /\ d.certReq = c.certReq
    BY DEF ClientOK, Shape, ClientFields
  <2> HIDE DEF d
  <2>2. ClientAuthentic(d)
    BY <2>1 DEF ClientAuthentic
  <2>3. d.certReq => cfg.auth
    BY <2>1 DEF ClientOK
  <2>4. ClientOK(d)
    <3>1. /\ c.state \in ClientMiddle \ {"expect_ee"} /\ d.state \in ClientMiddle \ {"expect_ee"}
          /\ r.msg.type # "ee"
      BY <1>1, <2>1 DEF ClientMiddle
    <3> QED BY <2>1, <2>2, <2>3, <3>1, ClientHashes
  <2>5. cl.state # "post"
    BY <1>1 DEF FailsFrom
  <2> QED BY <1>3, <2>4, <2>5, ClientGoesOn
<1> QED BY <1>1, <1>2, <1>3

(* CertificateVerify: the server is authenticated. *)
LEMMA ClientVerifies ==
  ASSUME NEW c, ClientOK(c), FailsFrom(c), c.error = "none", IsSeq(toServer), NEW r,
         ClientHandleCertificateVerify(c, r)
  PROVE  \E d, out : ClientGoes(d, out)
<1> DEFINE d == [c EXCEPT !.sched = Hash(@, <<r.msg>>), !.verified = TRUE, !.state = "expect_fin"]
<1>1. /\ c.state = "expect_cv" /\ r.msg.type = "cv"
      /\ ClientFail(c, "decrypt_error") \/ ClientReply(d, <<>>)
  BY DEF ClientHandleCertificateVerify
<1>2. CASE ClientFail(c, "decrypt_error")
  BY <1>2, ClientFails
<1>3. CASE ClientReply(d, <<>>)
  <2>1. /\ DOMAIN d = ClientFields /\ d.enc = c.enc /\ d.dec = c.dec /\ d.pending = c.pending
        /\ d.usingEarly = c.usingEarly /\ d.isPsk = c.isPsk /\ d.error = c.error
        /\ d.sched = Hash(c.sched, <<r.msg>>) /\ d.state = "expect_fin" /\ d.certReq = c.certReq
        /\ d.verified = TRUE
    BY DEF ClientOK, Shape, ClientFields
  <2> HIDE DEF d
  <2>2. ClientAuthentic(d)
    BY <2>1 DEF ClientAuthentic
  <2>3. d.certReq => cfg.auth
    BY <2>1 DEF ClientOK
  <2>4. ClientOK(d)
    <3>1. /\ c.state \in ClientMiddle \ {"expect_ee"} /\ d.state \in ClientMiddle \ {"expect_ee"}
          /\ r.msg.type # "ee"
      BY <1>1, <2>1 DEF ClientMiddle
    <3> QED BY <2>1, <2>2, <2>3, <3>1, ClientHashes
  <2>5. cl.state # "post"
    BY <1>1 DEF FailsFrom
  <2> QED BY <1>3, <2>4, <2>5, ClientGoesOn
<1> QED BY <1>1, <1>2, <1>3

(* The messages of a flight of one message, and of none. *)
LEMMA MessagesOf ==
  /\ Messages(<<>>) = <<>>
  /\ \A m, mac : Messages(<<Item(m, mac)>>) = <<m>>
<1>1. Messages(<<>>) = <<>>
  BY DEF Messages
<1>2. ASSUME NEW m, NEW mac PROVE Messages(<<Item(m, mac)>>) = <<m>>
  BY DEF Messages, Item
<1> QED BY <1>1, <1>2

(* The server's Finished is verified: the client's flight is of the handshake key, *)
(* and ends in the transcript that the resumption secret of the server's           *)
(* application key stands for.                                                     *)
LEMMA ClientFlightOK ==
  ASSUME NEW c, ClientOK(c), c.error = "none", c.state = "expect_fin",
         NEW m, m.type = "fin"
  PROVE  LET f == ClientFlight(c, Hash(c.sched, <<m>>))
         IN  /\ ClientOK(f.tls) /\ f.tls.state = "post" /\ f.tls.isPsk = c.isPsk
             /\ Shape(f.failed, ClientFields) /\ ClientAuthentic(f.failed)
             /\ f.failed.state = c.state /\ f.failed.isPsk = c.isPsk
             /\ IsSeq(f.out) /\ \A r \in Elems(f.out) : FinishedOK(f.tls, r)
<1> DEFINE ap == Hash(c.sched, <<m>>)
           early == c.pending # NoKey /\ c.usingEarly
           eoed == IF early THEN <<Item(Plain("eoed"), NoMac)>> ELSE <<>>
           s1 == Hash(ap, Messages(eoed))
           hs == IF c.pending # NoKey THEN Protect(c.pending) ELSE c.enc
           cert == IF c.certReq THEN <<Item([type |-> "cert", some |-> cfg.clientCert], NoMac)>>
                   ELSE <<>>
           s2 == Hash(s1, Messages(cert))
           cv == IF c.certReq /\ cfg.clientCert THEN <<Item(Plain("cv"), Signature(s2))>> ELSE <<>>
           s3 == Hash(s2, Messages(cv))
           fin == Item(ClientFinished, FinishedMac(hs.key, s3))
           s4 == Hash(s3, <<fin.msg>>)
           d == [c EXCEPT !.dec = Protect(Key("s ap", ap)), !.pending = NoKey,
                          !.usingEarly = FALSE, !.ccs = FALSE, !.certReq = FALSE]
           tls == [d EXCEPT !.sched = s4, !.enc = Protect(Key("c ap", ap)),
                            !.state = "post", !.done = TRUE]
           failed == [d EXCEPT !.enc = Used(hs, Len(cert))]
           out == Seal(c.enc, eoed) \o ChangeCipherSpec(c.ccs) \o Seal(hs, cert \o cv \o <<fin>>)
           f == ClientFlight(c, Hash(c.sched, <<m>>))
<1>1. f.tls = tls /\ f.failed = failed /\ f.out = out
  BY DEF ClientFlight, ClientFinished
<1>2. ScheduleShape(c.sched) /\ DOMAIN c = ClientFields /\ DOMAIN c.enc = ContextFields
  BY DEF ClientOK, Shape
<1>3. ScheduleShape(ap) /\ Elems(ap.th) = Elems(c.sched.th) \cup {m}
  BY <1>2, HashOne
<1>4. EarlyIn(ap.th) <=> early
  <2>1. early <=> EarlyIn(c.sched.th)
    BY DEF ClientOK, ClientMiddle
  <2> HIDE DEF ap, early
  <2> QED BY <1>3, <2>1 DEF EarlyIn
<1> DEFINE em == IF early THEN <<Plain("eoed")>> ELSE <<>>
<1>5. IsSeq(eoed) /\ Messages(eoed) = em /\ IsSeq(em) /\ \A x \in Elems(eoed) : x.msg.type = "eoed"
  <2>1. Item(Plain("eoed"), NoMac).msg.type = "eoed"
    BY DEF Item, Plain
  <2>2. Messages(<<Item(Plain("eoed"), NoMac)>>) = <<Plain("eoed")>> /\ Messages(<<>>) = <<>>
    BY MessagesOf
  <2>3. /\ IsSeq(<<>>) /\ Elems(<<>>) = {} /\ IsSeq(<<Plain("eoed")>>)
        /\ IsSeq(<<Item(Plain("eoed"), NoMac)>>)
        /\ Elems(<<Item(Plain("eoed"), NoMac)>>) = {Item(Plain("eoed"), NoMac)}
    BY ShortSeq
  <2> HIDE DEF early
  <2>4. CASE early
    BY <2>1, <2>2, <2>3, <2>4
  <2>5. CASE ~early
    BY <2>1, <2>2, <2>3, <2>5
  <2> QED BY <2>4, <2>5
<1> HIDE DEF ap, early
<1>6. ScheduleShape(s1) /\ s1.psk = ap.psk /\ s1.dhe = ap.dhe /\ s1.th = ap.th \o em
  BY <1>3, <1>5, HashSchedule
<1> HIDE DEF s1, eoed
<1>7. IsSeq(cert) /\ \A x \in Elems(cert) : x.msg.type = "cert"
  <2>1. Item([type |-> "cert", some |-> cfg.clientCert], NoMac).msg.type = "cert"
    BY DEF Item
  <2> QED BY <2>1, ShortSeq
<1>8. ~c.certReq => cert = <<>> /\ cv = <<>>
  OBVIOUS
<1> HIDE DEF cert
<1>9. ScheduleShape(s2) /\ s2.psk = s1.psk /\ s2.dhe = s1.dhe /\ s2.th = s1.th \o Messages(cert)
  BY <1>6, <1>7, HashSchedule, MessagesSeq
<1> HIDE DEF s2
<1>10. IsSeq(cv) /\ \A x \in Elems(cv) : x.msg.type = "cv"
  <2>1. Item(Plain("cv"), Signature(s2)).msg.type = "cv"
    BY DEF Item, Plain
  <2> QED BY <2>1, ShortSeq
<1> HIDE DEF cv
<1>11. ScheduleShape(s3) /\ s3.psk = s2.psk /\ s3.dhe = s2.dhe /\ s3.th = s2.th \o Messages(cv)
  BY <1>9, <1>10, HashSchedule, MessagesSeq
<1> HIDE DEF s3
<1>12. fin.msg = ClientFinished /\ fin.mac.key = hs.key /\ ClientFinished.type = "fin"
  BY DEF Item, FinishedMac, ClientFinished
<1>13. /\ ScheduleShape(s4) /\ s4.psk = s3.psk /\ s4.dhe = s3.dhe
       /\ s4.th = s3.th \o <<ClientFinished>>
  <2>1. s4 = Hash(s3, <<ClientFinished>>)
    BY <1>12
  <2> HIDE DEF s4
  <2>2. LET t == Hash(s3, <<ClientFinished>>)
        IN  /\ ScheduleShape(t) /\ t.psk = s3.psk /\ t.dhe = s3.dhe
            /\ t.th = s3.th \o <<ClientFinished>>
    BY <1>11, HashOne
  <2> QED BY <2>1, <2>2
<1> HIDE DEF s4
<1>14. DOMAIN hs = ContextFields /\ hs.key = HsKey(c.pending, c.enc.key)
  BY <1>2, NewContext DEF HsKey
<1> HIDE DEF hs
<1>15. LastPsk(hs.key.th) = c.isPsk
  BY <1>14 DEF ClientOK, ClientMiddle
<1>16. /\ IsSeq(Seal(hs, cert \o cv \o <<fin>>))
       /\ \A r \in Elems(Seal(hs, cert \o cv \o <<fin>>)) :
             r.msg.type = "fin" => r.mac.key = hs.key
  <2> HIDE DEF fin
  <2>1. IsSeq(<<fin>>) /\ Elems(<<fin>>) = {fin}
    BY ShortSeq
  <2>2. IsSeq(cert \o cv) /\ Elems(cert \o cv) = Elems(cert) \cup Elems(cv)
    BY <1>7, <1>10, CatSeq
  <2>3. /\ IsSeq(cert \o cv \o <<fin>>)
        /\ Elems(cert \o cv \o <<fin>>) = Elems(cert) \cup Elems(cv) \cup {fin}
    BY <2>1, <2>2, CatSeq
  <2>4. \A x \in Elems(cert \o cv \o <<fin>>) : x.msg.type = "fin" => x.mac.key = hs.key
    BY <1>7, <1>10, <1>12, <2>3
  <2> DEFINE items == cert \o cv \o <<fin>>
  <2> HIDE DEF items
  <2>5. IsSeq(items) /\ \A x \in Elems(items) : x.msg.type = "fin" => x.mac.key = hs.key
    BY <2>3, <2>4 DEF items
  <2>6. /\ IsSeq(Seal(hs, items))
        /\ \A r \in Elems(Seal(hs, items)) : r.msg.type = "fin" => r.mac.key = hs.key
    BY <2>5, SealSeq
  <2> QED BY <2>6 DEF items
<1>17. IsSeq(out) /\ \A r \in Elems(out) : r.msg.type = "fin" => r.mac.key = hs.key
  <2>1. /\ IsSeq(Seal(c.enc, eoed))
        /\ \A r \in Elems(Seal(c.enc, eoed)) : r.msg.type = "eoed"
    BY <1>5, SealSeq
  <2>2. /\ IsSeq(ChangeCipherSpec(c.ccs))
        /\ \A r \in Elems(ChangeCipherSpec(c.ccs)) : r.msg.type = "ccs"
    BY CcsRecords
  <2> DEFINE o1 == Seal(c.enc, eoed)
             o2 == ChangeCipherSpec(c.ccs)
             o3 == Seal(hs, cert \o cv \o <<fin>>)
  <2> HIDE DEF o1, o2, o3
  <2>3. IsSeq(o1 \o o2) /\ Elems(o1 \o o2) = Elems(o1) \cup Elems(o2)
    BY <2>1, <2>2, CatSeq DEF o1, o2
  <2>4. /\ IsSeq(o1 \o o2 \o o3)
        /\ Elems(o1 \o o2 \o o3) = Elems(o1) \cup Elems(o2) \cup Elems(o3)
    BY <1>16, <2>3, CatSeq DEF o3
  <2>5. \A r \in Elems(o1 \o o2 \o o3) : r.msg.type = "fin" => r.mac.key = hs.key
    BY <1>16, <2>1, <2>2, <2>4 DEF o1, o2, o3
  <2> QED BY <2>4, <2>5 DEF o1, o2, o3
<1> HIDE DEF out, fin
<1>18. /\ DOMAIN d = ClientFields /\ d.dec = Protect(Key("s ap", ap)) /\ d.sched = c.sched
       /\ d.state = c.state /\ d.isPsk = c.isPsk /\ d.verified = c.verified
       /\ d.error = c.error /\ d.certReq = FALSE
  BY <1>2 DEF ClientFields
<1> HIDE DEF d
<1>19. /\ DOMAIN tls = ClientFields /\ tls.dec = Protect(Key("s ap", ap)) /\ tls.sched = s4
       /\ tls.enc = Protect(Key("c ap", ap)) /\ tls.state = "post" /\ tls.isPsk = c.isPsk
       /\ tls.verified = c.verified /\ tls.error = c.error /\ tls.certReq = FALSE
  BY <1>18 DEF ClientFields
<1>20. /\ DOMAIN failed = ClientFields /\ failed.dec = d.dec /\ failed.sched = c.sched
       /\ failed.enc = Used(hs, Len(cert)) /\ failed.state = c.state /\ failed.isPsk = c.isPsk
       /\ failed.verified = c.verified
  BY <1>18 DEF ClientFields
<1> HIDE DEF tls, failed, f
<1>21. /\ DOMAIN Protect(Key("s ap", ap)) = ContextFields
       /\ DOMAIN Protect(Key("c ap", ap)) = ContextFields
       /\ Protect(Key("s ap", ap)).key = Key("s ap", ap)
       /\ DOMAIN Used(hs, Len(cert)) = ContextFields
  BY <1>14, NewContext, UsedContext
<1>22. Shape(failed, ClientFields) /\ ClientAuthentic(failed)
  <2>1. DOMAIN failed.enc = ContextFields /\ DOMAIN failed.dec = ContextFields
    BY <1>18, <1>20, <1>21
  <2> QED BY <1>2, <1>20, <2>1 DEF Shape, ClientOK, ClientAuthentic
<1>23. Shape(tls, ClientFields) /\ ClientAuthentic(tls)
  <2>1. DOMAIN tls.enc = ContextFields /\ DOMAIN tls.dec = ContextFields
    BY <1>19, <1>21
  <2>2. c.verified \/ c.isPsk
    BY DEF ClientOK, ClientAuthentic
  <2> QED BY <1>13, <1>19, <2>1, <2>2 DEF Shape, ClientAuthentic
<1>24. ASSUME ~cfg.auth PROVE Key("res", s4) = ResumptionOf(Key("s ap", ap))
  <2>1. ~c.certReq
    BY <1>24 DEF ClientOK
  <2>2. Messages(cert) = <<>> /\ Messages(cv) = <<>>
    BY <1>8, <2>1, MessagesOf
  <2>3. IsSeq(s1.th) /\ IsSeq(ap.th) /\ IsSeq(em) /\ IsSeq(<<ClientFinished>>)
    BY <1>3, <1>5, <1>6, ShortSeq DEF ScheduleShape
  <2>4. s2.th = s1.th
    BY <1>9, <2>2, <2>3, CatLaws
  <2>5. s3.th = s1.th
    BY <1>11, <2>2, <2>3, <2>4, CatLaws
  <2>6. s4.th = ap.th \o (em \o <<ClientFinished>>)
    <3>1. s4.th = (ap.th \o em) \o <<ClientFinished>>
      BY <1>6, <1>13, <2>5
    <3> HIDE DEF em
    <3> DEFINE last == <<ClientFinished>>
    <3> HIDE DEF last
    <3>0. IsSeq(last)
      BY <2>3 DEF last
    <3> DEFINE first == ap.th
    <3>1a. IsSeq(first) /\ IsSeq(em)
      BY <2>3
    <3> HIDE DEF first
    <3>2. (first \o em) \o last = first \o (em \o last)
      BY <3>0, <3>1a, CatAssoc
    <3> QED BY <3>1, <3>2 DEF first, last
  <2>7. s4.psk = ap.psk /\ s4.dhe = ap.dhe
    BY <1>6, <1>9, <1>11, <1>13
  <2>8. em = (IF EarlyIn(ap.th) THEN <<Plain("eoed")>> ELSE <<>>)
    BY <1>4
  <2>9. ClientEnd(Key("s ap", ap)) = s4.th
    BY <2>6, <2>8 DEF ClientEnd, Key
  <2> QED BY <2>7, <2>9 DEF ResumptionOf, Key
<1>25. ClientOK(tls)
  <2>1. tls.dec.key.label = "s ap" /\ tls.dec.key = Key("s ap", ap)
    <3>1. Key("s ap", ap).label = "s ap"
      BY KeyFacts, ZenonT(30)
    <3> QED BY <1>19, <1>21, <3>1
  <2>2. ~cfg.auth => Key("res", tls.sched) = ResumptionOf(tls.dec.key)
    BY <1>19, <1>24, <2>1
  <2> QED BY <1>19, <1>23, <2>1, <2>2 DEF ClientOK, ClientMiddle
<1>26. \A r \in Elems(out) : FinishedOK(tls, r)
  BY <1>15, <1>17, <1>19 DEF FinishedOK, LastPsk
<1> QED BY <1>1, <1>17, <1>19, <1>20, <1>22, <1>25, <1>26 DEF f

(* Finished. *)
LEMMA ClientFinishes ==
  ASSUME NEW c, ClientOK(c), FailsFrom(c), c.error = "none", NEW r, ClientHandleFinished(c, r)
  PROVE  \E d, out : ClientGoes(d, out)
<1> DEFINE f == ClientFlight(c, Hash(c.sched, <<r.msg>>))
<1>1. /\ c.state = "expect_fin" /\ r.msg.type = "fin"
      /\ \/ ClientFail(c, "handshake_failure")
         \/ ClientFail(f.failed, "internal_error")
         \/ ClientReply(f.tls, f.out)
  BY DEF ClientHandleFinished
<1>2. /\ ClientOK(f.tls) /\ f.tls.state = "post" /\ f.tls.isPsk = c.isPsk
      /\ Shape(f.failed, ClientFields) /\ ClientAuthentic(f.failed)
      /\ f.failed.state = c.state /\ f.failed.isPsk = c.isPsk
      /\ IsSeq(f.out) /\ \A x \in Elems(f.out) : FinishedOK(f.tls, x)
  BY <1>1, ClientFlightOK
<1> HIDE DEF f
<1>3. CASE ClientFail(c, "handshake_failure")
  BY <1>3, ClientFails
<1>4. CASE ClientFail(f.failed, "internal_error")
  <2>1. FailsFrom(f.failed)
    BY <1>2 DEF FailsFrom
  <2> QED BY <1>4, <2>1, ClientFails
<1>5. CASE ClientReply(f.tls, f.out)
  <2>1. ClientGoes(f.tls, f.out)
    BY <1>2, <1>5 DEF ClientGoes, ClientReply, FailsFrom
  <2> QED BY <2>1
<1> QED BY <1>1, <1>3, <1>4, <1>5

(* A ticket, or application data, is for the application. *)
LEMMA ClientTakesRecord ==
  ASSUME NEW c, ClientOK(c), FailsFrom(c), IsSeq(toServer), NEW r,
         ClientHandleNewSessionTicket(c, r) \/ ClientDeliver(c, r)
  PROVE  \E d, out : ClientGoes(d, out)
<1>1. ClientReply(c, <<>>)
  BY DEF ClientHandleNewSessionTicket, ClientDeliver
<1>2. cl.state = "post" => c.state = "post" /\ c.isPsk = cl.isPsk
  BY DEF FailsFrom
<1> QED BY <1>1, <1>2, ClientGoesOn

(* A record the client does not read, ignores, or refuses. *)
LEMMA ClientRejects ==
  ASSUME ClientOK(cl), cl.state # "start", IsSeq(toServer), NEW r,
         ClientRefuse(r) \/ ClientIgnoreCcs(r)
  PROVE  \E d, out : ClientGoes(d, out)
<1> DEFINE c == [cl EXCEPT !.dec = Read(@, r)]
<1>1. FailsFrom(c)
  BY ClientRead
<1>2. FailsFrom(cl)
  BY DEF FailsFrom, ClientOK
<1>3. Unreadable(cl.dec, r) # "none"
  BY DEF Unreadable
<1>4. \/ ClientFail(c, "unexpected_message")
      \/ ClientFail(cl, Unreadable(cl.dec, r))
      \/ ClientFail(cl, "unexpected_message")
      \/ ClientReply(cl, <<>>)
  BY DEF ClientRefuse, ClientIgnoreCcs
<1> HIDE DEF c
<1> QED BY <1>1, <1>2, <1>3, <1>4, ClientFails, ClientGoesOn

(* Every handler takes the record off the stream. *)
LEMMA ClientTakesOff ==
  ASSUME ClientReceive
  PROVE  toClient' = Tail(toClient) /\ toClient # <<>> /\ cl.error = "none" /\ cl.state # "start"
BY DEF ClientReceive, ClientReceives, ClientIgnoreCcs, ClientRefuse, ClientHandleRetry,
       ClientHandleHello, ClientHandleEncryptedExtensions, ClientHandleCertificateRequest,
       ClientHandleCertificate, ClientHandleCertificateVerify, ClientHandleFinished,
       ClientHandleAlert, ClientHandleNewSessionTicket, ClientDeliver, ClientReply, ClientFail

(* A record that arrives. *)
LEMMA ClientReceiveOK ==
  ASSUME HandshakeInv, ClientReceive
  PROVE  \E d, out : ClientGoes(d, out)
<1> DEFINE r == Head(toClient)
           c == [cl EXCEPT !.dec = Read(@, r)]
<1>1. /\ ClientOK(cl) /\ IsSeq(toServer) /\ IsSeq(toClient)
      /\ \A x \in Elems(toClient) : FromServerOK(x)
  BY DEF HandshakeInv
<1>2. toClient # <<>> /\ cl.error = "none" /\ cl.state # "start"
  BY ClientTakesOff
<1>3. FromServerOK(r)
  BY <1>1, <1>2, HeadAndTail
<1>4. ClientOK(c) /\ FailsFrom(c) /\ c.error = "none"
  BY <1>1, <1>2, ClientRead
<1>5. \/ ClientIgnoreCcs(r) \/ ClientRefuse(r)
      \/ ClientHandleRetry(c, r)
      \/ ClientHandleHello(c, r)
      \/ ClientHandleEncryptedExtensions(c, r)
      \/ ClientHandleCertificateRequest(c, r)
      \/ ClientHandleCertificate(c, r)
      \/ ClientHandleCertificateVerify(c, r)
      \/ ClientHandleFinished(c, r)
      \/ ClientHandleAlert(c, r)
      \/ ClientHandleNewSessionTicket(c, r) \/ ClientDeliver(c, r)
  BY DEF ClientReceive
<1> HIDE DEF r, c
<1>6. CASE ClientIgnoreCcs(r) \/ ClientRefuse(r)
  BY <1>1, <1>2, <1>6, ClientRejects
<1>7. CASE ClientHandleRetry(c, r)
  BY <1>4, <1>7, ClientRetries
<1>8. CASE ClientHandleHello(c, r)
  BY <1>1, <1>4, <1>8, ClientHellos
<1>9. CASE ClientHandleEncryptedExtensions(c, r)
  BY <1>1, <1>4, <1>9, ClientExtensions
<1>10. CASE ClientHandleCertificateRequest(c, r)
  BY <1>1, <1>3, <1>4, <1>10, ClientRequested
<1>11. CASE ClientHandleCertificate(c, r)
  BY <1>1, <1>4, <1>11, ClientCertificate
<1>12. CASE ClientHandleCertificateVerify(c, r)
  BY <1>1, <1>4, <1>12, ClientVerifies
<1>13. CASE ClientHandleFinished(c, r)
  BY <1>4, <1>13, ClientFinishes
<1>14. CASE ClientHandleAlert(c, r)
  BY <1>4, <1>14, ClientFails DEF ClientHandleAlert
<1>15. CASE ClientHandleNewSessionTicket(c, r) \/ ClientDeliver(c, r)
  BY <1>1, <1>4, <1>15, ClientTakesRecord
<1> QED BY <1>5, <1>6, <1>7, <1>8, <1>9, <1>10, <1>11, <1>12, <1>13, <1>14, <1>15

(* ptls_send. *)
LEMMA ClientSendOK ==
  ASSUME ClientOK(cl), NEW tag, ClientSend(tag)
  PROVE  \E d, out : ClientGoes(d, out)
<1> DEFINE d == [cl EXCEPT !.enc = Used(@, 1)]
           out == Seal(cl.enc, <<Data(tag)>>)
<1>1. cl' = d /\ toServer' = toServer \o out
  BY DEF ClientSend
<1>2. DOMAIN cl = ClientFields /\ DOMAIN cl.enc = ContextFields
  BY DEF ClientOK, Shape
<1>3. /\ DOMAIN d = ClientFields /\ d.enc = Used(cl.enc, 1)
      /\ d.dec = cl.dec /\ d.sched = cl.sched /\ d.pending = cl.pending /\ d.error = cl.error
      /\ d.state = cl.state /\ d.isPsk = cl.isPsk /\ d.verified = cl.verified
      /\ d.usingEarly = cl.usingEarly /\ d.certReq = cl.certReq
  BY <1>2 DEF ClientFields
<1>4. DOMAIN d.enc = ContextFields /\ d.enc.key = cl.enc.key
  BY <1>2, <1>3, UsedContext
<1>5. IsSeq(out) /\ \A r \in Elems(out) : r.msg.type = "data"
  <2> DEFINE m == [type |-> "data", tag |-> tag, n |-> sent[tag] + 1]
  <2>1. m.type = "data" /\ out = Seal(cl.enc, <<Item(m, NoMac)>>)
    BY DEF Data
  <2> HIDE DEF m, out
  <2> QED BY <2>1, SealOne
<1> HIDE DEF d, out
<1>6. Shape(d, ClientFields) /\ ClientAuthentic(d)
  BY <1>3, <1>4 DEF ClientOK, Shape, ClientAuthentic
<1>7. ClientOK(d)
  BY <1>3, <1>4, <1>6 DEF ClientOK
<1>8. ClientGoes(d, out)
  BY <1>1, <1>3, <1>5, <1>7 DEF ClientGoes, FinishedOK
<1> QED BY <1>8

(* The secret the client saves with a ticket. *)
LEMMA TicketSaved ==
  ASSUME HandshakeInv, ClientReceive, ~cfg.auth
  PROVE  \A t \in ticketsSeen' : t[1] = t[2]
<1> DEFINE r == Head(toClient)
           c == [cl EXCEPT !.dec = Read(@, r)]
<1>1. /\ ClientOK(cl) /\ IsSeq(toClient) /\ \A x \in Elems(toClient) : FromServerOK(x)
      /\ \A t \in ticketsSeen : t[1] = t[2]
  BY DEF HandshakeInv, TicketsMatchWithoutAuth
<1>2. toClient # <<>> /\ cl.error = "none" /\ cl.state # "start"
  BY ClientTakesOff
<1>3. FromServerOK(r)
  BY <1>1, <1>2, HeadAndTail
<1>4. ClientOK(c) /\ c.error = "none" /\ c.sched = cl.sched
  BY <1>1, <1>2, ClientRead
<1>5. c.dec.key = cl.dec.key
  BY <1>1, <1>2, ClientRead
<1>6. \/ UNCHANGED ticketsSeen
      \/ Opens(cl.dec, r) /\ ClientHandleNewSessionTicket(c, r)
  BY DEF ClientReceive
<1> HIDE DEF r, c
<1>7. CASE Opens(cl.dec, r) /\ ClientHandleNewSessionTicket(c, r)
  <2>1. /\ c.state = "post" /\ r.msg.type = "nst"
        /\ ticketsSeen' = ticketsSeen \cup {<<r.mac.key, Key("res", c.sched)>>}
    BY <1>7 DEF ClientHandleNewSessionTicket
  <2>2. /\ c.dec.key.label = "s ap"
        /\ Key("res", c.sched) = ResumptionOf(c.dec.key)
    BY <1>4, <2>1 DEF ClientOK
  <2>3. cl.dec.key # NoKey
    <3>1. NoKey.label = "none"
      BY DEF NoKey
    <3> QED BY <1>5, <2>2, <3>1
  <2>4. r.key = cl.dec.key
    BY <1>7, <2>1, <2>3 DEF Opens
  <2>5. r.mac.key = Key("res", c.sched)
    BY <1>3, <1>5, <2>1, <2>2, <2>4 DEF FromServerOK
  <2> QED BY <1>1, <2>1, <2>5
<1> QED BY <1>1, <1>6, <1>7

-----------------------------------------------------------------------------
(* The server. *)

(* A step of the server: its new state, and the records it sends. *)
ServerGoes(d, out) ==
    /\ sv' = d /\ toClient' = toClient \o out
    /\ ServerOK(d) /\ Agree(d, cl)
    /\ IsSeq(out) /\ \A r \in Elems(out) : FromServerOK(r)

(* s is the server as a handler may have left it before it failed. *)
ServerFailsFrom(s) == Shape(s, ServerFields) /\ ServerAuthentic(s) /\ Agree(s, cl)

(* Messages about which FromServerOK says nothing. *)
LEMMA OtherRecords ==
  ASSUME NEW r, r.msg.type \notin {"cr", "nst"}
  PROVE  FromServerOK(r)
BY DEF FromServerOK

(* Reading a record changes the sequence number alone. *)
LEMMA ServerRead ==
  ASSUME ServerOK(sv), Agree(sv, cl), NEW r, NEW s, s = [sv EXCEPT !.dec = Read(@, r)]
  PROVE  ServerOK(s) /\ ServerFailsFrom(s) /\ s.error = sv.error
<1>1. DOMAIN sv = ServerFields /\ DOMAIN sv.dec = ContextFields
  BY DEF ServerOK, Shape
<1>2. /\ DOMAIN s = ServerFields /\ s.dec = Read(sv.dec, r)
      /\ s.state = sv.state /\ s.enc = sv.enc /\ s.pending = sv.pending /\ s.sched = sv.sched
      /\ s.isPsk = sv.isPsk /\ s.verified = sv.verified /\ s.error = sv.error
  BY <1>1 DEF ServerFields
<1>3. DOMAIN s.dec = ContextFields /\ s.dec.key = sv.dec.key
  BY <1>1, <1>2, ReadContext
<1>4. Shape(s, ServerFields) /\ ServerAuthentic(s) /\ Agree(s, cl)
  BY <1>2, <1>3 DEF ServerOK, Shape, ServerAuthentic, Agree
<1>5. ServerOK(s)
  BY <1>2, <1>3, <1>4 DEF ServerOK
<1> QED BY <1>2, <1>4, <1>5 DEF ServerFailsFrom

(* A handler fails: an alert at most is sent. *)
LEMMA ServerFails ==
  ASSUME NEW s, ServerFailsFrom(s), NEW code, code # "none", ServerFail(s, code)
  PROVE  \E d, out : ServerGoes(d, out)
<1> DEFINE silent == s.done \/ code = "peer_alert"
           d == [s EXCEPT !.error = code, !.enc = IF silent THEN @ ELSE Used(@, 1)]
           out == IF silent THEN <<>> ELSE Seal(s.enc, <<Alert(code)>>)
<1>1. sv' = d /\ toClient' = toClient \o out
  BY DEF ServerFail
<1>2. DOMAIN s = ServerFields /\ DOMAIN s.enc = ContextFields
  BY DEF ServerFailsFrom, Shape
<1>3. /\ DOMAIN d = ServerFields /\ DOMAIN d.enc = ContextFields /\ d.dec = s.dec
      /\ d.sched = s.sched /\ d.error = code /\ d.state = s.state /\ d.isPsk = s.isPsk
      /\ d.verified = s.verified
  BY <1>2, UsedContext DEF ServerFields
<1>4. IsSeq(out) /\ \A r \in Elems(out) : r.msg.type = "alert"
  <2>1. /\ IsSeq(Seal(s.enc, <<Alert(code)>>))
        /\ \A r \in Elems(Seal(s.enc, <<Alert(code)>>)) : r.msg = [type |-> "alert", code |-> code]
    BY SealOne DEF Alert
  <2> QED BY <2>1, ShortSeq
<1> HIDE DEF d, out
<1>5. ServerOK(d) /\ Agree(d, cl)
  BY <1>3 DEF ServerFailsFrom, ServerOK, Shape, ServerAuthentic, Agree
<1>6. ServerGoes(d, out)
  BY <1>1, <1>4, <1>5, OtherRecords DEF ServerGoes
<1> QED BY <1>6

(* A handler that goes on and sends nothing. *)
LEMMA ServerGoesOn ==
  ASSUME NEW d, ServerOK(d), Agree(d, cl), ServerReply(d, <<>>)
  PROVE  \E x, out : ServerGoes(x, out)
<1>1. IsSeq(<<>>) /\ Elems(<<>>) = {}
  BY ShortSeq
<1>2. ServerGoes(d, <<>>)
  BY <1>1 DEF ServerGoes, ServerReply
<1> QED BY <1>2

(* HelloRetryRequest. *)
LEMMA ServerRetries ==
  ASSUME NEW s, ServerOK(s), s.error = "none", s.state \in {"expect_ch", "expect_ch2"},
         NEW r, r.msg.type = "ch", ServerSendRetry(s, r)
  PROVE  \E d, out : ServerGoes(d, out)
<1> DEFINE m == r.msg
           hrr == HelloRetryRequest(s, m)
           t1 == Hash(s.sched, <<m>>)
           t2 == Hash(HashCH1(t1), <<hrr>>)
           s1 == [t2 EXCEPT !.psk = RetriedPsk]
           out == Seal(s.enc, <<Item(hrr, NoMac)>>)
           fresh == [NewServer EXCEPT !.retries = s.retries + 1]
           kept == [s EXCEPT !.sched = s1, !.state = "expect_ch2", !.retries = @ + 1,
                             !.skipped = IF m.early THEN 0 ELSE @]
<1>1. \/ ServerReply(fresh, out \o ChangeCipherSpec(s.ccs))
      \/ ServerReply(kept, out)
  BY DEF ServerSendRetry
<1>2. hrr.type = "hrr"
  BY DEF HelloRetryRequest
<1> HIDE DEF hrr
<1>3. IsSeq(out) /\ \A x \in Elems(out) : x.msg.type = "hrr"
  BY <1>2, SealOne
<1> HIDE DEF out
<1>4. CASE ServerReply(fresh, out \o ChangeCipherSpec(s.ccs))
  <2>1. /\ IsSeq(ChangeCipherSpec(s.ccs))
        /\ \A x \in Elems(ChangeCipherSpec(s.ccs)) : x.msg.type = "ccs"
    BY CcsRecords
  <2> DEFINE o2 == ChangeCipherSpec(s.ccs)
  <2> HIDE DEF o2
  <2>2. IsSeq(out \o o2) /\ Elems(out \o o2) = Elems(out) \cup Elems(o2)
    BY <1>3, <2>1, CatSeq DEF o2
  <2>3. \A x \in Elems(out \o o2) : FromServerOK(x)
    BY <1>3, <2>1, <2>2, OtherRecords DEF o2
  <2>4. /\ DOMAIN fresh = ServerFields /\ fresh.state = "expect_ch" /\ fresh.enc = NoProtection
        /\ fresh.dec = NoProtection /\ fresh.sched = EmptySchedule /\ fresh.error = "none"
    BY DEF NewServer, ServerFields
  <2> HIDE DEF fresh
  <2>5. DOMAIN EmptySchedule = ScheduleFields /\ EmptySchedule.th = <<>>
    BY DEF EmptySchedule, ScheduleFields
  <2>6. IsSeq(<<>>) /\ Elems(<<>>) = {}
    BY ShortSeq
  <2>7. ScheduleShape(EmptySchedule) /\ NoExt(EmptySchedule.th)
    BY <2>5, <2>6 DEF ScheduleShape, NoExt
  <2>8. Shape(fresh, ServerFields)
    BY <2>4, <2>7, NewContext DEF Shape
  <2>9. ServerOK(fresh) /\ Agree(fresh, cl)
    BY <2>4, <2>7, <2>8 DEF ServerOK, ServerAuthentic, ServerMiddle, Agree
  <2>10. sv' = fresh /\ toClient' = toClient \o (out \o o2)
    BY <1>4 DEF ServerReply, o2
  <2>11. ServerGoes(fresh, out \o o2)
    BY <2>2, <2>3, <2>9, <2>10 DEF ServerGoes
  <2> QED BY <2>11
<1>5. CASE ServerReply(kept, out)
  <2>1. ScheduleShape(s.sched) /\ DOMAIN s = ServerFields
    BY DEF ServerOK, Shape
  <2>2. ScheduleShape(t1)
    BY <2>1, HashOne
  <2> HIDE DEF t1
  <2>3. ScheduleShape(HashCH1(t1)) /\ NoExt(HashCH1(t1).th)
    BY <2>2, HashCH1Schedule
  <2>4. ScheduleShape(t2) /\ Elems(t2.th) = Elems(HashCH1(t1).th) \cup {hrr}
    BY <2>3, HashOne
  <2> HIDE DEF t2
  <2>5. DOMAIN s1 = ScheduleFields /\ s1.th = t2.th
    BY <2>4 DEF ScheduleShape, ScheduleFields
  <2> HIDE DEF s1
  <2>6. ScheduleShape(s1) /\ NoExt(s1.th)
    BY <1>2, <2>3, <2>4, <2>5 DEF ScheduleShape, NoExt
  <2>7. /\ DOMAIN kept = ServerFields /\ kept.state = "expect_ch2" /\ kept.enc = s.enc
        /\ kept.dec = s.dec /\ kept.sched = s1 /\ kept.error = s.error
    BY <2>1 DEF ServerFields
  <2> HIDE DEF kept
  <2>8. Shape(kept, ServerFields)
    BY <2>6, <2>7 DEF ServerOK, Shape
  <2>9. ServerOK(kept) /\ Agree(kept, cl)
    BY <2>6, <2>7, <2>8 DEF ServerOK, ServerAuthentic, ServerMiddle, Agree
  <2>10. ServerGoes(kept, out)
    BY <1>3, <1>5, <2>9, OtherRecords DEF ServerGoes, ServerReply
  <2> QED BY <2>10
<1> QED BY <1>1, <1>4, <1>5

(* The schedule after a ClientHello, the first or the second. *)
LEMMA HelloScheduleOK ==
  ASSUME NEW s, ServerOK(s), s.error = "none", s.state \in {"expect_ch", "expect_ch2"},
         NEW m, m.type = "ch"
  PROVE  ScheduleShape(HelloSchedule(s, m)) /\ NoExt(HelloSchedule(s, m).th)
<1> DEFINE base == IF ByCookie(s, m) THEN CookieSchedule(m) ELSE s.sched
           psk == IF PskFound(s, m) THEN m.psk ELSE "zero"
           start == IF s.state = "expect_ch2" \/ ByCookie(s, m) THEN base
                    ELSE [base EXCEPT !.psk = psk]
<1>1. HelloSchedule(s, m) = Hash(start, <<m>>)
  BY DEF HelloSchedule
<1>2. ScheduleShape(CookieSchedule(m)) /\ NoExt(CookieSchedule(m).th)
  <2> DEFINE ck == m.cookie[1]
             mh == [type |-> "message_hash", of |-> ck.of]
             hrr == [type |-> "hrr", group |-> IF ck.sent THEN m.share ELSE "none",
                     cookie |-> m.cookie]
  <2>1. DOMAIN CookieSchedule(m) = ScheduleFields /\ CookieSchedule(m).th = <<mh, hrr>>
    BY DEF CookieSchedule, ScheduleFields
  <2>2. mh.type = "message_hash" /\ hrr.type = "hrr"
    OBVIOUS
  <2> HIDE DEF mh, hrr
  <2>3. IsSeq(<<mh, hrr>>) /\ Elems(<<mh, hrr>>) = {mh, hrr}
    BY ShortSeq
  <2> QED BY <2>1, <2>2, <2>3 DEF ScheduleShape, NoExt
<1>3. ScheduleShape(s.sched) /\ NoExt(s.sched.th)
  BY DEF ServerOK, Shape
<1>4. ScheduleShape(base) /\ NoExt(base.th)
  BY <1>2, <1>3
<1> HIDE DEF base, psk
<1>5. DOMAIN start = ScheduleFields /\ start.th = base.th
  BY <1>4 DEF ScheduleShape, ScheduleFields
<1> HIDE DEF start
<1>6. ScheduleShape(start) /\ NoExt(start.th)
  BY <1>4, <1>5 DEF ScheduleShape
<1> DEFINE t == Hash(start, <<m>>)
<1>7. ScheduleShape(t) /\ Elems(t.th) = Elems(start.th) \cup {m}
  BY <1>6, HashOne
<1> HIDE DEF t
<1>8. NoExt(t.th)
  BY <1>6, <1>7 DEF NoExt
<1> QED BY <1>1, <1>7, <1>8 DEF t

(* What server_finish_handshake starts from: it is in the transcript whether 0-RTT *)
(* data was accepted, and the client's handshake key was derived with ServerHello. *)
Negotiated(s) ==
    /\ Shape(s, ServerFields)
    /\ s.error = "none"
    /\ LastPsk(HsKey(s.pending, s.dec.key).th) = s.isPsk
    /\ s.pending # NoKey <=> EarlyIn(s.sched.th)
    /\ cfg.auth => s.pending = NoKey /\ ~s.isPsk

(* ServerHello. *)
LEMMA ServerHelloOK ==
  ASSUME NEW s, ServerOK(s), s.error = "none", s.state \in {"expect_ch", "expect_ch2"},
         NEW m, m.type = "ch"
  PROVE  LET h == ServerHelloState(s, m)
         IN  /\ Shape(h.tls, ServerFields) /\ h.tls.error = "none" /\ h.tls.state = s.state
             /\ LastPsk(HsKey(h.tls.pending, h.tls.dec.key).th) = h.tls.isPsk
             /\ NoExt(h.tls.sched.th)
             /\ cfg.auth => h.tls.pending = NoKey /\ ~h.tls.isPsk
             /\ IsSeq(h.out) /\ \A r \in Elems(h.out) : FromServerOK(r)
<1> DEFINE share == IF PskOnly(s, m) THEN "none" ELSE m.share
           psk == PskFound(s, m)
           sh == [type |-> "sh", share |-> share, psk |-> psk]
           ch == HelloSchedule(s, m)
           hs0 == [ch EXCEPT !.dhe = IF share = "none" THEN "zero" ELSE share]
           hs == Hash(hs0, <<sh>>)
           early == AcceptsEarly(s, m)
           dec == Protect(IF early THEN Key("c e", ch) ELSE Key("c hs", hs))
           pending == IF early THEN Key("c hs", hs) ELSE NoKey
           tls == [s EXCEPT !.isPsk = psk, !.accepted = early, !.sched = hs,
                            !.ccs = FALSE, !.enc = Protect(Key("s hs", hs)),
                            !.dec = dec, !.pending = pending,
                            !.skipped = IF m.early /\ ~early THEN 0 ELSE @]
           out == Seal(s.enc, <<Item(sh, NoMac)>>) \o ChangeCipherSpec(s.ccs)
           h == ServerHelloState(s, m)
<1>1. h.tls = tls /\ h.out = out
  BY DEF ServerHelloState
<1>2. (cfg.auth => ~psk) /\ (early => psk)
  BY DEF PskFound, AcceptsEarly
<1>3. sh.type = "sh" /\ sh.psk = psk
  OBVIOUS
<1> HIDE DEF psk, sh, share
<1>4. ScheduleShape(ch) /\ NoExt(ch.th)
  BY HelloScheduleOK
<1> HIDE DEF ch
<1>5. DOMAIN hs0 = ScheduleFields /\ hs0.th = ch.th
  BY <1>4 DEF ScheduleShape, ScheduleFields
<1> HIDE DEF hs0
<1>6. ScheduleShape(hs0)
  BY <1>4, <1>5 DEF ScheduleShape
<1>7. ScheduleShape(hs) /\ hs.th = hs0.th \o <<sh>> /\ Elems(hs.th) = Elems(hs0.th) \cup {sh}
  BY <1>6, HashOne
<1>8. LastPsk(hs.th) = psk
  BY <1>3, <1>6, <1>7, LastOf DEF LastPsk, ScheduleShape
<1> HIDE DEF hs
<1>9. NoExt(hs.th)
  BY <1>3, <1>4, <1>5, <1>7 DEF NoExt
<1>10. Key("c hs", hs) # NoKey /\ Key("c hs", hs).th = hs.th
  BY KeyFacts
<1>11. /\ DOMAIN Protect(Key("s hs", hs)) = ContextFields
       /\ DOMAIN dec = ContextFields /\ (~early => dec.key = Key("c hs", hs))
  BY NewContext
<1> HIDE DEF early
<1>12. HsKey(pending, dec.key) = Key("c hs", hs)
  <2> HIDE DEF dec
  <2> QED BY <1>10, <1>11 DEF HsKey
<1>13. ~early => pending = NoKey
  OBVIOUS
<1> HIDE DEF dec, pending
<1>14. DOMAIN s = ServerFields
  BY DEF ServerOK, Shape
<1>15. /\ DOMAIN tls = ServerFields /\ tls.isPsk = psk /\ tls.sched = hs
       /\ tls.enc = Protect(Key("s hs", hs)) /\ tls.dec = dec /\ tls.pending = pending
       /\ tls.state = s.state /\ tls.error = s.error
  BY <1>14 DEF ServerFields
<1> HIDE DEF tls, h
<1>16. Shape(tls, ServerFields)
  BY <1>7, <1>11, <1>15 DEF Shape
<1>17. LastPsk(HsKey(tls.pending, tls.dec.key).th) = tls.isPsk
  BY <1>8, <1>10, <1>12, <1>15 DEF LastPsk
<1>18. IsSeq(out) /\ \A r \in Elems(out) : FromServerOK(r)
  <2> DEFINE o1 == Seal(s.enc, <<Item(sh, NoMac)>>)
             o2 == ChangeCipherSpec(s.ccs)
  <2>1. IsSeq(o1) /\ \A r \in Elems(o1) : r.msg.type = "sh"
    BY <1>3, SealOne
  <2>2. IsSeq(o2) /\ \A r \in Elems(o2) : r.msg.type = "ccs"
    BY CcsRecords
  <2> HIDE DEF o1, o2
  <2>3. IsSeq(o1 \o o2) /\ Elems(o1 \o o2) = Elems(o1) \cup Elems(o2)
    BY <2>1, <2>2, CatSeq
  <2>4. \A r \in Elems(o1 \o o2) : FromServerOK(r)
    BY <2>1, <2>2, <2>3, OtherRecords
  <2> QED BY <2>3, <2>4 DEF o1, o2
<1> HIDE DEF out
<1>19. cfg.auth => tls.pending = NoKey /\ ~tls.isPsk
  BY <1>2, <1>13, <1>15
<1> QED BY <1>1, <1>9, <1>15, <1>16, <1>17, <1>18, <1>19 DEF h

(* EncryptedExtensions, CertificateRequest, Certificate. *)
LEMMA ExtensionsOK ==
  ASSUME NEW s
  PROVE  LET items == ServerExtensions(s)
         IN  /\ IsSeq(items)
             /\ \A x \in Elems(items) :
                   /\ x.msg.type \in {"ee", "cr", "cert"}
                   /\ x.msg.type = "cr" => cfg.auth
                   /\ x.msg.type = "ee" => (x.msg.early <=> s.pending # NoKey)
             /\ \E x \in Elems(items) : x.msg.type = "ee"
<1> DEFINE ee == Item([type |-> "ee", early |-> s.pending # NoKey], NoMac)
           cr == Item(Plain("cr"), NoMac)
           cert == Item([type |-> "cert", some |-> TRUE], NoMac)
           i1 == <<ee>>
           i2 == IF ~s.isPsk /\ cfg.auth THEN <<cr>> ELSE <<>>
           i3 == IF ~s.isPsk THEN <<cert>> ELSE <<>>
<1>1. ServerExtensions(s) = i1 \o i2 \o i3
  BY DEF ServerExtensions
<1>2. /\ ee.msg.type = "ee" /\ (ee.msg.early <=> s.pending # NoKey)
      /\ cr.msg.type = "cr" /\ cert.msg.type = "cert"
  BY DEF Item, Plain
<1> HIDE DEF ee, cr, cert
<1>3. IsSeq(i1) /\ Elems(i1) = {ee}
  BY ShortSeq
<1>4. IsSeq(i2) /\ \A x \in Elems(i2) : x = cr /\ cfg.auth
  BY ShortSeq
<1>5. IsSeq(i3) /\ \A x \in Elems(i3) : x = cert
  BY ShortSeq
<1> HIDE DEF i1, i2, i3
<1>6. IsSeq(i1 \o i2) /\ Elems(i1 \o i2) = Elems(i1) \cup Elems(i2)
  BY <1>3, <1>4, CatSeq
<1>7. IsSeq(i1 \o i2 \o i3) /\ Elems(i1 \o i2 \o i3) = Elems(i1) \cup Elems(i2) \cup Elems(i3)
  BY <1>5, <1>6, CatSeq
<1> DEFINE items == i1 \o i2 \o i3
<1> HIDE DEF items
<1>8. IsSeq(items) /\ Elems(items) = {ee} \cup Elems(i2) \cup Elems(i3)
  BY <1>3, <1>7 DEF items
<1>9. ServerExtensions(s) = items
  BY <1>1 DEF items
<1> QED BY <1>2, <1>4, <1>5, <1>8, <1>9

(* server_finish_handshake: the tickets hold the secret that goes with the key *)
(* they are sealed with, because the server knows from its own transcript what *)
(* the client will add.                                                        *)
LEMMA ServerFinishOK ==
  ASSUME NEW s, Negotiated(s), cfg \in Configs
  PROVE  LET f == ServerFinish(s)
         IN  /\ ServerOK(f.tls) /\ f.tls.state # "post"
             /\ IsSeq(f.out) /\ \A r \in Elems(f.out) : FromServerOK(r)
<1> DEFINE cv == IF s.isPsk THEN <<>> ELSE <<Item(Plain("cv"), Signature(s.sched))>>
           s1 == Hash(s.sched, Messages(cv))
           finMsg == [type |-> "fin", key |-> "s hs"]
           fin == Item(finMsg, FinishedMac(s.enc.key, s1))
           s2 == Hash(s1, <<fin.msg>>)
           k == Key("s ap", s2)
           ap == Protect(k)
           d == [s EXCEPT !.sched = s2, !.pendingAp = Key("c ap", s2),
                          !.enc = Used(ap, cfg.tickets),
                          !.state = AfterServerFinished(s), !.done = ~cfg.auth]
           res == Key("res", TicketTranscript(d))
           ticket == Item(Plain("nst"), [key |-> res, th |-> <<>>])
           tickets == [i \in 1..cfg.tickets |-> ticket]
           out == Seal(s.enc, cv \o <<fin>>) \o Seal(ap, tickets)
           f == ServerFinish(s)
<1>1. f.tls = d /\ f.out = out
  BY DEF ServerFinish
<1>2. cfg.tickets \in Nat
  BY HandshakeAssumption DEF Config
<1>3. ScheduleShape(s.sched) /\ DOMAIN s = ServerFields
  BY DEF Negotiated, Shape
<1>4. IsSeq(cv) /\ \A x \in Elems(cv) : x.msg.type = "cv"
  <2>1. Item(Plain("cv"), Signature(s.sched)).msg.type = "cv"
    BY DEF Item, Plain
  <2> QED BY <2>1, ShortSeq
<1> HIDE DEF cv
<1>5. IsSeq(Messages(cv)) /\ \A x \in Elems(Messages(cv)) : x.type = "cv"
  BY <1>4, MessagesSeq
<1>6. ScheduleShape(s1) /\ Elems(s1.th) = Elems(s.sched.th) \cup Elems(Messages(cv))
  BY <1>3, <1>5, HashSchedule
<1> HIDE DEF s1
<1>7. fin.msg = finMsg /\ finMsg.type = "fin"
  BY DEF Item
<1> HIDE DEF fin
<1>8. ScheduleShape(s2) /\ Elems(s2.th) = Elems(s1.th) \cup {fin.msg}
  BY <1>6, HashOne
<1> HIDE DEF s2
<1>9. s.pending # NoKey <=> EarlyIn(s2.th)
  <2>1. EarlyIn(s2.th) <=> EarlyIn(s.sched.th)
    BY <1>5, <1>6, <1>7, <1>8 DEF EarlyIn
  <2> QED BY <2>1 DEF Negotiated
<1>10. ap.key = k /\ DOMAIN ap = ContextFields
  BY NewContext
<1>11. DOMAIN Used(ap, cfg.tickets) = ContextFields
  BY <1>10, UsedContext
<1>12. k.th = s2.th /\ k.psk = s2.psk /\ k.dhe = s2.dhe
  BY KeyFacts
<1> HIDE DEF ap, k
<1>13. /\ DOMAIN d = ServerFields /\ d.sched = s2 /\ d.enc = Used(ap, cfg.tickets)
       /\ d.state = AfterServerFinished(s) /\ d.dec = s.dec /\ d.pending = s.pending
       /\ d.isPsk = s.isPsk /\ d.verified = s.verified /\ d.error = s.error
  BY <1>3 DEF ServerFields
<1> HIDE DEF d
<1>14. res = ResumptionOf(k)
  <2> DEFINE e == IF s.pending # NoKey THEN <<Plain("eoed")>> ELSE <<>>
             tail == e \o <<ClientFinished>>
  <2>1. TicketTranscript(d) = Hash(s2, tail)
    BY <1>13 DEF TicketTranscript, ClientFinished
  <2>2. IsSeq(e) /\ IsSeq(<<ClientFinished>>)
    BY ShortSeq
  <2>3. e = (IF EarlyIn(s2.th) THEN <<Plain("eoed")>> ELSE <<>>)
    BY <1>9
  <2>4. ClientEnd(k) = s2.th \o tail
    BY <1>12, <2>3 DEF ClientEnd
  <2>5. IsSeq(tail)
    <3> HIDE DEF e
    <3> QED BY <2>2, CatSeq
  <2> HIDE DEF tail
  <2>6. /\ Hash(s2, tail).psk = s2.psk /\ Hash(s2, tail).dhe = s2.dhe
        /\ Hash(s2, tail).th = s2.th \o tail
    BY <1>8, <2>5, HashSchedule
  <2>7. res = [label |-> "res", psk |-> s2.psk, dhe |-> s2.dhe, th |-> s2.th \o tail]
    BY <2>1, <2>6 DEF Key
  <2> QED BY <1>12, <2>4, <2>7 DEF ResumptionOf
<1> HIDE DEF res
<1>15. ticket.msg.type = "nst" /\ ticket.mac.key = res
  BY DEF Item, Plain
<1> HIDE DEF ticket
<1>16. IsSeq(tickets) /\ \A x \in Elems(tickets) : x = ticket
  <2>1. tickets \in Seq({ticket})
    BY <1>2
  <2>2. \A x \in Elems(tickets) : x = ticket
    BY DEF Elems
  <2> QED BY <2>1, <2>2 DEF IsSeq
<1> HIDE DEF tickets
<1>17. IsSeq(out) /\ \A r \in Elems(out) : FromServerOK(r)
  <2> DEFINE o1 == Seal(s.enc, cv \o <<fin>>)
             o2 == Seal(ap, tickets)
  <2>1. IsSeq(<<fin>>) /\ Elems(<<fin>>) = {fin}
    BY ShortSeq
  <2> DEFINE items == cv \o <<fin>>
  <2>2. IsSeq(items) /\ Elems(items) = Elems(cv) \cup {fin}
    BY <1>4, <2>1, CatSeq
  <2> HIDE DEF items
  <2>3. \A x \in Elems(items) : x.msg.type \in {"cv", "fin"}
    BY <1>4, <1>7, <2>2
  <2>4. IsSeq(Seal(s.enc, items)) /\ \A r \in Elems(Seal(s.enc, items)) : r.msg.type \in {"cv", "fin"}
    BY <2>2, <2>3, SealSeq
  <2>5. IsSeq(o1) /\ \A r \in Elems(o1) : r.msg.type \in {"cv", "fin"}
    BY <2>4 DEF items
  <2>6. IsSeq(o2) /\ \A r \in Elems(o2) : r.key = k /\ r.msg = ticket.msg /\ r.mac = ticket.mac
    BY <1>10, <1>16, SealSeq
  <2> HIDE DEF o1, o2
  <2>7. IsSeq(o1 \o o2) /\ Elems(o1 \o o2) = Elems(o1) \cup Elems(o2)
    BY <2>5, <2>6, CatSeq
  <2>8. \A r \in Elems(o1) : FromServerOK(r)
    BY <2>5 DEF FromServerOK
  <2>9. \A r \in Elems(o2) : FromServerOK(r)
    BY <1>14, <1>15, <2>6 DEF FromServerOK
  <2> QED BY <2>7, <2>8, <2>9 DEF o1, o2
<1> HIDE DEF out, f
<1>18. Shape(d, ServerFields)
  BY <1>8, <1>11, <1>13 DEF Negotiated, Shape
<1>19. /\ s.pending # NoKey => d.state = "expect_eoed" /\ ~cfg.auth
       /\ s.pending = NoKey => d.state = IF cfg.auth THEN "expect_cert" ELSE "expect_fin"
  BY <1>13 DEF AfterServerFinished, Negotiated
<1>20. ServerAuthentic(d)
  BY <1>13, <1>19 DEF ServerAuthentic, Negotiated
<1>21. LastPsk(HsKey(d.pending, d.dec.key).th) = d.isPsk
  BY <1>13 DEF Negotiated
<1>22. ServerOK(d)
  BY <1>13, <1>18, <1>19, <1>20, <1>21 DEF ServerOK
<1> QED BY <1>1, <1>17, <1>19, <1>22 DEF f

(* server_handle_hello from ServerHello on. *)
LEMMA ServerFlightOK ==
  ASSUME NEW s, ServerOK(s), s.error = "none", s.state \in {"expect_ch", "expect_ch2"},
         cfg \in Configs, NEW r, r.msg.type = "ch", ServerSendFlight(s, r)
  PROVE  \E d, out : ServerGoes(d, out)
<1> DEFINE h == ServerHelloState(s, r.msg)
           items == ServerExtensions(h.tls)
           t == Hash(h.tls.sched, Messages(items))
           d == [h.tls EXCEPT !.sched = Hash(@, Messages(items)), !.enc = Used(@, Len(items))]
           o2 == Seal(h.tls.enc, items)
           out == h.out \o o2
           f == ServerFinish(d)
           g == [d EXCEPT !.state = "generating_cv"]
<1>1. \/ ServerReply(g, out)
      \/ ServerFail(d, "internal_error")
      \/ ServerReply(f.tls, out \o f.out)
  BY DEF ServerSendFlight
<1>2. /\ Shape(h.tls, ServerFields) /\ h.tls.error = "none" /\ h.tls.state = s.state
      /\ LastPsk(HsKey(h.tls.pending, h.tls.dec.key).th) = h.tls.isPsk
      /\ NoExt(h.tls.sched.th)
      /\ cfg.auth => h.tls.pending = NoKey /\ ~h.tls.isPsk
      /\ IsSeq(h.out) /\ \A x \in Elems(h.out) : FromServerOK(x)
  BY ServerHelloOK
<1> HIDE DEF h
<1>3. /\ IsSeq(items)
      /\ \A x \in Elems(items) :
            /\ x.msg.type \in {"ee", "cr", "cert"}
            /\ x.msg.type = "cr" => cfg.auth
            /\ x.msg.type = "ee" => (x.msg.early <=> h.tls.pending # NoKey)
      /\ \E x \in Elems(items) : x.msg.type = "ee"
  BY ExtensionsOK
<1> HIDE DEF items
<1>4. IsSeq(Messages(items)) /\ Elems(Messages(items)) = {x.msg : x \in Elems(items)}
  BY <1>3, MessagesSeq
<1>5. ScheduleShape(h.tls.sched) /\ DOMAIN h.tls = ServerFields /\ DOMAIN h.tls.enc = ContextFields
  BY <1>2 DEF Shape
<1>6. ScheduleShape(t) /\ Elems(t.th) = Elems(h.tls.sched.th) \cup Elems(Messages(items))
  BY <1>4, <1>5, HashSchedule
<1>7. /\ DOMAIN d = ServerFields /\ d.sched = t /\ d.enc = Used(h.tls.enc, Len(items))
      /\ d.dec = h.tls.dec /\ d.pending = h.tls.pending /\ d.isPsk = h.tls.isPsk
      /\ d.error = h.tls.error /\ d.state = h.tls.state /\ d.verified = h.tls.verified
  BY <1>5 DEF ServerFields
<1> HIDE DEF t, d
<1>8. DOMAIN d.enc = ContextFields
  BY <1>5, <1>7, UsedContext
<1>9. Shape(d, ServerFields)
  BY <1>2, <1>6, <1>7, <1>8 DEF Shape
<1>10. d.pending # NoKey <=> EarlyIn(d.sched.th)
  <2>1. ASSUME NEW m \in Elems(t.th), m.type = "ee", m.early PROVE d.pending # NoKey
    <3>1. m \in Elems(Messages(items))
      BY <1>2, <1>6, <2>1 DEF NoExt
    <3>2. PICK x \in Elems(items) : m = x.msg
      BY <1>4, <3>1
    <3> QED BY <1>3, <1>7, <2>1, <3>2
  <2>2. ASSUME d.pending # NoKey PROVE EarlyIn(t.th)
    <3>1. PICK x \in Elems(items) : x.msg.type = "ee"
      BY <1>3
    <3>2. x.msg.early
      BY <1>3, <1>7, <2>2, <3>1
    <3>3. x.msg \in Elems(t.th)
      BY <1>4, <1>6
    <3> QED BY <3>1, <3>2, <3>3 DEF EarlyIn
  <2> QED BY <1>7, <2>1, <2>2 DEF EarlyIn
<1>11. Negotiated(d)
  BY <1>2, <1>7, <1>9, <1>10 DEF Negotiated
<1>12. IsSeq(out) /\ \A x \in Elems(out) : FromServerOK(x)
  <2>1. IsSeq(o2) /\ \A x \in Elems(o2) : \E y \in Elems(items) : x.msg = y.msg
    BY <1>3, SealSeq
  <2>2. \A x \in Elems(o2) : FromServerOK(x)
    BY <1>3, <2>1 DEF FromServerOK
  <2> DEFINE o1 == h.out
  <2> HIDE DEF o1, o2
  <2>3. IsSeq(o1) /\ \A x \in Elems(o1) : FromServerOK(x)
    BY <1>2 DEF o1
  <2>4. IsSeq(o1 \o o2) /\ Elems(o1 \o o2) = Elems(o1) \cup Elems(o2)
    BY <2>1, <2>3, CatSeq
  <2> QED BY <2>2, <2>3, <2>4 DEF o1
<1> HIDE DEF out
<1>13. CASE ServerReply(g, out)
  <2>1. /\ DOMAIN g = ServerFields /\ g.sched = d.sched /\ g.enc = d.enc
        /\ g.dec = d.dec /\ g.pending = d.pending /\ g.isPsk = d.isPsk
        /\ g.error = d.error /\ g.state = "generating_cv"
    BY <1>7 DEF ServerFields
  <2> HIDE DEF g
  <2>2. Shape(g, ServerFields)
    BY <1>9, <2>1 DEF Shape
  <2>3. ServerAuthentic(g)
    BY <1>11, <2>1 DEF ServerAuthentic, Negotiated
  <2>4. ServerOK(g) /\ Agree(g, cl)
    BY <1>11, <2>1, <2>2, <2>3 DEF ServerOK, Negotiated, Agree
  <2>5. ServerGoes(g, out)
    BY <1>12, <1>13, <2>4 DEF ServerGoes, ServerReply
  <2> QED BY <2>5
<1>14. CASE ServerFail(d, "internal_error")
  <2>1. d.state \in {"expect_ch", "expect_ch2"}
    BY <1>2, <1>7
  <2>2. ServerFailsFrom(d)
    BY <1>9, <2>1 DEF ServerFailsFrom, ServerAuthentic, ServerMiddle, Agree
  <2> QED BY <1>14, <2>2, ServerFails
<1>15. CASE ServerReply(f.tls, out \o f.out)
  <2>1. /\ ServerOK(f.tls) /\ f.tls.state # "post"
        /\ IsSeq(f.out) /\ \A x \in Elems(f.out) : FromServerOK(x)
    BY <1>11, ServerFinishOK
  <2> HIDE DEF f
  <2> DEFINE o3 == f.out
  <2> HIDE DEF o3
  <2>2. IsSeq(o3) /\ \A x \in Elems(o3) : FromServerOK(x)
    BY <2>1 DEF o3
  <2>3. IsSeq(out \o o3) /\ Elems(out \o o3) = Elems(out) \cup Elems(o3)
    BY <1>12, <2>2, CatSeq
  <2>4. sv' = f.tls /\ toClient' = toClient \o (out \o o3)
    BY <1>15 DEF ServerReply, o3
  <2>5. ServerGoes(f.tls, out \o o3)
    BY <1>12, <2>1, <2>2, <2>3, <2>4 DEF ServerGoes, Agree
  <2> QED BY <2>5
<1> QED BY <1>1, <1>13, <1>14, <1>15

(* ClientHello. *)
LEMMA ServerHellos ==
  ASSUME NEW s, ServerOK(s), ServerFailsFrom(s), s.error = "none", cfg \in Configs, NEW r,
         ServerHandleHello(s, r)
  PROVE  \E d, out : ServerGoes(d, out)
<1>1. /\ s.state \in {"expect_ch", "expect_ch2"} /\ r.msg.type = "ch"
      /\ \/ HelloError(s, r) # "none" /\ ServerFail(s, HelloError(s, r))
         \/ ServerSendRetry(s, r)
         \/ ServerSendFlight(s, r)
  BY DEF ServerHandleHello
<1>2. CASE HelloError(s, r) # "none" /\ ServerFail(s, HelloError(s, r))
  BY <1>2, ServerFails
<1>3. CASE ServerSendRetry(s, r)
  BY <1>1, <1>3, ServerRetries
<1>4. CASE ServerSendFlight(s, r)
  BY <1>1, <1>4, ServerFlightOK
<1> QED BY <1>1, <1>2, <1>3, <1>4

(* The handlers of the client's Certificate and CertificateVerify add the message *)
(* to the transcript and move on, with the same keys.                             *)
LEMMA ServerHashes ==
  ASSUME NEW s, ServerOK(s), s.error = "none", s.state \in {"expect_cert", "expect_cv"},
         NEW m, NEW d, DOMAIN d = ServerFields, d.enc = s.enc, d.dec = s.dec,
         d.pending = s.pending, d.isPsk = s.isPsk, d.error = s.error,
         d.sched = Hash(s.sched, <<m>>), d.state \in {"expect_cv", "expect_fin"},
         ServerAuthentic(d)
  PROVE  ServerOK(d) /\ Agree(d, cl)
<1>1. ScheduleShape(s.sched)
  BY DEF ServerOK, Shape
<1>2. ScheduleShape(d.sched)
  BY <1>1, HashOne
<1>3. Shape(d, ServerFields)
  BY <1>2 DEF ServerOK, Shape
<1>4. s.pending = NoKey /\ LastPsk(HsKey(s.pending, s.dec.key).th) = s.isPsk
  BY DEF ServerOK, ServerMiddle
<1> QED BY <1>3, <1>4 DEF ServerOK, Agree

(* Certificate. *)
LEMMA ServerCertificate ==
  ASSUME NEW s, ServerOK(s), ServerFailsFrom(s), s.error = "none", NEW r,
         ServerHandleCertificate(s, r)
  PROVE  \E d, out : ServerGoes(d, out)
<1> DEFINE d == [s EXCEPT !.sched = Hash(@, <<r.msg>>), !.state = AfterCertificate(r.msg)]
<1>1. /\ s.state = "expect_cert"
      /\ \/ ServerFail(s, "certificate_required")
         \/ AfterCertificate(r.msg) # "refused" /\ ServerReply(d, <<>>)
  BY DEF ServerHandleCertificate
<1>2. CASE ServerFail(s, "certificate_required")
  BY <1>2, ServerFails
<1>3. CASE AfterCertificate(r.msg) # "refused" /\ ServerReply(d, <<>>)
  <2>1. /\ DOMAIN d = ServerFields /\ d.enc = s.enc /\ d.dec = s.dec /\ d.pending = s.pending
        /\ d.isPsk = s.isPsk /\ d.error = s.error /\ d.sched = Hash(s.sched, <<r.msg>>)
        /\ d.state = AfterCertificate(r.msg)
    BY DEF ServerOK, Shape, ServerFields
  <2> HIDE DEF d
  <2>2. d.state \in {"expect_cv", "expect_fin"} /\ (d.state = "expect_fin" => cfg.failOpen)
    <3>1. AfterCertificate(r.msg) \in {"expect_cv", "expect_fin", "refused"}
      BY DEF AfterCertificate
    <3>2. AfterCertificate(r.msg) = "expect_fin" => cfg.failOpen
      BY DEF AfterCertificate
    <3>3. AfterCertificate(r.msg) # "refused"
      BY <1>3
    <3>4. d.state \in {"expect_cv", "expect_fin"}
      BY <2>1, <3>1, <3>3
    <3>5. d.state = "expect_fin" => cfg.failOpen
      BY <2>1, <3>2
    <3> QED BY <3>4, <3>5
  <2>3. ServerAuthentic(d)
    BY <1>1, <2>1, <2>2 DEF ServerOK, ServerAuthentic, ServerMiddle
  <2>4. ServerOK(d) /\ Agree(d, cl)
    BY <1>1, <2>1, <2>2, <2>3, ServerHashes
  <2> QED BY <1>3, <2>4, ServerGoesOn
<1> QED BY <1>1, <1>2, <1>3

(* CertificateVerify: the client is authenticated. *)
LEMMA ServerVerifies ==
  ASSUME NEW s, ServerOK(s), ServerFailsFrom(s), s.error = "none", NEW r,
         ServerHandleCertificateVerify(s, r)
  PROVE  \E d, out : ServerGoes(d, out)
<1> DEFINE d == [s EXCEPT !.sched = Hash(@, <<r.msg>>), !.verified = TRUE, !.state = "expect_fin"]
<1>1. /\ s.state = "expect_cv"
      /\ ServerFail(s, "decrypt_error") \/ ServerReply(d, <<>>)
  BY DEF ServerHandleCertificateVerify
<1>2. CASE ServerFail(s, "decrypt_error")
  BY <1>2, ServerFails
<1>3. CASE ServerReply(d, <<>>)
  <2>1. /\ DOMAIN d = ServerFields /\ d.enc = s.enc /\ d.dec = s.dec /\ d.pending = s.pending
        /\ d.isPsk = s.isPsk /\ d.error = s.error /\ d.sched = Hash(s.sched, <<r.msg>>)
        /\ d.state = "expect_fin" /\ d.verified = TRUE
    BY DEF ServerOK, Shape, ServerFields
  <2> HIDE DEF d
  <2>2. ServerAuthentic(d)
    BY <1>1, <2>1 DEF ServerOK, ServerAuthentic, ServerMiddle
  <2>3. ServerOK(d) /\ Agree(d, cl)
    BY <1>1, <2>1, <2>2, ServerHashes
  <2> QED BY <1>3, <2>3, ServerGoesOn
<1> QED BY <1>1, <1>2, <1>3

(* EndOfEarlyData: the handshake key that waited comes into use. *)
LEMMA ServerEndsEarly ==
  ASSUME NEW s, ServerOK(s), s.error = "none", NEW r, ServerHandleEndOfEarlyData(s, r)
  PROVE  \E d, out : ServerGoes(d, out)
<1> DEFINE d == [s EXCEPT !.dec = Protect(s.pending), !.pending = NoKey,
                          !.sched = Hash(@, <<r.msg>>), !.state = "expect_fin"]
<1>1. s.state = "expect_eoed" /\ ServerReply(d, <<>>)
  BY DEF ServerHandleEndOfEarlyData
<1>2. /\ DOMAIN d = ServerFields /\ d.enc = s.enc /\ d.dec = Protect(s.pending)
      /\ d.pending = NoKey /\ d.isPsk = s.isPsk /\ d.error = s.error
      /\ d.sched = Hash(s.sched, <<r.msg>>) /\ d.state = "expect_fin"
  BY DEF ServerOK, Shape, ServerFields
<1> HIDE DEF d
<1>3. DOMAIN d.dec = ContextFields /\ d.dec.key = s.pending
  BY <1>2, NewContext
<1>4. ~cfg.auth /\ s.pending # NoKey /\ LastPsk(HsKey(s.pending, s.dec.key).th) = s.isPsk
  BY <1>1 DEF ServerOK, ServerMiddle
<1>5. HsKey(d.pending, d.dec.key) = HsKey(s.pending, s.dec.key)
  BY <1>2, <1>3, <1>4 DEF HsKey
<1>6. ScheduleShape(s.sched)
  BY DEF ServerOK, Shape
<1>7. ScheduleShape(d.sched)
  BY <1>2, <1>6, HashOne
<1>8. Shape(d, ServerFields)
  BY <1>2, <1>3, <1>7 DEF ServerOK, Shape
<1>9. ServerAuthentic(d)
  BY <1>4 DEF ServerAuthentic
<1>10. ServerOK(d) /\ Agree(d, cl)
  BY <1>2, <1>4, <1>5, <1>8, <1>9 DEF ServerOK, Agree
<1> QED BY <1>1, <1>10, ServerGoesOn

(* Finished: it is of the key the server expects it with, so the two ends agree *)
(* on the PSK.                                                                   *)
LEMMA ServerFinishes ==
  ASSUME NEW s, ServerOK(s), ServerFailsFrom(s), s.error = "none", NEW r, FinishedOK(cl, r),
         ServerHandleFinished(s, r)
  PROVE  \E d, out : ServerGoes(d, out)
<1> DEFINE w == WithTrafficKey(s)
           d == [w EXCEPT !.sched = Hash(@, <<r.msg>>), !.state = "post", !.done = TRUE]
<1>1. /\ s.state = "expect_fin" /\ r.msg.type = "fin"
      /\ \/ ServerFail(s, "handshake_failure")
         \/ r.mac = FinishedMac(s.dec.key, s.sched) /\ ServerReply(d, <<>>)
  BY DEF ServerHandleFinished
<1>2. CASE ServerFail(s, "handshake_failure")
  BY <1>2, ServerFails
<1>3. CASE r.mac = FinishedMac(s.dec.key, s.sched) /\ ServerReply(d, <<>>)
  <2>1. /\ DOMAIN w = ServerFields /\ w.enc = s.enc /\ w.dec = Protect(s.pendingAp)
        /\ w.isPsk = s.isPsk /\ w.error = s.error /\ w.sched = s.sched /\ w.verified = s.verified
    BY DEF ServerOK, Shape, ServerFields, WithTrafficKey
  <2> HIDE DEF w
  <2>2. /\ DOMAIN d = ServerFields /\ d.enc = s.enc /\ d.dec = Protect(s.pendingAp)
        /\ d.isPsk = s.isPsk /\ d.error = s.error /\ d.sched = Hash(s.sched, <<r.msg>>)
        /\ d.state = "post" /\ d.verified = s.verified
    BY <2>1 DEF ServerFields
  <2> HIDE DEF d
  <2>3. DOMAIN d.dec = ContextFields
    BY <2>2, NewContext
  <2>4. ScheduleShape(s.sched)
    BY DEF ServerOK, Shape
  <2>5. ScheduleShape(d.sched)
    BY <2>2, <2>4, HashOne
  <2>6. Shape(d, ServerFields)
    BY <2>2, <2>3, <2>5 DEF ServerOK, Shape
  <2>7. ServerAuthentic(d)
    BY <1>1, <2>2 DEF ServerOK, ServerAuthentic, ServerMiddle
  <2>8. ServerOK(d)
    BY <2>2, <2>6, <2>7 DEF ServerOK, ServerMiddle
  <2>9. s.pending = NoKey /\ LastPsk(HsKey(s.pending, s.dec.key).th) = s.isPsk
    BY <1>1 DEF ServerOK, ServerMiddle
  <2>10. LastPsk(s.dec.key.th) = s.isPsk
    <3>1. HsKey(s.pending, s.dec.key) = s.dec.key
      BY <2>9 DEF HsKey
    <3> QED BY <2>9, <3>1
  <2>11. r.mac.key = s.dec.key
    BY <1>3 DEF FinishedMac
  <2>12. Agree(d, cl)
    <3>1. cl.state = "post" /\ LastPsk(r.mac.key.th) = cl.isPsk
      BY <1>1 DEF FinishedOK
    <3>2. LastPsk(r.mac.key.th) = s.isPsk
      BY <2>10, <2>11
    <3> QED BY <2>2, <3>1, <3>2 DEF Agree
  <2> QED BY <1>3, <2>8, <2>12, ServerGoesOn
<1> QED BY <1>1, <1>2, <1>3

(* Rejected 0-RTT data, a record the server does not read, ignores, or refuses. *)
LEMMA ServerRejects ==
  ASSUME ServerOK(sv), Agree(sv, cl), NEW r,
         ServerSkipEarlyData(r) \/ ServerRefuse(r) \/ ServerIgnoreCcs(r)
  PROVE  \E d, out : ServerGoes(d, out)
<1> DEFINE s == [sv EXCEPT !.dec = Read(@, r)]
           k == [sv EXCEPT !.skipped = @ + 1]
<1>1. ServerFailsFrom(s)
  BY ServerRead
<1>2. ServerFailsFrom(sv)
  BY DEF ServerFailsFrom, ServerOK
<1>3. Unreadable(sv.dec, r) # "none" /\ WrongMessage(sv.state, r.msg.type) # "none"
  BY DEF Unreadable, WrongMessage
<1>4. \/ ServerFail(s, WrongMessage(sv.state, r.msg.type))
      \/ ServerFail(sv, Unreadable(sv.dec, r))
      \/ ServerFail(sv, "unexpected_message")
      \/ ServerFail(k, "handshake_failure")
      \/ ServerReply(sv, <<>>)
      \/ ServerReply(k, <<>>)
  BY DEF ServerSkipEarlyData, ServerRefuse, ServerIgnoreCcs
<1>5. /\ DOMAIN k = ServerFields /\ k.dec = sv.dec
      /\ k.state = sv.state /\ k.enc = sv.enc /\ k.pending = sv.pending /\ k.sched = sv.sched
      /\ k.isPsk = sv.isPsk /\ k.verified = sv.verified /\ k.error = sv.error
  BY DEF ServerOK, Shape, ServerFields
<1> HIDE DEF s, k
<1>6. Shape(k, ServerFields) /\ ServerAuthentic(k) /\ Agree(k, cl)
  BY <1>5 DEF ServerOK, Shape, ServerAuthentic, Agree
<1>7. ServerOK(k) /\ ServerFailsFrom(k)
  BY <1>5, <1>6 DEF ServerOK, ServerFailsFrom
<1> QED BY <1>1, <1>2, <1>3, <1>4, <1>6, <1>7, ServerFails, ServerGoesOn

(* Every handler takes the record off the stream. *)
LEMMA ServerTakesOff ==
  ASSUME ServerReceive
  PROVE  toServer' = Tail(toServer) /\ toServer # <<>> /\ sv.error = "none"
BY DEF ServerReceive, ServerReceives, ServerIgnoreCcs, ServerSkipEarlyData, ServerRefuse,
       ServerHandleHello, ServerSendRetry, ServerSendFlight, ServerHandleCertificate,
       ServerHandleCertificateVerify, ServerHandleEndOfEarlyData, ServerHandleFinished,
       ServerHandleAlert, ServerDeliver, ServerReply, ServerFail

(* A record that arrives. *)
LEMMA ServerReceiveOK ==
  ASSUME HandshakeInv, ServerReceive
  PROVE  \E d, out : ServerGoes(d, out)
<1> DEFINE r == Head(toServer)
           s == [sv EXCEPT !.dec = Read(@, r)]
<1>1. /\ ServerOK(sv) /\ Agree(sv, cl) /\ IsSeq(toServer) /\ cfg \in Configs
      /\ \A x \in Elems(toServer) : FinishedOK(cl, x)
  BY DEF HandshakeInv
<1>2. toServer # <<>> /\ sv.error = "none"
  BY ServerTakesOff
<1>3. FinishedOK(cl, r)
  BY <1>1, <1>2, HeadAndTail
<1>4. ServerOK(s) /\ ServerFailsFrom(s) /\ s.error = "none"
  BY <1>1, <1>2, ServerRead
<1>5. \/ ServerIgnoreCcs(r) \/ ServerSkipEarlyData(r) \/ ServerRefuse(r)
      \/ ServerHandleHello(s, r)
      \/ ServerHandleCertificate(s, r)
      \/ ServerHandleCertificateVerify(s, r)
      \/ ServerHandleEndOfEarlyData(s, r)
      \/ ServerHandleFinished(s, r)
      \/ ServerHandleAlert(s, r)
      \/ ServerDeliver(s, r)
  BY DEF ServerReceive
<1> HIDE DEF r, s
<1>6. CASE ServerIgnoreCcs(r) \/ ServerSkipEarlyData(r) \/ ServerRefuse(r)
  BY <1>1, <1>6, ServerRejects
<1>7. CASE ServerHandleHello(s, r)
  BY <1>1, <1>4, <1>7, ServerHellos
<1>8. CASE ServerHandleCertificate(s, r)
  BY <1>4, <1>8, ServerCertificate
<1>9. CASE ServerHandleCertificateVerify(s, r)
  BY <1>4, <1>9, ServerVerifies
<1>10. CASE ServerHandleEndOfEarlyData(s, r)
  BY <1>4, <1>10, ServerEndsEarly
<1>11. CASE ServerHandleFinished(s, r)
  BY <1>3, <1>4, <1>11, ServerFinishes
<1>12. CASE ServerHandleAlert(s, r)
  BY <1>4, <1>12, ServerFails DEF ServerHandleAlert
<1>13. CASE ServerDeliver(s, r)
  BY <1>4, <1>13, ServerGoesOn DEF ServerDeliver, ServerFailsFrom
<1> QED BY <1>5, <1>6, <1>7, <1>8, <1>9, <1>10, <1>11, <1>12, <1>13

(* The signature is there. *)
LEMMA ServerSignDoneOK ==
  ASSUME HandshakeInv, ServerSignDone
  PROVE  \E d, out : ServerGoes(d, out)
<1> DEFINE f == ServerFinish(sv)
           d == [sv EXCEPT !.error = "internal_error"]
<1>1. /\ sv.state = "generating_cv" /\ sv.error = "none"
      /\ \/ sv' = d /\ toClient' = toClient
         \/ sv' = f.tls /\ toClient' = toClient \o f.out
  BY DEF ServerSignDone
<1>2. ServerOK(sv) /\ Agree(sv, cl) /\ cfg \in Configs /\ IsSeq(toClient)
  BY DEF HandshakeInv
<1>3. CASE sv' = d /\ toClient' = toClient
  <2>1. /\ DOMAIN d = ServerFields /\ d.dec = sv.dec /\ d.enc = sv.enc /\ d.sched = sv.sched
        /\ d.state = sv.state /\ d.isPsk = sv.isPsk /\ d.verified = sv.verified
        /\ d.error = "internal_error"
    BY <1>2 DEF ServerOK, Shape, ServerFields
  <2> HIDE DEF d
  <2>2. ServerOK(d) /\ Agree(d, cl)
    BY <1>2, <2>1 DEF ServerOK, Shape, ServerAuthentic, Agree
  <2>3. IsSeq(<<>>) /\ Elems(<<>>) = {}
    BY ShortSeq
  <2>4. toClient \o <<>> = toClient
    BY <1>2, <2>3, CatLaws
  <2>5. ServerGoes(d, <<>>)
    BY <1>3, <2>2, <2>3, <2>4 DEF ServerGoes
  <2> QED BY <2>5
<1>4. CASE sv' = f.tls /\ toClient' = toClient \o f.out
  <2>1. Negotiated(sv)
    BY <1>1, <1>2 DEF ServerOK, ServerAuthentic, ServerMiddle, Negotiated
  <2>2. /\ ServerOK(f.tls) /\ f.tls.state # "post"
        /\ IsSeq(f.out) /\ \A r \in Elems(f.out) : FromServerOK(r)
    BY <1>2, <2>1, ServerFinishOK
  <2> HIDE DEF f
  <2>3. ServerGoes(f.tls, f.out)
    BY <1>4, <2>2 DEF ServerGoes, Agree
  <2> QED BY <2>3
<1> QED BY <1>1, <1>3, <1>4

(* ptls_send. *)
LEMMA ServerSendOK ==
  ASSUME ServerOK(sv), Agree(sv, cl), ServerSend
  PROVE  \E d, out : ServerGoes(d, out)
<1> DEFINE d == [sv EXCEPT !.enc = Used(@, 1)]
           out == Seal(sv.enc, <<Data("server")>>)
<1>1. sv' = d /\ toClient' = toClient \o out
  BY DEF ServerSend
<1>2. DOMAIN sv = ServerFields /\ DOMAIN sv.enc = ContextFields
  BY DEF ServerOK, Shape
<1>3. /\ DOMAIN d = ServerFields /\ d.enc = Used(sv.enc, 1)
      /\ d.dec = sv.dec /\ d.sched = sv.sched /\ d.pending = sv.pending /\ d.error = sv.error
      /\ d.state = sv.state /\ d.isPsk = sv.isPsk /\ d.verified = sv.verified
  BY <1>2 DEF ServerFields
<1>4. DOMAIN d.enc = ContextFields
  BY <1>2, <1>3, UsedContext
<1>5. IsSeq(out) /\ \A r \in Elems(out) : r.msg.type = "data"
  <2> DEFINE m == [type |-> "data", tag |-> "server", n |-> sent["server"] + 1]
  <2>1. m.type = "data" /\ out = Seal(sv.enc, <<Item(m, NoMac)>>)
    BY DEF Data
  <2> HIDE DEF m, out
  <2> QED BY <2>1, SealOne
<1> HIDE DEF d, out
<1>6. Shape(d, ServerFields) /\ ServerAuthentic(d) /\ Agree(d, cl)
  BY <1>3, <1>4 DEF ServerOK, Shape, ServerAuthentic, Agree
<1>7. ServerOK(d)
  BY <1>3, <1>6 DEF ServerOK
<1>8. ServerGoes(d, out)
  BY <1>1, <1>5, <1>6, <1>7, OtherRecords DEF ServerGoes
<1> QED BY <1>8

-----------------------------------------------------------------------------
(* The theorems. *)

(* The initial states. *)
LEMMA HandshakeInit == Init => HandshakeInv
<1> SUFFICES ASSUME Init PROVE HandshakeInv
  OBVIOUS
<1>1. /\ DOMAIN EmptySchedule = ScheduleFields /\ EmptySchedule.th = <<>>
      /\ IsSeq(<<>>) /\ Elems(<<>>) = {}
  BY ShortSeq DEF EmptySchedule, ScheduleFields
<1>2. ScheduleShape(EmptySchedule) /\ NoExt(EmptySchedule.th)
  BY <1>1 DEF ScheduleShape, NoExt
<1>3. ClientOK(cl)
  <2>1. /\ DOMAIN cl = ClientFields /\ cl.state = "start" /\ cl.enc = NoProtection
        /\ cl.dec = NoProtection /\ cl.sched = EmptySchedule /\ cl.pending = NoKey
        /\ cl.error = "none" /\ cl.certReq = FALSE
    BY DEF Init, NewClient, ClientFields
  <2>2. Shape(cl, ClientFields)
    BY <1>2, <2>1, NewContext DEF Shape
  <2> QED BY <1>2, <2>1, <2>2 DEF ClientOK, ClientAuthentic, ClientMiddle
<1>4. ServerOK(sv) /\ Agree(sv, cl)
  <2>1. /\ DOMAIN sv = ServerFields /\ sv.state = "expect_ch" /\ sv.enc = NoProtection
        /\ sv.dec = NoProtection /\ sv.sched = EmptySchedule /\ sv.error = "none"
    BY DEF Init, NewServer, ServerFields
  <2>2. Shape(sv, ServerFields)
    BY <1>2, <2>1, NewContext DEF Shape
  <2> QED BY <1>2, <2>1, <2>2 DEF ServerOK, ServerAuthentic, ServerMiddle, Agree
<1>5. toServer = <<>> /\ toClient = <<>> /\ ticketsSeen = {} /\ cfg \in Configs
  BY DEF Init
<1> QED BY <1>1, <1>3, <1>4, <1>5 DEF HandshakeInv, TicketsMatchWithoutAuth

(* A step of the client keeps the invariant. *)
LEMMA ClientStepOK ==
  ASSUME HandshakeInv, NEW d, NEW out, ClientGoes(d, out), cfg' = cfg, sv' = sv,
         \/ UNCHANGED toClient
         \/ toClient' = Tail(toClient) /\ toClient # <<>>,
         ~cfg.auth => \A t \in ticketsSeen' : t[1] = t[2]
  PROVE  HandshakeInv'
<1>1. cl' = d /\ toServer' = toServer \o out
  BY DEF ClientGoes
<1>2. ClientOK(d) /\ IsSeq(out) /\ \A r \in Elems(out) : FinishedOK(d, r)
  BY DEF ClientGoes
<1>3. (ClientOK(cl))'
  BY <1>1, <1>2 DEF ClientOK, ClientAuthentic, Shape
<1>4. (ServerOK(sv) /\ Agree(sv, cl))'
  BY <1>1 DEF HandshakeInv, ServerOK, ServerAuthentic, Shape, Agree, ClientGoes
<1>5. IsSeq(toServer') /\ \A r \in Elems(toServer') : FinishedOK(d, r)
  <2>1. IsSeq(toServer) /\ \A r \in Elems(toServer) : FinishedOK(cl, r)
    BY DEF HandshakeInv
  <2>2. \A r \in Elems(toServer) : FinishedOK(d, r)
    BY <2>1 DEF ClientGoes, FinishedOK
  <2>3. IsSeq(toServer \o out) /\ Elems(toServer \o out) = Elems(toServer) \cup Elems(out)
    BY <1>2, <2>1, CatSeq
  <2> QED BY <1>1, <1>2, <2>2, <2>3
<1>6. (IsSeq(toServer) /\ \A r \in Elems(toServer) : FinishedOK(cl, r))'
  BY <1>1, <1>5 DEF FinishedOK, IsSeq, Elems
<1>7. IsSeq(toClient') /\ \A r \in Elems(toClient') : FromServerOK(r)
  <2>1. IsSeq(toClient) /\ \A r \in Elems(toClient) : FromServerOK(r)
    BY DEF HandshakeInv
  <2> QED BY <2>1, HeadAndTail
<1>8. (IsSeq(toClient) /\ \A r \in Elems(toClient) : FromServerOK(r))'
  BY <1>7 DEF FromServerOK, IsSeq, Elems
<1> QED BY <1>3, <1>4, <1>6, <1>8 DEF HandshakeInv, TicketsMatchWithoutAuth

(* A step of the server keeps the invariant. *)
LEMMA ServerStepOK ==
  ASSUME HandshakeInv, NEW d, NEW out, ServerGoes(d, out), cfg' = cfg, cl' = cl,
         \/ UNCHANGED toServer
         \/ toServer' = Tail(toServer) /\ toServer # <<>>,
         ticketsSeen' = ticketsSeen
  PROVE  HandshakeInv'
<1>1. sv' = d /\ toClient' = toClient \o out
  BY DEF ServerGoes
<1>2. ServerOK(d) /\ Agree(d, cl) /\ IsSeq(out) /\ \A r \in Elems(out) : FromServerOK(r)
  BY DEF ServerGoes
<1>3. (ClientOK(cl))'
  BY DEF HandshakeInv, ClientOK, ClientAuthentic, Shape
<1>4. (ServerOK(sv) /\ Agree(sv, cl))'
  BY <1>1, <1>2 DEF ServerOK, ServerAuthentic, Shape, Agree
<1>5. IsSeq(toClient') /\ \A r \in Elems(toClient') : FromServerOK(r)
  <2>1. IsSeq(toClient) /\ \A r \in Elems(toClient) : FromServerOK(r)
    BY DEF HandshakeInv
  <2>2. IsSeq(toClient \o out) /\ Elems(toClient \o out) = Elems(toClient) \cup Elems(out)
    BY <1>2, <2>1, CatSeq
  <2> QED BY <1>1, <1>2, <2>1, <2>2
<1>6. (IsSeq(toClient) /\ \A r \in Elems(toClient) : FromServerOK(r))'
  BY <1>5 DEF FromServerOK, IsSeq, Elems
<1>7. IsSeq(toServer') /\ \A r \in Elems(toServer') : FinishedOK(cl, r)
  <2>1. IsSeq(toServer) /\ \A r \in Elems(toServer) : FinishedOK(cl, r)
    BY DEF HandshakeInv
  <2> QED BY <2>1, HeadAndTail
<1>8. (IsSeq(toServer) /\ \A r \in Elems(toServer) : FinishedOK(cl, r))'
  BY <1>7 DEF FinishedOK, IsSeq, Elems
<1> QED BY <1>3, <1>4, <1>6, <1>8 DEF HandshakeInv, TicketsMatchWithoutAuth

(* Every step keeps the invariant. *)
LEMMA HandshakeStep == HandshakeInv /\ [Next]_vars => HandshakeInv'
<1> SUFFICES ASSUME HandshakeInv, [Next]_vars PROVE HandshakeInv'
  OBVIOUS
<1>1. /\ ClientOK(cl) /\ ServerOK(sv) /\ Agree(sv, cl)
      /\ ~cfg.auth => \A t \in ticketsSeen : t[1] = t[2]
  BY DEF HandshakeInv, TicketsMatchWithoutAuth
<1>2. CASE ClientStart
  <2>1. PICK d, out : ClientGoes(d, out)
    BY <1>1, <1>2, ClientStarts
  <2>2. cfg' = cfg /\ sv' = sv /\ toClient' = toClient /\ ticketsSeen' = ticketsSeen
    BY <1>2 DEF ClientStart
  <2> QED BY <1>1, <2>1, <2>2, ClientStepOK
<1>3. CASE ClientReceive
  <2>1. PICK d, out : ClientGoes(d, out)
    BY <1>3, ClientReceiveOK
  <2>2. cfg' = cfg /\ sv' = sv
    BY <1>3 DEF ClientReceive
  <2>3. toClient' = Tail(toClient) /\ toClient # <<>>
    BY <1>3, ClientTakesOff
  <2>4. ~cfg.auth => \A t \in ticketsSeen' : t[1] = t[2]
    BY <1>3, TicketSaved
  <2> QED BY <2>1, <2>2, <2>3, <2>4, ClientStepOK
<1>4. CASE ServerReceive
  <2>1. PICK d, out : ServerGoes(d, out)
    BY <1>4, ServerReceiveOK
  <2>2. cfg' = cfg /\ cl' = cl /\ ticketsSeen' = ticketsSeen
    BY <1>4 DEF ServerReceive
  <2>3. toServer' = Tail(toServer) /\ toServer # <<>>
    BY <1>4, ServerTakesOff
  <2> QED BY <2>1, <2>2, <2>3, ServerStepOK
<1>5. CASE ServerSignDone
  <2>1. PICK d, out : ServerGoes(d, out)
    BY <1>5, ServerSignDoneOK
  <2>2. cfg' = cfg /\ cl' = cl /\ ticketsSeen' = ticketsSeen /\ toServer' = toServer
    BY <1>5 DEF ServerSignDone
  <2> QED BY <2>1, <2>2, ServerStepOK
<1>6. CASE \E tag \in {"early", "client"} : ClientSend(tag)
  <2>1. PICK tag \in {"early", "client"} : ClientSend(tag)
    BY <1>6
  <2>2. PICK d, out : ClientGoes(d, out)
    BY <1>1, <2>1, ClientSendOK
  <2>3. cfg' = cfg /\ sv' = sv /\ toClient' = toClient /\ ticketsSeen' = ticketsSeen
    BY <2>1 DEF ClientSend
  <2> QED BY <1>1, <2>2, <2>3, ClientStepOK
<1>7. CASE ServerSend
  <2>1. PICK d, out : ServerGoes(d, out)
    BY <1>1, <1>7, ServerSendOK
  <2>2. cfg' = cfg /\ cl' = cl /\ ticketsSeen' = ticketsSeen /\ toServer' = toServer
    BY <1>7 DEF ServerSend
  <2> QED BY <2>1, <2>2, ServerStepOK
<1>8. CASE UNCHANGED vars
  <2>1. /\ cfg' = cfg /\ cl' = cl /\ sv' = sv /\ toServer' = toServer /\ toClient' = toClient
        /\ ticketsSeen' = ticketsSeen
    BY <1>8 DEF vars
  <2>1a. (ClientOK(cl))'
    BY <1>1, <2>1 DEF ClientOK, ClientAuthentic, Shape
  <2>1b. (ServerOK(sv))'
    BY <1>1, <2>1 DEF ServerOK, ServerAuthentic, Shape
  <2>2. (ClientOK(cl))' /\ (ServerOK(sv) /\ Agree(sv, cl))'
    BY <1>1, <2>1, <2>1a, <2>1b DEF Agree
  <2>3. (IsSeq(toServer) /\ \A r \in Elems(toServer) : FinishedOK(cl, r))'
    BY <2>1 DEF HandshakeInv, FinishedOK, IsSeq, Elems
  <2>4. (IsSeq(toClient) /\ \A r \in Elems(toClient) : FromServerOK(r))'
    BY <2>1 DEF HandshakeInv, FromServerOK, IsSeq, Elems
  <2>5. (cfg \in Configs /\ TicketsMatchWithoutAuth)'
    BY <2>1 DEF HandshakeInv, TicketsMatchWithoutAuth
  <2> QED BY <2>2, <2>3, <2>4, <2>5 DEF HandshakeInv
<1> QED BY <1>2, <1>3, <1>4, <1>5, <1>6, <1>7, <1>8 DEF Next

(* The invariant holds in every state of every handshake. *)
LEMMA HandshakeInvariant == Spec => []HandshakeInv
<1>1. Init => HandshakeInv
  BY HandshakeInit
<1>2. HandshakeInv /\ [Next]_vars => HandshakeInv'
  BY HandshakeStep
<1> QED BY <1>1, <1>2, PTL DEF Spec

(* No end completes with a peer it has not authenticated, and the two agree on *)
(* whether a PSK authenticated them (client_handle_finished and                *)
(* server_handle_finished), whatever is negotiated and in whatever order the   *)
(* two ends read, send and sign.                                               *)
THEOREM BothAuthenticated == Spec => []Authenticated
<1>1. HandshakeInv => Authenticated
  <2> SUFFICES ASSUME HandshakeInv PROVE Authenticated
    OBVIOUS
  <2>1. ClientAuthentic(cl) /\ ServerAuthentic(sv) /\ Agree(sv, cl)
    BY DEF HandshakeInv, ClientOK, ServerOK
  <2> QED BY <2>1 DEF Authenticated, ClientAuthentic, ServerAuthentic, Agree
<1> QED BY <1>1, HandshakeInvariant, PTL

(* Without client authentication the secret send_session_ticket puts into a     *)
(* ticket, before the client's Finished is there, is the one the client derives *)
(* and saves in client_handle_new_session_ticket.                               *)
THEOREM TicketsHoldTheSecret == Spec => []TicketsMatchWithoutAuth
<1>1. HandshakeInv => TicketsMatchWithoutAuth
  BY DEF HandshakeInv
<1> QED BY <1>1, HandshakeInvariant, PTL

-----------------------------------------------------------------------------
(* Streams of records. *)

(* The elements a to b - 1 of a numbered series. *)
Run(f, a, b) == [i \in 1 .. b - a |-> f[a + i - 1]]

(* A record that is sent under a condition. *)
Opt(b, r) == IF b THEN <<r>> ELSE <<>>

(* A function on an initial segment of the numbers is a sequence. *)
LEMMA FunSeq ==
  ASSUME NEW n \in Nat, NEW f, DOMAIN f = 1 .. n, f = [i \in 1 .. n |-> f[i]]
  PROVE  f \in Seq(Elems(f)) /\ IsSeq(f) /\ Len(f) = n
<1>1. f \in [1 .. n -> Elems(f)]
  BY DEF Elems
<1>2. f \in Seq(Elems(f)) /\ Len(f) = n
  BY <1>1
<1> QED BY <1>2 DEF IsSeq

(* Concatenation, element by element. *)
LEMMA CatElem ==
  ASSUME NEW s, NEW t, IsSeq(s), IsSeq(t)
  PROVE  /\ IsSeq(s \o t) /\ Len(s) \in Nat /\ Len(t) \in Nat /\ Len(s \o t) = Len(s) + Len(t)
         /\ \A i \in 1 .. Len(s) : (s \o t)[i] = s[i]
         /\ \A i \in 1 .. Len(t) : (s \o t)[Len(s) + i] = t[i]
<1>1. PICK S, T : s \in Seq(S) /\ t \in Seq(T)
  BY DEF IsSeq
<1>2. s \in Seq(S \cup T) /\ t \in Seq(S \cup T)
  BY <1>1, SeqMonotonic
<1>3. Len(s) \in Nat /\ Len(t) \in Nat
  BY <1>1, LenProperties
<1>4. /\ s \o t \in Seq(S \cup T) /\ Len(s \o t) = Len(s) + Len(t)
      /\ \A i \in 1 .. Len(s) + Len(t) :
            (s \o t)[i] = IF i <= Len(s) THEN s[i] ELSE t[i - Len(s)]
  BY <1>2, ConcatProperties
<1>5. ASSUME NEW i \in 1 .. Len(s) PROVE (s \o t)[i] = s[i]
  BY <1>3, <1>4
<1>6. ASSUME NEW i \in 1 .. Len(t) PROVE (s \o t)[Len(s) + i] = t[i]
  <2>1. Len(s) + i \in 1 .. Len(s) + Len(t) /\ ~(Len(s) + i <= Len(s)) /\ (Len(s) + i) - Len(s) = i
    BY <1>3
  <2> QED BY <1>4, <2>1
<1> QED BY <1>3, <1>4, <1>5, <1>6 DEF IsSeq

(* The same, for a sequence that is known to be a concatenation. *)
Joins(s, t, v) == v = s \o t

(* The elements of a concatenation, given as Joins. *)
LEMMA JoinElem ==
  ASSUME NEW s, NEW t, NEW v, IsSeq(s), IsSeq(t), Joins(s, t, v)
  PROVE  /\ IsSeq(v) /\ Len(s) \in Nat /\ Len(t) \in Nat /\ Len(v) = Len(s) + Len(t)
         /\ \A i \in 1 .. Len(s) : v[i] = s[i]
         /\ \A i \in 1 .. Len(t) : v[Len(s) + i] = t[i]
<1>1. /\ IsSeq(s \o t) /\ Len(s) \in Nat /\ Len(t) \in Nat /\ Len(s \o t) = Len(s) + Len(t)
      /\ \A i \in 1 .. Len(s) : (s \o t)[i] = s[i]
      /\ \A i \in 1 .. Len(t) : (s \o t)[Len(s) + i] = t[i]
  BY CatElem
<1> QED BY <1>1 DEF Joins

(* Two sequences with the same elements are the same. *)
LEMMA SameSeq ==
  ASSUME NEW s, NEW t, IsSeq(s), IsSeq(t), Len(s) = Len(t), \A i \in 1 .. Len(s) : s[i] = t[i]
  PROVE  s = t
<1>1. PICK S, T : s \in Seq(S) /\ t \in Seq(T)
  BY DEF IsSeq
<1>2. s \in Seq(S \cup T) /\ t \in Seq(S \cup T)
  BY <1>1, SeqMonotonic
<1> QED BY <1>2, SeqEqual

(* A stream that begins with a record. *)
LEMMA Peel ==
  ASSUME NEW r, NEW s, IsSeq(s)
  PROVE  /\ <<r>> \o s # <<>> /\ IsSeq(<<r>> \o s)
         /\ Head(<<r>> \o s) = r /\ Tail(<<r>> \o s) = s
<1>1. IsSeq(<<r>>) /\ Len(<<r>>) = 1 /\ <<r>>[1] = r
  BY ShortSeq
<1> DEFINE t == <<r>> \o s
<1>2. /\ IsSeq(t) /\ Len(s) \in Nat /\ Len(t) = 1 + Len(s)
      /\ t[1] = r /\ \A i \in 1 .. Len(s) : t[1 + i] = s[i]
  BY <1>1, CatElem
<1> HIDE DEF t
<1>3. Len(t) # 0
  BY <1>2
<1>4. t # <<>>
  BY <1>3
<1>5. PICK S : t \in Seq(S)
  BY <1>2 DEF IsSeq
<1>6. Head(t) = t[1]
  BY <1>5
<1>7. /\ Tail(t) \in Seq(S) /\ Len(Tail(t)) = Len(t) - 1
      /\ \A i \in 1 .. Len(Tail(t)) : Tail(t)[i] = t[i + 1]
  BY <1>4, <1>5, HeadTailProperties
<1>8. IsSeq(Tail(t))
  BY <1>7 DEF IsSeq
<1>9. Len(Tail(t)) = Len(s)
  BY <1>2, <1>7
<1>10. \A i \in 1 .. Len(Tail(t)) : Tail(t)[i] = s[i]
  BY <1>2, <1>7, <1>9
<1>11. Tail(t) = s
  BY <1>8, <1>9, <1>10, SameSeq
<1> QED BY <1>2, <1>4, <1>6, <1>11 DEF t

(* The stream w begins with the record r and goes on with t. *)
Starts(w, r, t) == w # <<>> /\ Head(w) = r /\ Tail(w) = t

(* A record with something after it, and the same with more behind. *)
LEMMA PeelMore ==
  ASSUME NEW r, NEW s, NEW t, IsSeq(s), IsSeq(t)
  PROVE  Starts(<<r>> \o s, r, s) /\ Starts((<<r>> \o s) \o t, r, s \o t)
<1>1. IsSeq(<<r>>) /\ IsSeq(s \o t)
  BY ShortSeq, CatSeq
<1>2. (<<r>> \o s) \o t = <<r>> \o (s \o t)
  BY <1>1, CatAssoc
<1>3. ASSUME NEW u, IsSeq(u) PROVE Starts(<<r>> \o u, r, u)
  BY <1>3, Peel DEF Starts
<1>4. Starts(<<r>> \o s, r, s)
  BY <1>3
<1>5. Starts(<<r>> \o (s \o t), r, s \o t)
  BY <1>1, <1>3
<1> QED BY <1>2, <1>4, <1>5

(* Nothing is in an empty stream. *)
LEMMA CatEmpty ==
  ASSUME NEW s, NEW t, IsSeq(s), IsSeq(t), s \o t = <<>>
  PROVE  s = <<>> /\ t = <<>>
<1>1. PICK S, T : s \in Seq(S) /\ t \in Seq(T)
  BY DEF IsSeq
<1>2. s \in Seq(S \cup T) /\ t \in Seq(S \cup T)
  BY <1>1, SeqMonotonic
<1> QED BY <1>2, ConcatEqualIffEmpty

(* A series: its first and its last element. *)
LEMMA RunSeq ==
  ASSUME NEW f, NEW a \in Nat, NEW b \in Nat, a <= b
  PROVE  /\ IsSeq(Run(f, a, b)) /\ Len(Run(f, a, b)) = b - a
         /\ a = b => Run(f, a, b) = <<>>
         /\ \A i \in 1 .. b - a : Run(f, a, b)[i] = f[a + i - 1]
<1> DEFINE s == Run(f, a, b)
<1>1. DOMAIN s = 1 .. b - a /\ s = [i \in 1 .. b - a |-> s[i]] /\ b - a \in Nat
  BY DEF Run
<1>2. \A i \in 1 .. b - a : s[i] = f[a + i - 1]
  BY DEF Run
<1> HIDE DEF s
<1>3. IsSeq(s) /\ Len(s) = b - a
  BY <1>1, FunSeq
<1>4. a = b => s = <<>>
  <2> HAVE a = b
  <2>1. Len(s) = 0
    BY <1>3
  <2>2. PICK S : s \in Seq(S)
    BY <1>3 DEF IsSeq
  <2> QED BY <2>1, <2>2
<1> QED BY <1>2, <1>3, <1>4 DEF s

(* A series begins with its first element. *)
LEMMA RunFirst ==
  ASSUME NEW f, NEW a \in Nat, NEW b \in Nat, a < b
  PROVE  Run(f, a, b) = <<f[a]>> \o Run(f, a + 1, b)
<1> DEFINE s == Run(f, a, b)
           t == Run(f, a + 1, b)
<1>0. a <= b /\ a + 1 \in Nat /\ a + 1 <= b
  OBVIOUS
<1>1. IsSeq(s) /\ Len(s) = b - a /\ \A i \in 1 .. b - a : s[i] = f[a + i - 1]
  BY <1>0, RunSeq, ZenonT(30)
<1>2. IsSeq(t) /\ Len(t) = b - (a + 1) /\ \A i \in 1 .. b - (a + 1) : t[i] = f[a + 1 + i - 1]
  BY <1>0, RunSeq, ZenonT(30)
<1> HIDE DEF s, t
<1>3. IsSeq(<<f[a]>>) /\ Len(<<f[a]>>) = 1 /\ <<f[a]>>[1] = f[a]
  BY ShortSeq
<1> DEFINE h == <<f[a]>>
<1> HIDE DEF h
<1>4. /\ IsSeq(h \o t) /\ Len(h \o t) = 1 + Len(t) /\ (h \o t)[1] = h[1]
      /\ \A i \in 1 .. Len(t) : (h \o t)[1 + i] = t[i]
  BY <1>2, <1>3, CatElem DEF h
<1>5. Len(h \o t) = Len(s)
  BY <1>1, <1>2, <1>4
<1>6. ASSUME NEW i \in 1 .. Len(s) PROVE s[i] = (h \o t)[i]
  <2>1. CASE i = 1
    BY <1>1, <1>3, <1>4, <2>1 DEF h
  <2>2. CASE i # 1
    <3>1. i - 1 \in 1 .. Len(t) /\ i - 1 \in 1 .. b - (a + 1) /\ 1 + (i - 1) = i
      BY <1>1, <1>2, <2>2
    <3>2. (h \o t)[i] = t[i - 1]
      BY <1>4, <3>1
    <3>3. t[i - 1] = f[a + 1 + (i - 1) - 1] /\ a + 1 + (i - 1) - 1 = a + i - 1
      BY <1>2, <3>1
    <3> QED BY <1>1, <3>2, <3>3
  <2> QED BY <2>1, <2>2
<1>7. s = h \o t
  BY <1>1, <1>4, <1>5, <1>6, SameSeq
<1> QED BY <1>7 DEF s, t, h

(* A series ends with its last element. *)
LEMMA RunLast ==
  ASSUME NEW f, NEW a \in Nat, NEW b \in Nat, a <= b
  PROVE  Run(f, a, b + 1) = Run(f, a, b) \o <<f[b]>>
<1> DEFINE s == Run(f, a, b + 1)
           t == Run(f, a, b)
<1>0. b + 1 \in Nat /\ a <= b + 1
  OBVIOUS
<1>1. IsSeq(s) /\ Len(s) = (b + 1) - a /\ \A i \in 1 .. (b + 1) - a : s[i] = f[a + i - 1]
  BY <1>0, RunSeq, ZenonT(30)
<1>2. IsSeq(t) /\ Len(t) = b - a /\ \A i \in 1 .. b - a : t[i] = f[a + i - 1]
  BY RunSeq, ZenonT(30)
<1> HIDE DEF s, t
<1>3. IsSeq(<<f[b]>>) /\ Len(<<f[b]>>) = 1 /\ <<f[b]>>[1] = f[b]
  BY ShortSeq
<1> DEFINE h == <<f[b]>>
<1> HIDE DEF h
<1>4. /\ IsSeq(t \o h) /\ Len(t \o h) = Len(t) + 1
      /\ \A i \in 1 .. Len(t) : (t \o h)[i] = t[i]
      /\ (t \o h)[Len(t) + 1] = h[1]
  BY <1>2, <1>3, CatElem DEF h
<1>5. Len(t \o h) = Len(s)
  BY <1>1, <1>2, <1>4
<1>6. ASSUME NEW i \in 1 .. Len(s) PROVE s[i] = (t \o h)[i]
  <2>1. CASE i = b - a + 1
    BY <1>1, <1>2, <1>3, <1>4, <2>1 DEF h
  <2>2. CASE i # b - a + 1
    <3>1. i \in 1 .. Len(t) /\ i \in 1 .. b - a
      BY <1>1, <1>2, <2>2
    <3> QED BY <1>1, <1>2, <1>4, <3>1
  <2> QED BY <2>1, <2>2
<1>7. s = t \o h
  BY <1>1, <1>4, <1>5, <1>6, SameSeq
<1> QED BY <1>7 DEF s, t, h

(* What the applications receive, one record more. *)
LEMMA NumberedNext ==
  ASSUME NEW tag, NEW n \in Nat
  PROVE  /\ IsSeq(Numbered(tag, n)) /\ Len(Numbered(tag, n)) = n
         /\ Numbered(tag, n + 1) = Numbered(tag, n) \o <<<<tag, n + 1>>>>
         /\ Numbered(tag, 0) = <<>>
<1> DEFINE f == [i \in Nat |-> <<tag, i + 1>>]
<1>1. ASSUME NEW k \in Nat PROVE Numbered(tag, k) = Run(f, 0, k)
  <2>1. 1 .. k - 0 = 1 .. k
    OBVIOUS
  <2>2. ASSUME NEW i \in 1 .. k PROVE f[0 + i - 1] = <<tag, i>>
    <3>1. 0 + i - 1 \in Nat /\ (0 + i - 1) + 1 = i
      OBVIOUS
    <3> QED BY <3>1
  <2> HIDE DEF f
  <2>3. [i \in 1 .. k |-> f[0 + i - 1]] = [i \in 1 .. k |-> <<tag, i>>]
    BY <2>2
  <2> QED BY <2>1, <2>3 DEF Numbered, Run
<1>2. f[n] = <<tag, n + 1>>
  OBVIOUS
<1> HIDE DEF f
<1>0. 0 \in Nat /\ 0 <= n /\ 0 <= 0 /\ n - 0 = n
  OBVIOUS
<1>3. IsSeq(Run(f, 0, n)) /\ Len(Run(f, 0, n)) = n - 0 /\ Run(f, 0, 0) = <<>>
  BY <1>0, RunSeq, ZenonT(30)
<1>4. Run(f, 0, n + 1) = Run(f, 0, n) \o <<f[n]>>
  BY <1>0, RunLast, ZenonT(30)
<1>5. Numbered(tag, n) = Run(f, 0, n) /\ Numbered(tag, n + 1) = Run(f, 0, n + 1)
      /\ Numbered(tag, 0) = Run(f, 0, 0)
  BY <1>1
<1> QED BY <1>0, <1>2, <1>3, <1>4, <1>5

-----------------------------------------------------------------------------
(* The story of a configuration. *)

(* A record on the wire, and the messages that do not depend on anything. *)
Wire(key, seq, msg, mac) == [key |-> key, seq |-> seq, msg |-> msg, mac |-> mac]
CcsRec == Wire(NoKey, 0, Plain("ccs"), NoMac)
ServerFinished == [type |-> "fin", key |-> "s hs"]
CertMsg(some) == [type |-> "cert", some |-> some]
DataMsg(tag, n) == [type |-> "data", tag |-> tag, n |-> n]
Ctx(k, q) == [key |-> k, seq |-> q]

(* What the two ends will decide: asks for 0-RTT, the retry, the PSK found, 0-RTT *)
(* accepted, and whether the server skips what it has not accepted.               *)
Flags(y) ==
    /\ y.id = Identity /\ y.ext = External("server") /\ y.group = RetryGroup
    /\ y.auth = cfg.auth /\ y.cc = cfg.clientCert /\ y.compat = cfg.compat
    /\ y.cookie = cfg.cookie /\ y.tickets = cfg.tickets
    /\ y.share1 = IF y.id = "ticket" THEN cfg.ticketGroup
                  ELSE IF cfg.negotiateFirst THEN "none" ELSE "g1"
    /\ y.has1 = (y.share1 \in cfg.groups)
    /\ y.share2 = IF y.has1 THEN y.share1 ELSE y.group
    /\ y.asks = (cfg.early /\ y.id # "none")
    /\ y.retry = (~y.has1 \/ cfg.enforceRetry)
    /\ y.found = (/\ y.id # "none" /\ ~y.auth
                  /\ IF y.ext THEN y.id = "external"
                     ELSE /\ ~y.retry /\ y.id = "ticket" /\ cfg.psk = "ticket"
                          /\ cfg.ticketGroup \in cfg.groups)
    /\ y.share = IF y.found /\ ~cfg.dheOnPsk THEN "none"
                 ELSE IF y.retry THEN y.share2 ELSE y.share1
    /\ y.accept = (y.found /\ y.asks /\ ~y.retry /\ cfg.acceptEarly)
    /\ y.skips = (y.asks /\ ~y.accept /\ ~(y.retry /\ y.cookie))

(* The hellos, and the schedules up to ServerHello: sr is the one a server keeps *)
(* after a retry.                                                                *)
Hellos(y) ==
    /\ y.ch1 = [type |-> "ch", share |-> y.share1, psk |-> y.id, early |-> y.asks, cookie |-> <<>>]
    /\ y.hash1 = [type |-> "message_hash", of |-> <<y.ch1>>]
    /\ y.hrr = [type |-> "hrr", group |-> IF y.has1 THEN "none" ELSE y.group,
                cookie |-> IF y.cookie
                           THEN <<[of |-> <<y.ch1>>, sent |-> ~y.has1, signed |-> y.group]>>
                           ELSE <<>>]
    /\ y.ch2 = [type |-> "ch", share |-> y.share2, psk |-> y.id, early |-> FALSE,
                cookie |-> y.hrr.cookie]
    /\ y.sh = [type |-> "sh", share |-> y.share, psk |-> y.found]
    /\ y.psk1 = IF y.id = "none" THEN "zero" ELSE y.id
    /\ y.s1 = [psk |-> y.psk1, dhe |-> "unset", th |-> <<y.ch1>>]
    /\ y.s2 = [psk |-> y.psk1, dhe |-> "unset", th |-> <<y.hash1, y.hrr, y.ch2>>]
    /\ y.sr = [psk |-> IF y.ext THEN "external" ELSE "zero", dhe |-> "unset",
               th |-> <<y.hash1, y.hrr>>]
    /\ y.hs = [psk |-> IF y.found THEN y.id ELSE "zero",
               dhe |-> IF y.share = "none" THEN "zero" ELSE y.share,
               th |-> IF y.retry THEN <<y.hash1, y.hrr, y.ch2, y.sh>> ELSE <<y.ch1, y.sh>>]

(* The schedules after that: at Certificate (scert), at the server's Finished (scv), *)
(* after it (sfin), and at the client's Finished (send).                             *)
Schedules(y) ==
    /\ y.ee = [type |-> "ee", early |-> y.accept]
    /\ y.see = Hash(y.hs, <<y.ee>>)
    /\ y.scr = IF y.auth THEN Hash(y.see, <<Plain("cr")>>) ELSE y.see
    /\ y.scert = Hash(y.scr, <<CertMsg(TRUE)>>)
    /\ y.scv = IF y.found THEN y.see ELSE Hash(y.scert, <<Plain("cv")>>)
    /\ y.sfin = Hash(y.scv, <<ServerFinished>>)
    /\ y.sccert = Hash(y.sfin, <<CertMsg(y.cc)>>)
    /\ y.send = IF y.accept THEN Hash(y.sfin, <<Plain("eoed")>>)
                ELSE IF ~y.auth THEN y.sfin
                ELSE IF y.cc THEN Hash(y.sccert, <<Plain("cv")>>) ELSE y.sccert
    /\ y.res = Key("res", Hash(y.sfin, (IF y.accept THEN <<Plain("eoed")>> ELSE <<>>)
                                       \o <<ClientFinished>>))

(* The keys, and the sequence numbers of CertificateRequest's successor, of the two *)
(* Finished.                                                                        *)
Keys(y) ==
    /\ y.ke = Key("c e", y.s1)
    /\ y.ksh = Key("s hs", y.hs) /\ y.kch = Key("c hs", y.hs)
    /\ y.ksa = Key("s ap", y.sfin) /\ y.kca = Key("c ap", y.sfin)
    /\ y.ncr = IF y.auth THEN 2 ELSE 1
    /\ y.nfin = IF y.found THEN 1 ELSE y.ncr + 2
    /\ y.nc = IF ~y.auth THEN 0 ELSE IF y.cc THEN 2 ELSE 1

(* The records of the handshake. *)
Records(y) ==
    /\ y.rch1 = Wire(NoKey, 0, y.ch1, IF y.id = "none" THEN NoMac ELSE Binder(y.s1))
    /\ y.rch2 = Wire(NoKey, 0, y.ch2, IF y.id = "none" THEN NoMac ELSE Binder(y.s2))
    /\ y.rhrr = Wire(NoKey, 0, y.hrr, NoMac)
    /\ y.rsh = Wire(NoKey, 0, y.sh, NoMac)
    /\ y.ree = Wire(y.ksh, 0, y.ee, NoMac)
    /\ y.rcr = Wire(y.ksh, 1, Plain("cr"), NoMac)
    /\ y.rcert = Wire(y.ksh, y.ncr, CertMsg(TRUE), NoMac)
    /\ y.rcv = Wire(y.ksh, y.ncr + 1, Plain("cv"), Signature(y.scert))
    /\ y.rfin = Wire(y.ksh, y.nfin, ServerFinished, FinishedMac(y.ksh, y.scv))
    /\ y.rccert = Wire(y.kch, 0, CertMsg(y.cc), NoMac)
    /\ y.rccv = Wire(y.kch, 1, Plain("cv"), Signature(y.sccert))
    /\ y.rcfin = Wire(y.kch, y.nc, ClientFinished, FinishedMac(y.kch, y.send))

(* EndOfEarlyData after n records of 0-RTT data. *)
Eoed(y, n) == Wire(y.ke, n, Plain("eoed"), NoMac)

(* The records of application data, by sequence number: 0-RTT, the client's, and *)
(* the server's after its tickets.                                               *)
Series(y) ==
    /\ y.early = [q \in Nat |-> Wire(y.ke, q, DataMsg("early", q + 1), NoMac)]
    /\ y.client = [q \in Nat |-> Wire(y.kca, q, DataMsg("client", q + 1), NoMac)]
    /\ y.server = [q \in Nat |-> IF q < y.tickets
                       THEN Wire(y.ksa, q, Plain("nst"), [key |-> y.res, th |-> <<>>])
                       ELSE Wire(y.ksa, q, DataMsg("server", (q - y.tickets) + 1), NoMac)]

Story(y) == Flags(y) /\ Hellos(y) /\ Schedules(y) /\ Keys(y) /\ Records(y) /\ Series(y)

-----------------------------------------------------------------------------
(* What is still to be read of a direction. *)

(* Client to server, from the record named on: st is the client's state, n and m the *)
(* records of 0-RTT and of application data it has sent.                             *)
CFin(y, m) == <<y.rcfin>> \o Run(y.client, 0, m)
CVerify(y, m) == Opt(y.auth /\ y.cc, y.rccv) \o CFin(y, m)
CCert(y, m) == Opt(y.auth, y.rccert) \o CVerify(y, m)
CFlight(y, m) == Opt(y.compat /\ ~y.asks, CcsRec) \o CCert(y, m)
CEnd(y, st, n, m) ==
    IF st = "post" THEN Opt(y.accept, Eoed(y, n)) \o CFlight(y, m) ELSE <<>>
CRetry(y, st, n, m) == Opt(y.retry /\ st # "expect_sh", y.rch2) \o CEnd(y, st, n, m)
CEarly(y, k, st, n, m) == Run(y.early, k, n) \o CRetry(y, st, n, m)
CCcs(y, st, n, m) == Opt(y.compat /\ y.asks, CcsRec) \o CEarly(y, 0, st, n, m)
CHello(y, st, n, m) == <<y.rch1>> \o CCcs(y, st, n, m)

Unanswered == {"expect_ch", "expect_ch2"}
Flown == {"expect_cert", "expect_cv", "expect_eoed", "expect_fin", "post"}

(* Server to client: st is the server's state, ret whether it has retried, m the *)
(* records of application data it has sent.                                      *)
SFin(y, st, m) == IF st \in Flown THEN <<y.rfin>> \o Run(y.server, 0, y.tickets + m) ELSE <<>>
SVerify(y, st, m) == Opt(~y.found /\ st \in Flown, y.rcv) \o SFin(y, st, m)
SCert(y, st, m) == Opt(~y.found, y.rcert) \o SVerify(y, st, m)
SRequest(y, st, m) == Opt(y.auth, y.rcr) \o SCert(y, st, m)
SExt(y, st, m) == <<y.ree>> \o SRequest(y, st, m)
SCcs(y, st, m) == Opt(y.compat, CcsRec) \o SExt(y, st, m)
SHello(y, st, m) == IF st \in Unanswered THEN <<>> ELSE <<y.rsh>> \o SCcs(y, st, m)
SRetryCcs(y, st, m) == Opt(y.compat /\ y.cookie, CcsRec) \o SHello(y, st, m)
SRetry(y, st, ret, m) ==
    IF ret = 1 THEN <<y.rhrr>> \o SRetryCcs(y, st, m) ELSE SHello(y, st, m)

-----------------------------------------------------------------------------
(* The two ends, and what is in flight towards them. *)

(* 0-RTT keys in use until the flight: no retry has taken them away. *)
Pends(y) == y.asks /\ ~y.retry

(* A client that has not failed; n and m as above, w records delivered to it. *)
ClientAt(y, c, n, m, w) ==
    /\ c.offeredPsk = (c.state # "start" /\ y.id # "none")
    /\ c.state # "post" => w = 0
    /\ c.state = "start" =>
         /\ c.enc = NoProtection /\ c.dec = NoProtection /\ c.pending = NoKey
         /\ c.sched = EmptySchedule /\ c.usingEarly = FALSE /\ c.certReq = FALSE
         /\ c.ccs = y.compat /\ n = 0
    /\ c.state = "expect_sh" =>
         /\ c.enc = (IF y.asks THEN Ctx(y.ke, n) ELSE NoProtection)
         /\ c.dec = NoProtection /\ c.pending = NoKey
         /\ c.sched = y.s1 /\ c.share = y.share1 /\ c.usingEarly = y.asks /\ c.certReq = FALSE
         /\ c.ccs = (y.compat /\ ~y.asks)
    /\ c.state = "expect_sh2" =>
         /\ y.retry /\ c.enc = NoProtection /\ c.dec = NoProtection /\ c.pending = NoKey
         /\ c.sched = y.s2 /\ c.share = y.share2 /\ c.usingEarly = FALSE /\ c.certReq = FALSE
         /\ c.ccs = (y.compat /\ ~y.asks)
    /\ c.state \in ClientMiddle =>
         /\ c.enc = (IF Pends(y) THEN Ctx(y.ke, n) ELSE Ctx(y.kch, 0))
         /\ c.pending = (IF Pends(y) THEN y.kch ELSE NoKey)
         /\ c.isPsk = y.found /\ c.ccs = (y.compat /\ ~y.asks)
         /\ c.usingEarly = (IF c.state = "expect_ee" THEN Pends(y) ELSE y.accept)
         /\ c.certReq = (y.auth /\ c.state \notin {"expect_ee", "expect_cr_or_cert"})
    /\ c.state = "expect_ee" => c.sched = y.hs /\ c.dec = Ctx(y.ksh, 0)
    /\ c.state = "expect_cr_or_cert" => ~y.found /\ c.sched = y.see /\ c.dec = Ctx(y.ksh, 1)
    /\ c.state = "expect_cert" => ~y.found /\ y.auth /\ c.sched = y.scr /\ c.dec = Ctx(y.ksh, 2)
    /\ c.state = "expect_cv" => ~y.found /\ c.sched = y.scert /\ c.dec = Ctx(y.ksh, y.ncr + 1)
    /\ c.state = "expect_fin" => c.sched = y.scv /\ c.dec = Ctx(y.ksh, y.nfin)
    /\ c.state = "post" =>
         /\ c.usingEarly = FALSE /\ c.enc = Ctx(y.kca, m)
         /\ \E q \in Nat : /\ c.dec = Ctx(y.ksa, q)
                           /\ w = IF q <= y.tickets THEN 0 ELSE q - y.tickets

(* What it will read; al is the alert of a server that has failed, at the end. *)
FromServer(y, c, s, m, al, wire) ==
    /\ c.state = "start" => wire = <<>>
    /\ c.state = "expect_sh" => wire = SRetry(y, s.state, s.retries, m) \o al
    /\ c.state = "expect_sh2" =>
         wire = SRetryCcs(y, s.state, m) \o al \/ wire = SHello(y, s.state, m) \o al
    /\ c.state = "expect_ee" => wire = SCcs(y, s.state, m) \o al \/ wire = SExt(y, s.state, m) \o al
    /\ c.state = "expect_cr_or_cert" => wire = SRequest(y, s.state, m) \o al
    /\ c.state = "expect_cert" => wire = SCert(y, s.state, m) \o al
    /\ c.state = "expect_cv" => wire = SVerify(y, s.state, m) \o al
    /\ c.state = "expect_fin" => wire = SFin(y, s.state, m) \o al
    /\ c.state = "post" =>
         c.dec.seq <= y.tickets + m /\ wire = Run(y.server, c.dec.seq, y.tickets + m) \o al

ServerAlert(s, al) ==
    \/ al = <<>> /\ (s.error = "none" \/ s.done \/ s.state = "generating_cv")
    \/ s.error # "none" /\ \E r : al = <<r>> /\ r.msg.type = "alert"

(* A server that waits for the client's flight, past the 0-RTT data it does not read. *)
Waits(y, s) ==
    \/ s.state \in {"generating_cv", "expect_cert"}
    \/ s.state = "expect_fin" /\ ~y.auth /\ ~y.accept

(* A server that has not failed: a records of 0-RTT data and b of application data *)
(* delivered to it, m sent.                                                        *)
ServerAt(y, s, n, m, a, b) ==
    /\ s.accepted = (s.state \notin Unanswered /\ y.accept)
    /\ s.state \notin Flown => m = 0
    /\ s.state \in Unanswered =>
         /\ s.enc = NoProtection /\ s.dec = NoProtection /\ s.pending = NoKey
         /\ s.ccs = y.compat /\ s.done = FALSE /\ a = 0 /\ b = 0
         /\ IF s.retries = 1 /\ ~y.cookie THEN s.state = "expect_ch2" /\ s.sched = y.sr
            ELSE s.state = "expect_ch" /\ s.sched = EmptySchedule
         /\ IF s.state = "expect_ch2" /\ y.asks THEN s.skipped \in Nat ELSE s.skipped = -1
    /\ s.state \notin Unanswered =>
         /\ s.isPsk = y.found
         /\ IF y.skips THEN s.skipped \in Nat ELSE s.skipped = -1
    /\ s.state = "generating_cv" =>
         /\ ~y.found /\ s.enc = Ctx(y.ksh, y.ncr + 1) /\ s.dec = Ctx(y.kch, 0)
         /\ s.pending = NoKey /\ s.sched = y.scert /\ s.done = FALSE /\ a = 0 /\ b = 0
    /\ s.state \in Flown =>
         /\ s.enc = Ctx(y.ksa, y.tickets + m)
         /\ s.state # "post" => s.pendingAp = y.kca /\ b = 0
         /\ s.done = (~y.auth \/ s.state = "post")
    /\ s.state = "expect_eoed" =>
         y.accept /\ s.dec = Ctx(y.ke, a) /\ s.pending = y.kch /\ s.sched = y.sfin
    /\ s.state = "expect_cert" => y.auth /\ s.dec = Ctx(y.kch, 0) /\ s.sched = y.sfin /\ a = 0
    /\ s.state = "expect_cv" =>
         y.auth /\ y.cc /\ s.dec = Ctx(y.kch, 1) /\ s.sched = y.sccert /\ a = 0
    /\ s.state = "expect_fin" =>
         s.dec = Ctx(y.kch, y.nc) /\ s.sched = y.send /\ a = IF y.accept THEN n ELSE 0
    /\ s.state = "post" => s.dec = Ctx(y.kca, b) /\ a = IF y.accept THEN n ELSE 0

(* What it will read; al is the alert of a client that has failed. *)
RetryForm(y, st, n, m, al, wire) ==
    \/ wire = CCcs(y, st, n, m) \o al
    \/ \E k \in 0 .. n : wire = CEarly(y, k, st, n, m) \o al

EarlyForm(y, st, n, m, a, al, wire) ==
    \/ a = 0 /\ wire = CCcs(y, st, n, m) \o al
    \/ a <= n /\ wire = CEarly(y, a, st, n, m) \o al

WaitForm(y, st, n, m, al, wire) ==
    \/ ~y.retry /\ RetryForm(y, st, n, m, al, wire)
    \/ y.retry /\ wire = CEnd(y, st, n, m) \o al
    \/ st = "post" /\ wire = CCert(y, m) \o al

FromClient(y, s, st, n, m, a, b, al, wire) ==
    /\ s.state \in Unanswered /\ s.retries = 0 =>
         IF st = "start" THEN wire = <<>> ELSE wire = CHello(y, st, n, m) \o al
    /\ s.state \in Unanswered /\ s.retries = 1 => RetryForm(y, st, n, m, al, wire)
    /\ s.state = "expect_eoed" => EarlyForm(y, st, n, m, a, al, wire)
    /\ Waits(y, s) => WaitForm(y, st, n, m, al, wire)
    /\ s.state = "expect_cv" => wire = CVerify(y, m) \o al
    /\ s.state = "expect_fin" /\ ~Waits(y, s) => wire = CFin(y, m) \o al
    /\ s.state = "post" => b <= m /\ wire = Run(y.client, b, m) \o al

(* The alert of a client that has failed in its handshake is in the clear. *)
ClientAlert(c, al) ==
    \/ al = <<>> /\ (c.error = "none" \/ c.done)
    \/ /\ c.error # "none" /\ ~c.done
       /\ \E r : al = <<r>> /\ r.msg.type = "alert" /\ r.key = NoKey

(* How far each end can be ahead of the other, whoever has failed. *)
Always(y, c, s, n, m) ==
    /\ c.state \in ClientStates /\ s.state \in ServerStates
    /\ s.retries \in {0, 1}
    /\ ~y.asks => n = 0
    /\ c.state # "post" => m = 0
    /\ c.done = (c.state = "post")
    /\ c.state = "start" => c.error = "none" /\ s.error = "none"
    /\ s.retries = 1 => y.retry /\ y.group # "none" /\ c.state # "start"
    /\ s.state \notin Unanswered => c.state # "start" /\ (s.retries = 1 <=> y.retry)
    /\ y.retry /\ c.state \notin {"start", "expect_sh"} => s.retries = 1
    /\ y.retry /\ s.state \notin Unanswered => c.state # "expect_sh"
    /\ c.state \in ClientMiddle \cup {"post"} => s.state \notin Unanswered
    /\ c.state \in {"expect_fin", "post"} => s.state \in Flown
    /\ s.state \in {"expect_cv", "post"} => c.state = "post"
    /\ s.state = "expect_fin" /\ (y.accept \/ y.auth) => c.state = "post"
    /\ s.state = "generating_cv" => ~y.found

(* What has been delivered. *)
GotServer(y, c, s, g, n, m, a, b) ==
    /\ g = Numbered("early", a) \o Numbered("client", b)
    /\ a \in 0 .. n /\ b \in 0 .. m
    /\ ~s.accepted => a = 0
    /\ b > 0 => c.state = "post"
    /\ b > 0 /\ s.accepted => a = n
GotClient(g, m, w) == g = Numbered("server", w) /\ w \in 0 .. m

(* The part of the invariant about the client, and about the server. *)
ClientSide(y, c, s, n, m, ms, g, wire) ==
    \E w : /\ GotClient(g, ms, w)
           /\ c.error = "none" =>
                /\ ClientAt(y, c, n, m, w)
                /\ \E al : ServerAlert(s, al) /\ FromServer(y, c, s, ms, al, wire)

ServerSide(y, c, s, n, m, ms, g, wire) ==
    \E a, b : /\ GotServer(y, c, s, g, n, m, a, b)
              /\ s.error = "none" =>
                   /\ ServerAt(y, s, n, ms, a, b)
                   /\ \E al : ClientAlert(c, al) /\ FromClient(y, s, c.state, n, m, a, b, al, wire)

Counted == sent.early \in Nat /\ sent.client \in Nat /\ sent.server \in Nat
           /\ DOMAIN sent = {"early", "client", "server"} /\ DOMAIN got = {"client", "server"}

SyncAt(y) ==
    /\ Story(y)
    /\ Always(y, cl, sv, sent.early, sent.client)
    /\ ClientSide(y, cl, sv, sent.early, sent.client, sent.server, got.client, toClient)
    /\ ServerSide(y, cl, sv, sent.early, sent.client, sent.server, got.server, toServer)

SyncInv == HandshakeInv /\ Counted /\ \E y : SyncAt(y)

-----------------------------------------------------------------------------
(* Facts about the story. *)

(* The story is a matter of the configuration alone. *)
LEMMA StoryStays ==
  ASSUME NEW y, Story(y), cfg' = cfg
  PROVE  Story(y)'
<1>1. Identity' = Identity /\ External("server")' = External("server") /\ RetryGroup' = RetryGroup
  BY DEF Identity, External, RetryGroup
<1>2. Flags(y)'
  <2>1. Flags(y)
    BY DEF Story
  <2> QED BY <1>1, <2>1 DEF Flags
<1>3. Hellos(y)'
  BY DEF Story, Hellos
<1>4. Schedules(y)'
  BY DEF Story, Schedules
<1>5. Keys(y)'
  BY DEF Story, Keys
<1>6. Records(y)'
  BY DEF Story, Records
<1>7. Series(y)'
  BY DEF Story, Series
<1> QED BY <1>2, <1>3, <1>4, <1>5, <1>6, <1>7 DEF Story

(* The keys are told apart by their labels. *)
LEMMA KeyLabels ==
  ASSUME NEW y, Keys(y)
  PROVE  /\ y.ke.label = "c e" /\ y.ksh.label = "s hs" /\ y.kch.label = "c hs"
         /\ y.ksa.label = "s ap" /\ y.kca.label = "c ap" /\ NoKey.label = "none"
<1>1. \A l, s : Key(l, s).label = l
  BY DEF Key
<1>2. NoKey.label = "none"
  BY DEF NoKey
<1> QED BY <1>1, <1>2 DEF Keys

(* Keys with different labels are different, and none of them is no key. *)
LEMMA KeysDiffer ==
  ASSUME NEW y, Keys(y)
  PROVE  /\ NoKey \notin {y.ke, y.ksh, y.kch, y.ksa, y.kca}
         /\ y.ke \notin {y.ksh, y.kch, y.ksa, y.kca}
         /\ y.ksh \notin {y.kch, y.ksa, y.kca}
         /\ y.kch \notin {y.ksa, y.kca}
         /\ y.ksa # y.kca
<1>1. /\ y.ke.label = "c e" /\ y.ksh.label = "s hs" /\ y.kch.label = "c hs"
      /\ y.ksa.label = "s ap" /\ y.kca.label = "c ap" /\ NoKey.label = "none"
  BY KeyLabels
<1> QED BY <1>1

(* The fields of a record. *)
LEMMA WireFields ==
  ASSUME NEW k, NEW q, NEW m, NEW mac
  PROVE  /\ Wire(k, q, m, mac).key = k /\ Wire(k, q, m, mac).seq = q
         /\ Wire(k, q, m, mac).msg = m /\ Wire(k, q, m, mac).mac = mac
BY DEF Wire

(* The fields of a context. *)
LEMMA CtxFields ==
  ASSUME NEW k, NEW q
  PROVE  Ctx(k, q).key = k /\ Ctx(k, q).seq = q /\ DOMAIN Ctx(k, q) = ContextFields
BY DEF Ctx, ContextFields

(* What is in flight is a sequence. *)
LEMMA OptSeq ==
  ASSUME NEW b, NEW r
  PROVE  IsSeq(Opt(b, r))
BY ShortSeq DEF Opt

(* What the client sends is a sequence, from every place on. *)
LEMMA ClientStreams ==
  ASSUME NEW y, NEW st, NEW n \in Nat, NEW m \in Nat
  PROVE  /\ IsSeq(CFin(y, m)) /\ IsSeq(CVerify(y, m)) /\ IsSeq(CCert(y, m)) /\ IsSeq(CFlight(y, m))
         /\ IsSeq(CEnd(y, st, n, m)) /\ IsSeq(CRetry(y, st, n, m))
         /\ \A k \in 0 .. n : IsSeq(CEarly(y, k, st, n, m))
         /\ IsSeq(CCcs(y, st, n, m)) /\ IsSeq(CHello(y, st, n, m))
<1>1. IsSeq(Run(y.client, 0, m))
  <2>1. 0 \in Nat /\ 0 <= m
    OBVIOUS
  <2> QED BY <2>1, RunSeq, ZenonT(30)
<1>2. IsSeq(CFin(y, m))
  BY <1>1, Peel DEF CFin
<1>3. IsSeq(CVerify(y, m))
  BY <1>2, OptSeq, CatSeq DEF CVerify
<1>4. IsSeq(CCert(y, m))
  BY <1>3, OptSeq, CatSeq DEF CCert
<1>5. IsSeq(CFlight(y, m))
  BY <1>4, OptSeq, CatSeq DEF CFlight
<1>6. IsSeq(CEnd(y, st, n, m))
  BY <1>5, OptSeq, CatSeq, ShortSeq DEF CEnd
<1>7. IsSeq(CRetry(y, st, n, m))
  BY <1>6, OptSeq, CatSeq DEF CRetry
<1>8. ASSUME NEW k \in 0 .. n PROVE IsSeq(CEarly(y, k, st, n, m))
  <2>1. IsSeq(Run(y.early, k, n))
    <3>1. k \in Nat /\ k <= n
      OBVIOUS
    <3> QED BY <3>1, RunSeq, ZenonT(30)
  <2> QED BY <1>7, <2>1, CatSeq DEF CEarly
<1>9. IsSeq(CCcs(y, st, n, m))
  BY <1>8, OptSeq, CatSeq DEF CCcs
<1>10. IsSeq(CHello(y, st, n, m))
  BY <1>9, Peel DEF CHello
<1> QED BY <1>2, <1>3, <1>4, <1>5, <1>6, <1>7, <1>8, <1>9, <1>10

(* What the server sends is a sequence, from every place on. *)
LEMMA ServerStreams ==
  ASSUME NEW y, y.tickets \in Nat, NEW st, NEW ret, NEW m \in Nat
  PROVE  /\ IsSeq(SFin(y, st, m)) /\ IsSeq(SVerify(y, st, m)) /\ IsSeq(SCert(y, st, m))
         /\ IsSeq(SRequest(y, st, m)) /\ IsSeq(SExt(y, st, m)) /\ IsSeq(SCcs(y, st, m))
         /\ IsSeq(SHello(y, st, m)) /\ IsSeq(SRetryCcs(y, st, m)) /\ IsSeq(SRetry(y, st, ret, m))
<1>1. IsSeq(Run(y.server, 0, y.tickets + m))
  <2>1. 0 \in Nat /\ y.tickets + m \in Nat /\ 0 <= y.tickets + m
    OBVIOUS
  <2> QED BY <2>1, RunSeq, ZenonT(30)
<1>2. IsSeq(SFin(y, st, m))
  BY <1>1, Peel, ShortSeq DEF SFin
<1>3. IsSeq(SVerify(y, st, m))
  BY <1>2, OptSeq, CatSeq DEF SVerify
<1>4. IsSeq(SCert(y, st, m))
  BY <1>3, OptSeq, CatSeq DEF SCert
<1>5. IsSeq(SRequest(y, st, m))
  BY <1>4, OptSeq, CatSeq DEF SRequest
<1>6. IsSeq(SExt(y, st, m))
  BY <1>5, Peel DEF SExt
<1>7. IsSeq(SCcs(y, st, m))
  BY <1>6, OptSeq, CatSeq DEF SCcs
<1>8. IsSeq(SHello(y, st, m))
  BY <1>7, Peel, ShortSeq DEF SHello
<1>9. IsSeq(SRetryCcs(y, st, m))
  BY <1>8, OptSeq, CatSeq DEF SRetryCcs
<1>10. IsSeq(SRetry(y, st, ret, m))
  BY <1>8, <1>9, Peel DEF SRetry
<1> QED BY <1>2, <1>3, <1>4, <1>5, <1>6, <1>7, <1>8, <1>9, <1>10
-----------------------------------------------------------------------------
(* Reading: which record comes next. *)

(* A record that may be missing. *)
LEMMA OptThere ==
  ASSUME NEW b, b, NEW r, NEW s, NEW t, IsSeq(s), IsSeq(t)
  PROVE  Starts((Opt(b, r) \o s) \o t, r, s \o t)
<1>1. Opt(b, r) = <<r>>
  BY DEF Opt
<1> QED BY <1>1, PeelMore

(* A record that is missing leaves what follows it. *)
LEMMA OptNone ==
  ASSUME NEW b, ~b, NEW r, NEW s, IsSeq(s)
  PROVE  Opt(b, r) \o s = s
<1>1. Opt(b, r) = <<>>
  BY DEF Opt
<1>2. <<>> \o s = s
  BY CatLaws
<1> QED BY <1>1, <1>2

(* The flags are truth values and the tickets a number. *)
LEMMA FlagTypes ==
  ASSUME NEW y, Flags(y), cfg \in Config
  PROVE  /\ y.auth \in BOOLEAN /\ y.cc \in BOOLEAN /\ y.compat \in BOOLEAN /\ y.cookie \in BOOLEAN
         /\ y.ext \in BOOLEAN /\ y.has1 \in BOOLEAN /\ y.asks \in BOOLEAN /\ y.retry \in BOOLEAN
         /\ y.found \in BOOLEAN /\ y.accept \in BOOLEAN /\ y.skips \in BOOLEAN
         /\ y.tickets \in Nat
         /\ y.found => ~y.auth
         /\ y.accept => y.found /\ y.asks /\ ~y.retry
         /\ y.skips <=> (y.asks /\ ~y.accept /\ ~(y.retry /\ y.cookie))
<1>1. /\ cfg.auth \in BOOLEAN /\ cfg.clientCert \in BOOLEAN /\ cfg.compat \in BOOLEAN
      /\ cfg.cookie \in BOOLEAN /\ cfg.early \in BOOLEAN /\ cfg.enforceRetry \in BOOLEAN
      /\ cfg.acceptEarly \in BOOLEAN /\ cfg.tickets \in Nat
  BY DEF Config
<1>2. /\ y.auth \in BOOLEAN /\ y.cc \in BOOLEAN /\ y.compat \in BOOLEAN /\ y.cookie \in BOOLEAN
      /\ y.tickets \in Nat
  BY <1>1 DEF Flags
<1>3. /\ y.ext \in BOOLEAN /\ y.has1 \in BOOLEAN /\ y.asks \in BOOLEAN /\ y.retry \in BOOLEAN
      /\ y.found \in BOOLEAN /\ y.accept \in BOOLEAN /\ y.skips \in BOOLEAN
  <2>1. y.ext \in BOOLEAN
    <3>1. y.ext = (cfg.psk \in {"external", "server"})
      BY DEF Flags, External
    <3>2. (cfg.psk \in {"external", "server"}) \in BOOLEAN
      OBVIOUS
    <3> QED BY <3>1, <3>2
  <2>2. y.has1 \in BOOLEAN
    <3>1. y.has1 = (y.share1 \in cfg.groups)
      BY DEF Flags
    <3>2. (y.share1 \in cfg.groups) \in BOOLEAN
      OBVIOUS
    <3> QED BY <3>1, <3>2
  <2>3. y.asks \in BOOLEAN
    BY Zenon DEF Flags
  <2>4. y.retry \in BOOLEAN
    BY Zenon DEF Flags
  <2>5. y.found \in BOOLEAN
    BY Zenon DEF Flags
  <2>6. y.accept \in BOOLEAN
    BY Zenon DEF Flags
  <2>7. y.skips \in BOOLEAN
    BY Zenon DEF Flags
  <2> QED BY <2>1, <2>2, <2>3, <2>4, <2>5, <2>6, <2>7
<1>4. /\ y.found => ~y.auth
      /\ y.accept => y.found /\ y.asks /\ ~y.retry
      /\ y.skips <=> (y.asks /\ ~y.accept /\ ~(y.retry /\ y.cookie))
  <2>1. y.found => ~y.auth
    BY Zenon DEF Flags
  <2>2. y.accept => y.found /\ y.asks /\ ~y.retry
    BY Zenon DEF Flags
  <2>3. y.skips <=> (y.asks /\ ~y.accept /\ ~(y.retry /\ y.cookie))
    BY Zenon DEF Flags
  <2> QED BY <2>1, <2>2, <2>3
<1> QED BY <1>2, <1>3, <1>4

(* What a client that has not failed reads next. *)
ClientReads(y, c, s, m, al, wire) ==
    \/ al # <<>> /\ wire = al
    \/ /\ c.state = "expect_sh" /\ s.retries = 1
       /\ Starts(wire, y.rhrr, SRetryCcs(y, s.state, m) \o al)
    \/ /\ c.state = "expect_sh" /\ s.retries # 1 /\ s.state \notin Unanswered
       /\ Starts(wire, y.rsh, SCcs(y, s.state, m) \o al)
    \/ /\ c.state = "expect_sh2"
       /\ Starts(wire, CcsRec, SHello(y, s.state, m) \o al)
    \/ /\ c.state = "expect_sh2" /\ s.state \notin Unanswered
       /\ Starts(wire, y.rsh, SCcs(y, s.state, m) \o al)
    \/ /\ c.state = "expect_ee"
       /\ Starts(wire, CcsRec, SExt(y, s.state, m) \o al)
    \/ /\ c.state = "expect_ee"
       /\ Starts(wire, y.ree, SRequest(y, s.state, m) \o al)
    \/ /\ c.state = "expect_cr_or_cert" /\ y.auth
       /\ Starts(wire, y.rcr, SCert(y, s.state, m) \o al)
    \/ /\ c.state = "expect_cert" \/ (c.state = "expect_cr_or_cert" /\ ~y.auth)
       /\ Starts(wire, y.rcert, SVerify(y, s.state, m) \o al)
    \/ /\ c.state = "expect_cv" /\ s.state \in Flown
       /\ Starts(wire, y.rcv, SFin(y, s.state, m) \o al)
    \/ /\ c.state = "expect_fin" /\ s.state \in Flown
       /\ Starts(wire, y.rfin, Run(y.server, 0, y.tickets + m) \o al)
    \/ /\ c.state = "post" /\ c.dec.seq < y.tickets + m
       /\ Starts(wire, y.server[c.dec.seq], Run(y.server, c.dec.seq + 1, y.tickets + m) \o al)

(* The record in front of a client is one of those its state allows. *)
LEMMA ClientReadsNext ==
  ASSUME NEW y, Flags(y), cfg \in Config, NEW c, NEW s, NEW m \in Nat, NEW al, IsSeq(al), NEW wire,
         FromServer(y, c, s, m, al, wire), wire # <<>>, c.state \in ClientStates,
         c.state \in {"expect_cr_or_cert", "expect_cert", "expect_cv"} => ~y.found,
         c.state = "expect_cert" => y.auth,
         c.state = "expect_fin" => s.state \in Flown,
         c.state = "post" => c.dec.seq \in Nat
  PROVE  ClientReads(y, c, s, m, al, wire)
<1> DEFINE st == s.state
<1>1. /\ y.tickets \in Nat /\ y.auth \in BOOLEAN /\ y.compat \in BOOLEAN /\ y.cookie \in BOOLEAN
      /\ y.found \in BOOLEAN
  BY FlagTypes
<1>2. /\ IsSeq(SFin(y, st, m)) /\ IsSeq(SVerify(y, st, m)) /\ IsSeq(SCert(y, st, m))
      /\ IsSeq(SRequest(y, st, m)) /\ IsSeq(SExt(y, st, m)) /\ IsSeq(SCcs(y, st, m))
      /\ IsSeq(SHello(y, st, m)) /\ IsSeq(SRetryCcs(y, st, m))
  BY <1>1, ServerStreams
<1> HIDE DEF st
<1>3. <<>> \o al = al
  BY CatLaws
<1>4. ASSUME wire = SHello(y, st, m) \o al
      PROVE  \/ al # <<>> /\ wire = al
             \/ st \notin Unanswered /\ Starts(wire, y.rsh, SCcs(y, st, m) \o al)
  <2>1. CASE st \in Unanswered
    BY <1>3, <1>4, <2>1 DEF SHello
  <2>2. CASE st \notin Unanswered
    <3>1. SHello(y, st, m) = <<y.rsh>> \o SCcs(y, st, m)
      BY <2>2 DEF SHello
    <3> QED BY <1>2, <1>4, <2>2, <3>1, PeelMore, ZenonT(30)
  <2> QED BY <2>1, <2>2
<1>5. ASSUME wire = SExt(y, st, m) \o al
      PROVE  Starts(wire, y.ree, SRequest(y, st, m) \o al)
  <2>1. SExt(y, st, m) = <<y.ree>> \o SRequest(y, st, m)
    BY DEF SExt
  <2> QED BY <1>2, <1>5, <2>1, PeelMore, ZenonT(30)
<1>6. CASE c.state = "start"
  BY <1>6 DEF FromServer
<1>7. CASE c.state = "expect_sh"
  <2>1. wire = SRetry(y, st, s.retries, m) \o al
    BY <1>7 DEF FromServer, st
  <2>2. CASE s.retries = 1
    <3>1. Starts(wire, y.rhrr, SRetryCcs(y, st, m) \o al)
      <4>1. SRetry(y, st, s.retries, m) = <<y.rhrr>> \o SRetryCcs(y, st, m)
        BY <2>2 DEF SRetry
      <4> QED BY <1>2, <2>1, <4>1, PeelMore, ZenonT(30)
    <3> QED BY <1>7, <2>2, <3>1 DEF ClientReads, st
  <2>3. CASE s.retries # 1
    <3>1. wire = SHello(y, st, m) \o al
      BY <2>1, <2>3 DEF SRetry
    <3> QED BY <1>4, <1>7, <2>3, <3>1 DEF ClientReads, st
  <2> QED BY <2>2, <2>3
<1>8. CASE c.state = "expect_sh2"
  <2>1. CASE wire = SHello(y, st, m) \o al
    BY <1>4, <1>8, <2>1 DEF ClientReads, st
  <2>2. CASE wire = SRetryCcs(y, st, m) \o al
    <3>2. CASE y.compat /\ y.cookie
      <4>1. Starts(wire, CcsRec, SHello(y, st, m) \o al)
        BY <1>2, <2>2, <3>2, OptThere, ZenonT(30) DEF SRetryCcs
      <4> QED BY <1>8, <4>1 DEF ClientReads, st
    <3>3. CASE ~(y.compat /\ y.cookie)
      <4>1. SRetryCcs(y, st, m) = SHello(y, st, m)
        BY <1>2, <3>3, OptNone, ZenonT(30) DEF SRetryCcs
      <4> QED BY <1>4, <1>8, <2>2, <4>1 DEF ClientReads, st
    <3> QED BY <3>2, <3>3
  <2> QED BY <1>8, <2>1, <2>2 DEF FromServer, st
<1>9. CASE c.state = "expect_ee"
  <2>1. CASE wire = SExt(y, st, m) \o al
    BY <1>5, <1>9, <2>1 DEF ClientReads, st
  <2>2. CASE wire = SCcs(y, st, m) \o al
    <3>2. CASE y.compat
      <4>1. Starts(wire, CcsRec, SExt(y, st, m) \o al)
        BY <1>2, <2>2, <3>2, OptThere, ZenonT(30) DEF SCcs
      <4> QED BY <1>9, <4>1 DEF ClientReads, st
    <3>3. CASE ~y.compat
      <4>1. SCcs(y, st, m) = SExt(y, st, m)
        BY <1>2, <3>3, OptNone, ZenonT(30) DEF SCcs
      <4> QED BY <1>5, <1>9, <2>2, <4>1 DEF ClientReads, st
    <3> QED BY <3>2, <3>3
  <2> QED BY <1>9, <2>1, <2>2 DEF FromServer, st
<1>10. ASSUME wire = SCert(y, st, m) \o al, ~y.found
       PROVE  Starts(wire, y.rcert, SVerify(y, st, m) \o al)
  BY <1>2, <1>10, OptThere, ZenonT(30) DEF SCert
<1>11. CASE c.state = "expect_cr_or_cert"
  <2>1. wire = SRequest(y, st, m) \o al
    BY <1>11 DEF FromServer, st
  <2>2. CASE y.auth
    <3>1. Starts(wire, y.rcr, SCert(y, st, m) \o al)
      BY <1>2, <2>1, <2>2, OptThere, ZenonT(30) DEF SRequest
    <3> QED BY <1>11, <2>2, <3>1 DEF ClientReads, st
  <2>3. CASE ~y.auth
    <3>1. SRequest(y, st, m) = SCert(y, st, m)
      BY <1>2, <2>3, OptNone, ZenonT(30) DEF SRequest
    <3>2. Starts(wire, y.rcert, SVerify(y, st, m) \o al)
      BY <1>10, <1>11, <2>1, <3>1
    <3> QED BY <1>11, <2>3, <3>2 DEF ClientReads, st
  <2> QED BY <2>2, <2>3
<1>12. CASE c.state = "expect_cert"
  <2>1. wire = SCert(y, st, m) \o al
    BY <1>12 DEF FromServer, st
  <2>2. Starts(wire, y.rcert, SVerify(y, st, m) \o al)
    BY <1>10, <1>12, <2>1
  <2> QED BY <1>12, <2>2 DEF ClientReads, st
<1>13. CASE c.state = "expect_cv"
  <2>1. wire = SVerify(y, st, m) \o al
    BY <1>13 DEF FromServer, st
  <2>2. CASE st \in Flown
    <3>1. Starts(wire, y.rcv, SFin(y, st, m) \o al)
      <4>1. ~y.found /\ st \in Flown
        BY <1>13, <2>2
      <4> QED BY <1>2, <2>1, <4>1, OptThere, ZenonT(30) DEF SVerify
    <3> QED BY <1>13, <2>2, <3>1 DEF ClientReads, st
  <2>3. CASE st \notin Flown
    <3>1. SFin(y, st, m) = <<>>
      BY <2>3 DEF SFin
    <3>2. SVerify(y, st, m) = <<>> \o <<>>
      BY <2>3, <3>1 DEF SVerify, Opt
    <3>3. <<>> \o <<>> = <<>>
      OBVIOUS
    <3>4. wire = al
      BY <1>3, <2>1, <3>2, <3>3
    <3> QED BY <3>4 DEF ClientReads
  <2> QED BY <2>2, <2>3
<1>14. CASE c.state = "expect_fin"
  <2>1. wire = SFin(y, st, m) \o al /\ st \in Flown
    BY <1>14 DEF FromServer, st
  <2>2. 0 \in Nat /\ y.tickets + m \in Nat /\ 0 <= y.tickets + m
    BY <1>1
  <2>3. IsSeq(Run(y.server, 0, y.tickets + m))
    BY <2>2, RunSeq, ZenonT(30)
  <2>4. Starts(wire, y.rfin, Run(y.server, 0, y.tickets + m) \o al)
    <3>1. SFin(y, st, m) = <<y.rfin>> \o Run(y.server, 0, y.tickets + m)
      BY <2>1 DEF SFin
    <3> QED BY <2>1, <2>3, <3>1, PeelMore, ZenonT(30)
  <2> QED BY <1>14, <2>1, <2>4 DEF ClientReads, st
<1>15. CASE c.state = "post"
  <2> DEFINE q == c.dec.seq
             e == y.tickets + m
  <2>1. q \in Nat /\ e \in Nat /\ q <= e /\ wire = Run(y.server, q, e) \o al
    BY <1>1, <1>15 DEF FromServer
  <2> HIDE DEF q, e
  <2>2. CASE q = e
    <3>1. Run(y.server, q, e) = <<>>
      BY <2>1, <2>2, RunSeq, ZenonT(30)
    <3> QED BY <1>3, <2>1, <3>1 DEF ClientReads
  <2>3. CASE q # e
    <3>1. q < e /\ q + 1 \in Nat /\ q + 1 <= e
      BY <2>1, <2>3
    <3>2. Run(y.server, q, e) = <<y.server[q]>> \o Run(y.server, q + 1, e)
      BY <2>1, <3>1, RunFirst, ZenonT(30)
    <3>3. IsSeq(Run(y.server, q + 1, e))
      BY <2>1, <3>1, RunSeq, ZenonT(30)
    <3>4. Starts(wire, y.server[q], Run(y.server, q + 1, e) \o al)
      BY <2>1, <3>2, <3>3, PeelMore
    <3> QED BY <1>15, <3>1, <3>4 DEF ClientReads, q, e
  <2> QED BY <2>2, <2>3
<1> QED BY <1>6, <1>7, <1>8, <1>9, <1>11, <1>12, <1>13, <1>14, <1>15 DEF ClientStates

(* What the client sends opens piece by piece. *)
ClientOpens(y, st, n, m, al) ==
    /\ Starts(CFin(y, m) \o al, y.rcfin, Run(y.client, 0, m) \o al)
    /\ IF y.auth /\ y.cc THEN Starts(CVerify(y, m) \o al, y.rccv, CFin(y, m) \o al)
       ELSE CVerify(y, m) = CFin(y, m)
    /\ IF y.auth THEN Starts(CCert(y, m) \o al, y.rccert, CVerify(y, m) \o al)
       ELSE CCert(y, m) = CVerify(y, m)
    /\ IF y.compat /\ ~y.asks THEN Starts(CFlight(y, m) \o al, CcsRec, CCert(y, m) \o al)
       ELSE CFlight(y, m) = CCert(y, m)
    /\ IF st # "post" THEN CEnd(y, st, n, m) \o al = al
       ELSE IF y.accept THEN Starts(CEnd(y, st, n, m) \o al, Eoed(y, n), CFlight(y, m) \o al)
       ELSE CEnd(y, st, n, m) = CFlight(y, m)
    /\ IF y.retry /\ st # "expect_sh"
       THEN Starts(CRetry(y, st, n, m) \o al, y.rch2, CEnd(y, st, n, m) \o al)
       ELSE CRetry(y, st, n, m) = CEnd(y, st, n, m)
    /\ CEarly(y, n, st, n, m) = CRetry(y, st, n, m)
    /\ IF y.compat /\ y.asks
       THEN Starts(CCcs(y, st, n, m) \o al, CcsRec, CEarly(y, 0, st, n, m) \o al)
       ELSE CCcs(y, st, n, m) = CEarly(y, 0, st, n, m)
    /\ Starts(CHello(y, st, n, m) \o al, y.rch1, CCcs(y, st, n, m) \o al)

(* The records of the client's stream, one after the other. *)
LEMMA ClientStreamOpens ==
  ASSUME NEW y, NEW st, NEW n \in Nat, NEW m \in Nat, NEW al, IsSeq(al)
  PROVE  ClientOpens(y, st, n, m, al)
<1>1. /\ IsSeq(CFin(y, m)) /\ IsSeq(CVerify(y, m)) /\ IsSeq(CCert(y, m)) /\ IsSeq(CFlight(y, m))
      /\ IsSeq(CEnd(y, st, n, m)) /\ IsSeq(CRetry(y, st, n, m))
      /\ \A k \in 0 .. n : IsSeq(CEarly(y, k, st, n, m))
      /\ IsSeq(CCcs(y, st, n, m)) /\ IsSeq(CHello(y, st, n, m))
  BY ClientStreams
<1>2. 0 \in Nat /\ 0 <= m /\ 0 <= n /\ 0 \in 0 .. n /\ n <= n
  OBVIOUS
<1>3. IsSeq(CEarly(y, 0, st, n, m))
  BY <1>1, <1>2
<1>4. IsSeq(Run(y.client, 0, m)) /\ Run(y.early, n, n) = <<>>
  BY <1>2, RunSeq, ZenonT(30)
<1>5. Starts(CFin(y, m) \o al, y.rcfin, Run(y.client, 0, m) \o al)
  BY <1>4, PeelMore DEF CFin
<1>8. IF y.auth /\ y.cc THEN Starts(CVerify(y, m) \o al, y.rccv, CFin(y, m) \o al)
      ELSE CVerify(y, m) = CFin(y, m)
  BY <1>1, OptThere, OptNone DEF CVerify
<1>9. IF y.auth THEN Starts(CCert(y, m) \o al, y.rccert, CVerify(y, m) \o al)
      ELSE CCert(y, m) = CVerify(y, m)
  BY <1>1, OptThere, OptNone DEF CCert
<1>10. IF y.compat /\ ~y.asks THEN Starts(CFlight(y, m) \o al, CcsRec, CCert(y, m) \o al)
       ELSE CFlight(y, m) = CCert(y, m)
  BY <1>1, OptThere, OptNone DEF CFlight
<1>11. IF st # "post" THEN CEnd(y, st, n, m) \o al = al
       ELSE IF y.accept THEN Starts(CEnd(y, st, n, m) \o al, Eoed(y, n), CFlight(y, m) \o al)
       ELSE CEnd(y, st, n, m) = CFlight(y, m)
  <2>1. <<>> \o al = al
    BY CatLaws
  <2> QED BY <1>1, <2>1, OptThere, OptNone DEF CEnd
<1>12. IF y.retry /\ st # "expect_sh"
       THEN Starts(CRetry(y, st, n, m) \o al, y.rch2, CEnd(y, st, n, m) \o al)
       ELSE CRetry(y, st, n, m) = CEnd(y, st, n, m)
  BY ZenonT(60), <1>1, OptThere, OptNone DEF CRetry
<1>13. CEarly(y, n, st, n, m) = CRetry(y, st, n, m)
  <2>1. <<>> \o CRetry(y, st, n, m) = CRetry(y, st, n, m)
    BY <1>1, CatLaws
  <2> QED BY <1>4, <2>1 DEF CEarly
<1>14. IF y.compat /\ y.asks
       THEN Starts(CCcs(y, st, n, m) \o al, CcsRec, CEarly(y, 0, st, n, m) \o al)
       ELSE CCcs(y, st, n, m) = CEarly(y, 0, st, n, m)
  BY <1>3, OptThere, OptNone DEF CCcs
<1>15. Starts(CHello(y, st, n, m) \o al, y.rch1, CCcs(y, st, n, m) \o al)
  BY <1>1, PeelMore DEF CHello
<1> QED BY <1>5, <1>8, <1>9, <1>10, <1>11, <1>12, <1>13, <1>14, <1>15 DEF ClientOpens

(* The 0-RTT data in it. *)
LEMMA EarlyOpens ==
  ASSUME NEW y, NEW st, NEW n \in Nat, NEW m \in Nat, NEW al, IsSeq(al), NEW k \in 0 .. n, k # n
  PROVE  k + 1 \in 0 .. n /\ Starts(CEarly(y, k, st, n, m) \o al, y.early[k], CEarly(y, k + 1, st, n, m) \o al)
<1>1. k \in Nat /\ k < n /\ k + 1 \in Nat /\ k + 1 <= n /\ k + 1 \in 0 .. n
  OBVIOUS
<1>2. Run(y.early, k, n) = <<y.early[k]>> \o Run(y.early, k + 1, n)
  BY <1>1, RunFirst, ZenonT(30)
<1>3. IsSeq(Run(y.early, k + 1, n))
  BY <1>1, RunSeq, ZenonT(30)
<1>4. IsSeq(CRetry(y, st, n, m))
  BY ClientStreams
<1>5. IsSeq(CEarly(y, k + 1, st, n, m))
  BY <1>3, <1>4, CatSeq DEF CEarly
<1>6. IsSeq(<<y.early[k]>>)
  BY ShortSeq
<1>7. CEarly(y, k, st, n, m) = <<y.early[k]>> \o CEarly(y, k + 1, st, n, m)
  BY <1>2, <1>3, <1>4, <1>6, CatAssoc DEF CEarly
<1> QED BY <1>1, <1>5, <1>7, PeelMore

(* What a server that has not failed reads next. *)
ServerReads(y, s, st, n, m, a, b, al, wire) ==
    \/ al # <<>> /\ wire = al
    \/ /\ s.state \in Unanswered /\ s.retries = 0 /\ st # "start"
       /\ Starts(wire, y.rch1, CCcs(y, st, n, m) \o al)
    \/ /\ s.state # "post"
       /\ \E t : Starts(wire, CcsRec, t) /\ FromClient(y, s, st, n, m, a, b, al, t)
    \/ /\ (s.state \in Unanswered /\ s.retries = 1) \/ (Waits(y, s) /\ ~y.retry)
       /\ \E k \in 0 .. n : \E t : /\ k # n /\ Starts(wire, y.early[k], t)
                                   /\ FromClient(y, s, st, n, m, a, b, al, t)
    \/ /\ s.state = "expect_eoed" /\ a \in 0 .. n /\ a # n
       /\ Starts(wire, y.early[a], CEarly(y, a + 1, st, n, m) \o al)
    \/ /\ s.state \in Unanswered /\ s.retries = 1 /\ st # "expect_sh"
       /\ Starts(wire, y.rch2, CEnd(y, st, n, m) \o al)
    \/ /\ s.state = "expect_eoed" /\ a = n /\ st = "post"
       /\ Starts(wire, Eoed(y, n), CFin(y, m) \o al)
    \/ s.state = "expect_cert" /\ st = "post" /\ Starts(wire, y.rccert, CVerify(y, m) \o al)
    \/ s.state = "expect_cv" /\ Starts(wire, y.rccv, CFin(y, m) \o al)
    \/ s.state = "expect_fin" /\ st = "post" /\ Starts(wire, y.rcfin, Run(y.client, 0, m) \o al)
    \/ /\ s.state = "post" /\ b < m
       /\ Starts(wire, y.client[b], Run(y.client, b + 1, m) \o al)

(* A client's flight read by a server that waits for it. *)
LEMMA FlightOpens ==
  ASSUME NEW y, NEW n \in Nat, NEW m \in Nat, NEW al, IsSeq(al), NEW wire, ~y.accept,
         \/ wire = CEnd(y, "post", n, m) \o al
         \/ wire = CCert(y, m) \o al
  PROVE  \/ Starts(wire, CcsRec, CCert(y, m) \o al)
         \/ y.auth /\ Starts(wire, y.rccert, CVerify(y, m) \o al)
         \/ ~y.auth /\ Starts(wire, y.rcfin, Run(y.client, 0, m) \o al)
<1>1. /\ Starts(CFin(y, m) \o al, y.rcfin, Run(y.client, 0, m) \o al)
      /\ IF y.auth /\ y.cc THEN Starts(CVerify(y, m) \o al, y.rccv, CFin(y, m) \o al)
         ELSE CVerify(y, m) = CFin(y, m)
      /\ IF y.auth THEN Starts(CCert(y, m) \o al, y.rccert, CVerify(y, m) \o al)
         ELSE CCert(y, m) = CVerify(y, m)
      /\ IF y.compat /\ ~y.asks THEN Starts(CFlight(y, m) \o al, CcsRec, CCert(y, m) \o al)
         ELSE CFlight(y, m) = CCert(y, m)
  <2>1. ClientOpens(y, "post", n, m, al)
    BY ClientStreamOpens
  <2> QED BY <2>1 DEF ClientOpens
<1>2. CEnd(y, "post", n, m) = CFlight(y, m)
  <2>1. IsSeq(CFlight(y, m))
    BY ClientStreams
  <2> QED BY <2>1, OptNone DEF CEnd
<1>3. \/ y.auth /\ Starts(CCert(y, m) \o al, y.rccert, CVerify(y, m) \o al)
      \/ ~y.auth /\ Starts(CCert(y, m) \o al, y.rcfin, Run(y.client, 0, m) \o al)
  BY <1>1
<1> QED BY <1>1, <1>2, <1>3

(* What a server that waits for the flight reads, and what is left. *)
LEMMA WaitOpens ==
  ASSUME NEW y, NEW st, NEW n \in Nat, NEW m \in Nat, NEW al, IsSeq(al), NEW wire,
         ~y.accept, WaitForm(y, st, n, m, al, wire), wire # <<>>
  PROVE  \/ al # <<>> /\ wire = al
         \/ \E t : Starts(wire, CcsRec, t) /\ WaitForm(y, st, n, m, al, t)
         \/ ~y.retry /\ \E k \in 0 .. n : \E t :
               k # n /\ Starts(wire, y.early[k], t) /\ WaitForm(y, st, n, m, al, t)
         \/ st = "post" /\ y.auth /\ Starts(wire, y.rccert, CVerify(y, m) \o al)
         \/ st = "post" /\ ~y.auth /\ Starts(wire, y.rcfin, Run(y.client, 0, m) \o al)
<1> DEFINE G == \/ al # <<>> /\ wire = al
                \/ \E t : Starts(wire, CcsRec, t) /\ WaitForm(y, st, n, m, al, t)
                \/ ~y.retry /\ \E k \in 0 .. n : \E t :
                      k # n /\ Starts(wire, y.early[k], t) /\ WaitForm(y, st, n, m, al, t)
                \/ st = "post" /\ y.auth /\ Starts(wire, y.rccert, CVerify(y, m) \o al)
                \/ st = "post" /\ ~y.auth /\ Starts(wire, y.rcfin, Run(y.client, 0, m) \o al)
<1>1. /\ IF st # "post" THEN CEnd(y, st, n, m) \o al = al
         ELSE IF y.accept THEN Starts(CEnd(y, st, n, m) \o al, Eoed(y, n), CFlight(y, m) \o al)
         ELSE CEnd(y, st, n, m) = CFlight(y, m)
      /\ IF y.retry /\ st # "expect_sh"
         THEN Starts(CRetry(y, st, n, m) \o al, y.rch2, CEnd(y, st, n, m) \o al)
         ELSE CRetry(y, st, n, m) = CEnd(y, st, n, m)
      /\ CEarly(y, n, st, n, m) = CRetry(y, st, n, m)
      /\ IF y.compat /\ y.asks
         THEN Starts(CCcs(y, st, n, m) \o al, CcsRec, CEarly(y, 0, st, n, m) \o al)
         ELSE CCcs(y, st, n, m) = CEarly(y, 0, st, n, m)
  <2>1. ClientOpens(y, st, n, m, al)
    BY ClientStreamOpens
  <2> QED BY <2>1 DEF ClientOpens
<1>2. ASSUME wire = CEnd(y, st, n, m) \o al \/ (st = "post" /\ wire = CCert(y, m) \o al)
      PROVE  G
  <2>1. CASE st # "post"
    BY <1>1, <1>2, <2>1
  <2>2. CASE st = "post"
    <3>1. \/ Starts(wire, CcsRec, CCert(y, m) \o al)
          \/ y.auth /\ Starts(wire, y.rccert, CVerify(y, m) \o al)
          \/ ~y.auth /\ Starts(wire, y.rcfin, Run(y.client, 0, m) \o al)
      BY <1>2, <2>2, FlightOpens
    <3>2. WaitForm(y, st, n, m, al, CCert(y, m) \o al)
      BY <2>2 DEF WaitForm
    <3> QED BY <2>2, <3>1, <3>2
  <2> QED BY <2>1, <2>2
<1>3. ASSUME ~y.retry, NEW k \in 0 .. n, wire = CEarly(y, k, st, n, m) \o al
      PROVE  G
  <2>1. CASE k = n
    BY <1>1, <1>2, <1>3, <2>1
  <2>2. CASE k # n
    <3>1. k + 1 \in 0 .. n
          /\ Starts(CEarly(y, k, st, n, m) \o al, y.early[k], CEarly(y, k + 1, st, n, m) \o al)
      BY <2>2, EarlyOpens
    <3>2. WaitForm(y, st, n, m, al, CEarly(y, k + 1, st, n, m) \o al)
      BY <1>3, <3>1 DEF WaitForm, RetryForm
    <3> HIDE DEF G
    <3>3. k # n /\ Starts(wire, y.early[k], CEarly(y, k + 1, st, n, m) \o al)
      BY <1>3, <2>2, <3>1
    <3> QED BY <1>3, <3>2, <3>3 DEF G
  <2> QED BY <2>1, <2>2
<1>4. ASSUME ~y.retry, wire = CCcs(y, st, n, m) \o al
      PROVE  G
  <2>0. 0 \in 0 .. n
    OBVIOUS
  <2>1. CASE y.compat /\ y.asks
    <3>1. Starts(wire, CcsRec, CEarly(y, 0, st, n, m) \o al)
      BY <1>1, <1>4, <2>1
    <3>2. WaitForm(y, st, n, m, al, CEarly(y, 0, st, n, m) \o al)
      BY <1>4, <2>0 DEF WaitForm, RetryForm
    <3> QED BY <3>1, <3>2
  <2>2. CASE ~(y.compat /\ y.asks)
    <3>1. wire = CEarly(y, 0, st, n, m) \o al
      BY <1>1, <1>4, <2>2
    <3> QED BY <1>3, <1>4, <2>0, <3>1
  <2> QED BY <2>1, <2>2
<1> QED BY <1>2, <1>3, <1>4 DEF WaitForm, RetryForm

(* The same for one that awaits the second ClientHello. *)
LEMMA RetryOpens ==
  ASSUME NEW y, NEW st, NEW n \in Nat, NEW m \in Nat, NEW al, IsSeq(al), NEW wire, y.retry,
         RetryForm(y, st, n, m, al, wire), wire # <<>>
  PROVE  \/ al # <<>> /\ wire = al
         \/ \E t : Starts(wire, CcsRec, t) /\ RetryForm(y, st, n, m, al, t)
         \/ \E k \in 0 .. n : \E t :
               k # n /\ Starts(wire, y.early[k], t) /\ RetryForm(y, st, n, m, al, t)
         \/ st # "expect_sh" /\ Starts(wire, y.rch2, CEnd(y, st, n, m) \o al)
<1> DEFINE G == \/ al # <<>> /\ wire = al
                \/ \E t : Starts(wire, CcsRec, t) /\ RetryForm(y, st, n, m, al, t)
                \/ \E k \in 0 .. n : \E t :
                      k # n /\ Starts(wire, y.early[k], t) /\ RetryForm(y, st, n, m, al, t)
                \/ st # "expect_sh" /\ Starts(wire, y.rch2, CEnd(y, st, n, m) \o al)
<1>1. /\ IF st # "post" THEN CEnd(y, st, n, m) \o al = al
         ELSE IF y.accept THEN Starts(CEnd(y, st, n, m) \o al, Eoed(y, n), CFlight(y, m) \o al)
         ELSE CEnd(y, st, n, m) = CFlight(y, m)
      /\ IF y.retry /\ st # "expect_sh"
         THEN Starts(CRetry(y, st, n, m) \o al, y.rch2, CEnd(y, st, n, m) \o al)
         ELSE CRetry(y, st, n, m) = CEnd(y, st, n, m)
      /\ CEarly(y, n, st, n, m) = CRetry(y, st, n, m)
      /\ IF y.compat /\ y.asks
         THEN Starts(CCcs(y, st, n, m) \o al, CcsRec, CEarly(y, 0, st, n, m) \o al)
         ELSE CCcs(y, st, n, m) = CEarly(y, 0, st, n, m)
  <2>1. ClientOpens(y, st, n, m, al)
    BY ClientStreamOpens
  <2> QED BY <2>1 DEF ClientOpens
<1>3. ASSUME NEW k \in 0 .. n, wire = CEarly(y, k, st, n, m) \o al
      PROVE  G
  <2>1. CASE k = n
    BY <1>1, <1>3, <2>1
  <2>2. CASE k # n
    <3>1. k + 1 \in 0 .. n
          /\ Starts(CEarly(y, k, st, n, m) \o al, y.early[k], CEarly(y, k + 1, st, n, m) \o al)
      BY <2>2, EarlyOpens
    <3>2. RetryForm(y, st, n, m, al, CEarly(y, k + 1, st, n, m) \o al)
      BY <3>1 DEF RetryForm
    <3> HIDE DEF G
    <3>3. k # n /\ Starts(wire, y.early[k], CEarly(y, k + 1, st, n, m) \o al)
      BY <1>3, <2>2, <3>1
    <3> QED BY <3>2, <3>3 DEF G
  <2> QED BY <2>1, <2>2
<1>4. ASSUME wire = CCcs(y, st, n, m) \o al
      PROVE  G
  <2>0. 0 \in 0 .. n
    OBVIOUS
  <2>1. CASE y.compat /\ y.asks
    <3>1. Starts(wire, CcsRec, CEarly(y, 0, st, n, m) \o al)
      BY <1>1, <1>4, <2>1
    <3>2. RetryForm(y, st, n, m, al, CEarly(y, 0, st, n, m) \o al)
      BY <2>0 DEF RetryForm
    <3> QED BY <3>1, <3>2
  <2>2. CASE ~(y.compat /\ y.asks)
    <3>1. wire = CEarly(y, 0, st, n, m) \o al
      BY <1>1, <1>4, <2>2
    <3> QED BY <1>3, <2>0, <3>1
  <2> QED BY <2>1, <2>2
<1> QED BY <1>3, <1>4 DEF RetryForm

(* The record in front of a server is one of those its state allows. *)
LEMMA ServerReadsNext ==
  ASSUME NEW y, NEW s, NEW st, NEW n \in Nat, NEW m \in Nat, NEW a, NEW b, NEW al, IsSeq(al),
         NEW wire, FromClient(y, s, st, n, m, a, b, al, wire), wire # <<>>,
         s.state \in ServerStates, s.state # "generating_cv", s.retries \in {0, 1},
         s.retries = 1 => y.retry, y.accept => y.asks /\ ~y.auth /\ ~y.retry,
         s.state = "expect_eoed" => y.accept /\ a \in 0 .. n,
         s.state = "expect_cert" => y.auth, s.state = "expect_cv" => y.auth /\ y.cc,
         s.state = "expect_fin" /\ (y.accept \/ y.auth) => st = "post",
         s.state = "post" => b \in Nat
  PROVE  ServerReads(y, s, st, n, m, a, b, al, wire)
<1>1. /\ Starts(CFin(y, m) \o al, y.rcfin, Run(y.client, 0, m) \o al)
      /\ IF y.auth /\ y.cc THEN Starts(CVerify(y, m) \o al, y.rccv, CFin(y, m) \o al)
         ELSE CVerify(y, m) = CFin(y, m)
      /\ IF y.auth THEN Starts(CCert(y, m) \o al, y.rccert, CVerify(y, m) \o al)
         ELSE CCert(y, m) = CVerify(y, m)
      /\ IF y.compat /\ ~y.asks THEN Starts(CFlight(y, m) \o al, CcsRec, CCert(y, m) \o al)
         ELSE CFlight(y, m) = CCert(y, m)
  <2>1. ClientOpens(y, st, n, m, al)
    BY ClientStreamOpens
  <2> QED BY <2>1 DEF ClientOpens
<1>2. /\ IF st # "post" THEN CEnd(y, st, n, m) \o al = al
         ELSE IF y.accept THEN Starts(CEnd(y, st, n, m) \o al, Eoed(y, n), CFlight(y, m) \o al)
         ELSE CEnd(y, st, n, m) = CFlight(y, m)
      /\ IF y.retry /\ st # "expect_sh"
         THEN Starts(CRetry(y, st, n, m) \o al, y.rch2, CEnd(y, st, n, m) \o al)
         ELSE CRetry(y, st, n, m) = CEnd(y, st, n, m)
      /\ CEarly(y, n, st, n, m) = CRetry(y, st, n, m)
      /\ IF y.compat /\ y.asks
         THEN Starts(CCcs(y, st, n, m) \o al, CcsRec, CEarly(y, 0, st, n, m) \o al)
         ELSE CCcs(y, st, n, m) = CEarly(y, 0, st, n, m)
      /\ Starts(CHello(y, st, n, m) \o al, y.rch1, CCcs(y, st, n, m) \o al)
  <2>1. ClientOpens(y, st, n, m, al)
    BY ClientStreamOpens
  <2> QED BY <2>1 DEF ClientOpens
<1>3. CASE s.state \in Unanswered /\ s.retries = 0
  BY <1>2, <1>3 DEF FromClient, ServerReads
<1>4. CASE s.state \in Unanswered /\ s.retries = 1
  <2>1. RetryForm(y, st, n, m, al, wire)
    BY <1>4 DEF FromClient
  <2>2. ASSUME NEW t, RetryForm(y, st, n, m, al, t)
        PROVE  FromClient(y, s, st, n, m, a, b, al, t)
    BY <1>4, <2>2 DEF FromClient, Waits, Unanswered
  <2>3. \/ al # <<>> /\ wire = al
        \/ \E t : Starts(wire, CcsRec, t) /\ RetryForm(y, st, n, m, al, t)
        \/ \E k \in 0 .. n : \E t :
               k # n /\ Starts(wire, y.early[k], t) /\ RetryForm(y, st, n, m, al, t)
        \/ st # "expect_sh" /\ Starts(wire, y.rch2, CEnd(y, st, n, m) \o al)
    BY <1>4, <2>1, RetryOpens
  <2>4. s.state # "post"
    BY <1>4 DEF Unanswered
  <2> QED BY <1>4, <2>2, <2>3, <2>4 DEF ServerReads
<1>5. CASE s.state = "expect_eoed"
  <2>1. EarlyForm(y, st, n, m, a, al, wire)
    BY <1>5 DEF FromClient
  <2>2. y.accept /\ y.asks /\ ~y.auth /\ ~y.retry
    BY <1>5
  <2>3. ASSUME NEW k \in 0 .. n, wire = CEarly(y, k, st, n, m) \o al, k = a
        PROVE  ServerReads(y, s, st, n, m, a, b, al, wire)
    <3>1. CASE k # n
      <4>1. Starts(CEarly(y, k, st, n, m) \o al, y.early[k], CEarly(y, k + 1, st, n, m) \o al)
        BY <3>1, EarlyOpens
      <4> QED BY <1>5, <2>3, <3>1, <4>1 DEF ServerReads
    <3>2. CASE k = n
      <4>1. wire = CEnd(y, st, n, m) \o al
        BY <1>2, <2>2, <2>3, <3>2
      <4>2. CASE st # "post"
        BY <1>2, <4>1, <4>2 DEF ServerReads
      <4>3. CASE st = "post"
        <5>1. Starts(wire, Eoed(y, n), CFin(y, m) \o al)
          BY <1>1, <1>2, <2>2, <4>1, <4>3
        <5> QED BY <1>5, <2>3, <3>2, <4>3, <5>1 DEF ServerReads
      <4> QED BY <4>2, <4>3
    <3> QED BY <3>1, <3>2
  <2>4. ASSUME wire = CCcs(y, st, n, m) \o al, a = 0
        PROVE  ServerReads(y, s, st, n, m, a, b, al, wire)
    <3>1. CASE y.compat /\ y.asks
      <4>1. Starts(wire, CcsRec, CEarly(y, 0, st, n, m) \o al)
        BY <1>2, <2>4, <3>1
      <4>2. EarlyForm(y, st, n, m, a, al, CEarly(y, 0, st, n, m) \o al)
        BY <2>4 DEF EarlyForm
      <4>3. FromClient(y, s, st, n, m, a, b, al, CEarly(y, 0, st, n, m) \o al)
        BY <1>5, <4>2 DEF FromClient, Waits, Unanswered
      <4> QED BY <1>5, <4>1, <4>3 DEF ServerReads
    <3>2. CASE ~(y.compat /\ y.asks)
      <4>1. wire = CEarly(y, a, st, n, m) \o al /\ a \in 0 .. n
        BY <1>2, <2>4, <3>2
      <4> QED BY <2>3, <4>1
    <3> QED BY <3>1, <3>2
  <2>5. a \in 0 .. n
    BY <1>5
  <2> QED BY <2>1, <2>3, <2>4, <2>5 DEF EarlyForm
<1>6. CASE Waits(y, s)
  <2>1. WaitForm(y, st, n, m, al, wire) /\ ~y.accept
    BY <1>6 DEF FromClient, Waits
  <2>2. s.state \in {"expect_cert", "expect_fin"} /\ s.state \notin Unanswered
        /\ (s.state = "expect_cert" <=> y.auth)
    BY <1>6 DEF Waits, Unanswered
  <2>3. ASSUME NEW t, WaitForm(y, st, n, m, al, t)
        PROVE  FromClient(y, s, st, n, m, a, b, al, t)
    BY <1>6, <2>2, <2>3 DEF FromClient
  <2>4. \/ al # <<>> /\ wire = al
        \/ \E t : Starts(wire, CcsRec, t) /\ WaitForm(y, st, n, m, al, t)
        \/ ~y.retry /\ \E k \in 0 .. n : \E t :
               k # n /\ Starts(wire, y.early[k], t) /\ WaitForm(y, st, n, m, al, t)
        \/ st = "post" /\ y.auth /\ Starts(wire, y.rccert, CVerify(y, m) \o al)
        \/ st = "post" /\ ~y.auth /\ Starts(wire, y.rcfin, Run(y.client, 0, m) \o al)
    BY <2>1, WaitOpens
  <2> QED BY <1>6, <2>2, <2>3, <2>4 DEF ServerReads
<1>7. CASE s.state = "expect_cv"
  BY <1>1, <1>7 DEF FromClient, ServerReads
<1>8. CASE s.state = "expect_fin" /\ ~Waits(y, s)
  <2>1. st = "post" /\ wire = CFin(y, m) \o al
    BY <1>8 DEF FromClient, Waits
  <2> QED BY <1>1, <1>8, <2>1 DEF ServerReads
<1>9. CASE s.state = "post"
  <2>1. b \in Nat /\ b <= m /\ wire = Run(y.client, b, m) \o al
    BY <1>9 DEF FromClient
  <2>2. CASE b = m
    <3>1. Run(y.client, b, m) = <<>>
      BY <2>1, <2>2, RunSeq, ZenonT(30)
    <3>2. <<>> \o al = al
      BY CatLaws
    <3> QED BY <2>1, <3>1, <3>2 DEF ServerReads
  <2>3. CASE b # m
    <3>1. b < m /\ b + 1 \in Nat /\ b + 1 <= m
      BY <2>1, <2>3
    <3>2. Run(y.client, b, m) = <<y.client[b]>> \o Run(y.client, b + 1, m)
      BY <2>1, <3>1, RunFirst, ZenonT(30)
    <3>3. IsSeq(Run(y.client, b + 1, m))
      BY <3>1, RunSeq, ZenonT(30)
    <3>4. Starts(wire, y.client[b], Run(y.client, b + 1, m) \o al)
      BY <2>1, <3>2, <3>3, PeelMore
    <3> QED BY <1>9, <3>1, <3>4 DEF ServerReads
  <2> QED BY <2>2, <2>3
<1>10. \/ s.state \in Unanswered /\ s.retries \in {0, 1}
       \/ s.state = "expect_eoed"
       \/ Waits(y, s)
       \/ s.state = "expect_cv"
       \/ s.state = "expect_fin" /\ ~Waits(y, s)
       \/ s.state = "post"
  BY DEF ServerStates, Unanswered, Waits
<1> QED BY <1>3, <1>4, <1>5, <1>6, <1>7, <1>8, <1>9, <1>10

-----------------------------------------------------------------------------
(* Writing: how the streams grow. *)

(* The stream x2 is x and then out. *)
Longer(x, x2, out) == IsSeq(x) /\ IsSeq(out) /\ x2 = x \o out

(* What comes before grows with what it is followed by. *)
LEMMA LongerBehind ==
  ASSUME NEW p, NEW x, NEW x2, NEW out, IsSeq(p), Longer(x, x2, out)
  PROVE  Longer(p \o x, p \o x2, out)
<1>1. IsSeq(p) /\ IsSeq(x) /\ IsSeq(out) /\ x2 = x \o out
  BY DEF Longer
<1>2. IsSeq(p \o x)
  BY <1>1, CatSeq
<1>3. (p \o x) \o out = p \o (x \o out)
  BY <1>1, CatAssoc
<1> QED BY <1>1, <1>2, <1>3 DEF Longer

(* Nothing appended changes nothing. *)
LEMMA CatNone ==
  ASSUME NEW s, IsSeq(s)
  PROVE  s \o <<>> = s /\ <<>> \o s = s
BY CatLaws

(* A client's alert comes after everything it has sent. *)
LEMMA ClientAppends ==
  ASSUME NEW y, NEW s, NEW st, st # "start", NEW n \in Nat, NEW m \in Nat, NEW a, NEW b,
         NEW wire, FromClient(y, s, st, n, m, a, b, <<>>, wire), NEW al, IsSeq(al),
         s.state = "post" => b \in 0 .. m, s.state = "expect_eoed" => a \in 0 .. n
  PROVE  FromClient(y, s, st, n, m, a, b, al, wire \o al)
<1>1. /\ IsSeq(CFin(y, m)) /\ IsSeq(CVerify(y, m)) /\ IsSeq(CCert(y, m))
      /\ IsSeq(CEnd(y, st, n, m))
      /\ \A k \in 0 .. n : IsSeq(CEarly(y, k, st, n, m))
      /\ IsSeq(CCcs(y, st, n, m)) /\ IsSeq(CHello(y, st, n, m))
  BY ClientStreams
<1>2. ASSUME NEW x, IsSeq(x), wire = x \o <<>>
      PROVE  wire \o al = x \o al
  BY <1>2, CatNone
<1>3. ASSUME RetryForm(y, st, n, m, <<>>, wire) PROVE RetryForm(y, st, n, m, al, wire \o al)
  BY <1>1, <1>2, <1>3 DEF RetryForm
<1>4. ASSUME EarlyForm(y, st, n, m, a, <<>>, wire), a \in 0 .. n
      PROVE  EarlyForm(y, st, n, m, a, al, wire \o al)
  BY <1>1, <1>2, <1>4 DEF EarlyForm
<1>5. ASSUME WaitForm(y, st, n, m, <<>>, wire) PROVE WaitForm(y, st, n, m, al, wire \o al)
  BY <1>1, <1>2, <1>3, <1>5 DEF WaitForm
<1>6. s.state \in Unanswered /\ s.retries = 0 => wire \o al = CHello(y, st, n, m) \o al
  BY <1>1, <1>2 DEF FromClient
<1>7. s.state \in Unanswered /\ s.retries = 1 => RetryForm(y, st, n, m, al, wire \o al)
  BY <1>3 DEF FromClient
<1>8. s.state = "expect_eoed" => EarlyForm(y, st, n, m, a, al, wire \o al)
  BY <1>4 DEF FromClient
<1>9. Waits(y, s) => WaitForm(y, st, n, m, al, wire \o al)
  BY <1>5 DEF FromClient
<1>10. s.state = "expect_cv" => wire \o al = CVerify(y, m) \o al
  BY <1>1, <1>2 DEF FromClient
<1>11. s.state = "expect_fin" /\ ~Waits(y, s) => wire \o al = CFin(y, m) \o al
  BY <1>1, <1>2 DEF FromClient
<1>12. s.state = "post" => b <= m /\ wire \o al = Run(y.client, b, m) \o al
  <2> HAVE s.state = "post"
  <2>1. b \in Nat /\ b <= m /\ wire = Run(y.client, b, m) \o <<>>
    BY DEF FromClient
  <2>2. IsSeq(Run(y.client, b, m))
    BY <2>1, RunSeq, ZenonT(30)
  <2> QED BY <1>2, <2>1, <2>2
<1> QED BY <1>6, <1>7, <1>8, <1>9, <1>10, <1>11, <1>12 DEF FromClient

(* The client's stream grows by out: from state st, n and m records of data, to st2, *)
(* n2 and m2.                                                                        *)
Grows(y, st, n, m, st2, n2, m2, out) ==
    /\ IsSeq(out) /\ n <= n2 /\ m <= m2 /\ st2 # "start"
    /\ \A k \in 0 .. n : CEarly(y, k, st2, n2, m2) = CEarly(y, k, st, n, m) \o out
    /\ y.retry /\ st # "expect_sh" => CEnd(y, st2, n2, m2) = CEnd(y, st, n, m) \o out
    /\ st = "post" =>
         /\ st2 = "post" /\ CFin(y, m2) = CFin(y, m) \o out
         /\ \A b \in 0 .. m : Run(y.client, b, m2) = Run(y.client, b, m) \o out

(* What the client sends comes at the end of what is in flight. *)
LEMMA ClientGrows ==
  ASSUME NEW y, NEW s, NEW st, NEW n \in Nat, NEW m \in Nat, NEW a, NEW b, NEW wire,
         FromClient(y, s, st, n, m, a, b, <<>>, wire), st # "start",
         NEW st2, NEW n2 \in Nat, NEW m2 \in Nat, NEW out, Grows(y, st, n, m, st2, n2, m2, out),
         s.state = "post" => b \in 0 .. m, s.state = "expect_eoed" => a \in 0 .. n,
         s.state \notin Unanswered /\ y.retry => st # "expect_sh",
         s.state \in {"expect_cv", "post"} => st = "post",
         s.state = "expect_fin" /\ (y.accept \/ y.auth) => st = "post"
  PROVE  FromClient(y, s, st2, n2, m2, a, b, <<>>, wire \o out)
<1>1. /\ IsSeq(CFin(y, m)) /\ IsSeq(CVerify(y, m)) /\ IsSeq(CCert(y, m))
      /\ IsSeq(CEnd(y, st, n, m))
      /\ \A k \in 0 .. n : IsSeq(CEarly(y, k, st, n, m))
      /\ IsSeq(CCcs(y, st, n, m)) /\ IsSeq(CHello(y, st, n, m))
  BY ClientStreams
<1>2. /\ IsSeq(CFin(y, m2)) /\ IsSeq(CVerify(y, m2)) /\ IsSeq(CCert(y, m2))
      /\ IsSeq(CEnd(y, st2, n2, m2))
      /\ \A k \in 0 .. n2 : IsSeq(CEarly(y, k, st2, n2, m2))
      /\ IsSeq(CCcs(y, st2, n2, m2)) /\ IsSeq(CHello(y, st2, n2, m2))
  BY ClientStreams
<1>3. IsSeq(out) /\ n <= n2 /\ m <= m2 /\ st2 # "start" /\ 0 \in 0 .. n
      /\ \A k \in 0 .. n : k \in 0 .. n2
  BY DEF Grows
<1>4. ASSUME NEW x, NEW x2, IsSeq(x), IsSeq(x2), wire = x \o <<>>, x2 = x \o out
      PROVE  wire \o out = x2 \o <<>>
  BY <1>4, CatNone
<1>5. \A k \in 0 .. n : CEarly(y, k, st2, n2, m2) = CEarly(y, k, st, n, m) \o out
  BY DEF Grows
<1>6. CCcs(y, st2, n2, m2) = CCcs(y, st, n, m) \o out
  <2>1. IsSeq(Opt(y.compat /\ y.asks, CcsRec))
    BY OptSeq
  <2>2. Longer(CEarly(y, 0, st, n, m), CEarly(y, 0, st2, n2, m2), out)
    BY <1>1, <1>3, <1>5 DEF Longer
  <2>3. Longer(CCcs(y, st, n, m), CCcs(y, st2, n2, m2), out)
    BY <2>1, <2>2, LongerBehind DEF CCcs
  <2> QED BY <2>3 DEF Longer
<1>7. CHello(y, st2, n2, m2) = CHello(y, st, n, m) \o out
  <2>1. IsSeq(<<y.rch1>>)
    BY ShortSeq
  <2>2. Longer(CCcs(y, st, n, m), CCcs(y, st2, n2, m2), out)
    BY <1>1, <1>3, <1>6 DEF Longer
  <2>3. Longer(CHello(y, st, n, m), CHello(y, st2, n2, m2), out)
    BY <2>1, <2>2, LongerBehind DEF CHello
  <2> QED BY <2>3 DEF Longer
<1>8. ASSUME st = "post"
      PROVE  /\ CFin(y, m2) = CFin(y, m) \o out /\ CVerify(y, m2) = CVerify(y, m) \o out
             /\ CCert(y, m2) = CCert(y, m) \o out
  <2>1. CFin(y, m2) = CFin(y, m) \o out
    BY <1>8 DEF Grows
  <2>2. Longer(CFin(y, m), CFin(y, m2), out)
    BY <1>1, <1>3, <2>1 DEF Longer
  <2>3. IsSeq(Opt(y.auth /\ y.cc, y.rccv)) /\ IsSeq(Opt(y.auth, y.rccert))
    BY OptSeq
  <2>4. Longer(CVerify(y, m), CVerify(y, m2), out)
    BY <2>2, <2>3, LongerBehind DEF CVerify
  <2>5. Longer(CCert(y, m), CCert(y, m2), out)
    BY <2>3, <2>4, LongerBehind DEF CCert
  <2> QED BY <2>1, <2>4, <2>5 DEF Longer
<1>9. ASSUME RetryForm(y, st, n, m, <<>>, wire)
      PROVE  RetryForm(y, st2, n2, m2, <<>>, wire \o out)
  <2>1. CASE wire = CCcs(y, st, n, m) \o <<>>
    <3>1. wire \o out = CCcs(y, st2, n2, m2) \o <<>>
      BY <1>1, <1>2, <1>4, <1>6, <2>1
    <3> QED BY <3>1 DEF RetryForm
  <2>2. ASSUME NEW k \in 0 .. n, wire = CEarly(y, k, st, n, m) \o <<>>
        PROVE  RetryForm(y, st2, n2, m2, <<>>, wire \o out)
    <3>1. k \in 0 .. n2 /\ wire \o out = CEarly(y, k, st2, n2, m2) \o <<>>
      BY <1>1, <1>2, <1>3, <1>4, <1>5, <2>2
    <3> QED BY <3>1 DEF RetryForm
  <2> QED BY <1>9, <2>1, <2>2 DEF RetryForm
<1>10. s.state \in Unanswered /\ s.retries = 0 => wire \o out = CHello(y, st2, n2, m2) \o <<>>
  BY <1>1, <1>2, <1>4, <1>7 DEF FromClient
<1>11. s.state \in Unanswered /\ s.retries = 1 => RetryForm(y, st2, n2, m2, <<>>, wire \o out)
  BY <1>9 DEF FromClient
<1>12. s.state = "expect_eoed" => EarlyForm(y, st2, n2, m2, a, <<>>, wire \o out)
  <2> HAVE s.state = "expect_eoed"
  <2>1. EarlyForm(y, st, n, m, a, <<>>, wire) /\ a \in 0 .. n
    BY DEF FromClient
  <2>2. CASE a = 0 /\ wire = CCcs(y, st, n, m) \o <<>>
    <3>1. wire \o out = CCcs(y, st2, n2, m2) \o <<>>
      BY <1>1, <1>2, <1>4, <1>6, <2>2
    <3> QED BY <2>2, <3>1 DEF EarlyForm
  <2>3. CASE a <= n /\ wire = CEarly(y, a, st, n, m) \o <<>>
    <3>1. a <= n2 /\ wire \o out = CEarly(y, a, st2, n2, m2) \o <<>>
      <4>1. a <= n2 /\ a \in 0 .. n2
        BY <1>3, <2>1
      <4>2. IsSeq(CEarly(y, a, st, n, m)) /\ IsSeq(CEarly(y, a, st2, n2, m2))
            /\ CEarly(y, a, st2, n2, m2) = CEarly(y, a, st, n, m) \o out
        BY <1>1, <1>2, <1>5, <2>1, <4>1
      <4> QED BY <1>4, <2>3, <4>1, <4>2
    <3> QED BY <3>1 DEF EarlyForm
  <2> QED BY <2>1, <2>2, <2>3 DEF EarlyForm
<1>13. Waits(y, s) => WaitForm(y, st2, n2, m2, <<>>, wire \o out)
  <2> HAVE Waits(y, s)
  <2>1. WaitForm(y, st, n, m, <<>>, wire) /\ s.state \notin Unanswered
    BY DEF FromClient, Waits, Unanswered
  <2>2. CASE ~y.retry /\ RetryForm(y, st, n, m, <<>>, wire)
    BY <1>9, <2>2 DEF WaitForm
  <2>3. CASE y.retry /\ wire = CEnd(y, st, n, m) \o <<>>
    <3>1. CEnd(y, st2, n2, m2) = CEnd(y, st, n, m) \o out
      BY <2>1, <2>3 DEF Grows
    <3>2. wire \o out = CEnd(y, st2, n2, m2) \o <<>>
      BY <1>1, <1>2, <1>4, <2>3, <3>1
    <3> QED BY <2>3, <3>2 DEF WaitForm
  <2>4. CASE st = "post" /\ wire = CCert(y, m) \o <<>>
    <3>1. wire \o out = CCert(y, m2) \o <<>>
      BY <1>1, <1>2, <1>4, <1>8, <2>4
    <3>2. st2 = "post"
      BY <2>4 DEF Grows
    <3> QED BY <3>1, <3>2 DEF WaitForm
  <2> QED BY <2>1, <2>2, <2>3, <2>4 DEF WaitForm
<1>14. s.state = "expect_cv" => wire \o out = CVerify(y, m2) \o <<>>
  BY <1>1, <1>2, <1>4, <1>8 DEF FromClient
<1>15. s.state = "expect_fin" /\ ~Waits(y, s) => wire \o out = CFin(y, m2) \o <<>>
  <2> HAVE s.state = "expect_fin" /\ ~Waits(y, s)
  <2>1. st = "post" /\ wire = CFin(y, m) \o <<>>
    BY DEF FromClient, Waits
  <2> QED BY <1>1, <1>2, <1>4, <1>8, <2>1
<1>16. s.state = "post" => b <= m2 /\ wire \o out = Run(y.client, b, m2) \o <<>>
  <2> HAVE s.state = "post"
  <2>1. b \in Nat /\ b \in 0 .. m /\ b <= m /\ b <= m2 /\ wire = Run(y.client, b, m) \o <<>>
    BY <1>3 DEF FromClient
  <2>2. IsSeq(Run(y.client, b, m)) /\ IsSeq(Run(y.client, b, m2))
    BY <2>1, RunSeq, ZenonT(30)
  <2>3. Run(y.client, b, m2) = Run(y.client, b, m) \o out
    BY <2>1 DEF Grows
  <2> QED BY <1>4, <2>1, <2>2, <2>3
<1> QED BY <1>3, <1>10, <1>11, <1>12, <1>13, <1>14, <1>15, <1>16 DEF FromClient

(* Growth behind the 0-RTT data. *)
LEMMA GrowsBehind ==
  ASSUME NEW y, NEW st, NEW st2, st2 # "start", NEW n \in Nat, NEW m \in Nat, NEW m2 \in Nat,
         m <= m2, NEW out, IsSeq(out),
         CRetry(y, st2, n, m2) = CRetry(y, st, n, m) \o out,
         y.retry /\ st # "expect_sh" => CEnd(y, st2, n, m2) = CEnd(y, st, n, m) \o out,
         st = "post" => /\ st2 = "post" /\ CFin(y, m2) = CFin(y, m) \o out
                        /\ \A b \in 0 .. m : Run(y.client, b, m2) = Run(y.client, b, m) \o out
  PROVE  Grows(y, st, n, m, st2, n, m2, out)
<1>1. ASSUME NEW k \in 0 .. n PROVE CEarly(y, k, st2, n, m2) = CEarly(y, k, st, n, m) \o out
  <2>1. k \in Nat /\ k <= n
    OBVIOUS
  <2>2. PICK p : p = Run(y.early, k, n)
    OBVIOUS
  <2>3. IsSeq(p)
    BY <2>1, <2>2, RunSeq, ZenonT(30)
  <2>4. IsSeq(CRetry(y, st, n, m))
    BY ClientStreams
  <2>5. Longer(CRetry(y, st, n, m), CRetry(y, st2, n, m2), out)
    BY <2>4 DEF Longer
  <2>6. Longer(p \o CRetry(y, st, n, m), p \o CRetry(y, st2, n, m2), out)
    BY <2>3, <2>5, LongerBehind
  <2> QED BY <2>2, <2>6 DEF CEarly, Longer
<1>2. n <= n
  OBVIOUS
<1> QED BY <1>1, <1>2 DEF Grows

(* A step of the client that sends nothing. *)
LEMMA GrowsQuietly ==
  ASSUME NEW y, NEW st, NEW st2, st \notin {"start", "post"}, st2 \notin {"start", "post"},
         NEW n \in Nat, NEW m \in Nat, st # st2 => st2 # "expect_sh",
         st = "expect_sh" /\ st2 # "expect_sh" => ~y.retry
  PROVE  Grows(y, st, n, m, st2, n, m, <<>>)
<1>1. IsSeq(<<>>)
  BY ShortSeq
<1>2. CEnd(y, st2, n, m) = <<>> /\ CEnd(y, st, n, m) = <<>>
  BY DEF CEnd
<1>3. CEnd(y, st2, n, m) = CEnd(y, st, n, m) \o <<>>
  BY <1>1, <1>2, CatNone
<1>4. CRetry(y, st2, n, m) = CRetry(y, st, n, m)
  BY <1>2 DEF CRetry, Opt
<1>5. IsSeq(CRetry(y, st, n, m))
  BY ClientStreams
<1>6. CRetry(y, st2, n, m) = CRetry(y, st, n, m) \o <<>>
  BY <1>4, <1>5, CatNone
<1>7. m <= m
  OBVIOUS
<1> QED BY <1>1, <1>3, <1>6, <1>7, GrowsBehind

(* The second ClientHello. *)
LEMMA GrowsByRetry ==
  ASSUME NEW y, y.retry, NEW n \in Nat, NEW m \in Nat
  PROVE  Grows(y, "expect_sh", n, m, "expect_sh2", n, m, <<y.rch2>>)
<1>1. IsSeq(<<y.rch2>>) /\ IsSeq(<<>>)
  BY ShortSeq
<1>2. CEnd(y, "expect_sh", n, m) = <<>> /\ CEnd(y, "expect_sh2", n, m) = <<>>
  BY DEF CEnd
<1>3. CRetry(y, "expect_sh", n, m) = <<>> \o <<>> /\ CRetry(y, "expect_sh2", n, m) = <<y.rch2>> \o <<>>
  BY <1>2 DEF CRetry, Opt
<1>4. CRetry(y, "expect_sh2", n, m) = CRetry(y, "expect_sh", n, m) \o <<y.rch2>>
  BY <1>1, <1>3, CatNone
<1>5. m <= m
  OBVIOUS
<1> QED BY <1>1, <1>4, <1>5, GrowsBehind

(* The client's flight. *)
LEMMA GrowsByFlight ==
  ASSUME NEW y, NEW n \in Nat
  PROVE  Grows(y, "expect_fin", n, 0, "post", n, 0, Opt(y.accept, Eoed(y, n)) \o CFlight(y, 0))
<1> DEFINE out == Opt(y.accept, Eoed(y, n)) \o CFlight(y, 0)
<1>0. 0 \in Nat /\ 0 <= 0
  OBVIOUS
<1>1. IsSeq(CFlight(y, 0))
  BY <1>0, ClientStreams
<1>2. IsSeq(out) /\ IsSeq(<<>>)
  BY <1>1, OptSeq, CatSeq, ShortSeq
<1>3. CEnd(y, "expect_fin", n, 0) = <<>> /\ CEnd(y, "post", n, 0) = out
  BY DEF CEnd
<1> HIDE DEF out
<1>4. CEnd(y, "post", n, 0) = CEnd(y, "expect_fin", n, 0) \o out
  BY <1>2, <1>3, CatNone
<1>5. PICK p : p = Opt(y.retry, y.rch2)
  OBVIOUS
<1>6. IsSeq(p)
  BY <1>5, OptSeq
<1>7. CRetry(y, "expect_fin", n, 0) = p \o <<>> /\ CRetry(y, "post", n, 0) = p \o out
  BY <1>3, <1>5 DEF CRetry, Opt
<1>8. CRetry(y, "post", n, 0) = CRetry(y, "expect_fin", n, 0) \o out
  BY <1>6, <1>7, CatNone
<1>9. Grows(y, "expect_fin", n, 0, "post", n, 0, out)
  BY <1>0, <1>2, <1>4, <1>8, GrowsBehind
<1> QED BY <1>9 DEF out

(* A record of application data. *)
LEMMA GrowsByData ==
  ASSUME NEW y, NEW n \in Nat, NEW m \in Nat
  PROVE  Grows(y, "post", n, m, "post", n, m + 1, <<y.client[m]>>)
<1> DEFINE out == <<y.client[m]>>
<1>1. IsSeq(out)
  BY ShortSeq
<1>2. ASSUME NEW b \in 0 .. m PROVE Run(y.client, b, m + 1) = Run(y.client, b, m) \o out
  <2>1. b \in Nat /\ b <= m
    OBVIOUS
  <2> QED BY <2>1, RunLast, ZenonT(30)
<1> HIDE DEF out
<1>3. 0 \in 0 .. m /\ 0 \in Nat /\ 0 <= m /\ m <= m + 1 /\ m + 1 \in Nat
  OBVIOUS
<1>4. IsSeq(Run(y.client, 0, m))
  BY <1>3, RunSeq, ZenonT(30)
<1>5. Run(y.client, 0, m + 1) = Run(y.client, 0, m) \o out
  BY <1>2, <1>3
<1>6. IsSeq(<<y.rcfin>>)
  BY ShortSeq
<1>7. CFin(y, m + 1) = CFin(y, m) \o out
  <2>1. PICK a, r : a = <<y.rcfin>> /\ r = Run(y.client, 0, m)
    OBVIOUS
  <2>2. (a \o r) \o out = a \o (r \o out)
    BY <1>1, <1>4, <1>6, <2>1, CatAssoc
  <2> QED BY <1>5, <2>1, <2>2 DEF CFin
<1>8. Longer(CFin(y, m), CFin(y, m + 1), out)
  <2>1. IsSeq(CFin(y, m))
    BY ClientStreams
  <2> QED BY <1>1, <1>7, <2>1 DEF Longer
<1>9. Longer(CVerify(y, m), CVerify(y, m + 1), out)
  <2>1. IsSeq(Opt(y.auth /\ y.cc, y.rccv))
    BY OptSeq
  <2> QED BY <1>8, <2>1, LongerBehind DEF CVerify
<1>10. Longer(CCert(y, m), CCert(y, m + 1), out)
  <2>1. IsSeq(Opt(y.auth, y.rccert))
    BY OptSeq
  <2> QED BY <1>9, <2>1, LongerBehind DEF CCert
<1>11. Longer(CFlight(y, m), CFlight(y, m + 1), out)
  <2>1. IsSeq(Opt(y.compat /\ ~y.asks, CcsRec))
    BY OptSeq
  <2> QED BY <1>10, <2>1, LongerBehind DEF CFlight
<1>12. Longer(CEnd(y, "post", n, m), CEnd(y, "post", n, m + 1), out)
  <2>1. IsSeq(Opt(y.accept, Eoed(y, n)))
    BY OptSeq
  <2> QED BY <1>11, <2>1, LongerBehind DEF CEnd
<1>13. Longer(CRetry(y, "post", n, m), CRetry(y, "post", n, m + 1), out)
  <2>1. IsSeq(Opt(y.retry /\ "post" # "expect_sh", y.rch2))
    BY OptSeq
  <2> QED BY <1>12, <2>1, LongerBehind DEF CRetry
<1>14. Grows(y, "post", n, m, "post", n, m + 1, out)
  <2>1. /\ CEnd(y, "post", n, m + 1) = CEnd(y, "post", n, m) \o out
        /\ CRetry(y, "post", n, m + 1) = CRetry(y, "post", n, m) \o out
    BY <1>12, <1>13 DEF Longer
  <2> QED BY <1>1, <1>2, <1>3, <1>7, <2>1, GrowsBehind
<1> QED BY <1>14 DEF out

(* A record of 0-RTT data, before a retry and before the flight. *)
LEMMA GrowsByEarly ==
  ASSUME NEW y, NEW st, st \notin {"start", "post"}, y.retry => st = "expect_sh",
         NEW n \in Nat, NEW m \in Nat
  PROVE  Grows(y, st, n, m, st, n + 1, m, <<y.early[n]>>)
<1> DEFINE out == <<y.early[n]>>
<1>1. IsSeq(out) /\ IsSeq(<<>>)
  BY ShortSeq
<1>2. CEnd(y, st, n, m) = <<>> /\ CEnd(y, st, n + 1, m) = <<>>
  BY DEF CEnd
<1>3. CRetry(y, st, n, m) = <<>> \o <<>> /\ CRetry(y, st, n + 1, m) = <<>> \o <<>>
  BY <1>2 DEF CRetry, Opt
<1>4. CRetry(y, st, n, m) = <<>> /\ CRetry(y, st, n + 1, m) = <<>>
  BY <1>1, <1>3, CatNone
<1>5. ASSUME NEW k \in 0 .. n PROVE CEarly(y, k, st, n + 1, m) = CEarly(y, k, st, n, m) \o out
  <2>1. k \in Nat /\ k <= n /\ n + 1 \in Nat /\ k <= n + 1
    OBVIOUS
  <2>2. Run(y.early, k, n + 1) = Run(y.early, k, n) \o out
    BY <2>1, RunLast, ZenonT(30)
  <2>3. IsSeq(Run(y.early, k, n)) /\ IsSeq(Run(y.early, k, n + 1))
    BY <2>1, RunSeq, ZenonT(30)
  <2>4. /\ CEarly(y, k, st, n, m) = Run(y.early, k, n)
        /\ CEarly(y, k, st, n + 1, m) = Run(y.early, k, n + 1)
    BY <1>4, <2>3, CatNone DEF CEarly
  <2> QED BY <2>2, <2>4
<1> HIDE DEF out
<1>6. n <= n + 1 /\ m <= m
  OBVIOUS
<1>7. Grows(y, st, n, m, st, n + 1, m, out)
  BY <1>1, <1>5, <1>6 DEF Grows
<1> QED BY <1>7 DEF out

(* The state of the server that its stream depends on. *)
SameStage(s, t) ==
    /\ s.retries = t.retries
    /\ s.state \in Flown <=> t.state \in Flown
    /\ s.state \in Unanswered <=> t.state \in Unanswered

(* A server's alert comes after everything it has sent. *)
LEMMA ServerAppends ==
  ASSUME NEW y, y.tickets \in Nat, NEW c, c.state # "start", NEW s, NEW t, SameStage(s, t),
         NEW m \in Nat, NEW wire, FromServer(y, c, s, m, <<>>, wire), NEW al, IsSeq(al),
         c.state = "post" => c.dec.seq \in Nat
  PROVE  FromServer(y, c, t, m, al, wire \o al)
<1>1. /\ IsSeq(SFin(y, s.state, m)) /\ IsSeq(SVerify(y, s.state, m)) /\ IsSeq(SCert(y, s.state, m))
      /\ IsSeq(SRequest(y, s.state, m)) /\ IsSeq(SExt(y, s.state, m)) /\ IsSeq(SCcs(y, s.state, m))
      /\ IsSeq(SHello(y, s.state, m)) /\ IsSeq(SRetryCcs(y, s.state, m))
      /\ IsSeq(SRetry(y, s.state, s.retries, m))
  BY ServerStreams
<1>2. SFin(y, t.state, m) = SFin(y, s.state, m)
  BY DEF SFin, SameStage
<1>3. SVerify(y, t.state, m) = SVerify(y, s.state, m)
  <2>1. Opt(~y.found /\ t.state \in Flown, y.rcv) = Opt(~y.found /\ s.state \in Flown, y.rcv)
    BY DEF SameStage, Opt
  <2> QED BY <1>2, <2>1 DEF SVerify
<1>4. SCert(y, t.state, m) = SCert(y, s.state, m)
  BY <1>3 DEF SCert
<1>5. SRequest(y, t.state, m) = SRequest(y, s.state, m)
  BY <1>4 DEF SRequest
<1>6. SExt(y, t.state, m) = SExt(y, s.state, m)
  BY <1>5 DEF SExt
<1>7. SCcs(y, t.state, m) = SCcs(y, s.state, m)
  BY <1>6 DEF SCcs
<1>8. SHello(y, t.state, m) = SHello(y, s.state, m)
  BY <1>7 DEF SHello, SameStage
<1>9. SRetryCcs(y, t.state, m) = SRetryCcs(y, s.state, m)
  BY <1>8 DEF SRetryCcs
<1>10. SRetry(y, t.state, t.retries, m) = SRetry(y, s.state, s.retries, m)
  BY <1>8, <1>9 DEF SRetry, SameStage
<1>11. ASSUME NEW x, IsSeq(x), wire = x \o <<>>
       PROVE  wire \o al = x \o al
  BY <1>11, CatNone
<1>12. c.state = "expect_sh" => wire \o al = SRetry(y, t.state, t.retries, m) \o al
  BY <1>1, <1>10, <1>11 DEF FromServer
<1>13. c.state = "expect_sh2" =>
         wire \o al = SRetryCcs(y, t.state, m) \o al \/ wire \o al = SHello(y, t.state, m) \o al
  BY <1>1, <1>8, <1>9, <1>11 DEF FromServer
<1>14. c.state = "expect_ee" =>
         wire \o al = SCcs(y, t.state, m) \o al \/ wire \o al = SExt(y, t.state, m) \o al
  BY <1>1, <1>6, <1>7, <1>11 DEF FromServer
<1>15. /\ c.state = "expect_cr_or_cert" => wire \o al = SRequest(y, t.state, m) \o al
       /\ c.state = "expect_cert" => wire \o al = SCert(y, t.state, m) \o al
  BY <1>1, <1>4, <1>5, <1>11 DEF FromServer
<1>16. /\ c.state = "expect_cv" => wire \o al = SVerify(y, t.state, m) \o al
       /\ c.state = "expect_fin" => wire \o al = SFin(y, t.state, m) \o al
  BY <1>1, <1>2, <1>3, <1>11 DEF FromServer
<1>17. c.state = "post" =>
         c.dec.seq <= y.tickets + m /\ wire \o al = Run(y.server, c.dec.seq, y.tickets + m) \o al
  <2> HAVE c.state = "post"
  <2>1. PICK q, e : q = c.dec.seq /\ e = y.tickets + m
    OBVIOUS
  <2>2. q \in Nat /\ e \in Nat /\ q <= e /\ wire = Run(y.server, q, e) \o <<>>
    BY <2>1 DEF FromServer
  <2>3. IsSeq(Run(y.server, q, e))
    BY <2>2, RunSeq, ZenonT(30)
  <2> QED BY <1>11, <2>1, <2>2, <2>3
<1> QED BY <1>12, <1>13, <1>14, <1>15, <1>16, <1>17 DEF FromServer

(* The server's stream grows by out, with m2 records of data instead of m. *)
Grown(y, c, s, m, t, m2, out) ==
    /\ IsSeq(out) /\ c.state # "start" /\ m <= m2
    /\ c.state = "expect_sh" =>
         Longer(SRetry(y, s.state, s.retries, m), SRetry(y, t.state, t.retries, m2), out)
    /\ c.state = "expect_sh2" => Longer(SHello(y, s.state, m), SHello(y, t.state, m2), out)
    /\ c.state \in {"expect_ee", "expect_cr_or_cert", "expect_cert", "expect_cv"} =>
         Longer(SVerify(y, s.state, m), SVerify(y, t.state, m2), out)
    /\ c.state = "expect_fin" => Longer(SFin(y, s.state, m), SFin(y, t.state, m2), out)
    /\ c.state = "post" =>
         \A q \in 0 .. y.tickets + m :
            Longer(Run(y.server, q, y.tickets + m), Run(y.server, q, y.tickets + m2), out)

(* What comes before CertificateVerify grows with it. *)
LEMMA LongerVerify ==
  ASSUME NEW y, NEW st, NEW m, NEW st2, NEW m2, NEW out,
         Longer(SVerify(y, st, m), SVerify(y, st2, m2), out)
  PROVE  /\ Longer(SCert(y, st, m), SCert(y, st2, m2), out)
         /\ Longer(SRequest(y, st, m), SRequest(y, st2, m2), out)
         /\ Longer(SExt(y, st, m), SExt(y, st2, m2), out)
         /\ Longer(SCcs(y, st, m), SCcs(y, st2, m2), out)
         /\ Longer(<<y.rsh>> \o SCcs(y, st, m), <<y.rsh>> \o SCcs(y, st2, m2), out)
<1>1. /\ IsSeq(Opt(~y.found, y.rcert)) /\ IsSeq(Opt(y.auth, y.rcr)) /\ IsSeq(<<y.ree>>)
      /\ IsSeq(Opt(y.compat, CcsRec)) /\ IsSeq(<<y.rsh>>)
  BY OptSeq, ShortSeq
<1>2. Longer(SCert(y, st, m), SCert(y, st2, m2), out)
  BY <1>1, LongerBehind DEF SCert
<1>3. Longer(SRequest(y, st, m), SRequest(y, st2, m2), out)
  BY <1>1, <1>2, LongerBehind DEF SRequest
<1>4. Longer(SExt(y, st, m), SExt(y, st2, m2), out)
  BY <1>1, <1>3, LongerBehind DEF SExt
<1>5. Longer(SCcs(y, st, m), SCcs(y, st2, m2), out)
  BY <1>1, <1>4, LongerBehind DEF SCcs
<1>6. Longer(<<y.rsh>> \o SCcs(y, st, m), <<y.rsh>> \o SCcs(y, st2, m2), out)
  BY <1>1, <1>5, LongerBehind
<1> QED BY <1>2, <1>3, <1>4, <1>5, <1>6

(* What the server sends comes at the end of what is in flight. *)
LEMMA ServerGrows ==
  ASSUME NEW y, y.tickets \in Nat, NEW c, NEW s, NEW t, NEW m \in Nat, NEW m2 \in Nat, NEW wire,
         FromServer(y, c, s, m, <<>>, wire), NEW out, Grown(y, c, s, m, t, m2, out),
         c.state = "post" => c.dec.seq \in Nat
  PROVE  FromServer(y, c, t, m2, <<>>, wire \o out)
<1>1. ASSUME NEW x, NEW x2, Longer(x, x2, out), wire = x \o <<>>
      PROVE  wire \o out = x2 \o <<>>
  <2>1. IsSeq(x) /\ IsSeq(out) /\ IsSeq(x \o out) /\ x2 = x \o out
    BY <1>1, CatSeq DEF Longer
  <2> QED BY <1>1, <2>1, CatNone
<1>2. c.state # "start" /\ m <= m2
  BY DEF Grown
<1>3. c.state = "expect_sh" => wire \o out = SRetry(y, t.state, t.retries, m2) \o <<>>
  BY <1>1 DEF FromServer, Grown
<1>4. c.state = "expect_sh2" =>
        wire \o out = SRetryCcs(y, t.state, m2) \o <<>> \/ wire \o out = SHello(y, t.state, m2) \o <<>>
  <2> HAVE c.state = "expect_sh2"
  <2>1. Longer(SHello(y, s.state, m), SHello(y, t.state, m2), out)
    BY DEF Grown
  <2>2. IsSeq(Opt(y.compat /\ y.cookie, CcsRec))
    BY OptSeq
  <2>3. Longer(SRetryCcs(y, s.state, m), SRetryCcs(y, t.state, m2), out)
    BY <2>1, <2>2, LongerBehind DEF SRetryCcs
  <2>4. wire = SRetryCcs(y, s.state, m) \o <<>> \/ wire = SHello(y, s.state, m) \o <<>>
    BY DEF FromServer
  <2> QED BY <1>1, <2>1, <2>3, <2>4
<1>5. ASSUME c.state \in {"expect_ee", "expect_cr_or_cert", "expect_cert", "expect_cv"}
      PROVE  /\ Longer(SVerify(y, s.state, m), SVerify(y, t.state, m2), out)
             /\ Longer(SCert(y, s.state, m), SCert(y, t.state, m2), out)
             /\ Longer(SRequest(y, s.state, m), SRequest(y, t.state, m2), out)
             /\ Longer(SExt(y, s.state, m), SExt(y, t.state, m2), out)
             /\ Longer(SCcs(y, s.state, m), SCcs(y, t.state, m2), out)
  <2>1. Longer(SVerify(y, s.state, m), SVerify(y, t.state, m2), out)
    BY <1>5 DEF Grown
  <2> QED BY <2>1, LongerVerify
<1>6. c.state = "expect_ee" =>
        wire \o out = SCcs(y, t.state, m2) \o <<>> \/ wire \o out = SExt(y, t.state, m2) \o <<>>
  BY <1>1, <1>5 DEF FromServer
<1>7. c.state = "expect_cr_or_cert" => wire \o out = SRequest(y, t.state, m2) \o <<>>
  BY <1>1, <1>5 DEF FromServer
<1>8. c.state = "expect_cert" => wire \o out = SCert(y, t.state, m2) \o <<>>
  BY <1>1, <1>5 DEF FromServer
<1>9. c.state = "expect_cv" => wire \o out = SVerify(y, t.state, m2) \o <<>>
  BY <1>1, <1>5 DEF FromServer
<1>10. c.state = "expect_fin" => wire \o out = SFin(y, t.state, m2) \o <<>>
  BY <1>1 DEF FromServer, Grown
<1>11. c.state = "post" =>
         /\ c.dec.seq <= y.tickets + m2
         /\ wire \o out = Run(y.server, c.dec.seq, y.tickets + m2) \o <<>>
  <2> HAVE c.state = "post"
  <2>1. /\ c.dec.seq \in 0 .. y.tickets + m /\ c.dec.seq <= y.tickets + m2
        /\ wire = Run(y.server, c.dec.seq, y.tickets + m) \o <<>>
    BY <1>2 DEF FromServer
  <2>2. Longer(Run(y.server, c.dec.seq, y.tickets + m), Run(y.server, c.dec.seq, y.tickets + m2), out)
    BY <2>1 DEF Grown
  <2> QED BY <1>1, <2>1, <2>2
<1> QED BY <1>2, <1>3, <1>4, <1>6, <1>7, <1>8, <1>9, <1>10, <1>11 DEF FromServer

(* HelloRetryRequest. *)
LEMMA GrownByRetry ==
  ASSUME NEW y, NEW c, c.state = "expect_sh", NEW s, s.state \in Unanswered, s.retries # 1,
         NEW t, t.state \in Unanswered, t.retries = 1, NEW m \in Nat
  PROVE  Grown(y, c, s, m, t, m, <<y.rhrr>> \o Opt(y.compat /\ y.cookie, CcsRec))
<1> DEFINE o == Opt(y.compat /\ y.cookie, CcsRec)
<1>1. IsSeq(o) /\ IsSeq(<<y.rhrr>>) /\ IsSeq(<<>>)
  BY OptSeq, ShortSeq
<1>2. SRetry(y, s.state, s.retries, m) = <<>>
  BY DEF SRetry, SHello
<1>3. SHello(y, t.state, m) = <<>>
  BY DEF SHello
<1>4. SRetryCcs(y, t.state, m) = o \o <<>>
  BY <1>3 DEF SRetryCcs
<1> HIDE DEF o
<1>5. SRetry(y, t.state, t.retries, m) = <<y.rhrr>> \o o
  BY <1>1, <1>4, CatNone DEF SRetry
<1>6. IsSeq(<<y.rhrr>> \o o)
  BY <1>1, CatSeq
<1>7. Longer(SRetry(y, s.state, s.retries, m), SRetry(y, t.state, t.retries, m), <<y.rhrr>> \o o)
  BY <1>1, <1>2, <1>5, <1>6, CatNone DEF Longer
<1>8. m <= m
  OBVIOUS
<1> QED BY <1>6, <1>7, <1>8 DEF Grown, o

(* ServerHello and what follows it. *)
LEMMA GrownByAnswer ==
  ASSUME NEW y, y.tickets \in Nat, NEW c, c.state \in {"expect_sh", "expect_sh2"},
         NEW s, s.state \in Unanswered, NEW t, t.state \notin Unanswered, t.retries = s.retries,
         NEW m \in Nat
  PROVE  Grown(y, c, s, m, t, m, <<y.rsh>> \o SCcs(y, t.state, m))
<1> DEFINE out == <<y.rsh>> \o SCcs(y, t.state, m)
<1>1. IsSeq(SCcs(y, t.state, m))
  BY ServerStreams
<1>2. IsSeq(out) /\ IsSeq(<<>>)
  BY <1>1, ShortSeq, CatSeq
<1>3. SHello(y, s.state, m) = <<>> /\ SHello(y, t.state, m) = out
  BY DEF SHello
<1> HIDE DEF out
<1>4. Longer(SHello(y, s.state, m), SHello(y, t.state, m), out)
  BY <1>2, <1>3, CatNone DEF Longer
<1>5. IsSeq(Opt(y.compat /\ y.cookie, CcsRec)) /\ IsSeq(<<y.rhrr>>)
  BY OptSeq, ShortSeq
<1>6. Longer(SRetryCcs(y, s.state, m), SRetryCcs(y, t.state, m), out)
  BY <1>4, <1>5, LongerBehind DEF SRetryCcs
<1>7. Longer(<<y.rhrr>> \o SRetryCcs(y, s.state, m), <<y.rhrr>> \o SRetryCcs(y, t.state, m), out)
  BY <1>5, <1>6, LongerBehind
<1>8. Longer(SRetry(y, s.state, s.retries, m), SRetry(y, t.state, t.retries, m), out)
  BY <1>4, <1>7 DEF SRetry
<1>9. m <= m
  OBVIOUS
<1> QED BY <1>2, <1>4, <1>8, <1>9 DEF Grown, out

(* What follows an asynchronous signature. *)
LEMMA GrownBySignature ==
  ASSUME NEW y, y.tickets \in Nat, NEW c, c.state \notin {"start", "expect_fin", "post"},
         NEW s, s.state = "generating_cv", NEW t, t.state \in Flown, t.retries = s.retries,
         NEW m \in Nat
  PROVE  Grown(y, c, s, m, t, m, SVerify(y, t.state, m))
<1> DEFINE out == SVerify(y, t.state, m)
<1>1. IsSeq(out) /\ IsSeq(<<>>)
  BY ServerStreams, ShortSeq
<1>2. s.state \notin Flown /\ s.state \notin Unanswered /\ t.state \notin Unanswered
  BY DEF Flown, Unanswered
<1>3. SVerify(y, s.state, m) = <<>> \o <<>>
  BY <1>2 DEF SVerify, SFin, Opt
<1> HIDE DEF out
<1>4. Longer(SVerify(y, s.state, m), SVerify(y, t.state, m), out)
  BY <1>1, <1>3, CatNone DEF Longer, out
<1>5. Longer(SHello(y, s.state, m), SHello(y, t.state, m), out)
  <2>1. Longer(<<y.rsh>> \o SCcs(y, s.state, m), <<y.rsh>> \o SCcs(y, t.state, m), out)
    BY <1>4, LongerVerify
  <2> QED BY <1>2, <2>1 DEF SHello
<1>6. IsSeq(Opt(y.compat /\ y.cookie, CcsRec)) /\ IsSeq(<<y.rhrr>>)
  BY OptSeq, ShortSeq
<1>7. Longer(SRetryCcs(y, s.state, m), SRetryCcs(y, t.state, m), out)
  BY <1>5, <1>6, LongerBehind DEF SRetryCcs
<1>8. Longer(<<y.rhrr>> \o SRetryCcs(y, s.state, m), <<y.rhrr>> \o SRetryCcs(y, t.state, m), out)
  BY <1>6, <1>7, LongerBehind
<1>9. Longer(SRetry(y, s.state, s.retries, m), SRetry(y, t.state, t.retries, m), out)
  BY <1>5, <1>8 DEF SRetry
<1>10. m <= m
  OBVIOUS
<1> QED BY <1>1, <1>4, <1>5, <1>9, <1>10 DEF Grown, out

(* A record of application data. *)
LEMMA GrownByData ==
  ASSUME NEW y, y.tickets \in Nat, NEW c, c.state # "start",
         NEW s, s.state \in Flown, NEW t, t.state = s.state, t.retries = s.retries, NEW m \in Nat
  PROVE  Grown(y, c, s, m, t, m + 1, <<y.server[y.tickets + m]>>)
<1> DEFINE out == <<y.server[y.tickets + m]>>
<1>1. PICK e : e = y.tickets + m
  OBVIOUS
<1>2. e \in Nat /\ y.tickets + (m + 1) = e + 1 /\ m <= m + 1 /\ 0 \in 0 .. e /\ e + 1 \in Nat
  BY <1>1
<1>3. IsSeq(out) /\ out = <<y.server[e]>>
  BY <1>1, ShortSeq
<1> HIDE DEF out
<1>4. ASSUME NEW q \in 0 .. e
      PROVE  Longer(Run(y.server, q, e), Run(y.server, q, e + 1), out)
  <2>1. q \in Nat /\ q <= e
    BY <1>2
  <2>2. Run(y.server, q, e + 1) = Run(y.server, q, e) \o <<y.server[e]>>
    BY <1>2, <2>1, RunLast, ZenonT(30)
  <2>3. IsSeq(Run(y.server, q, e))
    BY <1>2, <2>1, RunSeq, ZenonT(30)
  <2> QED BY <1>3, <2>2, <2>3 DEF Longer
<1>5. Longer(Run(y.server, 0, e), Run(y.server, 0, e + 1), out)
  BY <1>2, <1>4
<1>6. IsSeq(<<y.rfin>>) /\ IsSeq(Opt(~y.found /\ s.state \in Flown, y.rcv))
      /\ IsSeq(Opt(y.compat /\ y.cookie, CcsRec)) /\ IsSeq(<<y.rhrr>>)
  BY OptSeq, ShortSeq
<1>7. Longer(<<y.rfin>> \o Run(y.server, 0, e), <<y.rfin>> \o Run(y.server, 0, e + 1), out)
  BY <1>5, <1>6, LongerBehind
<1>8. Longer(SFin(y, s.state, m), SFin(y, t.state, m + 1), out)
  BY <1>1, <1>2, <1>7 DEF SFin
<1>9. Longer(SVerify(y, s.state, m), SVerify(y, t.state, m + 1), out)
  BY <1>6, <1>8, LongerBehind DEF SVerify
<1>10. Longer(SHello(y, s.state, m), SHello(y, t.state, m + 1), out)
  <2>1. Longer(<<y.rsh>> \o SCcs(y, s.state, m), <<y.rsh>> \o SCcs(y, t.state, m + 1), out)
    BY <1>9, LongerVerify
  <2>2. s.state \notin Unanswered
    BY DEF Unanswered, Flown
  <2> QED BY <2>1, <2>2 DEF SHello
<1>11. Longer(SRetryCcs(y, s.state, m), SRetryCcs(y, t.state, m + 1), out)
  BY <1>6, <1>10, LongerBehind DEF SRetryCcs
<1>12. Longer(<<y.rhrr>> \o SRetryCcs(y, s.state, m), <<y.rhrr>> \o SRetryCcs(y, t.state, m + 1), out)
  BY <1>6, <1>11, LongerBehind
<1>13. Longer(SRetry(y, s.state, s.retries, m), SRetry(y, t.state, t.retries, m + 1), out)
  BY <1>10, <1>12 DEF SRetry
<1>14. \A q \in 0 .. y.tickets + m :
          Longer(Run(y.server, q, y.tickets + m), Run(y.server, q, y.tickets + (m + 1)), out)
  BY <1>1, <1>2, <1>4
<1>15. Grown(y, c, s, m, t, m + 1, out)
  BY <1>2, <1>3, <1>8, <1>9, <1>10, <1>13, <1>14 DEF Grown
<1> QED BY <1>15 DEF out

-----------------------------------------------------------------------------
(* Contexts, records and schedules. *)

(* A context that seals or opens one record more. *)
LEMMA CtxUsed ==
  /\ NoProtection = Ctx(NoKey, 0) /\ \A k : Protect(k) = Ctx(k, 0)
  /\ \A k, q, n : k # NoKey => Used(Ctx(k, q), n) = Ctx(k, q + n)
  /\ \A q, n : Used(Ctx(NoKey, q), n) = Ctx(NoKey, q)
<1>1. NoProtection = Ctx(NoKey, 0) /\ \A k : Protect(k) = Ctx(k, 0)
  BY DEF NoProtection, Protect, Ctx
<1>2. ASSUME NEW k, NEW q, NEW n, k # NoKey PROVE Used(Ctx(k, q), n) = Ctx(k, q + n)
  BY <1>2 DEF Used, Ctx
<1>3. ASSUME NEW q, NEW n PROVE Used(Ctx(NoKey, q), n) = Ctx(NoKey, q)
  BY DEF Used, Ctx
<1> QED BY <1>1, <1>2, <1>3

(* A record is read by the context that is next. *)
LEMMA CtxOpens ==
  ASSUME NEW k, NEW q, NEW r, r.key = k, k # NoKey => r.seq = q
  PROVE  /\ Opens(Ctx(k, q), r)
         /\ Read(Ctx(k, q), r) = IF k = NoKey THEN Ctx(k, q) ELSE Ctx(k, q + 1)
<1>1. Ctx(k, q).key = k /\ Ctx(k, q).seq = q
  BY CtxFields
<1>2. Opens(Ctx(k, q), r)
  BY <1>1 DEF Opens
<1>3. Read(Ctx(k, q), r) = IF k = NoKey THEN Ctx(k, q) ELSE Ctx(k, q + 1)
  BY CtxUsed DEF Read
<1> QED BY <1>2, <1>3

(* Sealing: nothing, one message, the first of several. *)
LEMMA SealNone == \A p : Seal(p, <<>>) = <<>>
<1> TAKE p
<1>1. Len(<<>>) = 0 /\ 1 .. 0 = {}
  OBVIOUS
<1>2. DOMAIN Seal(p, <<>>) = {}
  BY <1>1 DEF Seal
<1>3. IsSeq(Seal(p, <<>>))
  BY ShortSeq, SealSeq
<1>4. PICK S : Seal(p, <<>>) \in Seq(S)
  BY <1>3 DEF IsSeq
<1>5. Len(Seal(p, <<>>)) \in Nat /\ DOMAIN Seal(p, <<>>) = 1 .. Len(Seal(p, <<>>))
  BY <1>4, LenProperties
<1>6. Len(Seal(p, <<>>)) = 0
  BY <1>2, <1>5
<1> QED BY <1>4, <1>6, EmptySeq

(* The sequence number of a record. *)
SeqNo(k, q) == IF k = NoKey THEN 0 ELSE q

SealsFirst(k, q, x, items) ==
    Seal(Ctx(k, q), <<x>> \o items) =
        <<Wire(k, SeqNo(k, q), x.msg, x.mac)>> \o Seal(Ctx(k, q + 1), items)

(* Sealing several items seals the first and then the rest. *)
LEMMA SealFirst ==
  ASSUME NEW k, NEW q \in Nat, NEW x, NEW items, IsSeq(items)
  PROVE  SealsFirst(k, q, x, items)
<1> DEFINE all == <<x>> \o items
           s == Seal(Ctx(k, q), all)
           w == <<Wire(k, SeqNo(k, q), x.msg, x.mac)>>
           u == Seal(Ctx(k, q + 1), items)
<1>1. IsSeq(<<x>>) /\ Len(<<x>>) = 1 /\ <<x>>[1] = x
  BY ShortSeq
<1>2. /\ IsSeq(all) /\ Len(items) \in Nat /\ Len(all) = 1 + Len(items) /\ all[1] = x
      /\ \A i \in 1 .. Len(items) : all[1 + i] = items[i]
  BY <1>1, CatElem
<1> HIDE DEF all
<1>3. /\ DOMAIN s = 1 .. Len(all) /\ s = [i \in 1 .. Len(all) |-> s[i]]
      /\ \A i \in 1 .. Len(all) :
            s[i] = Wire(k, SeqNo(k, q + i - 1), all[i].msg, all[i].mac)
  BY CtxFields DEF Seal, Wire, SeqNo
<1>4. /\ DOMAIN u = 1 .. Len(items) /\ u = [i \in 1 .. Len(items) |-> u[i]]
      /\ \A i \in 1 .. Len(items) :
            u[i] = Wire(k, SeqNo(k, q + 1 + i - 1), items[i].msg, items[i].mac)
  BY CtxFields DEF Seal, Wire, SeqNo
<1> HIDE DEF s, u
<1>5. IsSeq(s) /\ Len(s) = 1 + Len(items)
  <2>1. Len(all) \in Nat
    BY <1>2
  <2>2. IsSeq(s) /\ Len(s) = Len(all)
    BY <1>3, <2>1, FunSeq
  <2> QED BY <1>2, <2>2
<1>6. IsSeq(u) /\ Len(u) = Len(items)
  BY <1>2, <1>4, FunSeq
<1>7. IsSeq(w) /\ Len(w) = 1 /\ w[1] = Wire(k, SeqNo(k, q), x.msg, x.mac)
  BY ShortSeq
<1> HIDE DEF w
<1>0. PICK v : Joins(w, u, v)
  BY DEF Joins
<1>8. /\ IsSeq(v) /\ Len(v) = 1 + Len(u) /\ v[1] = w[1]
      /\ \A i \in 1 .. Len(u) : v[1 + i] = u[i]
  <2>1. /\ IsSeq(v) /\ Len(v) = Len(w) + Len(u)
        /\ \A i \in 1 .. Len(w) : v[i] = w[i]
        /\ \A i \in 1 .. Len(u) : v[Len(w) + i] = u[i]
    <3>1. IsSeq(w) /\ IsSeq(u)
      BY <1>6, <1>7
    <3> QED BY <1>0, <3>1, JoinElem
  <2> QED BY <1>7, <2>1
<1>9. ASSUME NEW i \in 1 .. Len(s) PROVE s[i] = v[i]
  <2>1. CASE i = 1
    <3>1. 1 \in 1 .. Len(all) /\ q + 1 - 1 = q
      BY <1>2
    <3>2. s[1] = Wire(k, SeqNo(k, q), all[1].msg, all[1].mac)
      BY <1>3, <3>1
    <3> QED BY <1>2, <1>7, <1>8, <2>1, <3>2
  <2>2. CASE i # 1
    <3>1. PICK j \in 1 .. Len(items) : i = 1 + j
      BY <1>2, <1>5, <2>2
    <3>2. i \in 1 .. Len(all) /\ j \in 1 .. Len(u) /\ q + 1 + j - 1 = q + i - 1
      BY <1>2, <1>5, <1>6, <3>1
    <3>3. s[i] = Wire(k, SeqNo(k, q + i - 1), items[j].msg, items[j].mac)
      BY <1>2, <1>3, <3>1, <3>2
    <3>4. v[i] = Wire(k, SeqNo(k, q + i - 1), items[j].msg, items[j].mac)
      BY <1>4, <1>8, <3>1, <3>2
    <3> QED BY <3>3, <3>4
  <2> QED BY <2>1, <2>2
<1>10. Len(s) = Len(v)
  BY <1>5, <1>6, <1>8
<1>11. s = v
  BY <1>5, <1>8, <1>9, <1>10, SameSeq
<1> QED BY <1>0, <1>11 DEF s, w, u, all, Joins, SealsFirst

(* The records that items become under the key k from the sequence number q on. *)
Sealed(k, q, items, out) == IsSeq(items) /\ IsSeq(out) /\ Seal(Ctx(k, q), items) = out

(* No items give no records. *)
LEMMA SealedNone == \A k, q : Sealed(k, q, <<>>, <<>>)
BY SealNone, ShortSeq DEF Sealed

(* The first of several records, and the others. *)
LEMMA SealedFirst ==
  ASSUME NEW k, NEW q \in Nat, NEW m, NEW mac, NEW items, NEW out, Sealed(k, q + 1, items, out)
  PROVE  Sealed(k, q, <<Item(m, mac)>> \o items, <<Wire(k, SeqNo(k, q), m, mac)>> \o out)
<1>1. Item(m, mac).msg = m /\ Item(m, mac).mac = mac
  BY DEF Item
<1>2. PICK x : x = Item(m, mac)
  OBVIOUS
<1>3. PICK w : w = Wire(k, SeqNo(k, q), m, mac)
  OBVIOUS
<1>4. IsSeq(items) /\ IsSeq(out) /\ Seal(Ctx(k, q + 1), items) = out
  BY DEF Sealed
<1>5. Seal(Ctx(k, q), <<x>> \o items) =
         <<Wire(k, SeqNo(k, q), x.msg, x.mac)>> \o Seal(Ctx(k, q + 1), items)
  <2>1. SealsFirst(k, q, x, items)
    BY <1>4, SealFirst
  <2> QED BY <2>1 DEF SealsFirst
<1>6. x.msg = m /\ x.mac = mac
  BY <1>1, <1>2
<1>7. Seal(Ctx(k, q), <<x>> \o items) = <<w>> \o out
  BY <1>3, <1>4, <1>5, <1>6
<1>8. IsSeq(<<x>> \o items) /\ IsSeq(<<w>> \o out)
  BY <1>4, ShortSeq, CatSeq
<1>9. Sealed(k, q, <<x>> \o items, <<w>> \o out)
  BY <1>7, <1>8 DEF Sealed
<1> QED BY <1>2, <1>3, <1>9

(* One item gives one record. *)
LEMMA SealedOne ==
  ASSUME NEW k, NEW q \in Nat, NEW m, NEW mac
  PROVE  Sealed(k, q, <<Item(m, mac)>>, <<Wire(k, SeqNo(k, q), m, mac)>>)
<1>1. Sealed(k, q + 1, <<>>, <<>>)
  BY SealedNone
<1>2. Sealed(k, q, <<Item(m, mac)>> \o <<>>, <<Wire(k, SeqNo(k, q), m, mac)>> \o <<>>)
  BY <1>1, SealedFirst
<1>3. <<Item(m, mac)>> \o <<>> = <<Item(m, mac)>>
      /\ <<Wire(k, SeqNo(k, q), m, mac)>> \o <<>> = <<Wire(k, SeqNo(k, q), m, mac)>>
  BY ShortSeq, CatNone
<1> QED BY <1>2, <1>3

(* The same, as the value of Seal. *)
LEMMA SealSingle ==
  ASSUME NEW k, NEW q \in Nat, NEW m, NEW mac
  PROVE  Seal(Ctx(k, q), <<Item(m, mac)>>) = <<Wire(k, SeqNo(k, q), m, mac)>>
BY SealedOne DEF Sealed

(* ChangeCipherSpec. *)
LEMMA CcsSent ==
  \A b : ChangeCipherSpec(b) = Opt(b, CcsRec)
<1> TAKE b
<1>1. NoProtection = Ctx(NoKey, 0) /\ 0 \in Nat
  BY CtxUsed
<1>2. Seal(Ctx(NoKey, 0), <<Item(Plain("ccs"), NoMac)>>)
         = <<Wire(NoKey, SeqNo(NoKey, 0), Plain("ccs"), NoMac)>>
  BY <1>1, SealSingle
<1>3. Wire(NoKey, SeqNo(NoKey, 0), Plain("ccs"), NoMac) = CcsRec
  BY DEF SeqNo, CcsRec
<1> QED BY <1>1, <1>2, <1>3 DEF ChangeCipherSpec, Opt

(* Hashing a message. *)
LEMMA HashRecord ==
  \A p, d, t, ms : Hash([psk |-> p, dhe |-> d, th |-> t], ms)
                      = [psk |-> p, dhe |-> d, th |-> t \o ms]
<1> TAKE p, d, t, ms
<1>1. PICK u : u = t \o ms
  OBVIOUS
<1>2. [[psk |-> p, dhe |-> d, th |-> t] EXCEPT !.th = u] = [psk |-> p, dhe |-> d, th |-> u]
  OBVIOUS
<1>3. Hash([psk |-> p, dhe |-> d, th |-> t], ms) = [[psk |-> p, dhe |-> d, th |-> t] EXCEPT !.th = u]
  BY <1>1 DEF Hash
<1> QED BY <1>1, <1>2, <1>3

(* Short sequences put together. *)
LEMMA CatShort ==
  /\ \A x, y : <<x>> \o <<y>> = <<x, y>>
  /\ \A x, y, z : <<x, y>> \o <<z>> = <<x, y, z>>
  /\ \A u, x, y, z : <<u, x, y>> \o <<z>> = <<u, x, y, z>>
<1>1. ASSUME NEW s, IsSeq(s), NEW z, NEW t, t = <<z>>, NEW v, Joins(s, t, v)
      PROVE  /\ IsSeq(v) /\ Len(s) \in Nat /\ Len(v) = Len(s) + 1
             /\ \A i \in 1 .. Len(s) : v[i] = s[i]
             /\ v[Len(s) + 1] = z
  <2>1. IsSeq(t)
    BY <1>1, ShortSeq
  <2>2. Len(t) = 1 /\ t[1] = z
    BY <1>1
  <2>3. IsSeq(s) /\ Joins(s, t, v)
    BY <1>1
  <2>5. /\ IsSeq(v) /\ Len(s) \in Nat /\ Len(v) = Len(s) + Len(t)
        /\ \A i \in 1 .. Len(s) : v[i] = s[i]
        /\ \A i \in 1 .. Len(t) : v[Len(s) + i] = t[i]
    BY <2>1, <2>3, JoinElem
  <2> QED BY <2>2, <2>5
<1>2. ASSUME NEW x, NEW z PROVE <<x>> \o <<z>> = <<x, z>>
  <2>1. PICK s : s = <<x>>
    OBVIOUS
  <2>9. PICK t : t = <<z>>
    OBVIOUS
  <2>2. PICK v : v = s \o t
    OBVIOUS
  <2>10. Joins(s, t, v)
    BY <2>2 DEF Joins
  <2>3. IsSeq(s) /\ Len(s) = 1 /\ s[1] = x
    <3>1. <<x>> \in Seq({x})
      OBVIOUS
    <3> QED BY <2>1, <3>1 DEF IsSeq
  <2>4. /\ IsSeq(v) /\ Len(v) = 2 /\ v[2] = z
        /\ \A i \in 1 .. 1 : v[i] = s[i]
    <3>1. IsSeq(s)
      BY <2>3
    <3>2. /\ IsSeq(v) /\ Len(s) \in Nat /\ Len(v) = Len(s) + 1
          /\ \A i \in 1 .. Len(s) : v[i] = s[i]
          /\ v[Len(s) + 1] = z
      BY <1>1, <2>9, <2>10, <3>1
    <3> QED BY <2>3, <3>2
  <2>5. /\ <<x, z>> \in Seq({x, z}) /\ Len(<<x, z>>) = 2
        /\ <<x, z>>[1] = x /\ <<x, z>>[2] = z
    OBVIOUS
  <2>6. IsSeq(<<x, z>>)
    BY <2>5 DEF IsSeq
  <2>7. \A i \in 1 .. Len(v) : v[i] = <<x, z>>[i]
    BY <2>3, <2>4, <2>5
  <2>8. v = <<x, z>>
    BY <2>4, <2>5, <2>6, <2>7, SameSeq
  <2> QED BY <2>1, <2>2, <2>8, <2>9
<1>3. ASSUME NEW x, NEW y, NEW z PROVE <<x, y>> \o <<z>> = <<x, y, z>>
  <2>1. PICK s : s = <<x, y>>
    OBVIOUS
  <2>9. PICK t : t = <<z>>
    OBVIOUS
  <2>2. PICK v : v = s \o t
    OBVIOUS
  <2>10. Joins(s, t, v)
    BY <2>2 DEF Joins
  <2>3. IsSeq(s) /\ Len(s) = 2 /\ s[1] = x /\ s[2] = y
    <3>1. <<x, y>> \in Seq({x, y})
      OBVIOUS
    <3> QED BY <2>1, <3>1 DEF IsSeq
  <2>4. /\ IsSeq(v) /\ Len(v) = 3 /\ v[3] = z
        /\ \A i \in 1 .. 2 : v[i] = s[i]
    <3>1. IsSeq(s)
      BY <2>3
    <3>2. /\ IsSeq(v) /\ Len(s) \in Nat /\ Len(v) = Len(s) + 1
          /\ \A i \in 1 .. Len(s) : v[i] = s[i]
          /\ v[Len(s) + 1] = z
      BY <1>1, <2>9, <2>10, <3>1
    <3> QED BY <2>3, <3>2
  <2>5. /\ <<x, y, z>> \in Seq({x, y, z}) /\ Len(<<x, y, z>>) = 3
        /\ <<x, y, z>>[1] = x /\ <<x, y, z>>[2] = y /\ <<x, y, z>>[3] = z
    OBVIOUS
  <2>6. IsSeq(<<x, y, z>>)
    BY <2>5 DEF IsSeq
  <2>7. \A i \in 1 .. Len(v) : v[i] = <<x, y, z>>[i]
    BY <2>3, <2>4, <2>5
  <2>8. v = <<x, y, z>>
    BY <2>4, <2>5, <2>6, <2>7, SameSeq
  <2> QED BY <2>1, <2>2, <2>8, <2>9
<1>4. ASSUME NEW u, NEW x, NEW y, NEW z PROVE <<u, x, y>> \o <<z>> = <<u, x, y, z>>
  <2>1. PICK s : s = <<u, x, y>>
    OBVIOUS
  <2>9. PICK t : t = <<z>>
    OBVIOUS
  <2>2. PICK v : v = s \o t
    OBVIOUS
  <2>10. Joins(s, t, v)
    BY <2>2 DEF Joins
  <2>3. IsSeq(s) /\ Len(s) = 3 /\ s[1] = u /\ s[2] = x /\ s[3] = y
    <3>1. <<u, x, y>> \in Seq({u, x, y})
      OBVIOUS
    <3> QED BY <2>1, <3>1 DEF IsSeq
  <2>4. /\ IsSeq(v) /\ Len(v) = 4 /\ v[4] = z
        /\ \A i \in 1 .. 3 : v[i] = s[i]
    <3>1. IsSeq(s)
      BY <2>3
    <3>2. /\ IsSeq(v) /\ Len(s) \in Nat /\ Len(v) = Len(s) + 1
          /\ \A i \in 1 .. Len(s) : v[i] = s[i]
          /\ v[Len(s) + 1] = z
      BY <1>1, <2>9, <2>10, <3>1
    <3> QED BY <2>3, <3>2
  <2>5. /\ <<u, x, y, z>> \in Seq({u, x, y, z}) /\ Len(<<u, x, y, z>>) = 4
        /\ <<u, x, y, z>>[1] = u /\ <<u, x, y, z>>[2] = x /\ <<u, x, y, z>>[3] = y /\ <<u, x, y, z>>[4] = z
    OBVIOUS
  <2>6. IsSeq(<<u, x, y, z>>)
    BY <2>5 DEF IsSeq
  <2>7. \A i \in 1 .. Len(v) : v[i] = <<u, x, y, z>>[i]
    BY <2>3, <2>4, <2>5
  <2>8. v = <<u, x, y, z>>
    BY <2>4, <2>5, <2>6, <2>7, SameSeq
  <2> QED BY <2>1, <2>2, <2>8, <2>9
<1> QED BY <1>2, <1>3, <1>4

=============================================================================
