-------------------------- MODULE InterfacesProofs ---------------------------
(***************************************************************************)
(* Proofs about the ways in which an application drives the library.       *)
(*                                                                         *)
(* Signing: for any number of connections, setups, early calls and orders  *)
(* of the backend's completions, a flight that is sent covers its          *)
(* transcript and a job exists exactly while it is waited for              *)
(* (SigningSound).  The invariant says what a suspended connection must    *)
(* not lose: nothing is written or hashed between the start of the job and *)
(* its end, so that what the job covers is still the transcript when the   *)
(* signature comes.                                                        *)
(*                                                                         *)
(* Cli: for any input, room in the socket and order of the two loops, what *)
(* an end prints is the other end's input in order, and a close comes      *)
(* after all of it when writes are taken whole (LoopSound).  A record      *)
(* tells by its key and its number which block it carries, so the          *)
(* invariant is about the records in flight and the two counters at the    *)
(* ends of the stream, not about the history.                              *)
(***************************************************************************)
EXTENDS Signing, Cli, SequenceTheorems, NaturalsInduction, WellFoundedInduction, TLAPS

---------------------------------------------------------------------------
(* Signing: the invariant.                                                 *)

\* Up to the signature: the transcript is the hello and what has been written,
\* and nothing of it covers anything yet.
Begun(c) ==
    /\ sbuf[c] \in Seq(PlainMessage)
    /\ shash[c] = <<Hello0>> \o sbuf[c]

\* What a job in flight will sign is what is to be signed.
Awaited(c) ==
    /\ sjob[c] \in Job
    /\ sjob[c].over = shash[c]
    /\ sjob[c].scheme \in ToSet(setup[c].algos)

\* A whole flight, for the transcript h and what was sent of it.
Covers(s, h, b) ==
    /\ h = <<Hello0>> \o b
    /\ \A i \in DOMAIN h :
          /\ h[i].type \in {"verify", "finished"} => h[i].over = SubSeq(h, 1, i - 1)
          /\ h[i].type = "verify" => h[i].with \in ToSet(s.algos)
    /\ s.signer # "none" => \E i \in DOMAIN b : b[i].type = "verify"

SignTypes ==
    /\ setup \in [SignConns -> SignSetups]
    /\ sst = [c \in SignConns |-> sst[c]] /\ sbuf = [c \in SignConns |-> sbuf[c]]
    /\ shash = [c \in SignConns |-> shash[c]] /\ sjob = [c \in SignConns |-> sjob[c]]

ConnInv(c) ==
    /\ sst[c] = "hello" => sbuf[c] = <<>> /\ shash[c] = <<Hello0>>
    /\ sst[c] \in {"sign", "generating"} => Begun(c)
    /\ sst[c] = "generating" => Awaited(c)
    /\ sjob[c] # NoJob => sst[c] = "generating"
    /\ sst[c] = "done" => Covers(setup[c], shash[c], sbuf[c])

SigningInv == SignTypes /\ \A c \in SignConns : ConnInv(c)

---------------------------------------------------------------------------
(* Sequences and numbers.                                                  *)

\* A set of positions that is not empty has a first one.
LEMMA FirstOf ==
    ASSUME NEW S, S \subseteq Nat, S # {}
    PROVE \E i \in S : \A j \in S : i <= j
  <1>1. PICK m \in S : \A x \in S : <<x, m>> \notin OpToRel(<, Nat)
    BY NatLessThanWellFounded, WFMin
  <1>2. ASSUME NEW j \in S PROVE m <= j
    <2>1. SUFFICES ASSUME j < m PROVE FALSE  OBVIOUS
    <2>2. <<j, m>> \in {ss \in Nat \X Nat : ss[1] < ss[2]}  BY <2>1
    <2>3. <<j, m>> \in OpToRel(<, Nat)  BY <2>2 DEF OpToRel
    <2> QED BY <1>1, <2>3
  <1> QED BY <1>2

\* Taking a message left unfinished back leaves what was there.
LEMMA ResetIsExact ==
    ASSUME NEW S, NEW s \in Seq(S), NEW x
    PROVE ResetOutput(Append(s, x), Len(s)) = s
  <1>1. s \in Seq(S \cup {x}) /\ x \in S \cup {x}  BY SeqMonotonic
  <1>2. /\ Append(s, x) \in Seq(S \cup {x}) /\ Len(Append(s, x)) = Len(s) + 1
        /\ \A i \in 1 .. Len(s) : Append(s, x)[i] = s[i]
    BY <1>1, AppendProperties
  <1>3. Len(s) \in Nat  BY <1>1, LenProperties
  <1>4. /\ SubSeq(Append(s, x), 1, Len(s)) \in Seq(S \cup {x})
        /\ Len(SubSeq(Append(s, x), 1, Len(s))) = Len(s)
        /\ \A i \in 1 .. Len(s) : SubSeq(Append(s, x), 1, Len(s))[i] = s[i]
    BY <1>2, <1>3
  <1>5. SubSeq(Append(s, x), 1, Len(s)) = s  BY <1>1, <1>4, SeqEqual
  <1> QED BY <1>5 DEF ResetOutput

\* What is appended at one end of a transcript does not change the other.
LEMMA AppendToBoth ==
    ASSUME NEW S, NEW h \in S, NEW b \in Seq(S), NEW x \in Seq(S)
    PROVE (<<h>> \o b) \o x = <<h>> \o (b \o x)
  <1>1. <<h>> \in Seq(S)  OBVIOUS
  <1> QED BY <1>1, ConcatAssociative

\* The scheme selected is one the peer lists, and one of the key's.
LEMMA SchemeIsListed ==
    ASSUME NEW s \in SignSetup, CommonSchemes(s) # {}
    PROVE SelectScheme(s) \in ToSet(s.algos) /\ SelectScheme(s) \in {"rsa", "ec"}
  <1> DEFINE S == CommonSchemes(s)
  <1> DEFINE i == CHOOSE i \in S : \A j \in S : i <= j
  <1>1. s.schemes \in Seq({"rsa", "ec"})  BY DEF SignSetup
  <1>2. DOMAIN s.schemes \subseteq Nat  BY <1>1, LenProperties
  <1>3. S \subseteq Nat /\ S # {}  BY <1>2 DEF CommonSchemes
  <1>4. i \in S
    <2> HIDE DEF S
    <2>1. \E x \in S : \A j \in S : x <= j  BY <1>3, FirstOf
    <2> QED BY <2>1
  <1>5. i \in DOMAIN s.schemes /\ s.schemes[i] \in ToSet(s.algos)
    <2> HIDE DEF i
    <2> QED BY <1>4 DEF CommonSchemes
  <1>6. s.schemes[i] \in {"rsa", "ec"}
    <2> HIDE DEF i
    <2> QED BY <1>1, <1>5
  <1> QED BY <1>5, <1>6 DEF SelectScheme

---------------------------------------------------------------------------
(* The end of a flight.                                                    *)

\* Messages that cover nothing are neither CertificateVerify nor Finished.
LEMMA PlainIsPlain ==
    /\ Hello0 \in PlainMessage
    /\ \A m \in PlainMessage : m.type \notin {"verify", "finished"}
  BY DEF Hello0, Msg, PlainMessage

\* Without a signer the flight ends with Finished over all of it.
LEMMA CoversUnsigned ==
    ASSUME NEW s, s.signer = "none", NEW b \in Seq(PlainMessage), NEW h, h = <<Hello0>> \o b,
           NEW f, f.type = "finished", f.over = h
    PROVE Covers(s, Append(h, f), Append(b, f))
  <1> DEFINE S == PlainMessage \cup {f}
  <1>1. b \in Seq(S) /\ f \in S /\ Hello0 \in S /\ <<Hello0>> \in Seq(PlainMessage)
    BY PlainIsPlain, SeqMonotonic
  <1>2. h \in Seq(PlainMessage) /\ Len(h) \in Nat
    BY <1>1, ConcatProperties, LenProperties
  <1>3. h \in Seq(S)  BY <1>2, SeqMonotonic
  <1> DEFINE H == Append(h, f)
  <1>4. /\ H \in Seq(S) /\ Len(H) = Len(h) + 1 /\ H[Len(h) + 1] = f
        /\ \A i \in 1 .. Len(h) : H[i] = h[i]
    <2> HIDE DEF S
    <2> QED BY <1>1, <1>3, AppendProperties
  <1>5. DOMAIN H = 1 .. Len(h) + 1  BY <1>4, LenProperties
  <1>6. H = <<Hello0>> \o Append(b, f)
    <2> HIDE DEF S
    <2>1. H = h \o <<f>> /\ Append(b, f) = b \o <<f>> /\ <<f>> \in Seq(S)  BY <1>1, <1>3, AppendIsConcat
    <2>2. (<<Hello0>> \o b) \o <<f>> = <<Hello0>> \o (b \o <<f>>)
      <3>1. Hello0 \in S /\ b \in Seq(S) /\ <<f>> \in Seq(S)  BY <1>1, <2>1
      <3> QED BY <3>1, AppendToBoth
    <2> QED BY <2>1, <2>2
  <1>7. SubSeq(H, 1, Len(h)) = h
    <2>1. ResetOutput(Append(h, f), Len(h)) = h  BY <1>2, ResetIsExact
    <2> QED BY <2>1 DEF ResetOutput
  <1>8. f.type = "finished" /\ f.over = h  OBVIOUS
  <1>9. \A i \in 1 .. Len(h) : H[i].type \notin {"verify", "finished"}
    <2>1. \A i \in 1 .. Len(h) : h[i] \in PlainMessage  BY <1>2, ElementOfSeq
    <2> QED BY <1>4, <2>1, PlainIsPlain
  <1>10. ASSUME NEW i \in DOMAIN H
         PROVE /\ H[i].type \in {"verify", "finished"} => H[i].over = SubSeq(H, 1, i - 1)
               /\ H[i].type = "verify" => H[i].with \in ToSet(s.algos)
    <2>1. CASE i \in 1 .. Len(h)  BY <1>9, <2>1
    <2>2. CASE i = Len(h) + 1
      <3>1. H[i] = f /\ i - 1 = Len(h)  BY <1>2, <1>4, <2>2
      <3>2. H[i].type = "finished" /\ H[i].over = SubSeq(H, 1, i - 1)  BY <1>7, <1>8, <3>1
      <3> QED BY <3>2
    <2> QED BY <1>2, <1>5, <2>1, <2>2
  <1> HIDE DEF H
  <1>11. Covers(s, H, Append(b, f))  BY <1>6, <1>10 DEF Covers
  <1> QED BY <1>11 DEF H

\* With one it ends with CertificateVerify over what precedes, then Finished.
LEMMA CoversSigned ==
    ASSUME NEW s, NEW scheme \in ToSet(s.algos), NEW b \in Seq(PlainMessage),
           NEW h, h = <<Hello0>> \o b, NEW v, v.type = "verify", v.over = h, v.with = scheme,
           NEW f, f.type = "finished", f.over = h \o <<v>>
    PROVE Covers(s, Append(h \o <<v>>, f), Append(b \o <<v>>, f))
  <1> DEFINE S == PlainMessage \cup {v, f}
  <1>1. /\ b \in Seq(S) /\ f \in S /\ v \in S /\ Hello0 \in S /\ <<Hello0>> \in Seq(PlainMessage)
        /\ <<v>> \in Seq(S) /\ <<f>> \in Seq(S)
    BY PlainIsPlain, SeqMonotonic
  <1>2. h \in Seq(PlainMessage) /\ Len(h) \in Nat
    BY <1>1, ConcatProperties, LenProperties
  <1>3. h \in Seq(S)  BY <1>2, SeqMonotonic
  <1> DEFINE P == h \o <<v>>
  <1> DEFINE H == Append(P, f)
  <1>4. P = Append(h, v)
    <2> HIDE DEF S
    <2> QED BY <1>1, <1>3, AppendIsConcat
  <1>5. /\ P \in Seq(S) /\ Len(P) = Len(h) + 1 /\ P[Len(h) + 1] = v
        /\ \A i \in 1 .. Len(h) : P[i] = h[i]
    <2> HIDE DEF S, P
    <2> QED BY <1>1, <1>3, <1>4, AppendProperties
  <1>6. /\ H \in Seq(S) /\ Len(H) = Len(h) + 2 /\ H[Len(h) + 2] = f
        /\ \A i \in 1 .. Len(h) + 1 : H[i] = P[i]
    <2> HIDE DEF S, P
    <2>1. /\ H \in Seq(S) /\ Len(H) = Len(P) + 1 /\ H[Len(P) + 1] = f
          /\ \A i \in 1 .. Len(P) : H[i] = P[i]
      BY <1>1, <1>5, AppendProperties
    <2>2. Len(P) + 1 = Len(h) + 2  BY <1>2, <1>5
    <2> QED BY <1>5, <2>1, <2>2
  <1>7. DOMAIN H = 1 .. Len(h) + 2
    <2> HIDE DEF H, S
    <2> QED BY <1>6, LenProperties
  <1>8. H = <<Hello0>> \o Append(b \o <<v>>, f)
    <2> HIDE DEF S
    <2>1. b \o <<v>> \in Seq(S)  BY <1>1, ConcatProperties
    <2>2. H = P \o <<f>> /\ Append(b \o <<v>>, f) = (b \o <<v>>) \o <<f>>
      <3> HIDE DEF P
      <3>1. H = P \o <<f>>  BY <1>1, <1>5, AppendIsConcat, Zenon
      <3>2. Append(b \o <<v>>, f) = (b \o <<v>>) \o <<f>>  BY <1>1, <2>1, AppendIsConcat, Zenon
      <3> QED BY <3>1, <3>2
    <2>3. P = <<Hello0>> \o (b \o <<v>>)  BY <1>1, AppendToBoth, SMTT(30)
    <2>4. (<<Hello0>> \o (b \o <<v>>)) \o <<f>> = <<Hello0>> \o ((b \o <<v>>) \o <<f>>)
      <3>1. PICK t : t = b \o <<v>>  OBVIOUS
      <3>2. t \in Seq(S)  BY <2>1, <3>1
      <3>3. (<<Hello0>> \o t) \o <<f>> = <<Hello0>> \o (t \o <<f>>)  BY <1>1, <3>2, AppendToBoth, SMTT(30)
      <3> QED BY <3>1, <3>3
    <2> QED BY <2>2, <2>3, <2>4
  <1>9. SubSeq(H, 1, Len(P)) = P
    <2> HIDE DEF P
    <2>1. ResetOutput(Append(P, f), Len(P)) = P  BY <1>5, ResetIsExact
    <2> QED BY <2>1 DEF ResetOutput
  <1>10. SubSeq(H, 1, Len(h)) = h
    <2> HIDE DEF H, P
    <2>1. \A i \in 1 .. Len(h) : H[i] = h[i]  BY <1>2, <1>5, <1>6
    <2>2. /\ SubSeq(H, 1, Len(h)) \in Seq(S) /\ Len(SubSeq(H, 1, Len(h))) = Len(h)
          /\ \A i \in 1 .. Len(h) : SubSeq(H, 1, Len(h))[i] = H[i]
      <3> HIDE DEF S
      <3> QED BY <1>2, <1>6
    <2> HIDE DEF S
    <2> QED BY <1>3, <2>1, <2>2, SeqEqual
  <1>11. f.type = "finished" /\ f.over = P /\ v.type = "verify" /\ v.over = h /\ v.with = scheme
    OBVIOUS
  <1>12. \A i \in 1 .. Len(h) : H[i].type \notin {"verify", "finished"}
    <2>1. \A i \in 1 .. Len(h) : h[i] \in PlainMessage  BY <1>2, ElementOfSeq
    <2>2. \A i \in 1 .. Len(h) : H[i] = h[i]
      <3> HIDE DEF H, P
      <3> QED BY <1>2, <1>5, <1>6
    <2> QED BY <2>1, <2>2, PlainIsPlain
  <1> HIDE DEF H, P, S
  <1>13. ASSUME NEW i \in DOMAIN H
         PROVE /\ H[i].type \in {"verify", "finished"} => H[i].over = SubSeq(H, 1, i - 1)
               /\ H[i].type = "verify" => H[i].with \in ToSet(s.algos)
    <2>1. CASE i \in 1 .. Len(h)  BY <1>12, <2>1
    <2>2. CASE i = Len(h) + 1
      <3>1. H[i] = v /\ i - 1 = Len(h)  BY <1>2, <1>5, <1>6, <2>2
      <3>2. H[i].type = "verify" /\ H[i].over = SubSeq(H, 1, i - 1)  BY <1>10, <1>11, <3>1
      <3> QED BY <1>11, <3>1, <3>2
    <2>3. CASE i = Len(h) + 2
      <3>1. H[i] = f /\ i - 1 = Len(P)  BY <1>2, <1>5, <1>6, <2>3
      <3>2. H[i].type = "finished" /\ H[i].over = SubSeq(H, 1, i - 1)  BY <1>9, <1>11, <3>1
      <3> QED BY <3>2
    <2> QED BY <1>2, <1>7, <2>1, <2>2, <2>3
  <1>14. \E i \in DOMAIN Append(b \o <<v>>, f) : Append(b \o <<v>>, f)[i].type = "verify"
    <2> DEFINE B == Append(b \o <<v>>, f)
    <2>1. b \o <<v>> = Append(b, v)  BY <1>1, AppendIsConcat
    <2>2. /\ Append(b, v) \in Seq(S) /\ Len(Append(b, v)) = Len(b) + 1
          /\ Append(b, v)[Len(b) + 1] = v /\ Len(b) \in Nat
      BY <1>1, AppendProperties, LenProperties
    <2>3. /\ B \in Seq(S) /\ Len(B) = Len(Append(b, v)) + 1
          /\ \A i \in 1 .. Len(Append(b, v)) : B[i] = Append(b, v)[i]
      BY <1>1, <2>1, <2>2, AppendProperties
    <2> HIDE DEF B
    <2>4. Len(b) + 1 \in DOMAIN B /\ B[Len(b) + 1] = v
      <3>1. DOMAIN B = 1 .. Len(b) + 2  BY <2>2, <2>3, LenProperties
      <3>2. Len(b) + 1 \in 1 .. Len(Append(b, v))  BY <2>2
      <3>3. B[Len(b) + 1] = Append(b, v)[Len(b) + 1]  BY <2>3, <3>2
      <3> QED BY <2>2, <3>1, <3>3
    <2>5. \E i \in DOMAIN B : B[i].type = "verify"  BY <1>11, <2>4
    <2> QED BY <2>5 DEF B
  <1>15. Covers(s, H, Append(b \o <<v>>, f))  BY <1>8, <1>13, <1>14 DEF Covers
  <1> QED BY <1>15 DEF H, P
---------------------------------------------------------------------------
(* The steps.                                                              *)

\* A step of one connection: the others are as they were.
LEMMA OneConnection ==
    ASSUME SigningInv, NEW c \in SignConns, setup' = setup,
           NEW p, NEW b, NEW h, NEW j,
           sst' = [sst EXCEPT ![c] = p], sbuf' = [sbuf EXCEPT ![c] = b],
           shash' = [shash EXCEPT ![c] = h], sjob' = [sjob EXCEPT ![c] = j]
    PROVE /\ SignTypes'
          /\ sst'[c] = p /\ sbuf'[c] = b /\ shash'[c] = h /\ sjob'[c] = j
          /\ \A d \in SignConns \ {c} : ConnInv(d)'
  <1>1. SignTypes' /\ sst'[c] = p /\ sbuf'[c] = b /\ shash'[c] = h /\ sjob'[c] = j
    BY DEF SigningInv, SignTypes
  <1>2. ASSUME NEW d \in SignConns \ {c} PROVE ConnInv(d)'
    <2>1. sst'[d] = sst[d] /\ sbuf'[d] = sbuf[d] /\ shash'[d] = shash[d] /\ sjob'[d] = sjob[d]
      BY DEF SigningInv, SignTypes
    <2>2. ConnInv(d)  BY DEF SigningInv
    <2> QED BY <2>1, <2>2 DEF ConnInv, Begun, Awaited
  <1> QED BY <1>1, <1>2

\* The messages before CertificateVerify cover nothing.
LEMMA FlightIsPlain ==
    ASSUME NEW c
    PROVE Lead(c) \o <<SendCertificate(setup[c])>> \in Seq(PlainMessage)
  <1>1. DefaultEmit \in PlainMessage
    BY DEF DefaultEmit, BuildCertificateMessage, Msg, PlainMessage
  <1>2. \A o \in BOOLEAN : Compressed(o) \in PlainMessage
    BY DEF Compressed, BuildCertificateMessage, Msg, PlainMessage
  <1>3. SendCertificate(setup[c]) \in PlainMessage
    <2> DEFINE emitted == IF setup[c].compressed THEN EmitCompressed(setup[c]) ELSE <<DefaultEmit>>
    <2>1. PICK o \in BOOLEAN : o = (setup[c].status /\ setup[c].ocsp)  OBVIOUS
    <2>2. emitted = <<>> \/ emitted = <<Compressed(o)>> \/ emitted = <<DefaultEmit>>
      BY <2>1 DEF EmitCompressed
    <2>3. SendCertificate(setup[c]) = IF emitted = <<>> THEN DefaultEmit ELSE emitted[1]
      BY DEF SendCertificate
    <2> HIDE DEF emitted
    <2> QED BY <1>1, <1>2, <2>2, <2>3
  <1>4. Lead(c) \in Seq(PlainMessage)
    <2>1. PICK m, n : m = Msg("server_hello", <<>>, "") /\ n = Msg("extensions", <<>>, "")  OBVIOUS
    <2>2. m \in PlainMessage /\ n \in PlainMessage  BY <2>1 DEF Msg, PlainMessage
    <2>3. <<m, n>> \in Seq(PlainMessage)  BY <2>2
    <2>4. <<>> \in Seq(PlainMessage)  BY EmptySeq
    <2>5. Lead(c) = <<m, n>> \/ Lead(c) = <<>>  BY <2>1, Zenon DEF Lead
    <2> QED BY <2>3, <2>4, <2>5
  <1>5. <<SendCertificate(setup[c])>> \in Seq(PlainMessage)  BY <1>3
  <1> QED BY <1>4, <1>5, ConcatProperties

\* The flight up to the signature.
LEMMA BeginStep ==
    ASSUME SigningInv, NEW c \in SignConns, BeginFlight(c)
    PROVE SigningInv'
  <1>1. PICK before : before = Lead(c) \o <<SendCertificate(setup[c])>>  OBVIOUS
  <1>2. before \in Seq(PlainMessage)  BY <1>1, FlightIsPlain
  <1>3. /\ sst[c] = "hello" /\ setup' = setup
        /\ sst' = [sst EXCEPT ![c] = "sign"] /\ sbuf' = [sbuf EXCEPT ![c] = @ \o before]
        /\ shash' = [shash EXCEPT ![c] = @ \o before] /\ sjob' = [sjob EXCEPT ![c] = sjob[c]]
    BY <1>1 DEF BeginFlight, SigningInv, SignTypes
  <1>4. sbuf[c] = <<>> /\ shash[c] = <<Hello0>> /\ (sjob[c] # NoJob => sst[c] = "generating")
    BY <1>3 DEF SigningInv, ConnInv
  <1>5. <<>> \o before = before  BY <1>2, ConcatEmptySeq
  <1>6. PICK h, b, j : h = shash[c] \o before /\ b = sbuf[c] \o before /\ j = sjob[c]  OBVIOUS
  <1>7. /\ SignTypes' /\ sst'[c] = "sign" /\ sbuf'[c] = b /\ shash'[c] = h /\ sjob'[c] = j
        /\ \A d \in SignConns \ {c} : ConnInv(d)'
    <2>1. /\ sst' = [sst EXCEPT ![c] = "sign"] /\ sbuf' = [sbuf EXCEPT ![c] = b]
          /\ shash' = [shash EXCEPT ![c] = h] /\ sjob' = [sjob EXCEPT ![c] = j]
      BY <1>3, <1>6
    <2>2. setup' = setup  BY <1>3
    <2> QED BY <2>1, <2>2, OneConnection
  <1>8. b = before /\ h = <<Hello0>> \o before /\ j = NoJob  BY <1>3, <1>4, <1>5, <1>6
  <1>9. Begun(c)'  BY <1>2, <1>7, <1>8 DEF Begun
  <1>10. ConnInv(c)'  BY <1>7, <1>8, <1>9 DEF ConnInv
  <1> QED BY <1>7, <1>10 DEF SigningInv

\* A step that only fails or frees a connection.
LEMMA EndStep ==
    ASSUME SigningInv, NEW c \in SignConns, setup' = setup, NEW p \in {"error", "freed"}, NEW b,
           sst' = [sst EXCEPT ![c] = p], sbuf' = [sbuf EXCEPT ![c] = b], shash' = shash,
           sjob' = [sjob EXCEPT ![c] = NoJob]
    PROVE SigningInv'
  <1>1. PICK h : h = shash[c]  OBVIOUS
  <1>2. shash' = [shash EXCEPT ![c] = h]  BY <1>1 DEF SigningInv, SignTypes
  <1>3. /\ SignTypes' /\ sst'[c] = p /\ sjob'[c] = NoJob
        /\ \A d \in SignConns \ {c} : ConnInv(d)'
    BY <1>2, OneConnection, ZenonT(30)
  <1>4. ConnInv(c)'  BY <1>3 DEF ConnInv
  <1> QED BY <1>3, <1>4 DEF SigningInv

\* A step that ends the flight, with a signature of a listed scheme over the
\* transcript, or without where there is no signer.
LEMMA FinishStep ==
    ASSUME SigningInv, NEW c \in SignConns, setup' = setup, Begun(c), NEW verify,
           \/ verify = <<>> /\ setup[c].signer = "none"
           \/ \E x \in ToSet(setup[c].algos) : verify = <<Msg("verify", shash[c], x)>>,
           FinishFlight(c, verify), sjob' = [sjob EXCEPT ![c] = NoJob]
    PROVE SigningInv'
  <1>1. PICK h, b, s : h = shash[c] /\ b = sbuf[c] /\ s = setup[c]  OBVIOUS
  <1>2. b \in Seq(PlainMessage) /\ h = <<Hello0>> \o b  BY <1>1 DEF Begun
  <1>3. PICK f : f = Msg("finished", h \o verify, "")  OBVIOUS
  <1>4. f.type = "finished" /\ f.over = h \o verify  BY <1>3 DEF Msg
  <1>5. PICK H, B : H = Append(h \o verify, f) /\ B = Append(b \o verify, f)  OBVIOUS
  <1>6. /\ sst' = [sst EXCEPT ![c] = "done"] /\ sbuf' = [sbuf EXCEPT ![c] = B]
        /\ shash' = [shash EXCEPT ![c] = H]
    BY <1>1, <1>3, <1>5 DEF FinishFlight, Push
  <1>7. Covers(s, H, B)
    <2>1. CASE verify = <<>> /\ setup[c].signer = "none"
      <3>1. <<Hello0>> \in Seq(PlainMessage)  BY PlainIsPlain
      <3>2. h \in Seq(PlainMessage)  BY <1>2, <3>1, ConcatProperties
      <3>3. h \o verify = h /\ b \o verify = b  BY <1>2, <2>1, <3>2, ConcatEmptySeq
      <3>4. s.signer = "none"  BY <1>1, <2>1
      <3> QED BY <1>2, <1>4, <1>5, <3>3, <3>4, CoversUnsigned
    <2>2. CASE \E x \in ToSet(setup[c].algos) : verify = <<Msg("verify", shash[c], x)>>
      <3>1. PICK x \in ToSet(s.algos) : verify = <<Msg("verify", h, x)>>  BY <1>1, <2>2
      <3>2. PICK v : v = Msg("verify", h, x)  OBVIOUS
      <3>3. v.type = "verify" /\ v.over = h /\ v.with = x  BY <3>2 DEF Msg
      <3>4. verify = <<v>>  BY <3>1, <3>2
      <3> QED BY <1>2, <1>4, <1>5, <3>3, <3>4, CoversSigned
    <2> QED BY <2>1, <2>2
  <1>8. /\ SignTypes' /\ sst'[c] = "done" /\ sbuf'[c] = B /\ shash'[c] = H /\ sjob'[c] = NoJob
        /\ \A d \in SignConns \ {c} : ConnInv(d)'
    BY <1>6, OneConnection
  <1>9. ConnInv(c)'  BY <1>1, <1>7, <1>8 DEF ConnInv
  <1> QED BY <1>8, <1>9 DEF SigningInv
\* do_sign starts a job: it covers the transcript, and the output is as before.
LEMMA AsyncStartStep ==
    ASSUME SigningInv, NEW c \in SignConns, AsyncStart(c)
    PROVE SigningInv'
  <1>1. Begun(c) /\ setup[c] \in SignSetup /\ sst[c] = "sign"
    BY SigningAssumption DEF AsyncStart, SigningInv, ConnInv, SignTypes
  <1>2. PICK h, b, s : h = shash[c] /\ b = sbuf[c] /\ s = setup[c]  OBVIOUS
  <1>3. PICK x : x = SelectScheme(s)  OBVIOUS
  <1>4. x \in ToSet(s.algos) /\ x \in {"rsa", "ec"}
    BY <1>1, <1>2, <1>3, SchemeIsListed DEF AsyncStart
  <1>5. PICK j : j = [scheme |-> x, over |-> h, ready |-> FALSE]  OBVIOUS
  <1>6. h \in Seq(PlainMessage)
    <2>1. <<Hello0>> \in Seq(PlainMessage)  BY PlainIsPlain
    <2>2. b \in Seq(PlainMessage) /\ h = <<Hello0>> \o b  BY <1>1, <1>2 DEF Begun
    <2> QED BY <2>1, <2>2, ConcatProperties
  <1>7. j \in Job /\ j.over = h /\ j.scheme = x  BY <1>4, <1>5, <1>6 DEF Job
  <1>8. ResetOutput(Append(b, Msg("half", <<>>, "")), Len(b)) = b
    BY <1>1, <1>2, ResetIsExact DEF Begun
  <1>9. /\ sst' = [sst EXCEPT ![c] = "generating"] /\ sbuf' = [sbuf EXCEPT ![c] = b]
        /\ shash' = [shash EXCEPT ![c] = h] /\ sjob' = [sjob EXCEPT ![c] = j]
    <2>1. shash' = [shash EXCEPT ![c] = h]  BY <1>2 DEF AsyncStart, SigningInv, SignTypes
    <2>2. sbuf' = [sbuf EXCEPT ![c] = b]  BY <1>2, <1>8 DEF AsyncStart
    <2> QED BY <1>2, <1>3, <1>5, <2>1, <2>2 DEF AsyncStart
  <1>10. setup' = setup  BY DEF AsyncStart
  <1>11. /\ SignTypes' /\ sst'[c] = "generating" /\ sbuf'[c] = b /\ shash'[c] = h /\ sjob'[c] = j
         /\ \A d \in SignConns \ {c} : ConnInv(d)'
    BY <1>9, <1>10, OneConnection
  <1>12. Begun(c)'  BY <1>1, <1>2, <1>11 DEF Begun
  <1>13. Awaited(c)'  BY <1>2, <1>4, <1>7, <1>10, <1>11 DEF Awaited
  <1>14. ConnInv(c)'  BY <1>11, <1>12, <1>13 DEF ConnInv
  <1> QED BY <1>11, <1>14 DEF SigningInv

\* A step while the job is in flight: what it covers stays.
LEMMA WaitStep ==
    ASSUME SigningInv, NEW c \in SignConns, BackendDone(c) \/ ResumeEarly(c)
    PROVE SigningInv'
  <1>1. sst[c] = "generating" /\ Begun(c) /\ Awaited(c)
    BY DEF BackendDone, ResumeEarly, SigningInv, ConnInv
  <1>2. PICK h, b, j : h = shash[c] /\ b = sbuf[c] /\ j = sjob'[c]  OBVIOUS
  <1>3. /\ j \in Job /\ j.over = sjob[c].over /\ j.scheme = sjob[c].scheme
        /\ sjob' = [sjob EXCEPT ![c] = j]
    <2>1. sjob = [d \in SignConns |-> sjob[d]]  BY DEF SigningInv, SignTypes
    <2>2. CASE BackendDone(c)
      <3>1. sjob' = [sjob EXCEPT ![c] = [sjob[c] EXCEPT !.ready = TRUE]]  BY <2>2 DEF BackendDone
      <3>2. j = [sjob[c] EXCEPT !.ready = TRUE]  BY <1>2, <2>1, <3>1
      <3>3. sjob[c] \in Job  BY <1>1 DEF Awaited
      <3>4. j \in Job /\ j.over = sjob[c].over /\ j.scheme = sjob[c].scheme  BY <3>2, <3>3 DEF Job
      <3> QED BY <3>1, <3>2, <3>4
    <2>3. CASE ResumeEarly(c)
      <3>1. sjob' = sjob  BY <2>3 DEF ResumeEarly
      <3> QED BY <1>1, <1>2, <2>1, <3>1 DEF Awaited
    <2> QED BY <2>2, <2>3
  <1>4. /\ sst' = [sst EXCEPT ![c] = "generating"] /\ sbuf' = [sbuf EXCEPT ![c] = b]
        /\ shash' = [shash EXCEPT ![c] = h] /\ setup' = setup
    <2>1. /\ sst = [d \in SignConns |-> sst[d]] /\ sbuf = [d \in SignConns |-> sbuf[d]]
          /\ shash = [d \in SignConns |-> shash[d]]
      BY DEF SigningInv, SignTypes
    <2>2. ResetOutput(Append(b, Msg("half", <<>>, "")), Len(b)) = b
      BY <1>1, <1>2, ResetIsExact DEF Begun
    <2>3. sst' = sst /\ shash' = shash /\ setup' = setup  BY DEF BackendDone, ResumeEarly
    <2>4. sbuf' = sbuf \/ sbuf' = [sbuf EXCEPT ![c] = ResetOutput(Append(b, Msg("half", <<>>, "")), Len(b))]
      BY <1>2 DEF BackendDone, ResumeEarly
    <2>5. sbuf' = [sbuf EXCEPT ![c] = b]  BY <1>2, <2>1, <2>2, <2>4
    <2> QED BY <1>1, <1>2, <2>1, <2>3, <2>5
  <1>5. /\ SignTypes' /\ sst'[c] = "generating" /\ sbuf'[c] = b /\ shash'[c] = h /\ sjob'[c] = j
        /\ \A d \in SignConns \ {c} : ConnInv(d)'
    BY <1>3, <1>4, OneConnection
  <1>6. Begun(c)'  BY <1>1, <1>2, <1>5 DEF Begun
  <1>7. Awaited(c)'  BY <1>1, <1>2, <1>3, <1>4, <1>5 DEF Awaited
  <1>8. ConnInv(c)'  BY <1>5, <1>6, <1>7 DEF ConnInv
  <1> QED BY <1>5, <1>8 DEF SigningInv

\* What the state of a connection says of its job.
LEMMA NoJobYet ==
    ASSUME SigningInv, NEW c \in SignConns, sst[c] # "generating"
    PROVE sjob[c] = NoJob /\ sjob = [sjob EXCEPT ![c] = NoJob]
  BY DEF SigningInv, SignTypes, ConnInv

\* Every step of one connection keeps the invariant.
LEMMA SigningStep ==
    ASSUME SigningInv, [SignNext]_svars
    PROVE SigningInv'
  <1>1. CASE UNCHANGED svars
    <2>1. SignTypes'  BY <1>1 DEF SigningInv, SignTypes, svars
    <2>2. \A c \in SignConns : ConnInv(c)'  BY <1>1 DEF SigningInv, ConnInv, Begun, Awaited, svars
    <2> QED BY <2>1, <2>2 DEF SigningInv
  <1>2. ASSUME NEW c \in SignConns, MissingExtension(c) PROVE SigningInv'
    <2>1. sst[c] = "hello" /\ setup' = setup /\ sjob' = sjob /\ FailsWithAlert(c)
      BY <1>2 DEF MissingExtension
    <2> QED BY <2>1, NoJobYet, EndStep DEF FailsWithAlert
  <1>3. ASSUME NEW c \in SignConns, SignNone(c) PROVE SigningInv'
    <2>1. sst[c] = "sign" /\ setup' = setup /\ sjob' = sjob /\ FinishFlight(c, <<>>)
          /\ setup[c].signer = "none"
      BY <1>3 DEF SignNone
    <2>2. Begun(c)  BY <2>1 DEF SigningInv, ConnInv
    <2>3. sjob' = [sjob EXCEPT ![c] = NoJob]  BY <2>1, NoJobYet
    <2>4. PICK v : v = <<>>  OBVIOUS
    <2>5. FinishFlight(c, v)  BY <2>1, <2>4
    <2> QED BY <2>1, <2>2, <2>3, <2>4, <2>5, FinishStep
  <1>4. ASSUME NEW c \in SignConns, SignSync(c) \/ AsyncAtOnce(c) PROVE SigningInv'
    <2>1. sst[c] = "sign" /\ setup' = setup /\ sjob' = sjob  BY <1>4 DEF SignSync, AsyncAtOnce
    <2>2. Begun(c) /\ setup[c] \in SignSetup
      BY <2>1, SigningAssumption DEF SigningInv, ConnInv, SignTypes
    <2>3. sjob' = [sjob EXCEPT ![c] = NoJob]  BY <2>1, NoJobYet
    <2>4. CASE FailsWithAlert(c)
      BY <2>1, <2>3, <2>4, EndStep DEF FailsWithAlert
    <2>5. CASE /\ CommonSchemes(setup[c]) # {}
               /\ FinishFlight(c, <<Verify(c, SelectScheme(setup[c]))>>)
      <3>1. SelectScheme(setup[c]) \in ToSet(setup[c].algos)  BY <2>2, <2>5, SchemeIsListed
      <3>2. PICK v : v = <<Verify(c, SelectScheme(setup[c]))>>  OBVIOUS
      <3>3. \E x \in ToSet(setup[c].algos) : v = <<Msg("verify", shash[c], x)>>
        BY <3>1, <3>2 DEF Verify
      <3>4. FinishFlight(c, v)  BY <2>5, <3>2
      <3> QED BY <2>1, <2>2, <2>3, <3>3, <3>4, FinishStep
    <2> QED BY <1>4, <2>4, <2>5 DEF SignSync, AsyncAtOnce
  <1>5. ASSUME NEW c \in SignConns, Resume(c) PROVE SigningInv'
    <2>1. /\ sst[c] = "generating" /\ setup' = setup /\ sjob' = [sjob EXCEPT ![c] = NoJob]
          /\ FinishFlight(c, <<Msg("verify", sjob[c].over, sjob[c].scheme)>>)
      BY <1>5 DEF Resume
    <2>2. Begun(c) /\ sjob[c].over = shash[c] /\ sjob[c].scheme \in ToSet(setup[c].algos)
      BY <2>1 DEF SigningInv, ConnInv, Awaited
    <2>3. PICK v : v = <<Msg("verify", sjob[c].over, sjob[c].scheme)>>  OBVIOUS
    <2>4. \E x \in ToSet(setup[c].algos) : v = <<Msg("verify", shash[c], x)>>  BY <2>2, <2>3
    <2>5. FinishFlight(c, v)  BY <2>1, <2>3
    <2> QED BY <2>1, <2>2, <2>4, <2>5, FinishStep
  <1>6. ASSUME NEW c \in SignConns, ResumeFails(c) PROVE SigningInv'
    <2>1. PICK b : b = Append(sbuf[c], Msg("half", <<>>, ""))  OBVIOUS
    <2>2. /\ setup' = setup /\ sst' = [sst EXCEPT ![c] = "error"] /\ sbuf' = [sbuf EXCEPT ![c] = b]
          /\ shash' = shash /\ sjob' = [sjob EXCEPT ![c] = NoJob]
      BY <1>6, <2>1 DEF ResumeFails, FailsAtOnce
    <2> QED BY <2>2, EndStep
  <1>7. ASSUME NEW c \in SignConns, FreeConn(c) PROVE SigningInv'
    <2>1. PICK b : b = sbuf[c]  OBVIOUS
    <2>2. /\ setup' = setup /\ sst' = [sst EXCEPT ![c] = "freed"] /\ sbuf' = [sbuf EXCEPT ![c] = b]
          /\ shash' = shash /\ sjob' = [sjob EXCEPT ![c] = NoJob]
      BY <1>7, <2>1 DEF FreeConn, SigningInv, SignTypes
    <2> QED BY <2>2, EndStep
  <1>8. ASSUME NEW c \in SignConns, HandleTrailing(c) PROVE SigningInv'
    <2>1. UNCHANGED <<setup, sst, sbuf, shash, sjob>>  BY <1>8 DEF HandleTrailing
    <2>2. SignTypes'  BY <2>1 DEF SigningInv, SignTypes
    <2>3. \A d \in SignConns : ConnInv(d)'  BY <2>1 DEF SigningInv, ConnInv, Begun, Awaited
    <2> QED BY <2>2, <2>3 DEF SigningInv
  <1> QED BY <1>1, <1>2, <1>3, <1>4, <1>5, <1>6, <1>7, <1>8, BeginStep, AsyncStartStep, WaitStep
          DEF SignNext

\* For any number of connections, whatever the backend and the other
\* connections do and however often a call comes too early: a flight that
\* send_certificate_verify suspended is the one it would have sent at once,
\* and its job exists exactly while it is waited for.
THEOREM FlightsAreSound == SignSpec => []SigningSound
  <1>1. SignInit => SigningInv
    <2> SUFFICES ASSUME SignInit PROVE SigningInv  OBVIOUS
    <2>1. SignTypes  BY DEF SignInit, SignTypes
    <2>2. \A c \in SignConns : ConnInv(c)  BY DEF SignInit, ConnInv
    <2> QED BY <2>1, <2>2 DEF SigningInv
  <1>2. SigningInv /\ [SignNext]_svars => SigningInv'  BY SigningStep
  <1>3. SigningInv => SigningSound
    <2> SUFFICES ASSUME SigningInv PROVE SigningSound  OBVIOUS
    <2>1. FlightCoversTranscript  BY DEF SigningInv, ConnInv, Covers, FlightCoversTranscript
    <2>2. JobWhileWaiting
      BY SigningAssumption DEF SigningInv, ConnInv, Awaited, JobWhileWaiting
    <2> QED BY <2>1, <2>2 DEF SigningSound
  <1> QED BY <1>1, <1>2, <1>3, PTL DEF SignSpec

---------------------------------------------------------------------------
(* Cli: the invariant.                                                     *)

KeyNames == {"none", "plain", "early", "hs", "app"}
Kinds == {"hello", "retry", "flight", "flight_early", "end_of_early", "finished", "data", "close"}
CliRecord == [key : KeyNames, n : Nat, what : Kinds, data : Nat]
CliKey == [key : KeyNames, n : Nat]

CliTypes ==
    /\ scen \in CliScenario
    /\ pc \in [Ends -> {"select", "consume", "encrypt", "write", "close"} \cup Gone]
    /\ st \in [Ends -> {"handshake", "1rtt", "shutdown"}]
    /\ tls \in [Ends -> {"server_hello", "client_hello", "second_hello", "end_of_early", "finished", "done"}]
    /\ wkey \in [Ends -> CliKey] /\ rkey \in [Ends -> CliKey]
    /\ maxEarly \in Nat /\ taken \in {"unknown", "accepted", "rejected"}
    /\ encbuf \in [Ends -> Seq(CliRecord)] /\ net \in [Ends -> Seq(CliRecord)]
    /\ ptbuf \in [Ends -> Seq(Nat)] /\ out \in [Ends -> Seq(Nat)]
    /\ early \in [Ends -> Seq(Nat)] /\ read \in [Ends -> Nat]
    /\ inputfd \in [Ends -> BOOLEAN] /\ shut \in [Ends -> BOOLEAN]

\* What is on its way from p, in the socket or waiting to be written.
Stream(p) == net[p] \o encbuf[p]

\* How many hellos there will be before the last one.
Retries == IF scen.retry THEN 1 ELSE 0

\* The blocks that count as delivered before the key of application data.
Released == IF EarlyTaken THEN Len(early["c"]) ELSE 0

\* The two state machines: keys, limits and what has been decided.
ClientAt ==
    \/ /\ tls["c"] = "server_hello" /\ st["c"] = "handshake"
       /\ rkey["c"].key = "plain" /\ rkey["c"].n <= Retries
       /\ taken = IF scen.maxEarly > 0 /\ rkey["c"].n = 0 THEN "unknown" ELSE "rejected"
       /\ maxEarly = IF rkey["c"].n = 0 THEN scen.maxEarly ELSE 0
       /\ taken = "unknown" => wkey["c"].key = "early" /\ wkey["c"].n = Len(early["c"])
       /\ taken # "unknown" => wkey["c"] = Key("none")
    \/ /\ tls["c"] = "done" /\ st["c"] # "handshake"
       /\ rkey["c"].key = "app" /\ wkey["c"].key = "app"
       /\ taken = IF EarlyTaken THEN "accepted" ELSE "rejected"

ServerAt ==
    /\ early["s"] = <<>>
    /\ \/ tls["s"] = "client_hello" /\ rkey["s"] = Key("plain")
       \/ tls["s"] = "second_hello" /\ scen.retry /\ rkey["s"].key = "plain" /\ rkey["s"].n = 1
       \/ tls["s"] = "end_of_early" /\ EarlyTaken /\ rkey["s"].key = "early"
       \/ tls["s"] = "finished" /\ rkey["s"] = Key("hs") /\ (EarlyTaken => tls["c"] = "done")
       \/ tls["s"] = "done" /\ rkey["s"].key = "app" /\ tls["c"] = "done"
    /\ IF tls["s"] \in {"client_hello", "second_hello"} THEN st["s"] = "handshake" /\ wkey["s"] = Key("none")
       ELSE st["s"] # "handshake" /\ wkey["s"].key = "app"

\* A record of either end says where it belongs: the blocks it carries follow
\* from its key and number.
ClientRecord(r) ==
    \/ r.what = "hello" /\ r.key = "plain" /\ r.n <= Retries
    \/ r.what = "data" /\ r.key = "early" /\ r.n < Len(early["c"]) /\ r.data = early["c"][r.n + 1]
    \/ r.what = "data" /\ r.key = "app" /\ tls["c"] = "done" /\ r.data = r.n + 1 + Released
    \/ r.what = "end_of_early" /\ r.key = "early" /\ r.n = Len(early["c"]) /\ EarlyTaken /\ tls["c"] = "done"
    \/ r.what = "finished" /\ r.key = "hs" /\ r.n = 0 /\ tls["c"] = "done"
    \/ r.what = "close" /\ r.key = "app" /\ tls["c"] = "done"

ServerRecord(r) ==
    \/ r.what = "retry" /\ r.key = "plain" /\ r.n = 0 /\ scen.retry
    \/ r.what = (IF EarlyTaken THEN "flight_early" ELSE "flight") /\ r.key = "plain" /\ r.n = Retries
    \/ r.what = "data" /\ r.key = "app" /\ r.data = r.n + 1
    \/ r.what = "close" /\ r.key = "app"

RecordsTell ==
    /\ \A i \in 1 .. Len(Stream("c")) : ClientRecord(Stream("c")[i])
    /\ \A i \in 1 .. Len(Stream("s")) : ServerRecord(Stream("s")[i])

\* What has been put out so far follows from the key and number an end reads
\* with; what has been read and not encrypted, from those it writes with.
OutAt ==
    /\ Len(out["c"]) = IF rkey["c"].key = "app" THEN rkey["c"].n ELSE 0
    /\ \A i \in 1 .. Len(out["c"]) : out["c"][i] = i
    /\ CASE rkey["s"].key = "app" -> Len(out["s"]) = Released + rkey["s"].n
         [] rkey["s"].key = "hs" -> Len(out["s"]) = Released
         [] rkey["s"].key = "early" -> Len(out["s"]) = rkey["s"].n /\ rkey["s"].n <= Released
         [] OTHER -> Len(out["s"]) = 0
    /\ \A i \in 1 .. Len(out["s"]) : out["s"][i] = IF i <= Released THEN early["c"][i] ELSE i

InputAt(p) ==
    /\ Len(ptbuf[p]) <= read[p]
    /\ \A i \in 1 .. Len(ptbuf[p]) : ptbuf[p][i] = read[p] - Len(ptbuf[p]) + i
    /\ st[p] = "handshake" => Len(ptbuf[p]) = read[p] /\ Len(early[p]) <= read[p]
    /\ st[p] = "shutdown" => ~inputfd[p] /\ ptbuf[p] = <<>>
    /\ st[p] = "1rtt" => wkey[p].n + (IF p = "c" THEN Released ELSE 0) = read[p] - Len(ptbuf[p])
    /\ st[p] # "handshake" /\ pc[p] \in {"write", "close"} => ptbuf[p] = <<>>

\* No early data behind Finished.
EarlyComesEarly ==
    /\ \A i, j \in 1 .. Len(Stream("c")) :
          i < j /\ Stream("c")[i].what = "finished" => Stream("c")[j].key # "early"
    /\ tls["s"] = "done" => \A i \in 1 .. Len(Stream("c")) : Stream("c")[i].key # "early"

\* The records of early data that count, with EndOfEarlyData.
EarlyRecords == IF EarlyTaken THEN Len(early["c"]) + 1 ELSE 0

\* The place of a record, or of the record a key is for, in all that an end
\* sends; -1 for early data that is skipped.
Place(p, k) ==
    IF k.key = "plain" THEN k.n
    ELSE IF p = "s" THEN Retries + 1 + k.n
    ELSE IF k.key = "early" THEN IF EarlyTaken THEN 1 + k.n ELSE -1
    ELSE IF k.key = "hs" THEN Retries + 1 + EarlyRecords
    ELSE Retries + 2 + EarlyRecords + k.n

\* The place of the next record an end sends.
NextPlace(p) ==
    IF p = "c"
    THEN IF tls["c"] = "done" THEN Place("c", wkey["c"]) ELSE 1 + rkey["c"].n + Released
    ELSE IF tls["s"] = "client_hello" THEN 0
    ELSE IF tls["s"] = "second_hello" THEN 1 ELSE Place("s", wkey["s"])

\* f[1 .. n] are the numbers from a to b - 1 in order, with -1 anywhere.
Gapless(f, n, a, b) ==
    /\ a <= b
    /\ \A k \in a .. b - 1 : \E i \in 1 .. n : f[i] = k
    /\ \A i \in 1 .. n : f[i] = -1 \/ f[i] \in a .. b - 1
    /\ \A i, j \in 1 .. n : i < j /\ f[i] # -1 /\ f[j] # -1 => f[i] < f[j]

Places(p) == [i \in 1 .. Len(Stream(p)) |-> Place(p, Stream(p)[i])]

\* With writes taken whole, nothing is missing between what an end reads next
\* and what the other sends next.
InSequence(p) == Gapless(Places(p), Len(Stream(p)), Place(p, rkey[Other(p)]), NextPlace(p))

WholeAt(p) ==
    /\ pc[p] # "bad_record"
    /\ pc[p] = "close" \/ st[p] = "shutdown" => encbuf[p] = <<>>
    /\ pc[Other(p)] \notin Gone => InSequence(p)

CliInv ==
    /\ CliTypes /\ ClientAt /\ ServerAt /\ RecordsTell /\ OutAt /\ EarlyComesEarly
    /\ \A p \in Ends : InputAt(p)
    /\ scen.whole => \A p \in Ends : WholeAt(p)

---------------------------------------------------------------------------
(* Cli: streams and places.                                                *)

\* Behind a gapless stretch another one may follow.
LEMMA GaplessJoin ==
    ASSUME NEW f, NEW g, NEW h, NEW n \in Nat, NEW m \in Nat, NEW a \in Int, NEW b \in Int, NEW c \in Int,
           0 <= a, Gapless(f, n, a, b), Gapless(g, m, b, c),
           \A i \in 1 .. n : h[i] = f[i], \A i \in 1 .. m : h[n + i] = g[i]
    PROVE Gapless(h, n + m, a, c)
  <1>0. a <= b /\ b <= c  BY DEF Gapless
  <1>1. ASSUME NEW k \in a .. c - 1 PROVE \E i \in 1 .. n + m : h[i] = k
    <2>1. CASE k < b
      <3>1. PICK i \in 1 .. n : f[i] = k  BY <2>1 DEF Gapless
      <3> QED BY <3>1
    <2>2. CASE k >= b
      <3>1. PICK i \in 1 .. m : g[i] = k  BY <2>2 DEF Gapless
      <3>2. n + i \in 1 .. n + m /\ h[n + i] = k  BY <3>1
      <3> QED BY <3>2
    <2> QED BY <2>1, <2>2
  <1>2. ASSUME NEW i \in 1 .. n + m, i > n PROVE i - n \in 1 .. m /\ h[i] = g[i - n]
    <2>1. i - n \in 1 .. m /\ n + (i - n) = i  BY <1>2
    <2> QED BY <2>1
  <1>3. ASSUME NEW i \in 1 .. n + m PROVE h[i] = -1 \/ h[i] \in a .. c - 1
    <2>1. CASE i <= n
      <3>1. i \in 1 .. n /\ h[i] = f[i]  BY <2>1
      <3>2. f[i] = -1 \/ f[i] \in a .. b - 1  BY <3>1 DEF Gapless
      <3> QED BY <1>0, <3>1, <3>2
    <2>2. CASE i > n
      <3>1. i - n \in 1 .. m /\ h[i] = g[i - n]  BY <1>2, <2>2
      <3>2. g[i - n] = -1 \/ g[i - n] \in b .. c - 1  BY <3>1 DEF Gapless
      <3> QED BY <1>0, <3>1, <3>2
    <2> QED BY <2>1, <2>2
  <1>4. ASSUME NEW i \in 1 .. n + m, NEW j \in 1 .. n + m, i < j, h[i] # -1, h[j] # -1
        PROVE h[i] < h[j]
    <2>1. CASE j <= n
      <3>1. i \in 1 .. n /\ j \in 1 .. n /\ h[i] = f[i] /\ h[j] = f[j]  BY <1>4, <2>1
      <3> QED BY <1>4, <3>1 DEF Gapless
    <2>2. CASE i > n
      <3>1. i - n \in 1 .. m /\ h[i] = g[i - n]  BY <1>2, <2>2
      <3>2. j - n \in 1 .. m /\ h[j] = g[j - n]  BY <1>2, <1>4, <2>2
      <3> QED BY <1>4, <3>1, <3>2 DEF Gapless
    <2>3. CASE i <= n /\ j > n
      <3>1. i \in 1 .. n /\ h[i] = f[i]  BY <2>3
      <3>2. j - n \in 1 .. m /\ h[j] = g[j - n]  BY <1>2, <2>3
      <3>3. h[i] \in a .. b - 1  BY <1>4, <3>1 DEF Gapless
      <3>4. h[j] \in b .. c - 1  BY <1>4, <3>2 DEF Gapless
      <3> QED BY <3>3, <3>4
    <2> QED BY <1>4, <2>1, <2>2, <2>3
  <1>5. a <= c  BY <1>0
  <1> QED BY <1>1, <1>3, <1>4, <1>5 DEF Gapless

\* A stretch of one, of none, and of numbers that follow each other.
LEMMA GaplessRun ==
    ASSUME NEW g, NEW m \in Nat, NEW b \in Nat, \A i \in 1 .. m : g[i] = b + i - 1
    PROVE Gapless(g, m, b, b + m)
  <1>1. ASSUME NEW k \in b .. b + m - 1 PROVE \E i \in 1 .. m : g[i] = k
    <2>1. k - b + 1 \in 1 .. m /\ g[k - b + 1] = k  OBVIOUS
    <2> QED BY <2>1
  <1> QED BY <1>1 DEF Gapless

\* The first record is skipped or is the one expected, and the rest goes on
\* from there.
LEMMA GaplessHead ==
    ASSUME NEW f, NEW h, NEW n \in Nat \ {0}, NEW a \in Nat, NEW b \in Int,
           Gapless(f, n, a, b), \A i \in 1 .. n - 1 : h[i] = f[i + 1]
    PROVE /\ f[1] = -1 => Gapless(h, n - 1, a, b)
          /\ f[1] # -1 => f[1] = a /\ Gapless(h, n - 1, a + 1, b)
  <1>1. ASSUME f[1] # -1 PROVE f[1] = a
    <2>1. f[1] \in a .. b - 1  BY <1>1 DEF Gapless
    <2>2. PICK i \in 1 .. n : f[i] = a  BY <2>1 DEF Gapless
    <2>3. i = 1 \/ f[1] < f[i]  BY <1>1, <2>1, <2>2 DEF Gapless
    <2> QED BY <2>1, <2>2, <2>3
  <1>2. ASSUME NEW k \in a .. b - 1, f[1] # k PROVE \E i \in 1 .. n - 1 : h[i] = k
    <2>1. PICK i \in 1 .. n : f[i] = k  BY DEF Gapless
    <2>2. i - 1 \in 1 .. n - 1 /\ h[i - 1] = k  BY <1>2, <2>1
    <2> QED BY <2>2
  <1>3. ASSUME NEW i \in 1 .. n - 1
        PROVE /\ h[i] = -1 \/ h[i] \in a .. b - 1
              /\ f[1] # -1 => h[i] # a
    <2>1. i + 1 \in 1 .. n /\ h[i] = f[i + 1]  OBVIOUS
    <2>2. f[1] # -1 /\ h[i] # -1 => f[1] < h[i]  BY <2>1 DEF Gapless
    <2> QED BY <1>1, <2>1, <2>2 DEF Gapless
  <1>4. ASSUME NEW i \in 1 .. n - 1, NEW j \in 1 .. n - 1, i < j, h[i] # -1, h[j] # -1
        PROVE h[i] < h[j]
    <2>1. i + 1 \in 1 .. n /\ h[i] = f[i + 1] /\ j + 1 \in 1 .. n /\ h[j] = f[j + 1]  OBVIOUS
    <2> QED BY <1>4, <2>1 DEF Gapless
  <1>5. f[1] = -1 => Gapless(h, n - 1, a, b)  BY <1>2, <1>3, <1>4 DEF Gapless
  <1>6. f[1] # -1 => Gapless(h, n - 1, a + 1, b)
    <2>1. SUFFICES ASSUME f[1] # -1 PROVE Gapless(h, n - 1, a + 1, b)  OBVIOUS
    <2>2. \A k \in a + 1 .. b - 1 : \E i \in 1 .. n - 1 : h[i] = k  BY <1>1, <1>2, <2>1
    <2>3. \A i \in 1 .. n - 1 : h[i] = -1 \/ h[i] \in a + 1 .. b - 1  BY <1>3, <2>1
    <2>4. f[1] \in a .. b - 1  BY <2>1 DEF Gapless
    <2>5. a + 1 <= b  BY <2>4
    <2> QED BY <1>4, <2>2, <2>3, <2>5 DEF Gapless
  <1> QED BY <1>1, <1>5, <1>6

\* Stream t is s without its first record h; t is s with x at its end.
Shorter(s, h, t) ==
    /\ Len(s) \in Nat \ {0} /\ s[1] = h /\ Len(t) = Len(s) - 1
    /\ \A i \in 1 .. Len(s) - 1 : t[i] = s[i + 1]
Longer(s, x, t) ==
    /\ Len(s) \in Nat /\ Len(x) \in Nat /\ Len(t) = Len(s) + Len(x)
    /\ \A i \in 1 .. Len(s) : t[i] = s[i]
    /\ \A i \in 1 .. Len(x) : t[Len(s) + i] = x[i]

\* Taking a record from a stream, adding some at its end, moving some from
\* the buffer into the socket.
LEMMA StreamLess ==
    ASSUME NEW S, NEW n \in Seq(S), NEW e \in Seq(S), n # <<>>
    PROVE Head(n) \in S /\ Shorter(n \o e, Head(n), Tail(n) \o e)
  <1>1. /\ Len(n \o e) \in Nat \ {0} /\ (n \o e)[1] = Head(n) /\ Head(n) \in S
        /\ Len(Tail(n) \o e) = Len(n \o e) - 1
    OBVIOUS
  <1>2. \A i \in 1 .. Len(n \o e) - 1 : (Tail(n) \o e)[i] = (n \o e)[i + 1]
    OBVIOUS
  <1> QED BY <1>1, <1>2 DEF Shorter

LEMMA StreamMore ==
    ASSUME NEW S, NEW n \in Seq(S), NEW e \in Seq(S), NEW x \in Seq(S)
    PROVE Longer(n \o e, x, n \o (e \o x))
  <1>1. /\ Len(n \o e) \in Nat /\ Len(x) \in Nat
        /\ Len(n \o (e \o x)) = Len(n \o e) + Len(x)
    OBVIOUS
  <1>2. \A i \in 1 .. Len(n \o e) : (n \o (e \o x))[i] = (n \o e)[i]
    OBVIOUS
  <1>3. \A i \in 1 .. Len(x) : (n \o (e \o x))[Len(n \o e) + i] = x[i]
    OBVIOUS
  <1> QED BY <1>1, <1>2, <1>3 DEF Longer

LEMMA StreamMoved ==
    ASSUME NEW S, NEW n \in Seq(S), NEW e \in Seq(S), NEW k \in 0 .. Len(e)
    PROVE /\ SubSeq(e, 1, k) \in Seq(S) /\ ShiftBuffer(e, k) \in Seq(S)
          /\ (n \o SubSeq(e, 1, k)) \o ShiftBuffer(e, k) = n \o e
  <1>1. Len(e) \in Nat /\ \A i \in 1 .. Len(e) : e[i] \in S  BY LenProperties, ElementOfSeq
  <1>0. k \in Int /\ k + 1 \in Int /\ 1 \in Int /\ Len(e) \in Int  BY <1>1
  <1>a. \A i \in 1 .. k : e[i] \in S  BY <1>1
  <1>b. \A i \in k + 1 .. Len(e) : e[i] \in S  BY <1>1
  <1>c. SubSeq(e, 1, k) \in Seq(S)  BY <1>0, <1>a, SubSeqProperties
  <1>d. SubSeq(e, k + 1, Len(e)) \in Seq(S)  BY <1>0, <1>b, SubSeqProperties
  <1>2. SubSeq(e, 1, k) \in Seq(S) /\ SubSeq(e, k + 1, Len(e)) \in Seq(S)  BY <1>c, <1>d
  <1>e. 1 \in 1 .. Len(e) + 1 /\ k \in 1 - 1 .. Len(e) /\ Len(e) \in k .. Len(e)  BY <1>1
  <1>f. SubSeq(e, 1, k) \o SubSeq(e, k + 1, Len(e)) = SubSeq(e, 1, Len(e))
    BY <1>e, ConcatAdjacentSubSeq, ZenonT(30)
  <1>3. SubSeq(e, 1, k) \o SubSeq(e, k + 1, Len(e)) = e  BY <1>f, SubSeqFull
  <1> DEFINE A == SubSeq(e, 1, k)
             B == SubSeq(e, k + 1, Len(e))
  <1>4. A \in Seq(S) /\ B \in Seq(S) /\ A \o B = e  BY <1>2, <1>3
  <1> HIDE DEF A, B
  <1>a5. \A u \in Seq(S), v \in Seq(S), w \in Seq(S) : (u \o v) \o w = u \o (v \o w)  BY ConcatAssociative, SMTT(30)
  <1>5. (n \o A) \o B = n \o (A \o B)  BY <1>4, <1>a5
  <1>6. (n \o A) \o B = n \o e  BY <1>4, <1>5
  <1> QED BY <1>2, <1>6 DEF ShiftBuffer, A, B

\* The key of the next record.
LEMMA NextKey ==
    ASSUME NEW k \in CliKey
    PROVE Next1(k) \in CliKey /\ Next1(k).key = k.key /\ Next1(k).n = k.n + 1
  BY DEF CliKey, Next1

\* ptls_send makes one record of each block.
LEMMA EncryptedIs ==
    ASSUME CliTypes, NEW p \in Ends, NEW b \in Seq(Nat)
    PROVE /\ Encrypted(p, b) \in Seq(CliRecord) /\ Len(Encrypted(p, b)) = Len(b) /\ Len(b) \in Nat
          /\ \A i \in 1 .. Len(b) : /\ Encrypted(p, b)[i] = Rec(wkey[p], i - 1, "data", b[i])
                                    /\ b[i] \in Nat
  <1>1. Len(b) \in Nat /\ DOMAIN b = 1 .. Len(b) /\ \A i \in 1 .. Len(b) : b[i] \in Nat
    BY LenProperties, ElementOfSeq
  <1>2. Encrypted(p, b) = [i \in 1 .. Len(b) |-> Rec(wkey[p], i - 1, "data", b[i])]
    BY <1>1 DEF Encrypted
  <1>3. wkey[p].key \in KeyNames /\ wkey[p].n \in Nat  BY DEF CliTypes, CliKey
  <1>4. \A i \in 1 .. Len(b) : Rec(wkey[p], i - 1, "data", b[i]) \in CliRecord
    <2>1. TAKE i \in 1 .. Len(b)
    <2>2. wkey[p].n + (i - 1) \in Nat /\ b[i] \in Nat  BY <1>1, <1>3
    <2> QED BY <1>3, <2>2 DEF Rec, CliRecord, Kinds
  <1>5. Encrypted(p, b) \in [1 .. Len(b) -> CliRecord]  BY <1>2, <1>4
  <1>6. Encrypted(p, b) \in Seq(CliRecord)  BY <1>1, <1>5, SeqDef
  <1>7. DOMAIN Encrypted(p, b) = 1 .. Len(b)  BY <1>2
  <1>8. Len(Encrypted(p, b)) = Len(b)  BY <1>1, <1>6, <1>7, LenProperties
  <1>9. \A i \in 1 .. Len(b) : Encrypted(p, b)[i] = Rec(wkey[p], i - 1, "data", b[i])  BY <1>2
  <1> QED BY <1>1, <1>6, <1>8, <1>9

\* What InSequence says of each direction.
LEMMA InSequenceOf ==
    /\ InSequence("c") <=> Gapless(Places("c"), Len(Stream("c")), Place("c", rkey["s"]), NextPlace("c"))
    /\ InSequence("s") <=> Gapless(Places("s"), Len(Stream("s")), Place("s", rkey["c"]), NextPlace("s"))
    /\ InSequence("c")' <=> Gapless(Places("c"), Len(Stream("c")), Place("c", rkey["s"]), NextPlace("c"))'
    /\ InSequence("s")' <=> Gapless(Places("s"), Len(Stream("s")), Place("s", rkey["c"]), NextPlace("s"))'
  <1>1. Other("c") = "s" /\ Other("s") = "c"  BY DEF Other
  <1> QED BY <1>1, Zenon DEF InSequence

\* The invariant holds at the start.
LEMMA CliInitInv == CliInit => CliInv
  <1> SUFFICES ASSUME CliInit PROVE CliInv  OBVIOUS
  <1>1. CliTypes
    BY CliAssumption DEF CliInit, CliTypes, Ends, Gone, CliKey, CliRecord, KeyNames, Kinds, Key, Rec,
                         CliScenario
  <1>2. /\ Stream("s") = <<>> /\ Len(Stream("s")) = 0 /\ Len(Stream("c")) = 1
        /\ Stream("c")[1] = Rec(Key("plain"), 0, "hello", 0)
    BY DEF CliInit, Ends, Stream
  <1>3. ClientAt /\ ServerAt
    BY <1>1 DEF CliInit, ClientAt, ServerAt, Ends, Key, EarlyTaken, Retries, CliTypes, CliScenario
  <1>4. RecordsTell /\ EarlyComesEarly
    BY <1>2 DEF RecordsTell, EarlyComesEarly, ClientRecord, Rec, Key, CliInit, Ends, Retries
  <1>5. OutAt  BY DEF OutAt, CliInit, Ends, Key
  <1>6. \A p \in Ends : InputAt(p)
    BY DEF InputAt, CliInit, Ends
  <1>7. \A p \in Ends : WholeAt(p)
    <2>1. InSequence("c")
      <3>1. Place("c", rkey["s"]) = 0 /\ NextPlace("c") = 1
        BY DEF CliInit, Ends, Place, NextPlace, Key, Released
      <3>2. \A i \in 1 .. 1 : Places("c")[i] = 0 + i - 1
        BY <1>2 DEF Places, Place, Rec, Key
      <3>3. Gapless(Places("c"), 1, 0, 1)  BY <3>2, GaplessRun
      <3> QED BY <1>2, <3>1, <3>3, InSequenceOf
    <2>2. InSequence("s")
      <3>1. Place("s", rkey["c"]) = 0 /\ NextPlace("s") = 0
        BY DEF CliInit, Ends, Place, NextPlace, Key
      <3>2. Gapless(Places("s"), 0, 0, 0)  BY DEF Gapless
      <3> QED BY <1>2, <3>1, <3>2, InSequenceOf
    <2> QED BY <2>1, <2>2 DEF WholeAt, CliInit, Ends
  <1> QED BY <1>1, <1>3, <1>4, <1>5, <1>6, <1>7 DEF CliInv

\* The types stay.
LEMMA CliTypesStep ==
    ASSUME CliTypes, NEW p \in Ends,
           SocketClosed(p) \/ ReadInput(p) \/ Encrypt(p) \/ Write(p) \/ CloseSender(p)
    PROVE CliTypes'
  <1> DEFINE All == /\ wkey[p].key \in KeyNames /\ wkey[p].n \in Nat
                    /\ encbuf[p] \in Seq(CliRecord) /\ net[p] \in Seq(CliRecord)
                    /\ ptbuf[p] \in Seq(Nat) /\ read[p] \in Nat /\ Len(ptbuf[p]) \in Nat
                    /\ early[p] \in Seq(Nat) /\ Len(early[p]) \in Nat /\ maxEarly \in Nat
  <1>0. All  BY DEF CliTypes, CliKey
  <1> HIDE DEF All
  <1>1. CASE SocketClosed(p)
    BY <1>1 DEF SocketClosed, CliTypes, Exits, Gone
  <1>2. CASE ReadInput(p)
    <2>1. CASE UNCHANGED <<ptbuf, read>> /\ inputfd' \in [Ends -> BOOLEAN]
      BY <1>2, <2>1 DEF ReadInput, CliTypes
    <2>2. CASE /\ ptbuf' = [ptbuf EXCEPT ![p] = Append(@, read[p] + 1)]
               /\ read' = [read EXCEPT ![p] = @ + 1]
               /\ UNCHANGED inputfd
      <3>1. Append(ptbuf[p], read[p] + 1) \in Seq(Nat) /\ read[p] + 1 \in Nat  BY <1>0 DEF All
      <3>2. ptbuf' \in [Ends -> Seq(Nat)] /\ read' \in [Ends -> Nat]  BY <2>2, <3>1 DEF CliTypes
      <3> QED BY <1>2, <2>2, <3>2 DEF ReadInput, CliTypes
    <2> QED BY <1>2, <2>1, <2>2, ZenonT(30) DEF ReadInput, CliTypes
  <1>3. CASE Encrypt(p)
    <2>1. CASE UNCHANGED <<wkey, encbuf, ptbuf, early, shut>> /\ pc' = [pc EXCEPT ![p] = "write"]
      BY <1>3, <2>1 DEF Encrypt, CliTypes
    <2>2. CASE UNCHANGED <<wkey, encbuf, ptbuf, early>> /\ Exits(p, "abort")
      BY <1>3, <2>2 DEF Encrypt, CliTypes, Exits, Gone
    <2>3. CASE /\ SendAmount(p) > 0 /\ pc' = [pc EXCEPT ![p] = "write"] /\ UNCHANGED <<ptbuf, shut>>
               /\ encbuf' = [encbuf EXCEPT ![p] = @ \o Encrypted(p, SubSeq(ptbuf[p], 1, SendAmount(p)))]
               /\ wkey' = [wkey EXCEPT ![p].n = @ + SendAmount(p)]
               /\ early' = [early EXCEPT ![p] = @ \o SubSeq(ptbuf[p], 1, SendAmount(p))]
      <3>1. SendAmount(p) \in Nat /\ SendAmount(p) <= Len(ptbuf[p])
        BY <1>0, <2>3 DEF SendAmount, All
      <3>2. SubSeq(ptbuf[p], 1, SendAmount(p)) \in Seq(Nat)  BY <1>0, <3>1, SMTT(30) DEF All
      <3>3. Encrypted(p, SubSeq(ptbuf[p], 1, SendAmount(p))) \in Seq(CliRecord)
        BY <3>2, EncryptedIs
      <3>4. /\ encbuf[p] \o Encrypted(p, SubSeq(ptbuf[p], 1, SendAmount(p))) \in Seq(CliRecord)
            /\ early[p] \o SubSeq(ptbuf[p], 1, SendAmount(p)) \in Seq(Nat)
            /\ wkey[p].n + SendAmount(p) \in Nat
        BY <1>0, <3>1, <3>2, <3>3, SMTT(30) DEF All
      <3>5. encbuf' \in [Ends -> Seq(CliRecord)]  BY <2>3, <3>4 DEF CliTypes
      <3>6. early' \in [Ends -> Seq(Nat)]  BY <2>3, <3>4 DEF CliTypes
      <3>7. wkey' \in [Ends -> CliKey]  BY <2>3, <3>4 DEF CliTypes, CliKey
      <3> QED BY <1>3, <2>3, <3>5, <3>6, <3>7 DEF Encrypt, CliTypes
    <2>4. CASE /\ pc' = [pc EXCEPT ![p] = "write"] /\ UNCHANGED <<early, shut>>
               /\ encbuf' = [encbuf EXCEPT ![p] = @ \o Encrypted(p, ptbuf[p])]
               /\ wkey' = [wkey EXCEPT ![p].n = @ + Len(ptbuf[p])]
               /\ ptbuf' = [ptbuf EXCEPT ![p] = <<>>]
      <3>1. Encrypted(p, ptbuf[p]) \in Seq(CliRecord)  BY <1>0, EncryptedIs DEF All
      <3>2. /\ encbuf[p] \o Encrypted(p, ptbuf[p]) \in Seq(CliRecord)
            /\ wkey[p].n + Len(ptbuf[p]) \in Nat
        BY <1>0, <3>1 DEF All
      <3>3. encbuf' \in [Ends -> Seq(CliRecord)]  BY <2>4, <3>2 DEF CliTypes
      <3>4. wkey' \in [Ends -> CliKey]  BY <2>4, <3>2 DEF CliTypes, CliKey
      <3>5. ptbuf' \in [Ends -> Seq(Nat)]  BY <2>4 DEF CliTypes
      <3> QED BY <1>3, <2>4, <3>3, <3>4, <3>5 DEF Encrypt, CliTypes
    <2> QED BY <1>3, <2>1, <2>2, <2>3, <2>4 DEF Encrypt
  <1>4. CASE Write(p)
    <2>1. CASE Exits(p, "closed") /\ UNCHANGED <<encbuf, net>>
      BY <1>4, <2>1 DEF Write, Exits, CliTypes, Gone
    <2>2. CASE pc' = [pc EXCEPT ![p] = "close"] /\ UNCHANGED shut
      <3>1. PICK k \in 0 .. Len(encbuf[p]) :
                /\ net' = [net EXCEPT ![p] = @ \o SubSeq(encbuf[p], 1, k)]
                /\ encbuf' = [encbuf EXCEPT ![p] = ShiftBuffer(@, k)]
        BY <1>4, <2>2 DEF Write, Exits, CliTypes
      <3>2. SubSeq(encbuf[p], 1, k) \in Seq(CliRecord) /\ ShiftBuffer(encbuf[p], k) \in Seq(CliRecord)
        BY <1>0, StreamMoved DEF All
      <3>3. net[p] \o SubSeq(encbuf[p], 1, k) \in Seq(CliRecord)  BY <1>0, <3>2 DEF All
      <3>4. net' \in [Ends -> Seq(CliRecord)]  BY <3>1, <3>3 DEF CliTypes
      <3>5. encbuf' \in [Ends -> Seq(CliRecord)]  BY <3>1, <3>2 DEF CliTypes
      <3> QED BY <1>4, <2>2, <3>4, <3>5 DEF Write, CliTypes
    <2> QED BY <1>4, <2>1, <2>2 DEF Write
  <1>5. CASE CloseSender(p)
    <2>1. CASE UNCHANGED <<wkey, net>>
      BY <1>5, <2>1 DEF CloseSender, Exits, CliTypes, Gone
    <2>2. CASE /\ net' = [net EXCEPT ![p] = Append(@, Rec(wkey[p], 0, "close", 0))]
               /\ wkey' = [wkey EXCEPT ![p] = Next1(@)]
               /\ st' = [st EXCEPT ![p] = "shutdown"]
               /\ pc' = [pc EXCEPT ![p] = "select"]
               /\ shut' = [shut EXCEPT ![p] = TRUE]
      <3>1. Rec(wkey[p], 0, "close", 0) \in CliRecord  BY <1>0 DEF Rec, CliRecord, Kinds, All
      <3>2. Append(net[p], Rec(wkey[p], 0, "close", 0)) \in Seq(CliRecord)  BY <1>0, <3>1 DEF All
      <3>3. net' \in [Ends -> Seq(CliRecord)]  BY <2>2, <3>2 DEF CliTypes
      <3>a. wkey[p] \in CliKey  BY DEF CliTypes
      <3>5. Next1(wkey[p]) \in CliKey  BY <3>a, NextKey
      <3>4. wkey' \in [Ends -> CliKey]  BY <2>2, <3>5 DEF CliTypes
      <3> QED BY <1>5, <2>2, <3>3, <3>4 DEF CloseSender, CliTypes
    <2> QED BY <1>5, <2>1, <2>2 DEF CloseSender
  <1> QED BY <1>1, <1>2, <1>3, <1>4, <1>5

---------------------------------------------------------------------------
(* Cli: the steps that leave both streams as they are.                     *)

\* What does not depend on pc, ptbuf and the input.
LEMMA SameStreams ==
    ASSUME UNCHANGED <<scen, st, tls, wkey, rkey, maxEarly, taken, early, out>>,
           Stream("c")' = Stream("c"), Stream("s")' = Stream("s")
    PROVE /\ ClientAt' = ClientAt /\ ServerAt' = ServerAt /\ OutAt' = OutAt
          /\ RecordsTell' = RecordsTell /\ EarlyComesEarly' = EarlyComesEarly
          /\ (InSequence("c")' <=> InSequence("c")) /\ (InSequence("s")' <=> InSequence("s"))
  <1>1. /\ Released' = Released /\ EarlyTaken' = EarlyTaken /\ Retries' = Retries
        /\ EarlyRecords' = EarlyRecords
    BY DEF Released, EarlyTaken, Retries, EarlyRecords
  <1>2. ClientAt' = ClientAt /\ ServerAt' = ServerAt
    BY <1>1 DEF ClientAt, ServerAt
  <1>3. OutAt' = OutAt  BY <1>1 DEF OutAt
  <1>4. RecordsTell' = RecordsTell
    BY <1>1 DEF RecordsTell, ClientRecord, ServerRecord
  <1>5. EarlyComesEarly' = EarlyComesEarly  BY DEF EarlyComesEarly
  <1>6. Places("c")' = Places("c") /\ Places("s")' = Places("s")
    BY <1>1 DEF Places, Place
  <1>7. /\ Place("c", rkey["s"])' = Place("c", rkey["s"]) /\ NextPlace("c")' = NextPlace("c")
        /\ Place("s", rkey["c"])' = Place("s", rkey["c"]) /\ NextPlace("s")' = NextPlace("s")
    BY <1>1 DEF Place, NextPlace
  <1>8. (InSequence("c")' <=> InSequence("c")) /\ (InSequence("s")' <=> InSequence("s"))
    <2>3. Len(Stream("c"))' = Len(Stream("c")) /\ Len(Stream("s"))' = Len(Stream("s"))  OBVIOUS
    <2>4. /\ Gapless(Places("c"), Len(Stream("c")), Place("c", rkey["s"]), NextPlace("c"))'
             = Gapless(Places("c"), Len(Stream("c")), Place("c", rkey["s"]), NextPlace("c"))
          /\ Gapless(Places("s"), Len(Stream("s")), Place("s", rkey["c"]), NextPlace("s"))'
             = Gapless(Places("s"), Len(Stream("s")), Place("s", rkey["c"]), NextPlace("s"))
      BY <1>6, <1>7, <2>3
    <2>5. InSequence("c")' <=> InSequence("c")  BY <2>4, InSequenceOf
    <2>6. InSequence("s")' <=> InSequence("s")  BY <2>4, InSequenceOf
    <2> QED BY <2>5, <2>6
  <1> QED BY <1>2, <1>3, <1>4, <1>5, <1>8

\* read returns 0: an end that is gone needs nothing any more.
LEMMA SocketClosedInv ==
    ASSUME CliInv, NEW p \in Ends, SocketClosed(p) PROVE CliInv'
  <1>1. /\ UNCHANGED <<scen, st, tls, wkey, rkey, maxEarly, taken, encbuf, ptbuf, early, inputfd, read, out, net>>
        /\ pc' = [pc EXCEPT ![p] = "closed"]
    BY DEF SocketClosed, Exits
  <1>2. Stream("c")' = Stream("c") /\ Stream("s")' = Stream("s")  BY <1>1 DEF Stream
  <1>3. CliTypes'  BY CliTypesStep DEF CliInv
  <1>4. ClientAt' /\ ServerAt' /\ OutAt' /\ RecordsTell' /\ EarlyComesEarly'
    BY <1>1, <1>2, SameStreams DEF CliInv
  <1>5. \A q \in Ends : pc'[q] \in {"closed", pc[q]}  BY <1>1 DEF CliInv, CliTypes
  <1>6. \A q \in Ends : InputAt(q)'
    BY <1>1, <1>5 DEF CliInv, InputAt, Released, EarlyTaken
  <1>7. ASSUME scen.whole PROVE \A q \in Ends : WholeAt(q)'
    <2>1. \A q \in Ends : Other(q) \in Ends /\ q \in {"c", "s"}  BY DEF Ends, Other
    <2>2. \A q \in Ends : InSequence(q)' <=> InSequence(q)  BY <1>1, <1>2, <2>1, SameStreams
    <2> QED BY <1>1, <1>5, <1>7, <2>1, <2>2 DEF CliInv, WholeAt, Gone
  <1> QED BY <1>1, <1>3, <1>4, <1>6, <1>7 DEF CliInv

\* A block that is read goes to the end of what waits, the last of the input.
LEMMA InputGrows ==
    ASSUME NEW b \in Seq(Nat), NEW n \in Nat, \A i \in 1 .. Len(b) : b[i] = n - Len(b) + i
    PROVE /\ Len(Append(b, n + 1)) = Len(b) + 1
          /\ \A i \in 1 .. Len(b) + 1 : Append(b, n + 1)[i] = (n + 1) - (Len(b) + 1) + i
  <1>1. n + 1 \in Nat /\ Len(b) \in Nat  BY LenProperties
  <1>2. PICK v, m : v = Append(b, n + 1) /\ m = Len(b)  OBVIOUS
  <1>3. Len(v) = m + 1 /\ v[m + 1] = n + 1 /\ \A i \in 1 .. m : v[i] = b[i]
    BY <1>1, <1>2, AppendProperties
  <1>4. m \in Nat /\ \A i \in 1 .. m : v[i] = n - m + i  BY <1>1, <1>2, <1>3
  <1>5. \A i \in 1 .. m + 1 : v[i] = (n + 1) - (m + 1) + i
    <2>1. TAKE i \in 1 .. m + 1
    <2>2. i \in 1 .. m \/ i = m + 1  BY <1>4
    <2>3. n - m + i = (n + 1) - (m + 1) + i  BY <1>4
    <2>4. (n + 1) - (m + 1) + (m + 1) = n + 1  BY <1>4
    <2> QED BY <1>3, <1>4, <2>2, <2>3, <2>4
  <1> QED BY <1>2, <1>3, <1>5

\* A block of input is read behind what waits.
LEMMA ReadInputInv ==
    ASSUME CliInv, NEW p \in Ends, ReadInput(p) PROVE CliInv'
  <1>1. /\ UNCHANGED <<scen, st, tls, wkey, rkey, maxEarly, taken, encbuf, early, out, net, shut>>
        /\ pc' = [pc EXCEPT ![p] = "encrypt"] /\ pc[p] \in {"select", "consume"}
    BY DEF ReadInput
  <1>2. Stream("c")' = Stream("c") /\ Stream("s")' = Stream("s")  BY <1>1 DEF Stream
  <1>3. CliTypes'  BY CliTypesStep DEF CliInv
  <1>4. ClientAt' /\ ServerAt' /\ OutAt' /\ RecordsTell' /\ EarlyComesEarly'
    BY <1>1, <1>2, SameStreams DEF CliInv
  <1>5. \A q \in Ends : pc'[q] \in {"encrypt", pc[q]} /\ (pc'[q] \in Gone <=> pc[q] \in Gone)
    BY <1>1 DEF CliInv, CliTypes, Gone
  <1>6. ASSUME NEW q \in Ends PROVE InputAt(q)'
    <2>1. Released' = Released  BY <1>1 DEF Released, EarlyTaken
    <2>2. CASE ptbuf'[q] = ptbuf[q] /\ read'[q] = read[q] /\ (inputfd'[q] = inputfd[q] \/ ~inputfd'[q])
      BY <1>1, <1>5, <2>1, <2>2 DEF CliInv, InputAt
    <2>3. CASE /\ q = p /\ inputfd[p] /\ inputfd'[p] = inputfd[p]
               /\ ptbuf'[p] = Append(ptbuf[p], read[p] + 1) /\ read'[p] = read[p] + 1
      <3> DEFINE b == ptbuf[p]
                 n == read[p]
      <3>1. b \in Seq(Nat) /\ Len(b) \in Nat /\ n \in Nat /\ early[p] \in Seq(Nat) /\ Len(early[p]) \in Nat
        BY DEF CliInv, CliTypes
      <3>2. Len(b) <= n /\ \A i \in 1 .. Len(b) : b[i] = n - Len(b) + i  BY DEF CliInv, InputAt
      <3>d. Len(Append(b, n + 1)) = Len(b) + 1
            /\ \A i \in 1 .. Len(b) + 1 : Append(b, n + 1)[i] = (n + 1) - (Len(b) + 1) + i
        BY <3>1, <3>2, InputGrows
      <3>3. Len(Append(b, n + 1)) = Len(b) + 1  BY <3>d
      <3>4. \A i \in 1 .. Len(b) + 1 : Append(b, n + 1)[i] = (n + 1) - (Len(b) + 1) + i  BY <3>d
      <3>5. st[p] # "shutdown"  BY <2>3 DEF CliInv, InputAt
      <3>6. pc'[p] = "encrypt"  BY <1>1 DEF CliInv, CliTypes
      <3>7. st[p] = "handshake" => Len(b) = n /\ Len(early[p]) <= n  BY DEF CliInv, InputAt
      <3>8. st[p] = "1rtt" => wkey[p].n + (IF p = "c" THEN Released ELSE 0) = n - Len(b)
        BY DEF CliInv, InputAt
      <3>9. st[p] = "1rtt" => wkey[p].n + (IF p = "c" THEN Released ELSE 0) = (n + 1) - (Len(b) + 1)
        <4>1. n - Len(b) = (n + 1) - (Len(b) + 1)  BY <3>1
        <4> QED BY <3>8, <4>1
      <3> HIDE DEF b, n
      <3>10. ptbuf'[p] = Append(b, n + 1) /\ read'[p] = n + 1  BY <2>3 DEF b, n
      <3>11. Len(ptbuf'[p]) = Len(b) + 1 /\ st'[p] = st[p] /\ wkey'[p] = wkey[p] /\ early'[p] = early[p]
        BY <1>1, <3>3, <3>10
      <3>12. st'[p] = "handshake" => Len(ptbuf'[p]) = read'[p] /\ Len(early'[p]) <= read'[p]
        BY <3>1, <3>7, <3>10, <3>11
      <3>13. st'[p] = "1rtt" => wkey'[p].n + (IF p = "c" THEN Released' ELSE 0) = read'[p] - Len(ptbuf'[p])
        BY <2>1, <3>9, <3>10, <3>11
      <3>14. Len(ptbuf'[p]) <= read'[p]  BY <3>1, <3>2, <3>10, <3>11
      <3>15. \A i \in 1 .. Len(ptbuf'[p]) : ptbuf'[p][i] = read'[p] - Len(ptbuf'[p]) + i
        BY <3>4, <3>10, <3>11
      <3> QED BY <2>3, <3>5, <3>6, <3>11, <3>12, <3>13, <3>14, <3>15 DEF InputAt
    <2> QED BY <2>2, <2>3 DEF ReadInput, CliInv, CliTypes
  <1>7. ASSUME scen.whole PROVE \A q \in Ends : WholeAt(q)'
    <2>1. \A q \in Ends : Other(q) \in Ends /\ q \in {"c", "s"}  BY DEF Ends, Other
    <2>2. \A q \in Ends : InSequence(q)' <=> InSequence(q)  BY <1>1, <1>2, <2>1, SameStreams
    <2> QED BY <1>1, <1>5, <1>7, <2>1, <2>2 DEF CliInv, WholeAt
  <1> QED BY <1>1, <1>3, <1>4, <1>6, <1>7 DEF CliInv

\* A write moves records from the buffer into the socket; with writes taken
\* whole the buffer is empty when the loop comes to its end.
LEMMA WriteInv ==
    ASSUME CliInv, NEW p \in Ends, Write(p) PROVE CliInv'
  <1>1. /\ UNCHANGED <<scen, st, tls, wkey, rkey, maxEarly, taken, ptbuf, early, inputfd, read, out>>
        /\ pc[p] = "write"
    BY DEF Write
  <1>t. CliTypes /\ CliTypes'  BY CliTypesStep DEF CliInv
  <1>2. CASE Exits(p, "closed") /\ UNCHANGED <<encbuf, net>>
    <2>1. Stream("c")' = Stream("c") /\ Stream("s")' = Stream("s")  BY <1>2 DEF Stream
    <2>2. ClientAt' /\ ServerAt' /\ OutAt' /\ RecordsTell' /\ EarlyComesEarly'
      BY <1>1, <2>1, SameStreams DEF CliInv
    <2>3. pc' = [pc EXCEPT ![p] = "closed"]  BY <1>2 DEF Exits
    <2>4. \A q \in Ends : pc'[q] \in {"closed", pc[q]}  BY <1>t, <2>3 DEF CliTypes
    <2>5. \A q \in Ends : InputAt(q)'
      BY <1>1, <2>4 DEF CliInv, InputAt, Released, EarlyTaken
    <2>6. ASSUME scen.whole PROVE \A q \in Ends : WholeAt(q)'
      <3>1. \A q \in Ends : Other(q) \in Ends /\ q \in {"c", "s"}  BY DEF Ends, Other
      <3>2. \A q \in Ends : InSequence(q)' <=> InSequence(q)  BY <1>1, <2>1, <3>1, SameStreams
      <3> QED BY <1>1, <1>2, <2>3, <2>4, <2>6, <3>1, <3>2 DEF CliInv, WholeAt, Gone
    <2> QED BY <1>1, <1>t, <2>2, <2>5, <2>6 DEF CliInv
  <1>3. CASE /\ pc' = [pc EXCEPT ![p] = "close"] /\ UNCHANGED shut
             /\ \E k \in 0 .. Len(encbuf[p]) :
                  /\ scen.whole => k = Len(encbuf[p])
                  /\ net' = [net EXCEPT ![p] = @ \o SubSeq(encbuf[p], 1, k)]
                  /\ encbuf' = [encbuf EXCEPT ![p] = ShiftBuffer(@, k)]
    <2>0. PICK k \in 0 .. Len(encbuf[p]) :
                  /\ scen.whole => k = Len(encbuf[p])
                  /\ net' = [net EXCEPT ![p] = @ \o SubSeq(encbuf[p], 1, k)]
                  /\ encbuf' = [encbuf EXCEPT ![p] = ShiftBuffer(@, k)]
      BY <1>3
    <2>a. net[p] \in Seq(CliRecord) /\ encbuf[p] \in Seq(CliRecord)  BY <1>t DEF CliTypes
    <2>b. (net[p] \o SubSeq(encbuf[p], 1, k)) \o ShiftBuffer(encbuf[p], k) = net[p] \o encbuf[p]
      BY <2>a, StreamMoved, ZenonT(30)
    <2>c. /\ net'[p] = net[p] \o SubSeq(encbuf[p], 1, k) /\ encbuf'[p] = ShiftBuffer(encbuf[p], k)
          /\ \A q \in Ends : q # p => net'[q] = net[q] /\ encbuf'[q] = encbuf[q]
      BY <1>t, <2>0 DEF CliTypes
    <2>d. \A q \in Ends : net'[q] \o encbuf'[q] = net[q] \o encbuf[q]  BY <2>b, <2>c
    <2>1. Stream("c")' = Stream("c") /\ Stream("s")' = Stream("s")  BY <2>d DEF Stream, Ends
    <2>2. ClientAt' /\ ServerAt' /\ OutAt' /\ RecordsTell' /\ EarlyComesEarly'
      BY <1>1, <2>1, SameStreams DEF CliInv
    <2>4. \A q \in Ends : pc'[q] = (IF q = p THEN "close" ELSE pc[q])  BY <1>t, <1>3 DEF CliTypes
    <2>5. \A q \in Ends : InputAt(q)'
      BY <1>1, <2>4 DEF CliInv, InputAt, Released, EarlyTaken
    <2>6. ASSUME scen.whole PROVE \A q \in Ends : WholeAt(q)'
      <3>1. \A q \in Ends : Other(q) \in Ends /\ q \in {"c", "s"}  BY DEF Ends, Other
      <3>2. \A q \in Ends : InSequence(q)' <=> InSequence(q)  BY <1>1, <2>1, <3>1, SameStreams
      <3>3. encbuf'[p] = <<>>
        <4>1. k = Len(encbuf[p]) /\ Len(encbuf[p]) \in Nat  BY <2>0, <2>6, <2>a
        <4> QED BY <2>c, <4>1 DEF ShiftBuffer
      <3>4. \A q \in Ends : pc'[q] \in Gone <=> pc[q] \in Gone  BY <1>1, <2>4 DEF Gone
      <3> QED BY <1>1, <2>4, <2>6, <2>c, <3>1, <3>2, <3>3, <3>4 DEF CliInv, WholeAt
    <2> QED BY <1>1, <1>t, <2>2, <2>5, <2>6 DEF CliInv
  <1> QED BY <1>2, <1>3 DEF Write

---------------------------------------------------------------------------
(* Cli: the steps by which a stream grows.                                 *)

\* Records that are skipped leave no gap.
LEMMA GaplessSkipped ==
    ASSUME NEW g, NEW m \in Nat, NEW b \in Nat, \A i \in 1 .. m : g[i] = -1
    PROVE Gapless(g, m, b, b)
  BY DEF Gapless

\* Places are numbers.
LEMMA PlaceTypes ==
    ASSUME CliTypes, ClientAt, ServerAt
    PROVE /\ Retries \in 0 .. 1 /\ Released \in Nat /\ Len(early["c"]) \in Nat /\ EarlyRecords \in Nat
          /\ NextPlace("c") \in Nat /\ NextPlace("s") \in Nat
          /\ Place("s", rkey["c"]) \in Nat /\ Place("c", rkey["s"]) \in Nat
  <1>1. Retries \in 0 .. 1 /\ Len(early["c"]) \in Nat /\ Released \in Nat /\ EarlyRecords \in Nat
    BY DEF CliTypes, Retries, Released, Ends, EarlyRecords
  <1>2. wkey["c"].n \in Nat /\ wkey["s"].n \in Nat /\ rkey["c"].n \in Nat /\ rkey["s"].n \in Nat
    BY DEF CliTypes, CliKey, Ends
  <1>3. /\ Retries + 2 + EarlyRecords + wkey["c"].n \in Nat
        /\ Retries + 2 + EarlyRecords + rkey["s"].n \in Nat
        /\ Retries + 1 + EarlyRecords \in Nat /\ 1 + rkey["s"].n \in Nat
        /\ Retries + 1 + wkey["s"].n \in Nat /\ Retries + 1 + rkey["c"].n \in Nat
        /\ 1 + rkey["c"].n + Released \in Nat
    <2>1. PICK a, b, c, d, e, f, g : /\ a = wkey["c"].n /\ b = wkey["s"].n /\ c = rkey["c"].n /\ d = rkey["s"].n
                                     /\ e = Retries /\ f = EarlyRecords /\ g = Released
      OBVIOUS
    <2>2. a \in Nat /\ b \in Nat /\ c \in Nat /\ d \in Nat /\ e \in Nat /\ f \in Nat /\ g \in Nat
      BY <1>1, <1>2, <2>1
    <2>3. e + 2 + f + a \in Nat /\ e + 2 + f + d \in Nat /\ e + 1 + f \in Nat /\ 1 + d \in Nat
          /\ e + 1 + b \in Nat /\ e + 1 + c \in Nat /\ 1 + c + g \in Nat
      BY <2>2
    <2> QED BY <2>1, <2>3
  <1>4. NextPlace("c") \in Nat
    <2>1. tls["c"] = "done" => wkey["c"].key = "app"  BY DEF ClientAt
    <2>2. wkey["c"].key = "app" => Place("c", wkey["c"]) = Retries + 2 + EarlyRecords + wkey["c"].n
      BY DEF Place
    <2> QED BY <1>3, <2>1, <2>2 DEF NextPlace
  <1>5. NextPlace("s") \in Nat
    <2>1. Place("s", wkey["s"]) \in Nat  BY <1>2, <1>3 DEF Place
    <2> QED BY <2>1 DEF NextPlace
  <1>6. Place("s", rkey["c"]) \in Nat  BY <1>2, <1>3 DEF Place
  <1>7. Place("c", rkey["s"]) \in Nat
    <2>1. rkey["s"].key = "early" => EarlyTaken  BY DEF ServerAt, Key
    <2> QED BY <1>2, <1>3, <2>1 DEF Place
  <1> QED BY <1>1, <1>4, <1>5, <1>6, <1>7

\* ptls_send of all that waits, with the key of application data.
SendsAll(p) ==
    /\ pc[p] = "encrypt" /\ st[p] # "handshake" /\ ptbuf[p] # <<>>
    /\ encbuf' = [encbuf EXCEPT ![p] = @ \o Encrypted(p, ptbuf[p])]
    /\ wkey' = [wkey EXCEPT ![p].n = @ + Len(ptbuf[p])]
    /\ ptbuf' = [ptbuf EXCEPT ![p] = <<>>]
    /\ pc' = [pc EXCEPT ![p] = "write"]
    /\ UNCHANGED <<scen, st, tls, rkey, maxEarly, taken, early, inputfd, read, out, net, shut>>

\* The blocks that wait are the next ones, and so are the numbers of their
\* records.
LEMMA SendsAllInv ==
    ASSUME CliInv, CliTypes', NEW p \in Ends, SendsAll(p)
    PROVE CliInv'
  <1>u. UNCHANGED <<scen, st, tls, rkey, maxEarly, taken, early, inputfd, read, out, net, shut>>
    BY DEF SendsAll
  <1>1. CliTypes /\ ClientAt /\ ServerAt /\ RecordsTell /\ OutAt /\ EarlyComesEarly
        /\ (\A q \in Ends : InputAt(q)) /\ p \in {"c", "s"}
    BY DEF CliInv, Ends
  <1>0. PICK x, m, w, rel, b, N, E, S, T, n, rd :
            /\ x = Encrypted(p, ptbuf[p]) /\ m = Len(ptbuf[p]) /\ w = wkey[p].n /\ b = ptbuf[p]
            /\ rel = (IF p = "c" THEN Released ELSE 0)
            /\ N = net[p] /\ E = encbuf[p] /\ rd = read[p]
            /\ S = N \o E /\ T = N \o (E \o x) /\ n = Len(S)
    OBVIOUS
  <1>2. /\ x \in Seq(CliRecord) /\ Len(x) = m /\ m \in Nat
        /\ \A i \in 1 .. m : x[i] = Rec(wkey[p], i - 1, "data", b[i])
    <2>1. ptbuf[p] \in Seq(Nat)  BY <1>1 DEF CliTypes
    <2> QED BY <1>0, <1>1, <2>1, EncryptedIs
  <1>3. N \in Seq(CliRecord) /\ E \in Seq(CliRecord)
    BY <1>0, <1>1 DEF CliTypes
  <1>n. m \in Nat /\ w \in Nat /\ Released \in Nat /\ rel \in Nat /\ rd \in Nat
    <2>1. Released \in Nat  BY <1>1, PlaceTypes
    <2>2. wkey[p].n \in Nat /\ read[p] \in Nat  BY <1>1 DEF CliTypes, CliKey
    <2> QED BY <1>0, <1>2, <2>1, <2>2
  <1>4. st[p] = "1rtt"  BY <1>1 DEF CliTypes, InputAt, SendsAll
  <1>6. wkey[p].key = "app"  BY <1>1, <1>4 DEF ClientAt, ServerAt, Key
  <1>7. \A i \in 1 .. m : b[i] = w + rel + i
    <2>1. w + rel = rd - m /\ \A i \in 1 .. m : b[i] = rd - m + i
      BY <1>0, <1>1, <1>4 DEF InputAt
    <2> QED BY <1>n, <2>1
  <1>8. \A i \in 1 .. m : /\ x[i].key = "app" /\ x[i].what = "data" /\ x[i].n = w + (i - 1)
                          /\ x[i].data = w + rel + i
    <2>1. TAKE i \in 1 .. m
    <2>2. x[i] = [key |-> wkey[p].key, n |-> wkey[p].n + (i - 1), what |-> "data", data |-> b[i]]
      BY <1>2 DEF Rec
    <2> QED BY <1>0, <1>6, <1>7, <2>2
  <1>9. /\ wkey'[p].key = "app" /\ wkey'[p].n = w + m
        /\ \A q \in Ends : q # p => wkey'[q] = wkey[q] /\ encbuf'[q] = encbuf[q] /\ ptbuf'[q] = ptbuf[q]
        /\ ptbuf'[p] = <<>> /\ encbuf'[p] = encbuf[p] \o x
        /\ \A q \in Ends : pc'[q] = (IF q = p THEN "write" ELSE pc[q])
    BY <1>0, <1>1, <1>6 DEF CliTypes, CliKey, SendsAll
  <1>10. /\ n \in Nat /\ Len(T) = n + m
         /\ \A i \in 1 .. n : T[i] = S[i]
         /\ \A i \in 1 .. m : T[n + i] = x[i]
    <2>0. N \in Seq(CliRecord) /\ E \in Seq(CliRecord) /\ x \in Seq(CliRecord)  BY <1>2, <1>3
    <2>1. Longer(N \o E, x, N \o (E \o x))  BY <2>0, StreamMore, Zenon
    <2>2. S = N \o E /\ T = N \o (E \o x) /\ n = Len(S) /\ Len(x) = m  BY <1>0, <1>2
    <2>3. Longer(S, x, T)  BY <2>1, <2>2, Zenon
    <2> QED BY <2>2, <2>3 DEF Longer
  <1>s. S = Stream(p)  BY <1>0 DEF Stream
  <1>11. Stream(p)' = T /\ \A q \in Ends : q # p => Stream(q)' = Stream(q)
    BY <1>0, <1>9, <1>u DEF Stream
  <1>12. \A i \in 1 .. n + m : i \in 1 .. n \/ (i - n \in 1 .. m /\ T[i] = x[i - n])
    <2>1. TAKE i \in 1 .. n + m
    <2>2. CASE i > n
      <3>1. i - n \in 1 .. m /\ n + (i - n) = i  BY <1>2, <1>10, <2>2
      <3> QED BY <1>10, <3>1
    <2> QED BY <1>2, <1>10, <2>2
  <1>13. /\ Released' = Released /\ EarlyTaken' = EarlyTaken /\ Retries' = Retries
         /\ EarlyRecords' = EarlyRecords
    BY <1>u DEF Released, EarlyTaken, Retries, EarlyRecords
  <1>14. ClientAt' /\ ServerAt'
    <2>1. CASE p = "c"
      <3>1. wkey'["s"] = wkey["s"] /\ wkey'["c"].key = "app" /\ tls["c"] = "done"
        BY <1>1, <1>4, <1>9, <2>1 DEF ClientAt, Ends
      <3>2. ClientAt'  BY <1>1, <1>13, <1>u, <3>1 DEF ClientAt
      <3>3. ServerAt'  BY <1>1, <1>13, <1>u, <3>1 DEF ServerAt
      <3> QED BY <3>2, <3>3
    <2>2. CASE p = "s"
      <3>1. /\ wkey'["c"] = wkey["c"] /\ wkey'["s"].key = "app"
            /\ tls["s"] \notin {"client_hello", "second_hello"}
        BY <1>1, <1>4, <1>9, <2>2 DEF ServerAt, Ends
      <3>2. ClientAt'  BY <1>1, <1>13, <1>u, <3>1 DEF ClientAt
      <3>3. ServerAt'  BY <1>1, <1>13, <1>u, <3>1 DEF ServerAt
      <3> QED BY <3>2, <3>3
    <2> QED BY <1>1, <2>1, <2>2
  <1>15. RecordsTell'
    <2>1. CASE p = "c"
      <3>1. tls["c"] = "done"  BY <1>1, <1>4, <2>1 DEF ClientAt
      <3>a. \A i \in 1 .. n : ClientRecord(S[i])  BY <1>0, <1>1, <1>s, <2>1 DEF RecordsTell
      <3>b. \A i \in 1 .. n : ClientRecord(S[i])'  BY <1>13, <1>u, <3>a DEF ClientRecord
      <3>2. \A i \in 1 .. n : ClientRecord(T[i])'  BY <1>10, <3>b
      <3>c. rel = Released  BY <1>0, <2>1
      <3>3. \A i \in 1 .. m : x[i].data = x[i].n + 1 + Released
        <4>1. \A i \in 1 .. m : w + rel + i = (w + (i - 1)) + 1 + rel  BY <1>n
        <4> QED BY <1>8, <3>c, <4>1
      <3>4. \A i \in 1 .. m : ClientRecord(x[i])'  BY <1>8, <1>13, <1>u, <3>1, <3>3 DEF ClientRecord
      <3>5. \A i \in 1 .. n + m : ClientRecord(T[i])'  BY <1>12, <3>2, <3>4
      <3>6. \A i \in 1 .. Len(Stream("s")) : ServerRecord(Stream("s")[i])  BY <1>1 DEF RecordsTell
      <3>7. Stream("s")' = Stream("s")  BY <1>11, <2>1 DEF Ends
      <3>8. \A i \in 1 .. Len(Stream("s")') : ServerRecord(Stream("s")[i])'
        BY <1>13, <1>u, <3>6, <3>7 DEF ServerRecord
      <3>9. Stream("c")' = T /\ Len(T) = n + m  BY <1>10, <1>11, <2>1
      <3> QED BY <3>5, <3>8, <3>9 DEF RecordsTell
    <2>2. CASE p = "s"
      <3>a. \A i \in 1 .. n : ServerRecord(S[i])  BY <1>0, <1>1, <1>s, <2>2 DEF RecordsTell
      <3>b. \A i \in 1 .. n : ServerRecord(S[i])'  BY <1>13, <1>u, <3>a DEF ServerRecord
      <3>2. \A i \in 1 .. n : ServerRecord(T[i])'  BY <1>10, <3>b
      <3>c. rel = 0  BY <1>0, <2>2
      <3>3. \A i \in 1 .. m : x[i].data = x[i].n + 1
        <4>1. \A i \in 1 .. m : w + 0 + i = (w + (i - 1)) + 1  BY <1>n
        <4> QED BY <1>8, <3>c, <4>1
      <3>4. \A i \in 1 .. m : ServerRecord(x[i])'  BY <1>8, <1>13, <1>u, <3>3 DEF ServerRecord
      <3>5. \A i \in 1 .. n + m : ServerRecord(T[i])'  BY <1>12, <3>2, <3>4
      <3>6. \A i \in 1 .. Len(Stream("c")) : ClientRecord(Stream("c")[i])  BY <1>1 DEF RecordsTell
      <3>7. Stream("c")' = Stream("c")  BY <1>11, <2>2 DEF Ends
      <3>8. \A i \in 1 .. Len(Stream("c")') : ClientRecord(Stream("c")[i])'
        BY <1>13, <1>u, <3>6, <3>7 DEF ClientRecord
      <3>9. Stream("s")' = T /\ Len(T) = n + m  BY <1>10, <1>11, <2>2
      <3> QED BY <3>5, <3>8, <3>9 DEF RecordsTell
    <2> QED BY <1>1, <2>1, <2>2
  <1>16. OutAt'  BY <1>1, <1>13, <1>u DEF OutAt
  <1>17. EarlyComesEarly'
    <2>1. CASE p = "c"
      <3>1. \A i \in 1 .. n + m : T[i].key = "early" => i \in 1 .. n  BY <1>8, <1>12
      <3>2. \A i \in 1 .. n + m : T[i].what = "finished" => i \in 1 .. n  BY <1>8, <1>12
      <3>a. /\ \A i, j \in 1 .. n : i < j /\ S[i].what = "finished" => S[j].key # "early"
            /\ tls["s"] = "done" => \A i \in 1 .. n : S[i].key # "early"
        BY <1>0, <1>1, <1>s, <2>1 DEF EarlyComesEarly
      <3>3. \A i, j \in 1 .. n + m : i < j /\ T[i].what = "finished" => T[j].key # "early"
        BY <1>10, <3>1, <3>2, <3>a
      <3>4. tls["s"] = "done" => \A i \in 1 .. n + m : T[i].key # "early"
        BY <1>10, <3>1, <3>a
      <3>9. Stream("c")' = T /\ Len(T) = n + m  BY <1>10, <1>11, <2>1
      <3> QED BY <1>u, <3>3, <3>4, <3>9 DEF EarlyComesEarly
    <2>2. CASE p = "s"
      <3>7. Stream("c")' = Stream("c")  BY <1>11, <2>2 DEF Ends
      <3> QED BY <1>1, <1>u, <3>7 DEF EarlyComesEarly
    <2> QED BY <1>1, <2>1, <2>2
  <1>18. \A q \in Ends : InputAt(q)'
    <2>1. InputAt(p)'
      <3>1. w + rel = rd - m  BY <1>0, <1>1, <1>4 DEF InputAt
      <3>2. (w + m) + rel = rd - 0  BY <1>n, <3>1
      <3>3. Len(ptbuf'[p]) = 0 /\ st'[p] = "1rtt"  BY <1>4, <1>9, <1>u
      <3>4. wkey'[p].n + (IF p = "c" THEN Released' ELSE 0) = read'[p] - Len(ptbuf'[p])
        BY <1>0, <1>9, <1>13, <1>u, <3>2, <3>3
      <3> QED BY <1>0, <1>n, <1>9, <1>u, <3>3, <3>4 DEF InputAt
    <2>2. ASSUME NEW q \in Ends, q # p PROVE InputAt(q)'
      BY <1>1, <1>9, <1>13, <1>u, <2>2 DEF InputAt
    <2> QED BY <2>1, <2>2
  <1>19. ASSUME scen.whole PROVE \A q \in Ends : WholeAt(q)'
    <2>1. \A q \in Ends : WholeAt(q)  BY <1>19 DEF CliInv
    <2>2. /\ Place("c", rkey["s"])' = Place("c", rkey["s"]) /\ Place("s", rkey["c"])' = Place("s", rkey["c"])
      BY <1>13, <1>u DEF Place
    <2>3. ASSUME InSequence(p) PROVE InSequence(p)'
      <3>0. PICK a, c, f, h :
                /\ a = (IF p = "c" THEN Place("c", rkey["s"]) ELSE Place("s", rkey["c"]))
                /\ c = NextPlace(p) /\ f = Places(p) /\ h = Places(p)'
        OBVIOUS
      <3>a. a \in Nat /\ c \in Nat  BY <1>1, <3>0, PlaceTypes
      <3>1. c = Place(p, wkey[p]) /\ NextPlace(p)' = c + m
        <4>1. CASE p = "c"
          <5>1. tls["c"] = "done"  BY <1>1, <1>4, <4>1 DEF ClientAt
          <5>2. NextPlace("c") = Place("c", wkey["c"]) /\ NextPlace("c")' = Place("c", wkey["c"])'
            BY <1>u, <5>1 DEF NextPlace
          <5>3. Place("c", wkey["c"]) = Retries + 2 + EarlyRecords + w
            BY <1>0, <1>6, <4>1 DEF Place
          <5>4. Place("c", wkey["c"])' = Retries + 2 + EarlyRecords + (w + m)
            BY <1>9, <1>13, <4>1 DEF Place
          <5>5. Retries + 2 + EarlyRecords + (w + m) = (Retries + 2 + EarlyRecords + w) + m
            BY <1>1, <1>n, PlaceTypes
          <5> QED BY <3>0, <4>1, <5>2, <5>3, <5>4, <5>5
        <4>2. CASE p = "s"
          <5>1. tls["s"] \notin {"client_hello", "second_hello"}  BY <1>1, <1>4, <4>2 DEF ServerAt
          <5>2. NextPlace("s") = Place("s", wkey["s"]) /\ NextPlace("s")' = Place("s", wkey["s"])'
            BY <1>u, <5>1 DEF NextPlace
          <5>3. Place("s", wkey["s"]) = Retries + 1 + w
            BY <1>0, <1>6, <4>2 DEF Place
          <5>4. Place("s", wkey["s"])' = Retries + 1 + (w + m)
            BY <1>9, <1>13, <4>2 DEF Place
          <5>5. Retries + 1 + (w + m) = (Retries + 1 + w) + m
            BY <1>1, <1>n, PlaceTypes
          <5> QED BY <3>0, <4>2, <5>2, <5>3, <5>4, <5>5
        <4> QED BY <1>1, <4>1, <4>2
      <3>b. h = [i \in 1 .. n + m |-> Place(p, Stream(p)[i])'] /\ f = [i \in 1 .. n |-> Place(p, S[i])]
        BY <1>0, <1>s, <1>10, <1>11, <3>0 DEF Places
      <3>2. \A i \in 1 .. n : h[i] = f[i]
        <4>1. TAKE i \in 1 .. n
        <4>2. i \in 1 .. n + m /\ T[i] = S[i]  BY <1>n, <1>10
        <4>3. Stream(p)'[i] = S[i]  BY <1>11, <4>2
        <4>4. Place(p, Stream(p)[i])' = Place(p, S[i])  BY <1>13, <4>3 DEF Place
        <4> QED BY <3>b, <4>2, <4>4
      <3>3. \A i \in 1 .. m : h[n + i] = c + i - 1
        <4>1. TAKE i \in 1 .. m
        <4>2. n + i \in 1 .. n + m /\ T[n + i] = x[i] /\ x[i].key = "app" /\ x[i].n = w + (i - 1)
          BY <1>n, <1>8, <1>10
        <4>3. Stream(p)'[n + i].key = "app" /\ Stream(p)'[n + i].n = w + (i - 1)  BY <1>11, <4>2
        <4>4. Place(p, Stream(p)[n + i])' = IF p = "s" THEN Retries + 1 + (w + (i - 1))
                                              ELSE Retries + 2 + EarlyRecords + (w + (i - 1))
          BY <1>13, <4>3 DEF Place
        <4>5. Place(p, wkey[p]) = IF p = "s" THEN Retries + 1 + w ELSE Retries + 2 + EarlyRecords + w
          BY <1>0, <1>6 DEF Place
        <4>6. Retries \in Nat /\ EarlyRecords \in Nat /\ w \in Nat /\ i \in Nat
          BY <1>1, <1>n, PlaceTypes
        <4>7. /\ Retries + 1 + (w + (i - 1)) = (Retries + 1 + w) + i - 1
              /\ Retries + 2 + EarlyRecords + (w + (i - 1)) = (Retries + 2 + EarlyRecords + w) + i - 1
          BY <4>6
        <4> QED BY <3>1, <3>b, <4>2, <4>4, <4>5, <4>7
      <3>4. Gapless(f, n, a, c)  BY <1>0, <1>1, <1>s, <2>3, <3>0, InSequenceOf
      <3>5. PICK g : g = [i \in 1 .. m |-> c + i - 1]  OBVIOUS
      <3>6. Gapless(g, m, c, c + m)  BY <1>n, <3>5, <3>a, GaplessRun
      <3>7. \A i \in 1 .. m : h[n + i] = g[i]  BY <3>3, <3>5
      <3>8. a \in Int /\ c \in Int /\ c + m \in Int /\ 0 <= a  BY <1>n, <3>a
      <3>9. Gapless(h, n + m, a, c + m)  BY <1>n, <1>10, <3>2, <3>4, <3>6, <3>7, <3>8, GaplessJoin
      <3>10. Len(Stream(p))' = n + m /\ NextPlace(p)' = c + m /\ Places(p)' = h
        BY <1>10, <1>11, <3>0, <3>1
      <3> QED BY <1>1, <2>2, <3>0, <3>9, <3>10, InSequenceOf
    <2>4. ASSUME NEW q \in Ends, q # p, InSequence(q) PROVE InSequence(q)'
      <3>1. Stream(q)' = Stream(q) /\ wkey'[q] = wkey[q]  BY <1>9, <1>11, <2>4
      <3>2. q \in {"c", "s"}  BY DEF Ends
      <3>3. Places(q)' = Places(q)  BY <1>13, <3>1 DEF Places, Place
      <3>4. NextPlace(q)' = NextPlace(q)  
        <4>1. CASE q = "c"  BY <1>13, <1>u, <3>1, <4>1 DEF NextPlace, Place
        <4>2. CASE q = "s"  BY <1>13, <1>u, <3>1, <4>2 DEF NextPlace, Place
        <4> QED BY <3>2, <4>1, <4>2
      <3> QED BY <2>2, <2>4, <3>1, <3>2, <3>3, <3>4, InSequenceOf
    <2>5. \A q \in Ends : (pc'[q] \in Gone <=> pc[q] \in Gone) /\ (pc'[q] = "close" => pc[q] = "close")
                          /\ (pc'[q] = "bad_record" => pc[q] = "bad_record")
      BY <1>9 DEF Gone, SendsAll
    <2>6. \A q \in Ends : Other(q) \in Ends  BY DEF Ends, Other
    <2> QED BY <1>4, <1>9, <1>u, <2>1, <2>3, <2>4, <2>5, <2>6 DEF WholeAt
  <1> QED BY <1>1, <1>14, <1>15, <1>16, <1>17, <1>18, <1>19, <1>u DEF CliInv

\* ptls_send of early data, from the start of what waits.
SendsEarly(k) ==
    /\ pc["c"] = "encrypt" /\ st["c"] = "handshake" /\ ptbuf["c"] # <<>>
    /\ k = SendAmount("c") /\ k > 0
    /\ encbuf' = [encbuf EXCEPT !["c"] = @ \o Encrypted("c", SubSeq(ptbuf["c"], 1, k))]
    /\ wkey' = [wkey EXCEPT !["c"].n = @ + k]
    /\ early' = [early EXCEPT !["c"] = @ \o SubSeq(ptbuf["c"], 1, k)]
    /\ pc' = [pc EXCEPT !["c"] = "write"]
    /\ UNCHANGED <<scen, st, tls, rkey, maxEarly, taken, ptbuf, inputfd, read, out, net, shut>>

\* A block appended to what has been sent early does not move the others.
LEMMA EarlyGrows ==
    ASSUME NEW e \in Seq(Nat), NEW b \in Seq(Nat), NEW k \in Nat, k <= Len(b)
    PROVE /\ SubSeq(b, 1, k) \in Seq(Nat) /\ Len(SubSeq(b, 1, k)) = k
          /\ \A i \in 1 .. k : SubSeq(b, 1, k)[i] = b[i]
          /\ e \o SubSeq(b, 1, k) \in Seq(Nat) /\ Len(e \o SubSeq(b, 1, k)) = Len(e) + k
          /\ \A i \in 1 .. Len(e) : (e \o SubSeq(b, 1, k))[i] = e[i]
          /\ \A i \in 1 .. k : (e \o SubSeq(b, 1, k))[Len(e) + i] = b[i]
  <1>1. SubSeq(b, 1, k) \in Seq(Nat) /\ Len(SubSeq(b, 1, k)) = k
        /\ \A i \in 1 .. k : SubSeq(b, 1, k)[i] = b[i]
    OBVIOUS
  <1>2. PICK u : u = SubSeq(b, 1, k)  OBVIOUS
  <1>3. /\ e \o u \in Seq(Nat) /\ Len(e \o u) = Len(e) + k
        /\ \A i \in 1 .. Len(e) : (e \o u)[i] = e[i]
        /\ \A i \in 1 .. k : (e \o u)[Len(e) + i] = u[i]
    BY <1>1, <1>2
  <1> QED BY <1>1, <1>2, <1>3

\* A record of early data has its number among all of it; the server, if it
\* takes early data, is still reading it.
LEMMA SendsEarlyInv ==
    ASSUME CliInv, NEW k, SendsEarly(k)
    PROVE CliTypes' => CliInv'
  <1>u. UNCHANGED <<scen, st, tls, rkey, maxEarly, taken, ptbuf, inputfd, read, out, net, shut>>
    BY DEF SendsEarly
  <1>1. CliTypes /\ ClientAt /\ ServerAt /\ RecordsTell /\ OutAt /\ EarlyComesEarly
        /\ \A q \in Ends : InputAt(q)
    BY DEF CliInv
  <1>0. PICK x, w, b, e, N, E, S, T, n, d :
            /\ x = Encrypted("c", SubSeq(ptbuf["c"], 1, k)) /\ w = wkey["c"].n /\ b = ptbuf["c"]
            /\ e = early["c"] /\ N = net["c"] /\ E = encbuf["c"]
            /\ S = N \o E /\ T = N \o (E \o x) /\ n = Len(S) /\ d = early'["c"]
    OBVIOUS
  <1>e. "c" \in Ends /\ "s" \in Ends  BY DEF Ends
  <1>a. /\ ptbuf["c"] \in Seq(Nat) /\ early["c"] \in Seq(Nat)
        /\ net["c"] \in Seq(CliRecord) /\ encbuf["c"] \in Seq(CliRecord)
    BY <1>1, <1>e DEF CliTypes
  <1>2. b \in Seq(Nat) /\ e \in Seq(Nat) /\ N \in Seq(CliRecord) /\ E \in Seq(CliRecord)
    BY <1>0, <1>a
  <1>n. Len(b) \in Nat /\ Len(e) \in Nat /\ maxEarly \in Nat /\ scen.maxEarly \in Nat
    BY <1>1, <1>2, LenProperties DEF CliTypes, CliScenario
  <1>3. /\ k \in Nat \ {0} /\ Len(e) + k <= Len(b) /\ maxEarly > 0
    <2>1. k = (IF "c" = "c" /\ scen.maxEarly > 0
               THEN (IF maxEarly > Len(ptbuf["c"]) THEN Len(ptbuf["c"]) ELSE maxEarly) - Len(early["c"]) ELSE 0)
      BY DEF SendsEarly, SendAmount
    <2>2. k > 0  BY DEF SendsEarly
    <2>3. k = (IF scen.maxEarly > 0 THEN (IF maxEarly > Len(b) THEN Len(b) ELSE maxEarly) - Len(e) ELSE 0)
      BY <1>0, <2>1
    <2> QED BY <1>n, <2>2, <2>3
  <1>4. tls["c"] = "server_hello" /\ taken = "unknown" /\ wkey["c"].key = "early" /\ w = Len(e)
        /\ rkey["c"].n = 0 /\ rkey["c"].key = "plain" /\ scen.maxEarly > 0
    <2>1. st["c"] = "handshake"  BY DEF SendsEarly
    <2>2. rkey["c"].n = 0  BY <1>1, <1>3, <2>1 DEF ClientAt
    <2> QED BY <1>0, <1>1, <1>3, <2>1, <2>2 DEF ClientAt
  <1>5. PICK y : y = SubSeq(b, 1, k)  OBVIOUS
  <1>6. /\ y \in Seq(Nat) /\ Len(y) = k /\ \A i \in 1 .. k : y[i] = b[i]
        /\ d \in Seq(Nat) /\ Len(d) = Len(e) + k
        /\ \A i \in 1 .. Len(e) : d[i] = e[i]
        /\ \A i \in 1 .. k : d[Len(e) + i] = b[i]
    <2>1. k <= Len(b) /\ k \in Nat  BY <1>2, <1>3
    <2>2. d = e \o SubSeq(b, 1, k)  BY <1>0, <1>1, <1>e DEF SendsEarly, CliTypes
    <2> QED BY <1>2, <1>5, <2>1, <2>2, EarlyGrows, SMTT(30)
  <1>7. /\ x \in Seq(CliRecord) /\ Len(x) = k
        /\ \A i \in 1 .. k : x[i] = Rec(wkey["c"], i - 1, "data", y[i])
    <2>1. x = Encrypted("c", y) /\ y \in Seq(Nat) /\ Len(y) = k  BY <1>0, <1>5, <1>6
    <2> QED BY <1>1, <1>e, <2>1, EncryptedIs
  <1>d. Len(d) = Len(e) + k /\ d = early'["c"] /\ wkey["c"].n = Len(e)  BY <1>0, <1>4, <1>6
  <1>8. \A i \in 1 .. k : /\ x[i].key = "early" /\ x[i].what = "data" /\ x[i].n = Len(e) + (i - 1)
                          /\ x[i].data = d[Len(e) + i]
    <2>1. TAKE i \in 1 .. k
    <2>2. x[i] = [key |-> wkey["c"].key, n |-> wkey["c"].n + (i - 1), what |-> "data", data |-> y[i]]
      BY <1>7 DEF Rec
    <2>3. y[i] = d[Len(e) + i]  BY <1>6
    <2> QED BY <1>4, <1>d, <2>2, <2>3
  <1>9. /\ wkey'["c"].key = "early" /\ wkey'["c"].n = Len(e) + k /\ wkey'["s"] = wkey["s"]
        /\ encbuf'["c"] = E \o x /\ encbuf'["s"] = encbuf["s"] /\ early'["s"] = early["s"]
        /\ \A q \in Ends : pc'[q] = (IF q = "c" THEN "write" ELSE pc[q])
    <2>1. wkey' = [wkey EXCEPT !["c"].n = @ + k] /\ wkey["c"] \in CliKey /\ wkey \in [Ends -> CliKey]
      BY <1>1, <1>e DEF CliTypes, SendsEarly
    <2>2. wkey'["c"].key = "early" /\ wkey'["c"].n = Len(e) + k /\ wkey'["s"] = wkey["s"]
      BY <1>4, <1>d, <1>e, <2>1 DEF CliKey
    <2>3. /\ encbuf'["c"] = E \o x /\ encbuf'["s"] = encbuf["s"] /\ early'["s"] = early["s"]
          /\ \A q \in Ends : pc'[q] = (IF q = "c" THEN "write" ELSE pc[q])
      BY <1>0, <1>1, <1>e DEF CliTypes, SendsEarly
    <2> QED BY <2>2, <2>3
  <1>10. /\ n \in Nat /\ Len(T) = n + k
         /\ \A i \in 1 .. n : T[i] = S[i]
         /\ \A i \in 1 .. k : T[n + i] = x[i]
    <2>0. N \in Seq(CliRecord) /\ E \in Seq(CliRecord) /\ x \in Seq(CliRecord)  BY <1>2, <1>7
    <2>1. Longer(N \o E, x, N \o (E \o x))  BY <2>0, StreamMore, Zenon
    <2>2. S = N \o E /\ T = N \o (E \o x) /\ n = Len(S) /\ Len(x) = k  BY <1>0, <1>7
    <2>3. Longer(S, x, T)  BY <2>1, <2>2, Zenon
    <2> QED BY <2>2, <2>3 DEF Longer
  <1>11. S = Stream("c") /\ Stream("c")' = T /\ Stream("s")' = Stream("s")
    BY <1>0, <1>9, <1>u DEF Stream
  <1>12. \A i \in 1 .. n + k : i \in 1 .. n \/ (i - n \in 1 .. k /\ T[i] = x[i - n])
    <2>1. TAKE i \in 1 .. n + k
    <2>2. CASE i > n
      <3>1. i - n \in 1 .. k /\ n + (i - n) = i  BY <1>3, <1>10, <2>2
      <3> QED BY <1>10, <3>1
    <2> QED BY <1>3, <1>10, <2>2
  <1>13. EarlyTaken' = EarlyTaken /\ Retries' = Retries  BY <1>u DEF EarlyTaken, Retries
  <1>14. /\ tls["s"] # "done" /\ (EarlyTaken => tls["s"] # "finished")
         /\ (EarlyTaken => rkey["s"].key \in {"plain", "early"}) /\ rkey["s"].key \in {"plain", "early", "hs"}
         /\ (~EarlyTaken => rkey["s"].key # "early")
    BY <1>1, <1>4 DEF ServerAt, Key
  <1>15. ClientAt'
    BY <1>0, <1>1, <1>4, <1>6, <1>9, <1>13, <1>u DEF ClientAt
  <1>16. ServerAt'  BY <1>1, <1>9, <1>13, <1>u DEF ServerAt
  <1>17. RecordsTell'
    <2>1. \A i \in 1 .. n : ClientRecord(S[i])  BY <1>0, <1>1, <1>11 DEF RecordsTell
    <2>2. \A i \in 1 .. n : S[i].n \in Nat /\ S[i].key \in KeyNames
      <3>1. S \in Seq(CliRecord)  BY <1>0, <1>2, ConcatProperties
      <3>2. \A i \in 1 .. n : S[i] \in CliRecord  BY <1>0, <3>1, ElementOfSeq
      <3> QED BY <3>2 DEF CliRecord
    <2>3. \A i \in 1 .. n : \/ S[i].what = "hello" /\ S[i].key = "plain" /\ S[i].n <= Retries
                            \/ /\ S[i].what = "data" /\ S[i].key = "early" /\ S[i].n < Len(e)
                               /\ S[i].data = e[S[i].n + 1]
      BY <1>0, <1>4, <2>1 DEF ClientRecord
    <2>4. \A i \in 1 .. n : \/ T[i].what = "hello" /\ T[i].key = "plain" /\ T[i].n <= Retries
                            \/ /\ T[i].what = "data" /\ T[i].key = "early" /\ T[i].n < Len(d)
                               /\ T[i].data = d[T[i].n + 1]
      <3>1. TAKE i \in 1 .. n
      <3>2. T[i] = S[i] /\ S[i].n \in Nat  BY <1>10, <2>2
      <3>3. S[i].n < Len(e) => S[i].n + 1 \in 1 .. Len(e) /\ S[i].n < Len(d)  BY <1>n, <1>3, <1>d, <3>2, SMTT(30)
      <3> QED BY <1>6, <2>3, <3>2, <3>3
    <2>5. \A i \in 1 .. k : /\ x[i].what = "data" /\ x[i].key = "early" /\ x[i].n < Len(d)
                            /\ x[i].data = d[x[i].n + 1]
      <3>1. TAKE i \in 1 .. k
      <3>2. Len(e) + (i - 1) < Len(d) /\ (Len(e) + (i - 1)) + 1 = Len(e) + i  BY <1>n, <1>3, <1>d
      <3> QED BY <1>8, <3>2
    <2>6. \A i \in 1 .. n + k : ClientRecord(T[i])'
      <3>1. TAKE i \in 1 .. n + k
      <3>2. \/ T[i].what = "hello" /\ T[i].key = "plain" /\ T[i].n <= Retries
            \/ /\ T[i].what = "data" /\ T[i].key = "early" /\ T[i].n < Len(d)
               /\ T[i].data = d[T[i].n + 1]
        BY <1>12, <2>4, <2>5
      <3> QED BY <1>d, <1>13, <3>2 DEF ClientRecord
    <2>7. \A i \in 1 .. Len(Stream("s")) : ServerRecord(Stream("s")[i])  BY <1>1 DEF RecordsTell
    <2>8. \A i \in 1 .. Len(Stream("s")') : ServerRecord(Stream("s")[i])'
      BY <1>11, <1>13, <1>u, <2>7 DEF ServerRecord
    <2> QED BY <1>10, <1>11, <2>6, <2>8 DEF RecordsTell
  <1>18. OutAt'
    <2>1. /\ Released = (IF EarlyTaken THEN Len(e) ELSE 0) /\ Released' = (IF EarlyTaken THEN Len(e) + k ELSE 0)
      BY <1>0, <1>6, <1>13 DEF Released
    <2>2. Len(out["s"]) \in Nat /\ rkey["s"].n \in Nat  BY <1>1, <1>e, SMTT(30) DEF CliTypes, CliKey
    <2>3. CASE EarlyTaken
      <3>1. CASE rkey["s"].key = "early"
        <4>1. Len(out["s"]) = rkey["s"].n /\ rkey["s"].n <= Len(e)  BY <1>1, <2>1, <2>3, <3>1 DEF OutAt
        <4>2. rkey["s"].n <= Released'  BY <1>n, <1>3, <2>1, <2>2, <2>3, <4>1
        <4>3. \A i \in 1 .. Len(out["s"]) : out["s"][i] = e[i] /\ i \in 1 .. Len(e) /\ i <= Released'
          <5>1. \A i \in 1 .. Len(out["s"]) : i <= Released /\ i \in 1 .. Len(e) /\ i <= Released'
            BY <1>n, <1>3, <2>1, <2>2, <2>3, <4>1
          <5> QED BY <1>0, <1>1, <5>1 DEF OutAt
        <4>4. \A i \in 1 .. Len(out["s"]) : out["s"][i] = d[i] /\ i <= Released'  BY <1>6, <4>3
        <4> QED BY <1>0, <1>1, <1>u, <3>1, <4>1, <4>2, <4>4 DEF OutAt
      <3>2. CASE rkey["s"].key = "plain"
        <4>1. Len(out["s"]) = 0  BY <1>1, <3>2 DEF OutAt
        <4> QED BY <1>1, <1>u, <3>2, <4>1 DEF OutAt
      <3> QED BY <1>14, <2>3, <3>1, <3>2
    <2>4. CASE ~EarlyTaken
      <3>1. Released = 0 /\ Released' = 0  BY <2>1, <2>4
      <3>2. \A i \in 1 .. Len(out["s"]) : ~(i <= 0)  BY <2>2
      <3> QED BY <1>1, <1>u, <3>1, <3>2 DEF OutAt
    <2> QED BY <2>3, <2>4
  <1>19. EarlyComesEarly'
    <2>1. \A i \in 1 .. n + k : T[i].what # "finished"
      <3>1. \A i \in 1 .. n : S[i].what # "finished"
        BY <1>0, <1>1, <1>4, <1>11 DEF RecordsTell, ClientRecord
      <3> QED BY <1>8, <1>10, <1>12, <3>1
    <2> QED BY <1>10, <1>11, <1>14, <1>u, <2>1 DEF EarlyComesEarly
  <1>20. \A q \in Ends : InputAt(q)'
    <2>1. InputAt("c")'
      <3>1. Len(b) = read["c"]  BY <1>0, <1>1, <1>e DEF InputAt, SendsEarly
      <3>2. Len(early'["c"]) <= read["c"]  BY <1>n, <1>3, <1>d, <3>1
      <3>3. st["c"] = "handshake"  BY DEF SendsEarly
      <3> QED BY <1>1, <1>e, <1>u, <3>2, <3>3 DEF InputAt
    <2>2. InputAt("s")'
      <3>1. pc'["s"] = pc["s"]  BY <1>e, <1>9
      <3> QED BY <1>1, <1>e, <1>9, <1>u, <3>1 DEF InputAt
    <2> QED BY <2>1, <2>2 DEF Ends
  <1>21. ASSUME scen.whole PROVE \A q \in Ends : WholeAt(q)'
    <2>1. \A q \in Ends : WholeAt(q)  BY <1>21 DEF CliInv
    <2>2. rkey["s"].key = "hs" => EarlyRecords = 0 /\ EarlyRecords' = 0
      BY <1>13, <1>14 DEF EarlyRecords
    <2>a. Place("c", rkey["s"])' = Place("c", rkey["s"])
      BY <1>13, <1>14, <1>u, <2>2 DEF Place
    <2>3. ASSUME InSequence("c") PROVE InSequence("c")'
      <3>0. PICK a, c, f, h : /\ a = Place("c", rkey["s"]) /\ c = NextPlace("c")
                              /\ f = Places("c") /\ h = Places("c")'
        OBVIOUS
      <3>a. a \in Nat /\ c \in Nat  BY <1>1, <3>0, PlaceTypes
      <3>1. /\ c = 1 + (IF EarlyTaken THEN Len(e) ELSE 0)
            /\ NextPlace("c")' = 1 + (IF EarlyTaken THEN Len(e) + k ELSE 0)
        <4>1. /\ Released = (IF EarlyTaken THEN Len(e) ELSE 0) /\ Released' = (IF EarlyTaken THEN Len(e) + k ELSE 0)
          BY <1>0, <1>d, <1>13 DEF Released
        <4>2. c = 1 + 0 + Released /\ NextPlace("c")' = 1 + 0 + Released'
          BY <1>4, <1>u, <3>0 DEF NextPlace
        <4> QED BY <1>n, <1>3, <4>1, <4>2
      <3>b. h = [i \in 1 .. n + k |-> Place("c", Stream("c")[i])'] /\ f = [i \in 1 .. n |-> Place("c", S[i])]
        BY <1>0, <1>10, <1>11, <3>0 DEF Places
      <3>2. \A i \in 1 .. n : h[i] = f[i]
        <4>1. TAKE i \in 1 .. n
        <4>2. i \in 1 .. n + k /\ T[i] = S[i]  BY <1>3, <1>10
        <4>3. Stream("c")'[i] = S[i]  BY <1>11, <4>2
        <4>4. ClientRecord(S[i])  BY <1>0, <1>1, <1>11 DEF RecordsTell
        <4>5. S[i].key \in {"plain", "early"}  BY <1>4, <4>4 DEF ClientRecord
        <4>6. Place("c", Stream("c")[i])' = Place("c", S[i])  BY <1>13, <4>3, <4>5 DEF Place
        <4> QED BY <3>b, <4>2, <4>6
      <3>3. \A i \in 1 .. k : h[n + i] = IF EarlyTaken THEN c + i - 1 ELSE -1
        <4>1. TAKE i \in 1 .. k
        <4>a. T[n + i] = x[i] /\ x[i].key = "early" /\ x[i].n = Len(e) + (i - 1)
          BY <1>8, <1>10, <4>1
        <4>b. n + i \in 1 .. n + k
          <5>1. n \in Nat /\ k \in Nat  BY <1>3, <1>10
          <5> QED BY <4>1, <5>1
        <4>2. n + i \in 1 .. n + k /\ T[n + i] = x[i] /\ x[i].key = "early" /\ x[i].n = Len(e) + (i - 1)
          BY <4>a, <4>b
        <4>3. Stream("c")'[n + i].key = "early" /\ Stream("c")'[n + i].n = Len(e) + (i - 1)  BY <1>11, <4>2
        <4>4. Place("c", Stream("c")[n + i])' = IF EarlyTaken THEN 1 + (Len(e) + (i - 1)) ELSE -1
          BY <1>13, <4>3 DEF Place
        <4>5. 1 + (Len(e) + (i - 1)) = (1 + Len(e)) + i - 1  BY <1>n
        <4> QED BY <3>1, <3>b, <4>2, <4>4, <4>5
      <3>4. Gapless(f, n, a, c)  BY <1>0, <1>11, <2>3, <3>0, InSequenceOf
      <3>5. PICK g : g = [i \in 1 .. k |-> IF EarlyTaken THEN c + i - 1 ELSE -1]  OBVIOUS
      <3>6. Gapless(g, k, c, NextPlace("c")')
        <4>1. CASE EarlyTaken
          <5>1. NextPlace("c")' = c + k  BY <1>n, <1>3, <3>1, <4>1
          <5>2. \A i \in 1 .. k : g[i] = c + i - 1  BY <3>5, <4>1
          <5>3. k \in Nat  BY <1>3
          <5> QED BY <3>a, <5>1, <5>2, <5>3, GaplessRun
        <4>2. CASE ~EarlyTaken
          <5>1. NextPlace("c")' = c  BY <3>1, <4>2
          <5>2. \A i \in 1 .. k : g[i] = -1  BY <3>5, <4>2
          <5>3. k \in Nat  BY <1>3
          <5> QED BY <3>a, <5>1, <5>2, <5>3, GaplessSkipped
        <4> QED BY <4>1, <4>2
      <3>7. \A i \in 1 .. k : h[n + i] = g[i]  BY <3>3, <3>5
      <3>c. PICK z : z = NextPlace("c")'  OBVIOUS
      <3>8. a \in Int /\ c \in Int /\ z \in Int /\ 0 <= a /\ k \in Nat  BY <1>n, <1>3, <3>1, <3>a, <3>c
      <3>9. Gapless(h, n + k, a, z)  BY <1>10, <3>2, <3>4, <3>6, <3>7, <3>8, <3>c, GaplessJoin
      <3>10. Len(Stream("c"))' = n + k /\ NextPlace("c")' = z /\ Places("c")' = h
        BY <1>10, <1>11, <3>0, <3>c
      <3> QED BY <2>a, <3>0, <3>9, <3>10, InSequenceOf
    <2>4. InSequence("s")' <=> InSequence("s")
      <3>1. Places("s")' = Places("s")  BY <1>11, <1>13 DEF Places, Place
      <3>2. NextPlace("s")' = NextPlace("s") /\ Place("s", rkey["c"])' = Place("s", rkey["c"])
        BY <1>9, <1>13, <1>u DEF NextPlace, Place
      <3> QED BY <1>11, <3>1, <3>2, InSequenceOf
    <2>5. \A q \in Ends : (pc'[q] \in Gone <=> pc[q] \in Gone) /\ (pc'[q] = "close" => pc[q] = "close")
                          /\ (pc'[q] = "bad_record" => pc[q] = "bad_record")
      BY <1>9 DEF Gone, SendsEarly
    <2>6. Other("c") = "s" /\ Other("s") = "c" /\ st["c"] = "handshake" BY DEF Other, SendsEarly
    <2>7. WholeAt("c")'  BY <1>e, <1>9, <1>u, <2>1, <2>3, <2>5, <2>6 DEF WholeAt
    <2>8. WholeAt("s")'  BY <1>e, <1>9, <1>u, <2>1, <2>4, <2>5, <2>6 DEF WholeAt
    <2> QED BY <2>7, <2>8 DEF Ends
  <1> QED BY <1>1, <1>15, <1>16, <1>17, <1>18, <1>19, <1>20, <1>21, <1>u DEF CliInv

\* A step that changes nothing but where in its loop an end is.
JumpsTo(p, how) ==
    /\ pc' = [pc EXCEPT ![p] = how] /\ pc[p] \notin Gone
    /\ how \in {"select", "write", "closed", "abort"}
    /\ how = "write" /\ st[p] # "handshake" => ptbuf[p] = <<>>
    /\ UNCHANGED <<scen, st, tls, wkey, rkey, maxEarly, taken, encbuf, ptbuf, early, inputfd, read, out, net>>

LEMMA JumpInv ==
    ASSUME CliInv, NEW p \in Ends, NEW how, JumpsTo(p, how)
    PROVE CliTypes' => CliInv'
  <1>1. /\ UNCHANGED <<scen, st, tls, wkey, rkey, maxEarly, taken, encbuf, ptbuf, early, inputfd, read, out, net>>
        /\ pc' = [pc EXCEPT ![p] = how]
    BY DEF JumpsTo
  <1>2. Stream("c")' = Stream("c") /\ Stream("s")' = Stream("s")  BY <1>1 DEF Stream
  <1>4. ClientAt' /\ ServerAt' /\ OutAt' /\ RecordsTell' /\ EarlyComesEarly'
    BY <1>1, <1>2, SameStreams DEF CliInv
  <1>5. \A q \in Ends : pc'[q] = (IF q = p THEN how ELSE pc[q])  BY <1>1 DEF CliInv, CliTypes
  <1>6. \A q \in Ends : InputAt(q)'
    BY <1>1, <1>5 DEF CliInv, InputAt, Released, EarlyTaken, JumpsTo
  <1>7. ASSUME scen.whole PROVE \A q \in Ends : WholeAt(q)'
    <2>1. \A q \in Ends : Other(q) \in Ends /\ q \in {"c", "s"}  BY DEF Ends, Other
    <2>2. \A q \in Ends : InSequence(q)' <=> InSequence(q)  BY <1>1, <1>2, <2>1, SameStreams
    <2>3. \A q \in Ends : /\ pc'[q] \notin Gone => pc[q] \notin Gone
                          /\ pc'[q] # "bad_record" \/ pc[q] = "bad_record"
                          /\ pc'[q] = "close" => pc[q] = "close"
      BY <1>5 DEF Gone, JumpsTo
    <2> QED BY <1>1, <1>7, <2>1, <2>2, <2>3 DEF CliInv, WholeAt
  <1> QED BY <1>1, <1>4, <1>6, <1>7 DEF CliInv

\* Only a client in its handshake with a ticket has early data to send.
LEMMA EncryptInv ==
    ASSUME CliInv, NEW p \in Ends, Encrypt(p) PROVE CliInv'
  <1>t. CliTypes'  BY CliTypesStep DEF CliInv
  <1>0. pc[p] = "encrypt" /\ UNCHANGED <<scen, st, tls, rkey, maxEarly, taken, inputfd, read, out, net>>
    BY DEF Encrypt
  <1>1. CASE /\ ptbuf[p] = <<>> \/ st[p] = "handshake"
             /\ pc' = [pc EXCEPT ![p] = "write"]
             /\ UNCHANGED <<wkey, encbuf, ptbuf, early, shut>>
    <2>1. JumpsTo(p, "write")  BY <1>0, <1>1 DEF JumpsTo, Gone
    <2> QED BY <1>t, <2>1, JumpInv
  <1>2. CASE Exits(p, "abort") /\ UNCHANGED <<wkey, encbuf, ptbuf, early>>
    <2>1. JumpsTo(p, "abort")  BY <1>0, <1>2 DEF JumpsTo, Gone, Exits
    <2> QED BY <1>t, <2>1, JumpInv
  <1>3. CASE /\ ptbuf[p] # <<>> /\ st[p] = "handshake" /\ SendAmount(p) > 0
             /\ encbuf' = [encbuf EXCEPT ![p] = @ \o Encrypted(p, SubSeq(ptbuf[p], 1, SendAmount(p)))]
             /\ wkey' = [wkey EXCEPT ![p].n = @ + SendAmount(p)]
             /\ early' = [early EXCEPT ![p] = @ \o SubSeq(ptbuf[p], 1, SendAmount(p))]
             /\ pc' = [pc EXCEPT ![p] = "write"]
             /\ UNCHANGED <<ptbuf, shut>>
    <2>1. p = "c"  BY <1>3 DEF SendAmount
    <2>2. SendsEarly(SendAmount("c"))  BY <1>0, <1>3, <2>1 DEF SendsEarly
    <2> QED BY <1>t, <2>2, SendsEarlyInv
  <1>4. CASE /\ ptbuf[p] # <<>> /\ st[p] # "handshake"
             /\ encbuf' = [encbuf EXCEPT ![p] = @ \o Encrypted(p, ptbuf[p])]
             /\ wkey' = [wkey EXCEPT ![p].n = @ + Len(ptbuf[p])]
             /\ ptbuf' = [ptbuf EXCEPT ![p] = <<>>]
             /\ pc' = [pc EXCEPT ![p] = "write"]
             /\ UNCHANGED <<early, shut>>
    <2>1. SendsAll(p)  BY <1>0, <1>4 DEF SendsAll
    <2> QED BY <1>t, <2>1, SendsAllInv
  <1> QED BY <1>1, <1>2, <1>3, <1>4 DEF Encrypt

\* A record put into the socket behind what is there, and before what waits.
LEMMA StreamInserted ==
    ASSUME NEW S, NEW n \in Seq(S), NEW e \in Seq(S), NEW r \in S
    PROVE /\ Len(n) \in Nat /\ Len(n) <= Len(n \o e) /\ Len(n \o e) \in Nat
          /\ Len(Append(n, r) \o e) = Len(n \o e) + 1
          /\ \A i \in 1 .. Len(n) : (Append(n, r) \o e)[i] = (n \o e)[i]
          /\ (Append(n, r) \o e)[Len(n) + 1] = r
          /\ \A i \in Len(n) + 2 .. Len(n \o e) + 1 : (Append(n, r) \o e)[i] = (n \o e)[i - 1]
          /\ e = <<>> => Len(n \o e) = Len(n)
  OBVIOUS

\* close_notify, written around encbuf.
SendsClose(p) ==
    /\ pc[p] = "close" /\ st[p] = "1rtt" /\ ~inputfd[p]
    /\ net' = [net EXCEPT ![p] = Append(@, Rec(wkey[p], 0, "close", 0))]
    /\ wkey' = [wkey EXCEPT ![p] = Next1(@)]
    /\ st' = [st EXCEPT ![p] = "shutdown"]
    /\ pc' = [pc EXCEPT ![p] = "select"]
    /\ UNCHANGED <<scen, tls, rkey, maxEarly, taken, encbuf, ptbuf, early, inputfd, read, out>>

\* It is a record of application data like any other, and behind everything
\* if writes are taken whole.
LEMMA SendsCloseInv ==
    ASSUME CliInv, NEW p \in Ends, SendsClose(p)
    PROVE CliTypes' => CliInv'
  <1>u. UNCHANGED <<scen, tls, rkey, maxEarly, taken, encbuf, ptbuf, early, inputfd, read, out>>
    BY DEF SendsClose
  <1>1. CliTypes /\ ClientAt /\ ServerAt /\ RecordsTell /\ OutAt /\ EarlyComesEarly
        /\ (\A q \in Ends : InputAt(q)) /\ p \in {"c", "s"}
    BY DEF CliInv, Ends
  <1>0. PICK r, w, N, E, S, T, n, m :
            /\ r = Rec(wkey[p], 0, "close", 0) /\ w = wkey[p].n
            /\ N = net[p] /\ E = encbuf[p]
            /\ S = N \o E /\ T = Append(N, r) \o E /\ n = Len(S) /\ m = Len(N)
    OBVIOUS
  <1>2. st[p] = "1rtt" /\ pc[p] = "close" /\ ~inputfd[p]  BY DEF SendsClose
  <1>3. wkey[p].key = "app" /\ wkey[p] \in CliKey /\ wkey[p].n \in Nat
    <2>1. wkey[p].key = "app"  BY <1>1, <1>2 DEF ClientAt, ServerAt, Key
    <2> QED BY <1>1, <2>1 DEF CliTypes, CliKey
  <1>4. r.key = "app" /\ r.what = "close" /\ r.n = w /\ r \in CliRecord /\ w \in Nat
    <2>1. r = [key |-> "app", n |-> w + 0, what |-> "close", data |-> 0] /\ w \in Nat /\ w + 0 = w
      BY <1>0, <1>3 DEF Rec
    <2> QED BY <2>1 DEF CliRecord, Kinds, KeyNames
  <1>5. N \in Seq(CliRecord) /\ E \in Seq(CliRecord)  BY <1>0, <1>1 DEF CliTypes
  <1>6. /\ m \in Nat /\ m <= n /\ n \in Nat /\ Len(T) = n + 1
        /\ \A i \in 1 .. m : T[i] = S[i]
        /\ T[m + 1] = r
        /\ \A i \in m + 2 .. n + 1 : T[i] = S[i - 1]
        /\ E = <<>> => n = m
    <2>0. N \in Seq(CliRecord) /\ E \in Seq(CliRecord) /\ r \in CliRecord  BY <1>4, <1>5
    <2>1. /\ Len(N) \in Nat /\ Len(N) <= Len(N \o E) /\ Len(N \o E) \in Nat
          /\ Len(Append(N, r) \o E) = Len(N \o E) + 1
          /\ \A i \in 1 .. Len(N) : (Append(N, r) \o E)[i] = (N \o E)[i]
          /\ (Append(N, r) \o E)[Len(N) + 1] = r
          /\ \A i \in Len(N) + 2 .. Len(N \o E) + 1 : (Append(N, r) \o E)[i] = (N \o E)[i - 1]
          /\ E = <<>> => Len(N \o E) = Len(N)
      BY <2>0, StreamInserted
    <2>2. S = N \o E /\ T = Append(N, r) \o E /\ n = Len(S) /\ m = Len(N)  BY <1>0
    <2> QED BY <2>1, <2>2
  <1>7. \A i \in 1 .. n + 1 : \/ i \in 1 .. m /\ i \in 1 .. n /\ T[i] = S[i]
                              \/ i = m + 1 /\ T[i] = r
                              \/ i - 1 \in m + 1 .. n /\ i - 1 \in 1 .. n /\ T[i] = S[i - 1]
    <2>1. TAKE i \in 1 .. n + 1
    <2>2. (i \in 1 .. m /\ i \in 1 .. n) \/ i = m + 1
          \/ (i \in m + 2 .. n + 1 /\ i - 1 \in m + 1 .. n /\ i - 1 \in 1 .. n)
      BY <1>6
    <2> QED BY <1>6, <2>2
  <1>8. /\ wkey'[p].key = "app" /\ wkey'[p].n = w + 1 /\ net'[p] = Append(N, r)
        /\ \A q \in Ends : q # p => wkey'[q] = wkey[q] /\ net'[q] = net[q]
        /\ \A q \in Ends : st'[q] = (IF q = p THEN "shutdown" ELSE st[q])
        /\ \A q \in Ends : pc'[q] = (IF q = p THEN "select" ELSE pc[q])
    <2>1. wkey'[p] = Next1(wkey[p])  BY <1>1 DEF CliTypes, SendsClose
    <2>2. Next1(wkey[p]).key = "app" /\ Next1(wkey[p]).n = w + 1  BY <1>0, <1>3, NextKey
    <2>3. /\ net'[p] = Append(N, r)
          /\ \A q \in Ends : q # p => wkey'[q] = wkey[q] /\ net'[q] = net[q]
          /\ \A q \in Ends : st'[q] = (IF q = p THEN "shutdown" ELSE st[q])
          /\ \A q \in Ends : pc'[q] = (IF q = p THEN "select" ELSE pc[q])
      BY <1>0, <1>1 DEF CliTypes, SendsClose
    <2> QED BY <2>1, <2>2, <2>3
  <1>s. S = Stream(p)  BY <1>0 DEF Stream
  <1>11. Stream(p)' = T /\ \A q \in Ends : q # p => Stream(q)' = Stream(q)
    BY <1>0, <1>8, <1>u DEF Stream
  <1>13. /\ Released' = Released /\ EarlyTaken' = EarlyTaken /\ Retries' = Retries
         /\ EarlyRecords' = EarlyRecords
    BY <1>u DEF Released, EarlyTaken, Retries, EarlyRecords
  <1>14. ClientAt' /\ ServerAt'
    <2>1. CASE p = "c"
      <3>1. /\ wkey'["s"] = wkey["s"] /\ wkey'["c"].key = "app" /\ tls["c"] = "done"
            /\ st'["s"] = st["s"] /\ st'["c"] = "shutdown"
        BY <1>1, <1>2, <1>8, <2>1 DEF ClientAt, Ends
      <3>2. ClientAt'  BY <1>1, <1>13, <1>u, <3>1 DEF ClientAt
      <3>3. ServerAt'  BY <1>1, <1>13, <1>u, <3>1 DEF ServerAt
      <3> QED BY <3>2, <3>3
    <2>2. CASE p = "s"
      <3>1. /\ wkey'["c"] = wkey["c"] /\ wkey'["s"].key = "app"
            /\ tls["s"] \notin {"client_hello", "second_hello"}
            /\ st'["c"] = st["c"] /\ st'["s"] = "shutdown"
        BY <1>1, <1>2, <1>8, <2>2 DEF ServerAt, Ends
      <3>2. ClientAt'  BY <1>1, <1>13, <1>u, <3>1 DEF ClientAt
      <3>3. ServerAt'  BY <1>1, <1>13, <1>u, <3>1 DEF ServerAt
      <3> QED BY <3>2, <3>3
    <2> QED BY <1>1, <2>1, <2>2
  <1>15. RecordsTell'
    <2>1. CASE p = "c"
      <3>1. tls["c"] = "done"  BY <1>1, <1>2, <2>1 DEF ClientAt
      <3>a. \A i \in 1 .. n : ClientRecord(S[i])  BY <1>0, <1>1, <1>s, <2>1 DEF RecordsTell
      <3>b. \A i \in 1 .. n : ClientRecord(S[i])'  BY <1>13, <1>u, <3>a DEF ClientRecord
      <3>4. ClientRecord(r)'  BY <1>4, <1>u, <3>1 DEF ClientRecord
      <3>5. \A i \in 1 .. n + 1 : ClientRecord(T[i])'  BY <1>7, <3>b, <3>4
      <3>6. \A i \in 1 .. Len(Stream("s")) : ServerRecord(Stream("s")[i])  BY <1>1 DEF RecordsTell
      <3>7. Stream("s")' = Stream("s")  BY <1>11, <2>1 DEF Ends
      <3>8. \A i \in 1 .. Len(Stream("s")') : ServerRecord(Stream("s")[i])'
        BY <1>13, <1>u, <3>6, <3>7 DEF ServerRecord
      <3>9. Stream("c")' = T /\ Len(T) = n + 1  BY <1>6, <1>11, <2>1
      <3> QED BY <3>5, <3>8, <3>9 DEF RecordsTell
    <2>2. CASE p = "s"
      <3>a. \A i \in 1 .. n : ServerRecord(S[i])  BY <1>0, <1>1, <1>s, <2>2 DEF RecordsTell
      <3>b. \A i \in 1 .. n : ServerRecord(S[i])'  BY <1>13, <1>u, <3>a DEF ServerRecord
      <3>4. ServerRecord(r)'  BY <1>4 DEF ServerRecord
      <3>5. \A i \in 1 .. n + 1 : ServerRecord(T[i])'  BY <1>7, <3>b, <3>4
      <3>6. \A i \in 1 .. Len(Stream("c")) : ClientRecord(Stream("c")[i])  BY <1>1 DEF RecordsTell
      <3>7. Stream("c")' = Stream("c")  BY <1>11, <2>2 DEF Ends
      <3>8. \A i \in 1 .. Len(Stream("c")') : ClientRecord(Stream("c")[i])'
        BY <1>13, <1>u, <3>6, <3>7 DEF ClientRecord
      <3>9. Stream("s")' = T /\ Len(T) = n + 1  BY <1>6, <1>11, <2>2
      <3> QED BY <3>5, <3>8, <3>9 DEF RecordsTell
    <2> QED BY <1>1, <2>1, <2>2
  <1>16. OutAt'  BY <1>1, <1>13, <1>u DEF OutAt
  <1>17. EarlyComesEarly'
    <2>1. CASE p = "c"
      <3>a. /\ \A i, j \in 1 .. n : i < j /\ S[i].what = "finished" => S[j].key # "early"
            /\ tls["s"] = "done" => \A i \in 1 .. n : S[i].key # "early"
        BY <1>0, <1>1, <1>s, <2>1 DEF EarlyComesEarly
      <3>b. \A i \in 1 .. n + 1 : (T[i].what = "finished" \/ T[i].key = "early") => i # m + 1  BY <1>4, <1>6
      <3>3. ASSUME NEW i \in 1 .. n + 1, NEW j \in 1 .. n + 1, i < j, T[i].what = "finished"
            PROVE T[j].key # "early"
        <4>1. SUFFICES ASSUME T[j].key = "early" PROVE FALSE  OBVIOUS
        <4>2. i # m + 1 /\ j # m + 1  BY <3>3, <3>b, <4>1
        <4>3. PICK a \in 1 .. n : T[i] = S[a] /\ a = IF i <= m THEN i ELSE i - 1
          BY <1>6, <1>7, <4>2
        <4>4. PICK b \in 1 .. n : T[j] = S[b] /\ b = IF j <= m THEN j ELSE j - 1
          BY <1>6, <1>7, <4>2
        <4>5. a < b  BY <1>6, <3>3, <4>2, <4>3, <4>4
        <4> QED BY <3>3, <3>a, <4>1, <4>3, <4>4, <4>5
      <3>4. tls["s"] = "done" => \A i \in 1 .. n + 1 : T[i].key # "early"
        BY <1>7, <3>a, <3>b
      <3>9. Stream("c")' = T /\ Len(T) = n + 1  BY <1>6, <1>11, <2>1
      <3> QED BY <1>u, <3>3, <3>4, <3>9 DEF EarlyComesEarly
    <2>2. CASE p = "s"
      <3>7. Stream("c")' = Stream("c")  BY <1>11, <2>2 DEF Ends
      <3> QED BY <1>1, <1>u, <3>7 DEF EarlyComesEarly
    <2> QED BY <1>1, <2>1, <2>2
  <1>18. \A q \in Ends : InputAt(q)'
    <2>1. InputAt(p)'
      <3>1. ptbuf[p] = <<>> /\ ~inputfd[p]  BY <1>1, <1>2 DEF InputAt
      <3>2. Len(ptbuf[p]) <= read[p] /\ Len(ptbuf[p]) = 0  BY <1>1, <3>1 DEF InputAt
      <3>3. st'[p] = "shutdown"  BY <1>8
      <3> QED BY <1>u, <3>1, <3>2, <3>3 DEF InputAt
    <2>2. ASSUME NEW q \in Ends, q # p PROVE InputAt(q)'
      BY <1>1, <1>8, <1>13, <1>u, <2>2 DEF InputAt
    <2> QED BY <2>1, <2>2
  <1>19. ASSUME scen.whole PROVE \A q \in Ends : WholeAt(q)'
    <2>1. \A q \in Ends : WholeAt(q)  BY <1>19 DEF CliInv
    <2>2. /\ Place("c", rkey["s"])' = Place("c", rkey["s"]) /\ Place("s", rkey["c"])' = Place("s", rkey["c"])
      BY <1>13, <1>u DEF Place
    <2>e. E = <<>> /\ n = m
      <3>1. E = <<>>  BY <1>0, <1>2, <2>1 DEF WholeAt
      <3> QED BY <1>6, <3>1
    <2>3. ASSUME InSequence(p) PROVE InSequence(p)'
      <3>0. PICK a, c, f, h :
                /\ a = (IF p = "c" THEN Place("c", rkey["s"]) ELSE Place("s", rkey["c"]))
                /\ c = NextPlace(p) /\ f = Places(p) /\ h = Places(p)'
        OBVIOUS
      <3>a. a \in Nat /\ c \in Nat  BY <1>1, <3>0, PlaceTypes
      <3>1. c = Place(p, r) /\ NextPlace(p)' = c + 1
        <4>1. CASE p = "c"
          <5>1. tls["c"] = "done"  BY <1>1, <1>2, <4>1 DEF ClientAt
          <5>2. NextPlace("c") = Place("c", wkey["c"]) /\ NextPlace("c")' = Place("c", wkey["c"])'
            BY <1>u, <5>1 DEF NextPlace
          <5>3. Place("c", wkey["c"]) = Retries + 2 + EarlyRecords + w
            BY <1>0, <1>3, <4>1 DEF Place
          <5>4. Place("c", wkey["c"])' = Retries + 2 + EarlyRecords + (w + 1)
            BY <1>8, <1>13, <4>1 DEF Place
          <5>5. Retries + 2 + EarlyRecords + (w + 1) = (Retries + 2 + EarlyRecords + w) + 1
            BY <1>1, <1>4, PlaceTypes, SMTT(30)
          <5>6. Place("c", r) = Retries + 2 + EarlyRecords + w  BY <1>4 DEF Place
          <5> QED BY <3>0, <4>1, <5>2, <5>3, <5>4, <5>5, <5>6
        <4>2. CASE p = "s"
          <5>1. tls["s"] \notin {"client_hello", "second_hello"}  BY <1>1, <1>2, <4>2 DEF ServerAt
          <5>2. NextPlace("s") = Place("s", wkey["s"]) /\ NextPlace("s")' = Place("s", wkey["s"])'
            BY <1>u, <5>1 DEF NextPlace
          <5>3. Place("s", wkey["s"]) = Retries + 1 + w
            BY <1>0, <1>3, <4>2 DEF Place
          <5>4. Place("s", wkey["s"])' = Retries + 1 + (w + 1)
            BY <1>8, <1>13, <4>2 DEF Place
          <5>5. Retries + 1 + (w + 1) = (Retries + 1 + w) + 1
            BY <1>1, <1>4, PlaceTypes
          <5>6. Place("s", r) = Retries + 1 + w  BY <1>4 DEF Place
          <5> QED BY <3>0, <4>2, <5>2, <5>3, <5>4, <5>5, <5>6
        <4> QED BY <1>1, <4>1, <4>2
      <3>b. h = [i \in 1 .. n + 1 |-> Place(p, Stream(p)[i])'] /\ f = [i \in 1 .. n |-> Place(p, S[i])]
        BY <1>0, <1>s, <1>6, <1>11, <3>0 DEF Places
      <3>2. \A i \in 1 .. n : h[i] = f[i]
        <4>1. TAKE i \in 1 .. n
        <4>2. i \in 1 .. n + 1 /\ T[i] = S[i]  BY <1>6, <2>e
        <4>3. Stream(p)'[i] = S[i]  BY <1>11, <4>2
        <4>4. Place(p, Stream(p)[i])' = Place(p, S[i])  BY <1>13, <4>3 DEF Place
        <4> QED BY <3>b, <4>2, <4>4
      <3>3. h[n + 1] = c
        <4>2. n + 1 \in 1 .. n + 1 /\ T[n + 1] = r  BY <1>6, <2>e
        <4>3. Stream(p)'[n + 1] = r  BY <1>11, <4>2
        <4>4. Place(p, Stream(p)[n + 1])' = Place(p, r)  BY <1>13, <4>3 DEF Place
        <4> QED BY <3>1, <3>b, <4>2, <4>4
      <3>4. Gapless(f, n, a, c)  BY <1>0, <1>1, <1>s, <2>3, <3>0, InSequenceOf
      <3>5. PICK g : g = [i \in 1 .. 1 |-> c]  OBVIOUS
      <3>6. Gapless(g, 1, c, c + 1)
        <4>1. \A i \in 1 .. 1 : g[i] = c + i - 1  BY <3>5, <3>a
        <4> QED BY <3>a, <4>1, GaplessRun
      <3>7. \A i \in 1 .. 1 : h[n + i] = g[i]  BY <3>3, <3>5
      <3>8. a \in Int /\ c \in Int /\ c + 1 \in Int /\ 0 <= a  BY <3>a
      <3>9. Gapless(h, n + 1, a, c + 1)  BY <1>6, <3>2, <3>4, <3>6, <3>7, <3>8, GaplessJoin, ZenonT(30)
      <3>10. Len(Stream(p))' = n + 1 /\ NextPlace(p)' = c + 1 /\ Places(p)' = h
        BY <1>6, <1>11, <3>0, <3>1
      <3> QED BY <1>1, <2>2, <3>0, <3>9, <3>10, InSequenceOf
    <2>4. ASSUME NEW q \in Ends, q # p, InSequence(q) PROVE InSequence(q)'
      <3>1. Stream(q)' = Stream(q) /\ wkey'[q] = wkey[q]  BY <1>8, <1>11, <2>4
      <3>2. q \in {"c", "s"}  BY DEF Ends
      <3>3. Places(q)' = Places(q)  BY <1>13, <3>1 DEF Places, Place
      <3>4. NextPlace(q)' = NextPlace(q)
        <4>1. CASE q = "c"  BY <1>13, <1>u, <3>1, <4>1 DEF NextPlace, Place
        <4>2. CASE q = "s"  BY <1>13, <1>u, <3>1, <4>2 DEF NextPlace, Place
        <4> QED BY <3>2, <4>1, <4>2
      <3> QED BY <2>2, <2>4, <3>1, <3>2, <3>3, <3>4, InSequenceOf
    <2>5. \A q \in Ends : (pc'[q] \in Gone <=> pc[q] \in Gone) /\ (pc'[q] = "close" => pc[q] = "close")
                          /\ (pc'[q] = "bad_record" => pc[q] = "bad_record")
      BY <1>2, <1>8 DEF Gone
    <2>6. \A q \in Ends : Other(q) \in Ends  BY DEF Ends, Other
    <2>7. encbuf'[p] = <<>>  BY <1>0, <1>u, <2>e
    <2> QED BY <1>8, <1>u, <2>1, <2>3, <2>4, <2>5, <2>6, <2>7 DEF WholeAt
  <1> QED BY <1>1, <1>14, <1>15, <1>16, <1>17, <1>18, <1>19, <1>u DEF CliInv

\* The end of the loop: round again, -I, a full socket, or close_notify.
LEMMA CloseSenderInv ==
    ASSUME CliInv, NEW p \in Ends, CloseSender(p) PROVE CliInv'
  <1>t. CliTypes'  BY CliTypesStep DEF CliInv
  <1>0. /\ pc[p] = "close"
        /\ UNCHANGED <<scen, tls, rkey, maxEarly, taken, encbuf, ptbuf, early, inputfd, read, out>>
    BY DEF CloseSender
  <1>1. CASE pc' = [pc EXCEPT ![p] = "select"] /\ UNCHANGED <<st, wkey, net, shut>>
    <2>1. JumpsTo(p, "select")  BY <1>0, <1>1 DEF JumpsTo, Gone
    <2> QED BY <1>t, <2>1, JumpInv
  <1>2. CASE Exits(p, "closed") /\ UNCHANGED <<st, wkey, net>>
    <2>1. JumpsTo(p, "closed")  BY <1>0, <1>2 DEF JumpsTo, Gone, Exits
    <2> QED BY <1>t, <2>1, JumpInv
  <1>3. CASE /\ st[p] = "1rtt" /\ ~inputfd[p]
             /\ pc' = [pc EXCEPT ![p] = "select"] /\ st' = [st EXCEPT ![p] = "shutdown"]
             /\ UNCHANGED <<wkey, net, shut>>
    <2>1. /\ CliTypes /\ ClientAt /\ ServerAt /\ RecordsTell /\ OutAt /\ EarlyComesEarly
          /\ \A q \in Ends : InputAt(q)
      BY DEF CliInv
    <2>2. /\ \A q \in Ends : pc'[q] = (IF q = p THEN "select" ELSE pc[q])
          /\ \A q \in Ends : st'[q] = (IF q = p THEN "shutdown" ELSE st[q])
      BY <1>3, <2>1 DEF CliTypes
    <2>3. \A q \in Ends : (st'[q] = "handshake") <=> (st[q] = "handshake")  BY <1>3, <2>2
    <2>4. (st'["c"] = "handshake" <=> st["c"] = "handshake") /\ (st'["s"] = "handshake" <=> st["s"] = "handshake")
      BY <2>3 DEF Ends
    <2>5. Stream("c")' = Stream("c") /\ Stream("s")' = Stream("s")  BY <1>0, <1>3 DEF Stream
    <2>6. /\ Released' = Released /\ EarlyTaken' = EarlyTaken /\ Retries' = Retries
          /\ EarlyRecords' = EarlyRecords
      BY <1>0 DEF Released, EarlyTaken, Retries, EarlyRecords
    <2>7. ClientAt'  BY <1>0, <1>3, <2>1, <2>4, <2>6 DEF ClientAt
    <2>8. ServerAt'  BY <1>0, <1>3, <2>1, <2>4, <2>6 DEF ServerAt
    <2>9. OutAt' /\ EarlyComesEarly'  BY <1>0, <2>1, <2>5, <2>6 DEF OutAt, EarlyComesEarly
    <2>10. RecordsTell'
      BY <1>0, <2>1, <2>5, <2>6 DEF RecordsTell, ClientRecord, ServerRecord
    <2>11. \A q \in Ends : InputAt(q)'
      BY <1>0, <1>3, <2>1, <2>2, <2>6 DEF InputAt
    <2>12. ASSUME scen.whole PROVE \A q \in Ends : WholeAt(q)'
      <3>1. \A q \in Ends : WholeAt(q)  BY <2>12 DEF CliInv
      <3>2. Places("c")' = Places("c") /\ Places("s")' = Places("s")
        BY <2>5, <2>6 DEF Places, Place
      <3>3. /\ Place("c", rkey["s"])' = Place("c", rkey["s"]) /\ NextPlace("c")' = NextPlace("c")
            /\ Place("s", rkey["c"])' = Place("s", rkey["c"]) /\ NextPlace("s")' = NextPlace("s")
        BY <1>0, <1>3, <2>6 DEF Place, NextPlace
      <3>4. InSequence("c")' <=> InSequence("c")  BY <2>5, <3>2, <3>3, InSequenceOf
      <3>5. InSequence("s")' <=> InSequence("s")  BY <2>5, <3>2, <3>3, InSequenceOf
      <3>6. \A q \in Ends : InSequence(q)' <=> InSequence(q)  BY <3>4, <3>5 DEF Ends
      <3>7. encbuf[p] = <<>>  BY <1>0, <3>1 DEF WholeAt
      <3>8. \A q \in Ends : Other(q) \in Ends  BY DEF Ends, Other
      <3>9. \A q \in Ends : (pc'[q] \in Gone <=> pc[q] \in Gone) /\ (pc'[q] = "close" => pc[q] = "close")
                            /\ (pc'[q] = "bad_record" => pc[q] = "bad_record")
        BY <1>0, <2>2 DEF Gone
      <3> QED BY <1>0, <2>2, <3>1, <3>6, <3>7, <3>8, <3>9 DEF WholeAt
    <2> QED BY <1>0, <1>t, <2>1, <2>7, <2>8, <2>9, <2>10, <2>11, <2>12 DEF CliInv
  <1>4. CASE /\ st[p] = "1rtt" /\ ~inputfd[p]
             /\ net' = [net EXCEPT ![p] = Append(@, Rec(wkey[p], 0, "close", 0))]
             /\ wkey' = [wkey EXCEPT ![p] = Next1(@)]
             /\ st' = [st EXCEPT ![p] = "shutdown"]
             /\ pc' = [pc EXCEPT ![p] = "select"]
    <2>1. SendsClose(p)  BY <1>0, <1>4 DEF SendsClose
    <2> QED BY <1>t, <2>1, SendsCloseInv
  <1> QED BY <1>1, <1>2, <1>3, <1>4 DEF CloseSender

---------------------------------------------------------------------------
(* Cli: taking a record.                                                   *)

\* The types stay.
LEMMA ConsumeTypes ==
    ASSUME CliTypes, NEW p \in Ends, Consume(p)
    PROVE CliTypes'
  <1>e. "c" \in Ends /\ "s" \in Ends /\ Other(p) \in Ends  BY DEF Ends, Other
  <1> DEFINE q == Other(p)
             r == Head(net[q])
  <1>0. q \in Ends /\ net[q] \in Seq(CliRecord) /\ net[q] # <<>>
    BY <1>e DEF CliTypes, Consume
  <1>1. r \in CliRecord /\ Tail(net[q]) \in Seq(CliRecord) /\ r.data \in Nat
    <2>1. r \in CliRecord /\ Tail(net[q]) \in Seq(CliRecord)  BY <1>0
    <2> QED BY <2>1 DEF CliRecord
  <1>2. net' \in [Ends -> Seq(CliRecord)]
    <2>1. net' = [net EXCEPT ![q] = Tail(@)]  BY DEF Consume
    <2> QED BY <1>0, <1>1, <2>1 DEF CliTypes
  <1>3. /\ \A k \in {"plain", "hs", "early", "app", "none"} : Key(k) \in CliKey
        /\ \A z \in {"plain", "hs"}, i \in 0 .. 1, k \in Kinds : Rec(Key(z), i, k, 0) \in CliRecord
    BY DEF Key, CliKey, KeyNames, Rec, CliRecord
  <1>4. \A z \in Ends : Next1(rkey[z]) \in CliKey
    <2>1. \A z \in Ends : rkey[z] \in CliKey  BY DEF CliTypes
    <2> QED BY <2>1, NextKey
  <1>u. UNCHANGED <<scen, early, inputfd, read>>  BY DEF Consume
  <1>p. pc' \in [Ends -> {"select", "consume", "encrypt", "write", "close"} \cup Gone] /\ shut' \in [Ends -> BOOLEAN]
    <2>1. (pc' = [pc EXCEPT ![p] = "consume"] /\ UNCHANGED shut) \/ Exits(p, "closed") \/ Exits(p, "bad_record")
      BY DEF Consume
    <2> QED BY <2>1 DEF CliTypes, Exits, Gone
  <1>5. CASE UNCHANGED <<st, tls, wkey, rkey, maxEarly, taken, encbuf, ptbuf, out>>
    BY <1>2, <1>p, <1>u, <1>5 DEF CliTypes
  <1>6. CASE ServerTakesHello /\ UNCHANGED <<maxEarly, taken, ptbuf, out>>
    <2>0. encbuf["s"] \in Seq(CliRecord) /\ Next1(rkey["s"]) \in CliKey  BY <1>e, <1>4 DEF CliTypes
    <2>k. {"retry", "flight", "flight_early"} \subseteq Kinds  BY DEF Kinds
    <2>1. CASE scen.retry /\ tls["s"] = "client_hello"
      <3>1. /\ tls' = [tls EXCEPT !["s"] = "second_hello"]
            /\ encbuf' = [encbuf EXCEPT !["s"] = Append(@, Rec(Key("plain"), 0, "retry", 0))]
            /\ rkey' = [rkey EXCEPT !["s"] = Next1(@)]
            /\ UNCHANGED <<st, wkey>>
        BY <1>6, <2>1 DEF ServerTakesHello
      <3>2. Append(encbuf["s"], Rec(Key("plain"), 0, "retry", 0)) \in Seq(CliRecord)
        BY <1>3, <2>0, <2>k
      <3>3. encbuf' \in [Ends -> Seq(CliRecord)] /\ rkey' \in [Ends -> CliKey]
        BY <1>e, <2>0, <3>1, <3>2 DEF CliTypes
      <3> QED BY <1>2, <1>p, <1>u, <1>6, <3>1, <3>3 DEF CliTypes
    <2>2. CASE ~(scen.retry /\ tls["s"] = "client_hello")
      <3> DEFINE takes == scen.accept /\ scen.maxEarly > 0 /\ tls["s"] = "client_hello"
                 y == Rec(Key("plain"), IF scen.retry THEN 1 ELSE 0,
                          IF takes THEN "flight_early" ELSE "flight", 0)
      <3>1. /\ tls' = [tls EXCEPT !["s"] = IF takes THEN "end_of_early" ELSE "finished"]
            /\ encbuf' = [encbuf EXCEPT !["s"] = Append(@, y)]
            /\ rkey' = [rkey EXCEPT !["s"] = IF takes THEN Key("early") ELSE Key("hs")]
            /\ wkey' = [wkey EXCEPT !["s"] = Key("app")]
            /\ st' = [st EXCEPT !["s"] = "1rtt"]
        BY <1>6, <2>2 DEF ServerTakesHello
      <3>2. y \in CliRecord  BY <1>3, <2>k
      <3> HIDE DEF takes, y
      <3>3. Append(encbuf["s"], y) \in Seq(CliRecord)  BY <2>0, <3>2
      <3>4. encbuf' \in [Ends -> Seq(CliRecord)]  BY <1>e, <3>1, <3>3 DEF CliTypes
      <3>5. rkey' \in [Ends -> CliKey] /\ wkey' \in [Ends -> CliKey]  BY <1>e, <1>3, <3>1 DEF CliTypes
      <3> QED BY <1>2, <1>p, <1>u, <1>6, <3>1, <3>4, <3>5 DEF CliTypes
    <2> QED BY <2>1, <2>2
  <1>7. CASE ClientTakesRetry /\ UNCHANGED out
    <2>0. encbuf["c"] \in Seq(CliRecord) /\ Next1(rkey["c"]) \in CliKey  BY <1>e, <1>4 DEF CliTypes
    <2>1. Append(encbuf["c"], Rec(Key("plain"), 1, "hello", 0)) \in Seq(CliRecord)
      <3>1. "hello" \in Kinds  BY DEF Kinds
      <3> QED BY <1>3, <2>0, <3>1
    <2>2. encbuf' \in [Ends -> Seq(CliRecord)]  BY <1>e, <1>7, <2>1 DEF CliTypes, ClientTakesRetry
    <2>3. rkey' \in [Ends -> CliKey] /\ wkey' \in [Ends -> CliKey]
      BY <1>e, <1>3, <1>7, <2>0 DEF CliTypes, ClientTakesRetry
    <2> QED BY <1>2, <1>p, <1>u, <1>7, <2>2, <2>3 DEF CliTypes, ClientTakesRetry
  <1>8. CASE ClientTakesFlight(r) /\ UNCHANGED out
    <2> DEFINE took == r.what = "flight_early"
               how == IF taken = "unknown" THEN IF took THEN "accepted" ELSE "rejected" ELSE taken
               x == (IF took THEN <<Rec(wkey["c"], 0, "end_of_early", 0)>> ELSE <<>>)
               y == <<Rec(Key("hs"), 0, "finished", 0)>>
    <2>1. /\ taken' = how /\ UNCHANGED maxEarly
          /\ encbuf' = [encbuf EXCEPT !["c"] = @ \o x \o y]
          /\ wkey' = [wkey EXCEPT !["c"] = Key("app")]
          /\ rkey' = [rkey EXCEPT !["c"] = Key("app")]
          /\ tls' = [tls EXCEPT !["c"] = "done"]
          /\ st' = [st EXCEPT !["c"] = "1rtt"]
          /\ ptbuf' = [ptbuf EXCEPT !["c"] = IF how = "accepted" THEN ShiftBuffer(@, Len(early["c"])) ELSE @]
      BY <1>8 DEF ClientTakesFlight
    <2>2. x \in Seq(CliRecord) /\ y \in Seq(CliRecord)
      <3>1. wkey["c"].key \in KeyNames /\ wkey["c"].n \in Nat  BY <1>e DEF CliTypes, CliKey
      <3>2. Rec(wkey["c"], 0, "end_of_early", 0) \in CliRecord  BY <3>1 DEF Rec, CliRecord, Kinds
      <3>3. Rec(Key("hs"), 0, "finished", 0) \in CliRecord  BY <1>3 DEF Kinds
      <3> QED BY <3>2, <3>3
    <2>3. how \in {"unknown", "accepted", "rejected"}  BY DEF CliTypes
    <2> HIDE DEF x, y, how
    <2>4. encbuf["c"] \in Seq(CliRecord)  BY <1>e DEF CliTypes
    <2>5. encbuf["c"] \o x \o y \in Seq(CliRecord)  BY <2>2, <2>4
    <2>6. encbuf' \in [Ends -> Seq(CliRecord)]  BY <1>e, <2>1, <2>5 DEF CliTypes
    <2>7. rkey' \in [Ends -> CliKey] /\ wkey' \in [Ends -> CliKey]  BY <1>e, <1>3, <2>1 DEF CliTypes
    <2>8. ShiftBuffer(ptbuf["c"], Len(early["c"])) \in Seq(Nat) /\ ptbuf["c"] \in Seq(Nat)
      <3>1. ptbuf["c"] \in Seq(Nat) /\ early["c"] \in Seq(Nat)  BY <1>e DEF CliTypes
      <3>2. Len(early["c"]) \in Nat /\ Len(ptbuf["c"]) \in Nat  BY <3>1, LenProperties
      <3>3. \A i \in Len(early["c"]) + 1 .. Len(ptbuf["c"]) : ptbuf["c"][i] \in Nat
        <4>1. \A i \in Len(early["c"]) + 1 .. Len(ptbuf["c"]) : i \in 1 .. Len(ptbuf["c"])  BY <3>2
        <4> QED BY <3>1, <4>1, ElementOfSeq
      <3>4. Len(early["c"]) + 1 \in Int /\ Len(ptbuf["c"]) \in Int  BY <3>2
      <3> QED BY <3>1, <3>3, <3>4, SubSeqProperties DEF ShiftBuffer
    <2>9. ptbuf' \in [Ends -> Seq(Nat)]  BY <1>e, <2>1, <2>8 DEF CliTypes
    <2> QED BY <1>2, <1>p, <1>u, <1>8, <2>1, <2>3, <2>6, <2>7, <2>9 DEF CliTypes
  <1>9. CASE ServerTakesFinish(r) /\ UNCHANGED <<st, wkey, maxEarly, taken, encbuf, ptbuf, out>>
    <2>1. rkey' \in [Ends -> CliKey]  BY <1>e, <1>3, <1>9 DEF CliTypes, ServerTakesFinish
    <2> QED BY <1>2, <1>p, <1>u, <1>9, <2>1 DEF CliTypes, ServerTakesFinish
  <1>10. CASE /\ out' = [out EXCEPT ![p] = Append(@, r.data)] /\ rkey' = [rkey EXCEPT ![p] = Next1(@)]
              /\ UNCHANGED <<st, tls, wkey, maxEarly, taken, encbuf, ptbuf>>
    <2>1. Append(out[p], r.data) \in Seq(Nat)
      <3>1. out[p] \in Seq(Nat)  BY DEF CliTypes
      <3> QED BY <1>1, <3>1
    <2>2. out' \in [Ends -> Seq(Nat)] /\ rkey' \in [Ends -> CliKey]  BY <1>4, <1>10, <2>1 DEF CliTypes
    <2> QED BY <1>2, <1>p, <1>u, <1>10, <2>2 DEF CliTypes
  <1> QED BY <1>5, <1>6, <1>7, <1>8, <1>9, <1>10 DEF Consume

\* p takes the first record under way from q and answers with x; the rest of
\* what it does concerns its own state alone.
Takes(p, q, x) ==
    /\ q = Other(p) /\ net[q] # <<>> /\ pc[p] \in {"select", "consume"}
    /\ net' = [net EXCEPT ![q] = Tail(@)]
    /\ encbuf' = [encbuf EXCEPT ![p] = @ \o x]
    /\ pc'[q] = pc[q] /\ st'[q] = st[q] /\ tls'[q] = tls[q] /\ wkey'[q] = wkey[q] /\ rkey'[q] = rkey[q]
    /\ ptbuf'[q] = ptbuf[q] /\ out'[q] = out[q]
    /\ UNCHANGED <<scen, early, inputfd, read>>

\* What that makes of the two streams.
LEMMA TakesStreams ==
    ASSUME CliTypes, NEW p \in Ends, NEW q \in Ends, NEW x \in Seq(CliRecord), Takes(p, q, x)
    PROVE /\ q # p /\ Head(net[q]) \in CliRecord
          /\ Len(Stream(q)) \in Nat \ {0} /\ Stream(q)[1] = Head(net[q])
          /\ Len(Stream(q)') = Len(Stream(q)) - 1
          /\ \A i \in 1 .. Len(Stream(q)) - 1 : Stream(q)'[i] = Stream(q)[i + 1]
          /\ Len(Stream(p)) \in Nat /\ Len(x) \in Nat /\ Len(Stream(p)') = Len(Stream(p)) + Len(x)
          /\ \A i \in 1 .. Len(Stream(p)) : Stream(p)'[i] = Stream(p)[i]
          /\ \A i \in 1 .. Len(x) : Stream(p)'[Len(Stream(p)) + i] = x[i]
  <1>1. q # p  BY DEF Takes, Other, Ends
  <1>2. /\ net[q] \in Seq(CliRecord) /\ encbuf[q] \in Seq(CliRecord) /\ net[q] # <<>>
        /\ net[p] \in Seq(CliRecord) /\ encbuf[p] \in Seq(CliRecord)
    BY DEF CliTypes, Takes
  <1>3. /\ net'[q] = Tail(net[q]) /\ encbuf'[q] = encbuf[q]
        /\ net'[p] = net[p] /\ encbuf'[p] = encbuf[p] \o x
    BY <1>1 DEF CliTypes, Takes
  <1>4. PICK N, E, M, F : N = net[q] /\ E = encbuf[q] /\ M = net[p] /\ F = encbuf[p]  OBVIOUS
  <1>5. N \in Seq(CliRecord) /\ E \in Seq(CliRecord) /\ N # <<>> /\ M \in Seq(CliRecord) /\ F \in Seq(CliRecord)
    BY <1>2, <1>4
  <1>a. M \in Seq(CliRecord) /\ F \in Seq(CliRecord) /\ x \in Seq(CliRecord)  BY <1>5
  <1>6. /\ Stream(q) = N \o E /\ Stream(q)' = Tail(N) \o E /\ Stream(p) = M \o F /\ Stream(p)' = M \o (F \o x)
    BY <1>3, <1>4 DEF Stream
  <1>7. Head(N) \in CliRecord /\ Shorter(N \o E, Head(N), Tail(N) \o E)  BY <1>5, StreamLess, Zenon
  <1>8. Longer(M \o F, x, M \o (F \o x))  BY <1>a, StreamMore, Zenon
  <1>9. Head(net[q]) = Head(N)  BY <1>4
  <1>10. PICK S, T, U, V : S = Stream(q) /\ T = Stream(q)' /\ U = Stream(p) /\ V = Stream(p)'  OBVIOUS
  <1>11. Shorter(S, Head(net[q]), T) /\ Longer(U, x, V)  BY <1>6, <1>7, <1>8, <1>9, <1>10, Zenon
  <1>12. /\ Len(S) \in Nat \ {0} /\ S[1] = Head(net[q])
         /\ Len(T) = Len(S) - 1
         /\ \A i \in 1 .. Len(S) - 1 : T[i] = S[i + 1]
    BY <1>11 DEF Shorter
  <1>13. /\ Len(U) \in Nat /\ Len(x) \in Nat /\ Len(V) = Len(U) + Len(x)
         /\ \A i \in 1 .. Len(U) : V[i] = U[i]
         /\ \A i \in 1 .. Len(x) : V[Len(U) + i] = x[i]
    BY <1>11 DEF Longer
  <1> QED BY <1>1, <1>7, <1>9, <1>10, <1>12, <1>13, Zenon

\* The decisions of the handshake are those of the scenario.
LEMMA TakesFixed ==
    ASSUME NEW p, NEW q, NEW x, Takes(p, q, x)
    PROVE /\ EarlyTaken' = EarlyTaken /\ Retries' = Retries /\ Released' = Released
          /\ EarlyRecords' = EarlyRecords /\ early' = early /\ scen' = scen
          /\ \A e, k : Place(e, k)' = Place(e, k)
  <1>1. EarlyTaken' = EarlyTaken /\ Retries' = Retries /\ Released' = Released
        /\ EarlyRecords' = EarlyRecords /\ early' = early /\ scen' = scen
    BY DEF Takes, EarlyTaken, Retries, Released, EarlyRecords
  <1> QED BY <1>1 DEF Place

\* The record taken is one that tells where it belongs.
LEMMA TakesTold ==
    ASSUME CliInv, NEW p \in Ends, NEW q \in Ends, NEW x \in Seq(CliRecord), Takes(p, q, x)
    PROVE /\ p = "s" => q = "c" /\ ClientRecord(Head(net[q]))
          /\ p = "c" => q = "s" /\ ServerRecord(Head(net[q]))
          /\ Head(net[q]).n \in Nat /\ Head(net[q]).key \in KeyNames
  <1>1. CliTypes /\ RecordsTell  BY DEF CliInv
  <1>2. Len(Stream(q)) \in Nat \ {0} /\ Stream(q)[1] = Head(net[q]) /\ Head(net[q]) \in CliRecord
    BY <1>1, TakesStreams
  <1>3. 1 \in 1 .. Len(Stream(q))  BY <1>2
  <1>4. (p = "s" => q = "c") /\ (p = "c" => q = "s")  BY DEF Takes, Other
  <1>5. Head(net[q]).n \in Nat /\ Head(net[q]).key \in KeyNames  BY <1>2 DEF CliRecord
  <1> QED BY <1>1, <1>2, <1>3, <1>4, <1>5 DEF RecordsTell

\* What is left still tells where it belongs, if the answer does; early data
\* still comes before Finished.
LEMMA TakesRecords ==
    ASSUME CliInv, NEW p \in Ends, NEW q \in Ends, NEW x \in Seq(CliRecord), Takes(p, q, x),
           tls'["c"] \in {tls["c"], "done"},
           p = "s" => \A i \in 1 .. Len(x) : ServerRecord(x[i]),
           p = "c" => \A i \in 1 .. Len(x) : ClientRecord(x[i])',
           p = "c" => \A i \in 1 .. Len(x) :
                         x[i].key = "early" => /\ tls["c"] # "done" /\ tls["s"] # "done"
                                               /\ \A j \in 1 .. Len(x) : j < i => x[j].what # "finished",
           tls'["s"] = "done" => \/ tls["s"] = "done"
                                 \/ q = "c" /\ Head(net[q]).what = "finished"
    PROVE RecordsTell' /\ EarlyComesEarly'
  <1>0. CliTypes /\ RecordsTell /\ EarlyComesEarly  BY DEF CliInv
  <1>1. PICK n, m, k, S, T, A, B :
            /\ S = Stream(q) /\ T = Stream(q)' /\ n = Len(Stream(q))
            /\ A = Stream(p) /\ B = Stream(p)' /\ m = Len(Stream(p)) /\ k = Len(x)
    OBVIOUS
  <1>2. /\ q # p /\ n \in Nat \ {0} /\ S[1] = Head(net[q]) /\ Len(T) = n - 1
        /\ \A i \in 1 .. n - 1 : T[i] = S[i + 1]
        /\ m \in Nat /\ k \in Nat /\ Len(B) = m + k
        /\ \A i \in 1 .. m : B[i] = A[i]
        /\ \A i \in 1 .. k : B[m + i] = x[i]
    BY <1>0, <1>1, TakesStreams, SMTT(30)
  <1>3. \A i \in 1 .. n - 1 : i + 1 \in 1 .. n /\ T[i] = S[i + 1]  BY <1>2, SMTT(30)
  <1>4. \A i \in 1 .. m + k : i \in 1 .. m \/ (i - m \in 1 .. k /\ B[i] = x[i - m])
    <2>1. TAKE i \in 1 .. m + k
    <2>2. CASE i > m
      <3>1. i - m \in 1 .. k /\ m + (i - m) = i  BY <1>2, <2>2
      <3> QED BY <1>2, <3>1
    <2> QED BY <1>2, <2>2
  <1>5. EarlyTaken' = EarlyTaken /\ Retries' = Retries /\ Released' = Released /\ early' = early /\ scen' = scen
    BY TakesFixed
  <1>6. \A r : ClientRecord(r) => ClientRecord(r)'  BY <1>5 DEF ClientRecord
  <1>7. \A r : ServerRecord(r) => ServerRecord(r)'  BY <1>5 DEF ServerRecord
  <1>8. CASE p = "s"
    <2>1. q = "c"  BY <1>8 DEF Takes, Other
    <2>2. /\ Stream("c") = S /\ Stream("c")' = T /\ Stream("s") = A /\ Stream("s")' = B
          /\ Len(Stream("c")) = n /\ Len(Stream("s")) = m
      BY <1>1, <1>8, <2>1
    <2>3. /\ \A i \in 1 .. n : ClientRecord(S[i])
          /\ \A i \in 1 .. m : ServerRecord(A[i])
          /\ \A i, j \in 1 .. n : i < j /\ S[i].what = "finished" => S[j].key # "early"
          /\ tls["s"] = "done" => \A i \in 1 .. n : S[i].key # "early"
      BY <1>0, <2>2 DEF RecordsTell, EarlyComesEarly
    <2>4. \A i \in 1 .. n - 1 : ClientRecord(T[i])'
      <3>1. TAKE i \in 1 .. n - 1
      <3>2. ClientRecord(S[i + 1])'  BY <1>3, <1>6, <2>3
      <3>3. T[i] = S[i + 1]  BY <1>3
      <3> QED BY <3>2, <3>3
    <2>5. \A i \in 1 .. m + k : ServerRecord(B[i])'
      <3>1. TAKE i \in 1 .. m + k
      <3>2. CASE i \in 1 .. m
        <4>1. ServerRecord(A[i])' /\ B[i] = A[i]  BY <1>2, <1>7, <2>3, <3>2
        <4> QED BY <4>1
      <3>3. CASE i - m \in 1 .. k /\ B[i] = x[i - m]
        <4>1. ServerRecord(x[i - m])'  BY <1>1, <1>7, <1>8, <3>3
        <4> QED BY <3>3, <4>1
      <3> QED BY <1>4, <3>2, <3>3
    <2>6. RecordsTell'  BY <1>2, <2>2, <2>4, <2>5 DEF RecordsTell
    <2>7. \A i, j \in 1 .. n - 1 : i < j /\ T[i].what = "finished" => T[j].key # "early"
      <3>1. TAKE i, j \in 1 .. n - 1
      <3>2. i + 1 \in 1 .. n /\ j + 1 \in 1 .. n /\ T[i] = S[i + 1] /\ T[j] = S[j + 1]  BY <1>3
      <3>3. i < j => i + 1 < j + 1  OBVIOUS
      <3> QED BY <2>3, <3>2, <3>3
    <2>8. tls'["s"] = "done" => \A i \in 1 .. n - 1 : T[i].key # "early"
      <3>1. CASE tls["s"] = "done"  BY <1>3, <2>3, <3>1
      <3>2. CASE S[1].what = "finished"
        <4>1. \A i \in 1 .. n - 1 : 1 \in 1 .. n /\ 1 < i + 1 /\ i + 1 \in 1 .. n /\ T[i] = S[i + 1]
          BY <1>2, <1>3
        <4> QED BY <2>3, <3>2, <4>1
      <3> QED BY <1>2, <3>1, <3>2
    <2>9. EarlyComesEarly'  BY <1>2, <2>2, <2>7, <2>8 DEF EarlyComesEarly
    <2> QED BY <2>6, <2>9
  <1>9. CASE p = "c"
    <2>1. q = "s"  BY <1>9 DEF Takes, Other
    <2>2. /\ Stream("s") = S /\ Stream("s")' = T /\ Stream("c") = A /\ Stream("c")' = B
          /\ Len(Stream("s")) = n /\ Len(Stream("c")) = m
      BY <1>1, <1>9, <2>1
    <2>3. /\ \A i \in 1 .. n : ServerRecord(S[i])
          /\ \A i \in 1 .. m : ClientRecord(A[i])
          /\ \A i, j \in 1 .. m : i < j /\ A[i].what = "finished" => A[j].key # "early"
          /\ tls["s"] = "done" => \A i \in 1 .. m : A[i].key # "early"
      BY <1>0, <2>2 DEF RecordsTell, EarlyComesEarly
    <2>4. \A i \in 1 .. n - 1 : ServerRecord(T[i])'
      <3>1. TAKE i \in 1 .. n - 1
      <3>2. ServerRecord(S[i + 1])'  BY <1>3, <1>7, <2>3
      <3>3. T[i] = S[i + 1]  BY <1>3
      <3> QED BY <3>2, <3>3
    <2>5. \A i \in 1 .. m + k : ClientRecord(B[i])'
      <3>1. TAKE i \in 1 .. m + k
      <3>2. CASE i \in 1 .. m
        <4>1. ClientRecord(A[i])' /\ B[i] = A[i]  BY <1>2, <1>6, <2>3, <3>2
        <4> QED BY <4>1
      <3>3. CASE i - m \in 1 .. k /\ B[i] = x[i - m]
        <4>1. ClientRecord(x[i - m])'  BY <1>1, <1>9, <3>3
        <4> QED BY <3>3, <4>1
      <3> QED BY <1>4, <3>2, <3>3
    <2>6. RecordsTell'  BY <1>2, <2>2, <2>4, <2>5 DEF RecordsTell
    <2>7. ASSUME NEW i \in 1 .. m + k, NEW j \in 1 .. m + k, i < j, B[i].what = "finished", B[j].key = "early"
          PROVE FALSE
      <3>1. CASE j \in 1 .. m
        <4>1. i \in 1 .. m  BY <1>2, <2>7, <3>1
        <4> QED BY <1>2, <2>3, <2>7, <3>1, <4>1
      <3>2. CASE j - m \in 1 .. k /\ B[j] = x[j - m]
        <4>1. tls["c"] # "done" /\ \A h \in 1 .. k : h < j - m => x[h].what # "finished"
          BY <1>1, <1>9, <2>7, <3>2
        <4>2. CASE i \in 1 .. m
          <5>1. ClientRecord(A[i]) /\ A[i].what = "finished"  BY <1>2, <2>3, <2>7, <4>2
          <5> QED BY <4>1, <5>1 DEF ClientRecord
        <4>3. CASE i - m \in 1 .. k /\ B[i] = x[i - m]
          <5>1. i - m < j - m  BY <1>2, <2>7
          <5> QED BY <2>7, <4>1, <4>3, <5>1
        <4> QED BY <1>4, <4>2, <4>3
      <3> QED BY <1>4, <3>1, <3>2
    <2>8. tls'["s"] = "done" => \A i \in 1 .. m + k : B[i].key # "early"
      <3>1. tls'["s"] = tls["s"]  BY <2>1 DEF Takes
      <3>2. tls["s"] = "done" => \A i \in 1 .. k : x[i].key # "early"  BY <1>1, <1>9
      <3> QED BY <1>2, <1>4, <2>3, <3>1, <3>2
    <2>9. EarlyComesEarly'  BY <1>2, <2>2, <2>7, <2>8 DEF EarlyComesEarly
    <2> QED BY <2>6, <2>9
  <1> QED BY <1>8, <1>9 DEF Ends

\* A record that has the place an end reads from next is the one it expects:
\* no two keys share a place.
LEMMA PlaceTells ==
    ASSUME CliInv, NEW r, r.n \in Nat
    PROVE /\ ClientRecord(r) /\ Place("c", r) = Place("c", rkey["s"]) => Expected("s", r)
          /\ ServerRecord(r) /\ Place("s", r) = Place("s", rkey["c"]) => Expected("c", r)
  <1>1. CliTypes /\ ClientAt /\ ServerAt /\ OutAt  BY DEF CliInv
  <1>0. PICK k, R, L, X, a, b :
           /\ k = rkey["s"].n /\ R = Retries /\ L = Len(early["c"]) /\ X = EarlyRecords
           /\ a = r.n /\ b = rkey["c"].n
    OBVIOUS
  <1>2. k \in Nat /\ R \in 0 .. 1 /\ L \in Nat /\ X \in Nat /\ a \in Nat /\ b \in Nat
    <2>1. rkey["s"].n \in Nat /\ rkey["c"].n \in Nat  BY <1>1 DEF CliTypes, CliKey, Ends
    <2> QED BY <1>0, <1>1, <2>1, PlaceTypes
  <1>3. (EarlyTaken => X = L + 1 /\ R = 0) /\ (~EarlyTaken => X = 0)
    BY <1>0 DEF EarlyRecords, EarlyTaken, Retries
  <1>4. \/ rkey["s"].key = "plain" /\ k <= R
        \/ rkey["s"].key = "early" /\ EarlyTaken /\ k <= L
        \/ rkey["s"].key = "hs" /\ k = 0
        \/ rkey["s"].key = "app"
    <2>1. rkey["s"].key = "early" => k <= Released  BY <1>0, <1>1 DEF OutAt
    <2>2. EarlyTaken => Released = L  BY <1>0 DEF Released
    <2>3. scen.retry => R = 1  BY <1>0 DEF Retries
    <2>4. rkey["s"] = Key("plain") => rkey["s"].key = "plain" /\ k = 0  BY <1>0 DEF Key
    <2>5. rkey["s"] = Key("hs") => rkey["s"].key = "hs" /\ k = 0  BY <1>0 DEF Key
    <2>6. \/ rkey["s"] = Key("plain")
          \/ scen.retry /\ rkey["s"].key = "plain" /\ k = 1
          \/ EarlyTaken /\ rkey["s"].key = "early"
          \/ rkey["s"] = Key("hs")
          \/ rkey["s"].key = "app"
      BY <1>0, <1>1 DEF ServerAt
    <2> QED BY <1>2, <2>1, <2>2, <2>3, <2>4, <2>5, <2>6
  <1>5. Place("c", rkey["s"]) = (IF rkey["s"].key = "plain" THEN k
                                 ELSE IF rkey["s"].key = "early" THEN 1 + k
                                 ELSE IF rkey["s"].key = "hs" THEN R + 1 + X ELSE R + 2 + X + k)
    BY <1>0, <1>4 DEF Place
  <1>6. ASSUME ClientRecord(r)
        PROVE /\ \/ r.key = "plain" /\ a <= R
                 \/ r.key = "early" /\ a <= L
                 \/ r.key = "hs" /\ a = 0
                 \/ r.key = "app"
              /\ Place("c", r) = (IF r.key = "plain" THEN a
                                  ELSE IF r.key = "early" THEN (IF EarlyTaken THEN 1 + a ELSE -1)
                                  ELSE IF r.key = "hs" THEN R + 1 + X ELSE R + 2 + X + a)
    <2>1. a < L => a <= L  BY <1>2
    <2>2. \/ r.key = "plain" /\ a <= R
          \/ r.key = "early" /\ a <= L
          \/ r.key = "hs" /\ a = 0
          \/ r.key = "app"
      BY <1>0, <1>2, <1>6, <2>1 DEF ClientRecord
    <2> QED BY <1>0, <2>2 DEF Place
  <1>7. ASSUME ClientRecord(r), Place("c", r) = Place("c", rkey["s"])
        PROVE r.key = rkey["s"].key /\ a = k
    <2>1. CASE r.key = "plain"  BY <1>2, <1>3, <1>4, <1>5, <1>6, <1>7, <2>1
    <2>2. CASE r.key = "early"  BY <1>2, <1>3, <1>4, <1>5, <1>6, <1>7, <2>2
    <2>3. CASE r.key = "hs"  BY <1>2, <1>3, <1>4, <1>5, <1>6, <1>7, <2>3
    <2>4. CASE r.key = "app"  BY <1>2, <1>3, <1>4, <1>5, <1>6, <1>7, <2>4
    <2> QED BY <1>6, <1>7, <2>1, <2>2, <2>3, <2>4
  <1>8. ASSUME ServerRecord(r), Place("s", r) = Place("s", rkey["c"])
        PROVE r.key = rkey["c"].key /\ a = b
    <2>1. (r.key = "plain" /\ a <= R) \/ r.key = "app"
      <3>1. a = 0 => a <= R  BY <1>2
      <3>2. a = R => a <= R  BY <1>2
      <3> QED BY <1>0, <1>8, <3>1, <3>2 DEF ServerRecord
    <2>2. (rkey["c"].key = "plain" /\ b <= R) \/ rkey["c"].key = "app"  BY <1>0, <1>1 DEF ClientAt
    <2>3. Place("s", r) = (IF r.key = "plain" THEN a ELSE R + 1 + a)  BY <1>0, <2>1 DEF Place
    <2>4. Place("s", rkey["c"]) = (IF rkey["c"].key = "plain" THEN b ELSE R + 1 + b)  BY <1>0, <2>2 DEF Place
    <2> QED BY <1>2, <1>8, <2>1, <2>2, <2>3, <2>4
  <1> QED BY <1>0, <1>7, <1>8 DEF Expected

\* With writes taken whole the record at the head is the one expected, or
\* early data that nobody wants.
LEMMA TakesExpected ==
    ASSUME CliInv, NEW p \in Ends, NEW q \in Ends, NEW x \in Seq(CliRecord), Takes(p, q, x), scen.whole,
           NEW r, r = Head(net[q])
    PROVE /\ Skips(p, r) \/ Expected(p, r)
          /\ Skips(p, r) => Place(q, r) = -1
          /\ ~Skips(p, r) => Place(q, r) = Place(q, rkey[p])
  <1>1. CliTypes /\ ClientAt /\ ServerAt /\ EarlyComesEarly  BY DEF CliInv
  <1>2. /\ p = "s" => q = "c" /\ ClientRecord(r)
        /\ p = "c" => q = "s" /\ ServerRecord(r)
        /\ r.n \in Nat /\ r.key \in KeyNames
    BY TakesTold
  <1>3. PICK f, n, a, b : f = Places(q) /\ n = Len(Stream(q)) /\ a = Place(q, rkey[p]) /\ b = NextPlace(q)
    OBVIOUS
  <1>4. n \in Nat \ {0} /\ Stream(q)[1] = r  BY <1>1, <1>3, TakesStreams
  <1>5. f[1] = Place(q, r)
    <2>1. 1 \in 1 .. n  BY <1>4
    <2>2. f = [i \in 1 .. n |-> Place(q, Stream(q)[i])]  BY <1>3 DEF Places
    <2> QED BY <1>4, <2>1, <2>2
  <1>6. Gapless(f, n, a, b)
    <2>1. Other(q) = p /\ pc[p] \notin Gone  BY DEF Takes, Other, Ends, Gone
    <2>2. InSequence(q)  BY <2>1 DEF CliInv, WholeAt
    <2> QED BY <1>3, <2>1, <2>2 DEF InSequence
  <1>7. a \in Nat /\ b \in Int
    <2>1. p \in {"c", "s"}  BY DEF Ends
    <2>2. /\ NextPlace("c") \in Nat /\ NextPlace("s") \in Nat
          /\ Place("s", rkey["c"]) \in Nat /\ Place("c", rkey["s"]) \in Nat
      BY <1>1, PlaceTypes
    <2> QED BY <1>2, <1>3, <2>1, <2>2
  <1>8. f[1] # -1 => f[1] = a
    <2>1. PICK h : h = [i \in 1 .. n - 1 |-> f[i + 1]]  OBVIOUS
    <2>2. \A i \in 1 .. n - 1 : h[i] = f[i + 1]  BY <2>1
    <2>3. n \in Nat \ {0} /\ a \in Nat /\ b \in Int  BY <1>4, <1>7
    <2>4. (f[1] = -1 => Gapless(h, n - 1, a, b)) /\ (f[1] # -1 => f[1] = a /\ Gapless(h, n - 1, a + 1, b))
      BY <1>6, <2>2, <2>3, GaplessHead
    <2> QED BY <2>4
  <1>9. CASE p = "c"
    <2>1. q = "s" /\ ServerRecord(r) /\ ~Skips(p, r)  BY <1>2, <1>9 DEF Skips
    <2>2. Place("s", r) # -1
      <3>1. r.n \in Nat /\ Retries + 1 + r.n \in Nat  BY <1>1, <1>2, PlaceTypes, SMTT(30)
      <3> QED BY <3>1 DEF Place
    <2>3. Place("s", r) = Place("s", rkey["c"])  BY <1>3, <1>5, <1>8, <1>9, <2>1, <2>2
    <2>4. Expected("c", r)  BY <1>2, <2>1, <2>3, PlaceTells
    <2> QED BY <1>9, <2>1, <2>3, <2>4
  <1>10. CASE p = "s"
    <2>1. q = "c" /\ ClientRecord(r)  BY <1>2, <1>10
    <2>2. ASSUME Place("c", r) # -1 PROVE Expected("s", r) /\ Place("c", r) = Place("c", rkey["s"]) /\ ~Skips("s", r)
      <3>1. Place("c", r) = Place("c", rkey["s"])  BY <1>3, <1>5, <1>8, <1>10, <2>1, <2>2
      <3>2. Expected("s", r)  BY <1>2, <2>1, <3>1, PlaceTells
      <3>4. ~Skips("s", r)  BY <3>2 DEF Skips, Expected
      <3> QED BY <3>1, <3>2, <3>4
    <2>3. ASSUME Place("c", r) = -1 PROVE Skips("s", r)
      <3>1. Retries + 1 + EarlyRecords \in Nat /\ Retries + 2 + EarlyRecords + r.n \in Nat /\ r.n \in Nat
            /\ 1 + r.n \in Nat
        <4>1. Retries \in Nat /\ EarlyRecords \in Nat /\ r.n \in Nat  BY <1>1, <1>2, PlaceTypes
        <4> QED BY <4>1
      <3>2. r.key = "early" /\ ~EarlyTaken
        <4>1. -1 \notin Nat  OBVIOUS
        <4> QED BY <2>3, <3>1, <4>1 DEF Place
      <3>3. 1 \in 1 .. Len(Stream("c")) /\ Stream("c")[1].key = "early"  BY <1>3, <1>4, <2>1, <3>2
      <3>4. tls["s"] # "done"  BY <1>1, <3>3 DEF EarlyComesEarly
      <3> QED BY <1>1, <3>2, <3>4 DEF Skips, ServerAt, Key
    <2> QED BY <1>10, <2>1, <2>2, <2>3
  <1> QED BY <1>9, <1>10 DEF Ends

\* The answer has the next places.
TakesPlaces(p, x) ==
    /\ \A i \in 1 .. Len(x) : Place(p, x[i]) = NextPlace(p) + i - 1
    /\ NextPlace(p)' = NextPlace(p) + Len(x)

\* Both directions stay gapless: the record taken is the first of what is under
\* way, the answer has the next places.
LEMMA TakesWhole ==
    ASSUME CliInv, NEW p \in Ends, NEW q \in Ends, NEW x \in Seq(CliRecord), Takes(p, q, x), scen.whole,
           pc'[p] = "consume",
           st'[p] = "shutdown" => st[p] = "shutdown" /\ x = <<>>,
           Place(q, rkey[p])' = Place(q, rkey[p]) + (IF Skips(p, Head(net[q])) THEN 0 ELSE 1),
           TakesPlaces(p, x)
    PROVE \A e \in Ends : WholeAt(e)'
  <1>1. CliTypes /\ ClientAt /\ ServerAt /\ \A e \in Ends : WholeAt(e)  BY DEF CliInv
  <1>2. /\ q # p /\ Other(p) = q /\ Other(q) = p /\ pc[p] \in {"select", "consume"} /\ pc'[q] = pc[q]
        /\ st'[q] = st[q] /\ tls'[q] = tls[q] /\ wkey'[q] = wkey[q] /\ rkey'[q] = rkey[q]
        /\ p \in {"c", "s"} /\ q \in {"c", "s"}
    BY DEF Takes, Other, Ends
  <1>3. \A e, k : Place(e, k)' = Place(e, k)  BY TakesFixed
  <1>4. PICK n, m, k, r :
            n = Len(Stream(q)) /\ m = Len(Stream(p)) /\ k = Len(x) /\ r = Head(net[q])
    OBVIOUS
  <1>5. /\ n \in Nat \ {0} /\ Len(Stream(q)') = n - 1
        /\ \A i \in 1 .. n - 1 : Stream(q)'[i] = Stream(q)[i + 1]
        /\ m \in Nat /\ k \in Nat /\ Len(Stream(p)') = m + k
        /\ \A i \in 1 .. m : Stream(p)'[i] = Stream(p)[i]
        /\ \A i \in 1 .. k : Stream(p)'[m + i] = x[i]
        /\ Stream(q)[1] = r
    <2>1. /\ Len(Stream(q)) \in Nat \ {0} /\ Stream(q)[1] = Head(net[q])
          /\ Len(Stream(q)') = Len(Stream(q)) - 1
          /\ \A i \in 1 .. Len(Stream(q)) - 1 : Stream(q)'[i] = Stream(q)[i + 1]
          /\ Len(Stream(p)) \in Nat /\ Len(x) \in Nat /\ Len(Stream(p)') = Len(Stream(p)) + Len(x)
          /\ \A i \in 1 .. Len(Stream(p)) : Stream(p)'[i] = Stream(p)[i]
          /\ \A i \in 1 .. Len(x) : Stream(p)'[Len(Stream(p)) + i] = x[i]
      BY <1>1, TakesStreams
    <2> QED BY <1>4, <2>1
  <1>6. PICK a, b, c, d : /\ a = Place(q, rkey[p]) /\ b = NextPlace(q)
                          /\ c = Place(p, rkey[q]) /\ d = NextPlace(p)
    OBVIOUS
  <1>7. a \in Nat /\ b \in Nat /\ c \in Nat /\ d \in Nat
    <2>2. /\ NextPlace("c") \in Nat /\ NextPlace("s") \in Nat
          /\ Place("s", rkey["c"]) \in Nat /\ Place("c", rkey["s"]) \in Nat
      BY <1>1, PlaceTypes
    <2> QED BY <1>2, <1>6, <2>2
  <1>8. NextPlace(q)' = b
    <2>1. Released' = Released  BY TakesFixed
    <2>2. CASE q = "c"
      <3>1. Place("c", wkey["c"])' = Place("c", wkey["c"])  BY <1>2, <1>3, <2>2
      <3> QED BY <1>2, <1>6, <2>1, <2>2, <3>1 DEF NextPlace
    <2>3. CASE q = "s"
      <3>1. Place("s", wkey["s"])' = Place("s", wkey["s"])  BY <1>2, <1>3, <2>3
      <3> QED BY <1>2, <1>6, <2>3, <3>1 DEF NextPlace
    <2> QED BY <1>2, <2>2, <2>3
  <1>9. Place(p, rkey[q])' = c  BY <1>2, <1>3, <1>6
  <1>10. InSequence(q)'
    <2>0. PICK f, h : f = Places(q) /\ h = Places(q)'  OBVIOUS
    <2>1. InSequence(q)  BY <1>1, <1>2 DEF WholeAt, Gone
    <2>2. Gapless(f, n, a, b)  BY <1>2, <1>4, <1>6, <2>0, <2>1 DEF InSequence
    <2>3. f = [i \in 1 .. n |-> Place(q, Stream(q)[i])] /\ h = [i \in 1 .. n - 1 |-> Place(q, Stream(q)[i])']
      BY <1>4, <1>5, <2>0 DEF Places
    <2>4. \A i \in 1 .. n - 1 : h[i] = f[i + 1]
      <3>1. TAKE i \in 1 .. n - 1
      <3>2. i + 1 \in 1 .. n /\ Stream(q)'[i] = Stream(q)[i + 1]  BY <1>5
      <3>3. Place(q, Stream(q)[i])' = Place(q, Stream(q)[i + 1])  BY <1>3, <3>2
      <3> QED BY <2>3, <3>2, <3>3
    <2>5. f[1] = Place(q, r)
      <3>1. 1 \in 1 .. n  BY <1>5
      <3> QED BY <1>5, <2>3, <3>1
    <2>6. /\ Skips(p, r) => Place(q, r) = -1
          /\ ~Skips(p, r) => Place(q, r) = a
      BY <1>4, <1>6, TakesExpected
    <2>7. (f[1] = -1 => Gapless(h, n - 1, a, b)) /\ (f[1] # -1 => f[1] = a /\ Gapless(h, n - 1, a + 1, b))
      <3>1. n \in Nat \ {0} /\ a \in Nat /\ b \in Int  BY <1>5, <1>7
      <3> QED BY <2>2, <2>4, <3>1, GaplessHead
    <2>8. PICK z : z = Place(q, rkey[p])'  OBVIOUS
    <2>9. z = a + (IF Skips(p, r) THEN 0 ELSE 1)  BY <1>4, <1>6, <2>8
    <2>10. Gapless(h, n - 1, z, b)
      <3>1. CASE Skips(p, r)
        <4>1. z = a /\ f[1] = -1  BY <1>7, <2>5, <2>6, <2>9, <3>1
        <4> QED BY <2>7, <4>1
      <3>2. CASE ~Skips(p, r)
        <4>1. z = a + 1 /\ f[1] # -1  BY <1>7, <2>5, <2>6, <2>9, <3>2
        <4> QED BY <2>7, <4>1
      <3> QED BY <3>1, <3>2
    <2>11. /\ Places(q)' = h /\ Len(Stream(q))' = n - 1 /\ NextPlace(q)' = b
           /\ Place(q, rkey[Other(q)])' = z
      BY <1>2, <1>5, <1>8, <2>0, <2>8
    <2> QED BY <2>10, <2>11 DEF InSequence
  <1>11. ASSUME pc[q] \notin Gone PROVE InSequence(p)'
    <2>0. PICK f, h : f = Places(p) /\ h = Places(p)'  OBVIOUS
    <2>1. InSequence(p)  BY <1>1, <1>2, <1>11 DEF WholeAt
    <2>2. Gapless(f, m, c, d)  BY <1>2, <1>4, <1>6, <2>0, <2>1 DEF InSequence
    <2>3. f = [i \in 1 .. m |-> Place(p, Stream(p)[i])] /\ h = [i \in 1 .. m + k |-> Place(p, Stream(p)[i])']
      BY <1>4, <1>5, <2>0 DEF Places
    <2>4. \A i \in 1 .. m : h[i] = f[i]
      <3>1. TAKE i \in 1 .. m
      <3>2. i \in 1 .. m + k /\ Stream(p)'[i] = Stream(p)[i]  BY <1>5
      <3>3. Place(p, Stream(p)[i])' = Place(p, Stream(p)[i])  BY <1>3, <3>2
      <3> QED BY <2>3, <3>2, <3>3
    <2>5. PICK g : g = [i \in 1 .. k |-> Place(p, x[i])]  OBVIOUS
    <2>6. \A i \in 1 .. k : h[m + i] = g[i]
      <3>1. TAKE i \in 1 .. k
      <3>2. m + i \in 1 .. m + k /\ Stream(p)'[m + i] = x[i]  BY <1>5
      <3>3. Place(p, Stream(p)[m + i])' = Place(p, x[i])  BY <1>3, <3>2
      <3> QED BY <2>3, <2>5, <3>2, <3>3
    <2>7. \A i \in 1 .. k : g[i] = d + i - 1  BY <1>4, <1>6, <2>5 DEF TakesPlaces
    <2>a. k \in Nat /\ d \in Nat  BY <1>5, <1>7
    <2>8. Gapless(g, k, d, d + k)  BY <2>7, <2>a, GaplessRun
    <2>9. /\ m \in Nat /\ k \in Nat /\ c \in Int /\ d \in Int /\ d + k \in Int /\ 0 <= c  BY <1>5, <1>7
    <2>c. PICK z : z = d + k  OBVIOUS
    <2>d. /\ m \in Nat /\ k \in Nat /\ c \in Int /\ d \in Int /\ z \in Int /\ 0 <= c
          /\ Gapless(g, k, d, z)
      BY <2>8, <2>9, <2>c
    <2>e. Gapless(h, m + k, c, z)  BY <2>2, <2>4, <2>6, <2>d, GaplessJoin
    <2>10. Gapless(h, m + k, c, d + k)  BY <2>c, <2>e
    <2>11. /\ Places(p)' = h /\ Len(Stream(p))' = m + k /\ NextPlace(p)' = d + k
           /\ Place(p, rkey[Other(p)])' = c
      BY <1>2, <1>4, <1>5, <1>6, <1>9, <2>0 DEF TakesPlaces
    <2> QED BY <2>10, <2>11 DEF InSequence
  <1>12. WholeAt(q)'
    <2>1. encbuf'[q] = encbuf[q]  BY <1>1, <1>2 DEF Takes, CliTypes
    <2> QED BY <1>1, <1>2, <1>10, <2>1 DEF WholeAt
  <1>13. WholeAt(p)'
    <2>1. st'[p] = "shutdown" => encbuf'[p] = <<>>
      <3>1. SUFFICES ASSUME st'[p] = "shutdown" PROVE encbuf'[p] = <<>>  OBVIOUS
      <3>2. encbuf[p] = <<>> /\ x = <<>>  BY <1>1, <3>1 DEF WholeAt
      <3>3. encbuf'[p] = encbuf[p] \o x  BY <1>1 DEF Takes, CliTypes
      <3> QED BY <3>2, <3>3
    <2> QED BY <1>2, <1>11, <2>1 DEF WholeAt
  <1> QED BY <1>2, <1>12, <1>13 DEF Ends

\* A record that is skipped, and one that ends the loop.
Drops(p, q, r) ==
    /\ Takes(p, q, <<>>) /\ r = Head(net[q])
    /\ \/ Skips(p, r) /\ pc'[p] = "consume"
       \/ ~Skips(p, r) /\ pc'[p] = IF Expected(p, r) THEN "closed" ELSE "bad_record"
    /\ UNCHANGED <<st, tls, wkey, rkey, maxEarly, taken, ptbuf, out>>

LEMMA DropsInv ==
    ASSUME CliInv, NEW p \in Ends, NEW q \in Ends, NEW r, Drops(p, q, r)
    PROVE CliTypes' => CliInv'
  <1>1. /\ CliTypes /\ ClientAt /\ ServerAt /\ RecordsTell /\ OutAt /\ EarlyComesEarly
        /\ \A e \in Ends : InputAt(e)
    BY DEF CliInv
  <1>2. /\ Takes(p, q, <<>>) /\ UNCHANGED <<st, tls, wkey, rkey, maxEarly, taken, ptbuf, out>>
        /\ r = Head(net[q])
    BY DEF Drops
  <1>3. <<>> \in Seq(CliRecord) /\ Len(<<>>) = 0  OBVIOUS
  <1>x. PICK x : x = <<>>  OBVIOUS
  <1>y. x \in Seq(CliRecord) /\ Len(x) = 0 /\ Takes(p, q, x)  BY <1>2, <1>3, <1>x
  <1>z. \A i \in 1 .. Len(x) : FALSE  BY <1>y
  <1>4. /\ EarlyTaken' = EarlyTaken /\ Retries' = Retries /\ Released' = Released
        /\ EarlyRecords' = EarlyRecords /\ early' = early /\ scen' = scen
        /\ \A e, k : Place(e, k)' = Place(e, k)
    BY <1>y, TakesFixed
  <1>5. ClientAt'  BY <1>1, <1>2, <1>4 DEF ClientAt
  <1>6. ServerAt'  BY <1>1, <1>2, <1>4 DEF ServerAt
  <1>7. OutAt'  BY <1>1, <1>2, <1>4 DEF OutAt
  <1>8. RecordsTell' /\ EarlyComesEarly'
    <2>1. tls'["c"] \in {tls["c"], "done"} /\ (tls'["s"] = "done" => tls["s"] = "done")  BY <1>2
    <2> QED BY <1>y, <1>z, <2>1, TakesRecords
  <1>9. p # q /\ pc'[q] = pc[q] /\ (pc'[p] \in {"consume", "closed", "bad_record"})
        /\ (p \in {"c", "s"} /\ q \in {"c", "s"}) /\ Other(p) = q /\ Other(q) = p
        /\ UNCHANGED <<inputfd, read>> /\ pc[p] \in {"select", "consume"}
    BY <1>2 DEF Takes, Drops, Other, Ends
  <1>10. \A e \in Ends : InputAt(e)'
    <2>1. InputAt(q)'  BY <1>1, <1>2, <1>4, <1>9 DEF InputAt
    <2>2. InputAt(p)'  BY <1>1, <1>2, <1>4, <1>9 DEF InputAt
    <2> QED BY <1>9, <2>1, <2>2 DEF Ends
  <1>11. ASSUME scen.whole PROVE \A e \in Ends : WholeAt(e)'
    <2>1. NextPlace(p)' = NextPlace(p) /\ Place(q, rkey[p])' = Place(q, rkey[p]) /\ Place(p, rkey[q])' = Place(p, rkey[q])
      <3>1. NextPlace("c")' = NextPlace("c")
        <4>1. Place("c", wkey["c"])' = Place("c", wkey["c"])  BY <1>2, <1>4
        <4> QED BY <1>2, <1>4, <4>1 DEF NextPlace
      <3>2. NextPlace("s")' = NextPlace("s")
        <4>1. Place("s", wkey["s"])' = Place("s", wkey["s"])  BY <1>2, <1>4
        <4> QED BY <1>2, <1>4, <4>1 DEF NextPlace
      <3> QED BY <1>2, <1>4, <1>9, <3>1, <3>2
    <2>n. NextPlace(p) \in Nat /\ Place(q, rkey[p]) \in Nat
      <3>1. /\ NextPlace("c") \in Nat /\ NextPlace("s") \in Nat
            /\ Place("s", rkey["c"]) \in Nat /\ Place("c", rkey["s"]) \in Nat
        BY <1>1, PlaceTypes
      <3> QED BY <1>9, <3>1
    <2>2. CASE Skips(p, r) /\ pc'[p] = "consume"
      <3>1. NextPlace(p)' = NextPlace(p) + Len(x)  BY <1>y, <2>1, <2>n
      <3>2. TakesPlaces(p, x)  BY <1>z, <3>1 DEF TakesPlaces
      <3>3. Place(q, rkey[p])' = Place(q, rkey[p]) + (IF Skips(p, Head(net[q])) THEN 0 ELSE 1)
        BY <1>2, <2>1, <2>2, <2>n
      <3>4. st'[p] = "shutdown" => st[p] = "shutdown" /\ x = <<>>  BY <1>2, <1>x
      <3> QED BY <1>y, <1>11, <2>2, <3>2, <3>3, <3>4, TakesWhole
    <2>3. CASE ~Skips(p, r) /\ pc'[p] = IF Expected(p, r) THEN "closed" ELSE "bad_record"
      <3>1. pc'[p] = "closed"
        <4>1. Skips(p, r) \/ Expected(p, r)  BY <1>2, <1>y, <1>11, TakesExpected
        <4> QED BY <2>3, <4>1
      <3>2. \A e \in Ends : WholeAt(e)  BY <1>11 DEF CliInv
      <3>3. encbuf'[q] = encbuf[q] /\ encbuf'[p] = encbuf[p] /\ net'[p] = net[p]
        <4>1. encbuf[p] \in Seq(CliRecord)  BY <1>1 DEF CliTypes
        <4>2. encbuf'[q] = encbuf[q] /\ encbuf'[p] = encbuf[p] \o <<>> /\ net'[p] = net[p]
          BY <1>1, <1>2, <1>9 DEF Takes, CliTypes
        <4> QED BY <4>1, <4>2
      <3>4. Stream(p)' = Stream(p)  BY <3>3 DEF Stream
      <3>5. Places(p)' = Places(p)  BY <1>4, <3>4 DEF Places
      <3>6. InSequence(p)' <=> InSequence(p)
        <4>1. Place(p, rkey[Other(p)])' = Place(p, rkey[Other(p)])  BY <1>9, <2>1
        <4> QED BY <2>1, <3>4, <3>5, <4>1 DEF InSequence
      <3>7. WholeAt(q)'  BY <1>2, <1>9, <3>1, <3>2, <3>3 DEF WholeAt, Gone
      <3>8. WholeAt(p)'  BY <1>2, <1>9, <3>1, <3>2, <3>3, <3>6 DEF WholeAt
      <3> QED BY <1>9, <3>7, <3>8 DEF Ends
    <2> QED BY <2>2, <2>3 DEF Drops
  <1> QED BY <1>2, <1>4, <1>5, <1>6, <1>7, <1>8, <1>10, <1>11 DEF CliInv

\* A record of data is the next one.
TakesData(p, q, r) ==
    /\ Takes(p, q, <<>>) /\ r = Head(net[q]) /\ Expected(p, r) /\ r.what = "data" /\ ~Skips(p, r)
    /\ pc'[p] = "consume"
    /\ out' = [out EXCEPT ![p] = Append(@, r.data)]
    /\ rkey' = [rkey EXCEPT ![p] = Next1(@)]
    /\ UNCHANGED <<st, tls, wkey, maxEarly, taken, ptbuf>>

LEMMA TakesDataInv ==
    ASSUME CliInv, NEW p \in Ends, NEW q \in Ends, NEW r, TakesData(p, q, r)
    PROVE CliTypes' => CliInv'
  <1>1. /\ CliTypes /\ ClientAt /\ ServerAt /\ RecordsTell /\ OutAt /\ EarlyComesEarly
        /\ \A e \in Ends : InputAt(e)
    BY DEF CliInv
  <1>2. /\ Takes(p, q, <<>>) /\ UNCHANGED <<st, tls, wkey, maxEarly, taken, ptbuf>>
        /\ r = Head(net[q]) /\ r.what = "data" /\ pc'[p] = "consume" /\ ~Skips(p, r)
        /\ r.key = rkey[p].key /\ r.n = rkey[p].n
    BY DEF TakesData, Expected
  <1>x. PICK x : x = <<>>  OBVIOUS
  <1>y. x \in Seq(CliRecord) /\ Len(x) = 0 /\ Takes(p, q, x)  BY <1>2, <1>x
  <1>z. \A i \in 1 .. Len(x) : FALSE  BY <1>y
  <1>4. /\ EarlyTaken' = EarlyTaken /\ Retries' = Retries /\ Released' = Released
        /\ EarlyRecords' = EarlyRecords /\ early' = early /\ scen' = scen
        /\ \A e, k : Place(e, k)' = Place(e, k)
    BY <1>y, TakesFixed
  <1>5. /\ p = "s" => q = "c" /\ ClientRecord(r)
        /\ p = "c" => q = "s" /\ ServerRecord(r)
        /\ r.n \in Nat
    BY <1>2, <1>y, TakesTold
  <1>6. /\ rkey'[p].key = rkey[p].key /\ rkey'[p].n = rkey[p].n + 1 /\ rkey'[q] = rkey[q]
        /\ out'[p] = Append(out[p], r.data) /\ out'[q] = out[q] /\ rkey[p].n \in Nat /\ rkey[p].key \in KeyNames
    <2>1. rkey[p] \in CliKey /\ rkey'[p] = Next1(rkey[p]) /\ out'[p] = Append(out[p], r.data)
      BY <1>1 DEF CliTypes, TakesData
    <2>2. rkey'[q] = rkey[q] /\ out'[q] = out[q]  BY <1>2 DEF Takes
    <2>3. rkey[p].n \in Nat /\ rkey[p].key \in KeyNames  BY <2>1 DEF CliKey
    <2> QED BY <2>1, <2>2, <2>3, NextKey
  <1>7. /\ Len(out[p]) \in Nat /\ Len(out'[p]) = Len(out[p]) + 1
        /\ \A i \in 1 .. Len(out[p]) : out'[p][i] = out[p][i]
        /\ out'[p][Len(out[p]) + 1] = r.data
    <2>1. PICK o, v : o = out[p] /\ v = r.data  OBVIOUS
    <2>2. o \in Seq(Nat)  BY <1>1, <2>1 DEF CliTypes
    <2>3. /\ Len(o) \in Nat /\ Len(Append(o, v)) = Len(o) + 1
          /\ \A i \in 1 .. Len(o) : Append(o, v)[i] = o[i]
          /\ Append(o, v)[Len(o) + 1] = v
      BY <2>2
    <2> QED BY <1>6, <2>1, <2>3
  <1>8. \A i \in 1 .. Len(out[p]) + 1 : i \in 1 .. Len(out[p]) \/ i = Len(out[p]) + 1  BY <1>7
  <1>9. ASSUME p = "c"
        PROVE /\ ClientAt' /\ ServerAt' /\ OutAt' /\ NextPlace("c")' = NextPlace("c")
              /\ Place("s", rkey["c"])' = Place("s", rkey["c"]) + 1
    <2>1. q = "s" /\ r.key = "app" /\ r.data = r.n + 1  BY <1>2, <1>5, <1>9 DEF ServerRecord
    <2>2. rkey["c"].key = "app" /\ tls["c"] = "done"  BY <1>1, <1>2, <1>9, <2>1 DEF ClientAt
    <2>3. ClientAt'  BY <1>1, <1>2, <1>4, <1>6, <1>9, <2>2 DEF ClientAt
    <2>4. ServerAt'  BY <1>1, <1>2, <1>4, <1>6, <2>1 DEF ServerAt
    <2>5. Len(out["c"]) = rkey["c"].n  BY <1>1, <2>2 DEF OutAt
    <2>6. \A i \in 1 .. Len(out'["c"]) : out'["c"][i] = i
      <3>1. \A i \in 1 .. Len(out["c"]) : out["c"][i] = i  BY <1>1 DEF OutAt
      <3>2. r.data = Len(out["c"]) + 1  BY <1>2, <1>9, <2>1, <2>5
      <3> QED BY <1>7, <1>8, <1>9, <3>1, <3>2
    <2>7. Len(out'["c"]) = rkey'["c"].n /\ rkey'["c"].key = "app"  BY <1>6, <1>7, <1>9, <2>2, <2>5
    <2>8. OutAt'
      <3>1. out'["s"] = out["s"] /\ rkey'["s"] = rkey["s"]  BY <1>6, <2>1
      <3> QED BY <1>1, <1>4, <2>6, <2>7, <3>1 DEF OutAt
    <2>9. NextPlace("c")' = NextPlace("c")
      <3>1. Place("c", wkey["c"])' = Place("c", wkey["c"])  BY <1>2, <1>4
      <3> QED BY <1>2, <2>2, <3>1 DEF NextPlace
    <2>10. Place("s", rkey["c"])' = Place("s", rkey["c"]) + 1
      <3>1. Place("s", rkey["c"]) = Retries + 1 + rkey["c"].n  BY <2>2 DEF Place
      <3>2. Place("s", rkey["c"])' = Retries + 1 + (rkey["c"].n + 1)
        BY <1>4, <1>6, <1>9, <2>7 DEF Place
      <3>3. rkey["c"].n \in Nat /\ Retries \in Nat  BY <1>1, <1>6, <1>9, PlaceTypes
      <3> QED BY <3>1, <3>2, <3>3
    <2> QED BY <1>9, <2>1, <2>3, <2>4, <2>8, <2>9, <2>10
  <1>10. ASSUME p = "s"
         PROVE /\ ClientAt' /\ ServerAt' /\ OutAt' /\ NextPlace("s")' = NextPlace("s")
               /\ Place("c", rkey["s"])' = Place("c", rkey["s"]) + 1
    <2>0. q = "c" /\ ClientRecord(r)  BY <1>5, <1>10
    <2>1. \/ r.key = "early" /\ r.n < Len(early["c"]) /\ r.data = early["c"][r.n + 1]
          \/ r.key = "app" /\ tls["c"] = "done" /\ r.data = r.n + 1 + Released
      BY <1>2, <2>0 DEF ClientRecord
    <2>2. ClientAt'  BY <1>1, <1>2, <1>4, <1>6, <2>0 DEF ClientAt
    <2>3. rkey'["s"].key = rkey["s"].key /\ rkey["s"].key \in {"early", "app"}  BY <1>2, <1>6, <1>10, <2>1
    <2>4. ServerAt'  BY <1>1, <1>2, <1>4, <2>3 DEF ServerAt, Key
    <2>n. Len(early["c"]) \in Nat /\ Released \in Nat /\ rkey["s"].n \in Nat /\ Len(out["s"]) \in Nat
      BY <1>1, <1>6, <1>7, <1>10, PlaceTypes
    <2>5. rkey["s"].key = "early" => EarlyTaken /\ Released = Len(early["c"])
      BY <1>1 DEF ServerAt, Key, Released
    <2>6. /\ rkey["s"].key = "early" => /\ Len(out["s"]) = rkey["s"].n /\ rkey["s"].n + 1 <= Released
                                        /\ r.data = early["c"][Len(out["s"]) + 1]
          /\ rkey["s"].key = "app" => /\ Len(out["s"]) = Released + rkey["s"].n
                                      /\ r.data = Len(out["s"]) + 1 /\ ~(Len(out["s"]) + 1 <= Released)
      <3>1. rkey["s"].key = "early" => Len(out["s"]) = rkey["s"].n  BY <1>1 DEF OutAt
      <3>2. rkey["s"].key = "app" => Len(out["s"]) = Released + rkey["s"].n  BY <1>1 DEF OutAt
      <3>3. r.n = rkey["s"].n /\ r.key = rkey["s"].key  BY <1>2, <1>10
      <3>4. rkey["s"].n < Len(early["c"]) /\ Released = Len(early["c"]) => rkey["s"].n + 1 <= Released
        BY <2>n
      <3>5. Len(out["s"]) = Released + rkey["s"].n
              => rkey["s"].n + 1 + Released = Len(out["s"]) + 1 /\ ~(Len(out["s"]) + 1 <= Released)
        BY <2>n
      <3> QED BY <2>1, <2>5, <3>1, <3>2, <3>3, <3>4, <3>5
    <2>7. \A i \in 1 .. Len(out'["s"]) : out'["s"][i] = IF i <= Released THEN early["c"][i] ELSE i
      <3>1. \A i \in 1 .. Len(out["s"]) : out["s"][i] = IF i <= Released THEN early["c"][i] ELSE i
        BY <1>1 DEF OutAt
      <3>2. r.data = IF Len(out["s"]) + 1 <= Released THEN early["c"][Len(out["s"]) + 1] ELSE Len(out["s"]) + 1
        BY <2>3, <2>6
      <3> QED BY <1>7, <1>8, <1>10, <3>1, <3>2
    <2>8. /\ Len(out'["s"]) = Len(out["s"]) + 1 /\ rkey'["s"].n = rkey["s"].n + 1
          /\ out'["c"] = out["c"] /\ rkey'["c"] = rkey["c"]
      BY <1>6, <1>7, <1>10, <2>0
    <2>9. /\ rkey["s"].key = "early" => Len(out'["s"]) = rkey'["s"].n /\ rkey'["s"].n <= Released
          /\ rkey["s"].key = "app" => Len(out'["s"]) = Released + rkey'["s"].n
      BY <2>n, <2>6, <2>8
    <2>10. OutAt'  BY <1>1, <1>4, <2>3, <2>7, <2>8, <2>9 DEF OutAt
    <2>11. NextPlace("s")' = NextPlace("s")
      <3>1. Place("s", wkey["s"])' = Place("s", wkey["s"])  BY <1>2, <1>4
      <3> QED BY <1>2, <3>1 DEF NextPlace
    <2>12. Place("c", rkey["s"])' = Place("c", rkey["s"]) + 1
      <3>1. rkey["s"].n \in Nat /\ Retries \in Nat /\ EarlyRecords \in Nat  BY <1>1, <2>n, PlaceTypes
      <3>2. CASE rkey["s"].key = "early"
        <4>1. Place("c", rkey["s"]) = 1 + rkey["s"].n  BY <2>5, <3>2 DEF Place
        <4>2. Place("c", rkey["s"])' = 1 + (rkey["s"].n + 1)  BY <1>4, <2>3, <2>5, <2>8, <3>2 DEF Place
        <4> QED BY <3>1, <4>1, <4>2
      <3>3. CASE rkey["s"].key = "app"
        <4>1. Place("c", rkey["s"]) = Retries + 2 + EarlyRecords + rkey["s"].n  BY <3>3 DEF Place
        <4>2. Place("c", rkey["s"])' = Retries + 2 + EarlyRecords + (rkey["s"].n + 1)
          BY <1>4, <2>3, <2>8, <3>3 DEF Place
        <4> QED BY <3>1, <4>1, <4>2
      <3> QED BY <2>3, <3>2, <3>3
    <2> QED BY <1>10, <2>0, <2>2, <2>4, <2>10, <2>11, <2>12
  <1>11. /\ ClientAt' /\ ServerAt' /\ OutAt' /\ NextPlace(p)' = NextPlace(p)
         /\ Place(q, rkey[p])' = Place(q, rkey[p]) + 1
    <2>1. CASE p = "c"
      <3>1. q = "s"  BY <1>5, <2>1
      <3> QED BY <1>9, <2>1, <3>1
    <2>2. CASE p = "s"
      <3>1. q = "c"  BY <1>5, <2>2
      <3> QED BY <1>10, <2>2, <3>1
    <2> QED BY <2>1, <2>2 DEF Ends
  <1>12. RecordsTell' /\ EarlyComesEarly'
    <2>1. tls'["c"] \in {tls["c"], "done"} /\ (tls'["s"] = "done" => tls["s"] = "done")  BY <1>2
    <2> QED BY <1>y, <1>z, <2>1, TakesRecords
  <1>13. p # q /\ pc'[q] = pc[q] /\ UNCHANGED <<inputfd, read>> /\ \A e \in Ends : e \in {p, q}
    BY <1>2 DEF Takes, Other, Ends
  <1>14. \A e \in Ends : InputAt(e)'
    <2>1. InputAt(q)'  BY <1>1, <1>2, <1>4, <1>13 DEF InputAt
    <2>2. InputAt(p)'  BY <1>1, <1>2, <1>4, <1>13 DEF InputAt
    <2> QED BY <1>13, <2>1, <2>2
  <1>15. ASSUME scen.whole PROVE \A e \in Ends : WholeAt(e)'
    <2>1. NextPlace(p) \in Nat
      <3>1. p \in {"c", "s"}  BY DEF Ends
      <3> QED BY <1>1, <3>1, PlaceTypes
    <2>2. NextPlace(p)' = NextPlace(p) + Len(x)  BY <1>y, <1>11, <2>1
    <2>3. TakesPlaces(p, x)  BY <1>z, <2>2 DEF TakesPlaces
    <2>4. Place(q, rkey[p])' = Place(q, rkey[p]) + (IF Skips(p, Head(net[q])) THEN 0 ELSE 1)
      BY <1>2, <1>11
    <2>5. st'[p] = "shutdown" => st[p] = "shutdown" /\ x = <<>>  BY <1>2, <1>x
    <2> QED BY <1>2, <1>y, <1>15, <2>3, <2>4, <2>5, TakesWhole
  <1> QED BY <1>2, <1>4, <1>11, <1>12, <1>14, <1>15 DEF CliInv

\* What is left to show when the state of the end that takes a record is known.
LEMMA TakesRest ==
    ASSUME CliInv, NEW p \in Ends, NEW q \in Ends, NEW x \in Seq(CliRecord), Takes(p, q, x),
           RecordsTell', EarlyComesEarly', ClientAt', ServerAt', OutAt', InputAt(p)', pc'[p] = "consume",
           st'[p] = "shutdown" => st[p] = "shutdown" /\ x = <<>>,
           Place(q, rkey[p])' = Place(q, rkey[p]) + (IF Skips(p, Head(net[q])) THEN 0 ELSE 1),
           TakesPlaces(p, x)
    PROVE CliTypes' => CliInv'
  <1>1. \A e \in Ends : InputAt(e)  BY DEF CliInv
  <1>2. /\ p # q /\ (\A e \in Ends : e \in {p, q})
        /\ UNCHANGED <<scen, early, inputfd, read>> /\ pc'[q] = pc[q] /\ st'[q] = st[q]
        /\ wkey'[q] = wkey[q] /\ ptbuf'[q] = ptbuf[q]
    BY DEF Takes, Other, Ends
  <1>3. Released' = Released  BY TakesFixed
  <1>4. InputAt(q)'  BY <1>1, <1>2, <1>3 DEF InputAt
  <1>5. \A e \in Ends : InputAt(e)'  BY <1>2, <1>4
  <1>6. ASSUME scen.whole PROVE \A e \in Ends : WholeAt(e)'  BY <1>6, TakesWhole
  <1>7. scen'.whole = scen.whole  BY <1>2
  <1> QED BY <1>5, <1>6, <1>7 DEF CliInv

\* EndOfEarlyData and Finished.
TakesFinish(r) ==
    /\ Takes("s", "c", <<>>) /\ r = Head(net["c"]) /\ Expected("s", r) /\ ~Skips("s", r)
    /\ r.what \in {"end_of_early", "finished"} /\ pc'["s"] = "consume"
    /\ rkey'["s"] = Key(IF r.what = "end_of_early" THEN "hs" ELSE "app")
    /\ tls'["s"] = IF r.what = "end_of_early" THEN "finished" ELSE "done"
    /\ UNCHANGED <<st, wkey, maxEarly, taken, ptbuf, out>>

LEMMA TakesFinishInv ==
    ASSUME CliInv, NEW r, TakesFinish(r)
    PROVE CliTypes' => CliInv'
  <1>e. "c" \in Ends /\ "s" \in Ends  BY DEF Ends
  <1>1. /\ CliTypes /\ ClientAt /\ ServerAt /\ RecordsTell /\ OutAt /\ EarlyComesEarly /\ InputAt("s")
    BY <1>e DEF CliInv
  <1>2. /\ Takes("s", "c", <<>>) /\ UNCHANGED <<st, wkey, maxEarly, taken, ptbuf, out>>
        /\ r = Head(net["c"]) /\ pc'["s"] = "consume" /\ ~Skips("s", r)
        /\ r.what \in {"end_of_early", "finished"}
        /\ r.key = rkey["s"].key /\ r.n = rkey["s"].n
        /\ tls'["c"] = tls["c"] /\ rkey'["c"] = rkey["c"] /\ UNCHANGED <<inputfd, read>>
    BY DEF TakesFinish, Expected, Takes
  <1>x. PICK x : x = <<>>  OBVIOUS
  <1>y. x \in Seq(CliRecord) /\ Len(x) = 0 /\ Takes("s", "c", x)  BY <1>2, <1>x
  <1>z. \A i \in 1 .. Len(x) : FALSE  BY <1>y
  <1>4. /\ EarlyTaken' = EarlyTaken /\ Retries' = Retries /\ Released' = Released
        /\ EarlyRecords' = EarlyRecords /\ early' = early /\ scen' = scen
        /\ \A e, k : Place(e, k)' = Place(e, k)
    BY <1>y, TakesFixed
  <1>5. ClientRecord(r) /\ r.n \in Nat  BY <1>e, <1>2, <1>y, TakesTold
  <1>6. /\ r.what = "end_of_early" => /\ r.key = "early" /\ r.n = Len(early["c"]) /\ EarlyTaken
                                      /\ rkey'["s"].key = "hs" /\ rkey'["s"] = Key("hs") /\ tls'["s"] = "finished"
        /\ r.what = "finished" => /\ r.key = "hs" /\ r.n = 0
                                  /\ rkey'["s"].key = "app" /\ rkey'["s"].n = 0 /\ tls'["s"] = "done"
        /\ tls["c"] = "done"
    BY <1>2, <1>5 DEF ClientRecord, TakesFinish, Key
  <1>7. tls["s"] \in {"end_of_early", "finished"} /\ (r.what = "finished" => tls["s"] = "finished")
    BY <1>1, <1>2, <1>6 DEF ServerAt, Key
  <1>8. ClientAt'  BY <1>1, <1>2, <1>4 DEF ClientAt
  <1>9. ServerAt'  BY <1>1, <1>2, <1>4, <1>6, <1>7 DEF ServerAt
  <1>n. Len(out["s"]) \in Nat /\ Released \in Nat /\ Retries \in Nat /\ EarlyRecords \in Nat
        /\ Len(early["c"]) \in Nat /\ NextPlace("s") \in Nat
    <2>1. Len(out["s"]) \in Nat  BY <1>1, <1>e DEF CliTypes
    <2> QED BY <1>1, <2>1, PlaceTypes
  <1>10. OutAt'
    <2>1. Len(out["s"]) = Released
      <3>1. CASE r.what = "end_of_early"
        <4>1. Len(out["s"]) = rkey["s"].n /\ Released = Len(early["c"])
          BY <1>1, <1>2, <1>6, <3>1 DEF OutAt, Released
        <4> QED BY <1>2, <1>6, <3>1, <4>1
      <3>2. CASE r.what = "finished"  BY <1>1, <1>2, <1>6, <3>2 DEF OutAt
      <3> QED BY <1>2, <3>1, <3>2
    <2>2. Released + 0 = Released  BY <1>n
    <2>3. /\ rkey'["s"].key \in {"hs", "app"}
          /\ rkey'["s"].key = "app" => Len(out["s"]) = Released + rkey'["s"].n
      BY <1>2, <1>6, <2>1, <2>2
    <2> QED BY <1>1, <1>2, <1>4, <2>1, <2>3 DEF OutAt
  <1>11. RecordsTell' /\ EarlyComesEarly'
    <2>1. tls'["s"] = "done" => Head(net["c"]).what = "finished"  BY <1>2, <1>6
    <2>2. tls'["c"] \in {tls["c"], "done"}  BY <1>2
    <2> QED BY <1>e, <1>y, <1>z, <2>1, <2>2, TakesRecords
  <1>12. InputAt("s")'  BY <1>1, <1>2, <1>4 DEF InputAt
  <1>13. TakesPlaces("s", x)
    <2>1. Place("s", wkey["s"])' = Place("s", wkey["s"])  BY <1>2, <1>4
    <2>2. NextPlace("s")' = NextPlace("s")  BY <1>2, <1>6, <1>7, <2>1 DEF NextPlace
    <2>3. NextPlace("s")' = NextPlace("s") + Len(x)  BY <1>n, <1>y, <2>2
    <2> QED BY <1>z, <2>3 DEF TakesPlaces
  <1>14. Place("c", rkey["s"])' = Place("c", rkey["s"]) + 1
    <2>1. CASE r.what = "end_of_early"
      <3>1. EarlyRecords = Len(early["c"]) + 1 /\ Retries = 0  BY <1>6, <2>1 DEF EarlyRecords, Retries, EarlyTaken
      <3>2. Place("c", rkey["s"]) = 1 + Len(early["c"])  BY <1>2, <1>6, <2>1 DEF Place
      <3>3. Place("c", rkey["s"])' = Retries + 1 + EarlyRecords  BY <1>4, <1>6, <2>1 DEF Place
      <3> QED BY <1>n, <3>1, <3>2, <3>3
    <2>2. CASE r.what = "finished"
      <3>1. Place("c", rkey["s"]) = Retries + 1 + EarlyRecords  BY <1>2, <1>6, <2>2 DEF Place
      <3>2. Place("c", rkey["s"])' = Retries + 2 + EarlyRecords + 0  BY <1>4, <1>6, <2>2 DEF Place
      <3> QED BY <1>n, <3>1, <3>2
    <2> QED BY <1>2, <2>1, <2>2
  <1>15. Place("c", rkey["s"])' = Place("c", rkey["s"]) + (IF Skips("s", Head(net["c"])) THEN 0 ELSE 1)
    BY <1>2, <1>14
  <1>16. st'["s"] = "shutdown" => st["s"] = "shutdown" /\ x = <<>>  BY <1>2, <1>x
  <1> QED BY <1>e, <1>2, <1>y, <1>8, <1>9, <1>10, <1>11, <1>12, <1>13, <1>15, <1>16, TakesRest

\* The server asks for another ClientHello, or answers with its flight.
AsksAgain(y) ==
    /\ scen.retry /\ tls["s"] = "client_hello" /\ y = Rec(Key("plain"), 0, "retry", 0)
    /\ tls'["s"] = "second_hello" /\ rkey'["s"] = Next1(rkey["s"])
    /\ st'["s"] = st["s"] /\ wkey'["s"] = wkey["s"]

Answers(y) ==
    LET takes == scen.accept /\ scen.maxEarly > 0 /\ tls["s"] = "client_hello"
    IN /\ ~(scen.retry /\ tls["s"] = "client_hello")
       /\ y = Rec(Key("plain"), IF scen.retry THEN 1 ELSE 0, IF takes THEN "flight_early" ELSE "flight", 0)
       /\ tls'["s"] = (IF takes THEN "end_of_early" ELSE "finished")
       /\ rkey'["s"] = (IF takes THEN Key("early") ELSE Key("hs"))
       /\ wkey'["s"] = Key("app") /\ st'["s"] = "1rtt"

TakesHello(r, y) ==
    /\ Takes("s", "c", <<y>>) /\ r = Head(net["c"]) /\ Expected("s", r) /\ ~Skips("s", r)
    /\ r.what = "hello" /\ pc'["s"] = "consume"
    /\ AsksAgain(y) \/ Answers(y)
    /\ UNCHANGED <<maxEarly, taken, ptbuf, out>>

LEMMA TakesHelloInv ==
    ASSUME CliInv, NEW r, NEW y, TakesHello(r, y)
    PROVE CliTypes' => CliInv'
  <1>e. "c" \in Ends /\ "s" \in Ends  BY DEF Ends
  <1>1. /\ CliTypes /\ ClientAt /\ ServerAt /\ RecordsTell /\ OutAt /\ EarlyComesEarly /\ InputAt("s")
    BY <1>e DEF CliInv
  <1>2. /\ Takes("s", "c", <<y>>) /\ UNCHANGED <<maxEarly, taken, ptbuf, out>>
        /\ r = Head(net["c"]) /\ pc'["s"] = "consume" /\ ~Skips("s", r)
        /\ r.what = "hello" /\ r.key = rkey["s"].key /\ r.n = rkey["s"].n
        /\ tls'["c"] = tls["c"] /\ rkey'["c"] = rkey["c"] /\ st'["c"] = st["c"] /\ wkey'["c"] = wkey["c"]
        /\ UNCHANGED <<inputfd, read>>
    BY DEF TakesHello, Expected, Takes
  <1>3. y \in CliRecord /\ y.key = "plain" /\ y.n \in Nat
    <2>1. CASE AsksAgain(y)  BY <2>1 DEF AsksAgain, Rec, Key, CliRecord, KeyNames, Kinds
    <2>2. CASE Answers(y)  BY <2>2 DEF Answers, Rec, Key, CliRecord, KeyNames, Kinds
    <2> QED BY <2>1, <2>2 DEF TakesHello
  <1>x. PICK x : x = <<y>>  OBVIOUS
  <1>y. x \in Seq(CliRecord) /\ Len(x) = 1 /\ Takes("s", "c", x) /\ x[1] = y  BY <1>2, <1>3, <1>x
  <1>z. \A i \in 1 .. Len(x) : i = 1 /\ x[i] = y  BY <1>y
  <1>4. /\ EarlyTaken' = EarlyTaken /\ Retries' = Retries /\ Released' = Released
        /\ EarlyRecords' = EarlyRecords /\ early' = early /\ scen' = scen
        /\ \A e, k : Place(e, k)' = Place(e, k)
    BY <1>e, <1>y, TakesFixed
  <1>5. ClientRecord(r) /\ r.n \in Nat  BY <1>e, <1>2, <1>y, TakesTold
  <1>6. r.key = "plain" /\ rkey["s"].key = "plain"  BY <1>2, <1>5 DEF ClientRecord
  <1>7. \/ tls["s"] = "client_hello" /\ rkey["s"].n = 0
        \/ tls["s"] = "second_hello" /\ scen.retry /\ rkey["s"].n = 1
    BY <1>1, <1>6 DEF ServerAt, Key
  <1>8. st["s"] = "handshake" /\ wkey["s"] = Key("none") /\ early["s"] = <<>>  BY <1>1, <1>7 DEF ServerAt
  <1>n. /\ rkey["s"].n \in Nat /\ Retries \in Nat /\ EarlyRecords \in Nat /\ Released \in Nat
        /\ Len(out["s"]) \in Nat
    <2>1. Len(out["s"]) \in Nat /\ rkey["s"].n \in Nat  BY <1>1, <1>e, SMTT(30) DEF CliTypes, CliKey
    <2> QED BY <1>1, <2>1, PlaceTypes
  <1>o. Len(out["s"]) = 0  BY <1>1, <1>6 DEF OutAt
  <1>9. ClientAt'  BY <1>1, <1>2, <1>4 DEF ClientAt
  <1>p. Place("c", rkey["s"]) = rkey["s"].n  BY <1>6 DEF Place
  <1>10. ASSUME AsksAgain(y)
         PROVE /\ ServerAt' /\ OutAt' /\ InputAt("s")' /\ ServerRecord(y) /\ tls'["s"] # "done"
               /\ Place("c", rkey["s"])' = rkey["s"].n + 1
               /\ Place("s", y) = NextPlace("s") /\ NextPlace("s")' = NextPlace("s") + 1
               /\ st'["s"] # "shutdown"
    <2>1. /\ scen.retry /\ tls["s"] = "client_hello" /\ y = Rec(Key("plain"), 0, "retry", 0)
          /\ tls'["s"] = "second_hello" /\ rkey'["s"] = Next1(rkey["s"])
          /\ st'["s"] = st["s"] /\ wkey'["s"] = wkey["s"] /\ rkey["s"].n = 0
      BY <1>7, <1>10 DEF AsksAgain
    <2>2. rkey'["s"].key = "plain" /\ rkey'["s"].n = 1
      <3>1. rkey["s"] \in CliKey  BY <1>1, <1>e DEF CliTypes
      <3> QED BY <1>6, <2>1, <3>1, NextKey
    <2>3. ServerAt'  BY <1>4, <1>8, <2>1, <2>2 DEF ServerAt
    <2>4. OutAt'  BY <1>1, <1>2, <1>4, <1>o, <2>2 DEF OutAt
    <2>5. InputAt("s")'  BY <1>1, <1>2, <1>4, <2>1 DEF InputAt
    <2>6. y.what = "retry" /\ y.key = "plain" /\ y.n = 0  BY <2>1 DEF Rec, Key
    <2>7. ServerRecord(y)  BY <2>1, <2>6 DEF ServerRecord
    <2>8. Place("c", rkey["s"])' = 1  BY <2>2 DEF Place
    <2>9. Place("s", y) = 0  BY <2>6 DEF Place
    <2>10. NextPlace("s") = 0 /\ NextPlace("s")' = 1  BY <2>1 DEF NextPlace
    <2> QED BY <1>8, <2>1, <2>3, <2>4, <2>5, <2>7, <2>8, <2>9, <2>10
  <1>11. ASSUME Answers(y)
         PROVE /\ ServerAt' /\ OutAt' /\ InputAt("s")' /\ ServerRecord(y) /\ tls'["s"] # "done"
               /\ Place("c", rkey["s"])' = rkey["s"].n + 1
               /\ Place("s", y) = NextPlace("s") /\ NextPlace("s")' = NextPlace("s") + 1
               /\ st'["s"] # "shutdown"
    <2>1. rkey["s"].n = Retries /\ NextPlace("s") = Retries
          /\ ((scen.accept /\ scen.maxEarly > 0 /\ tls["s"] = "client_hello") <=> EarlyTaken)
      BY <1>7, <1>11 DEF Answers, Retries, EarlyTaken, NextPlace
    <2>2. /\ y = Rec(Key("plain"), Retries, IF EarlyTaken THEN "flight_early" ELSE "flight", 0)
          /\ tls'["s"] = (IF EarlyTaken THEN "end_of_early" ELSE "finished")
          /\ rkey'["s"] = (IF EarlyTaken THEN Key("early") ELSE Key("hs"))
          /\ wkey'["s"] = Key("app") /\ st'["s"] = "1rtt"
      BY <1>11, <2>1 DEF Answers, Retries
    <2>3. y.key = "plain" /\ y.n = Retries /\ y.what = (IF EarlyTaken THEN "flight_early" ELSE "flight")
      <3>1. 0 + Retries = Retries  BY <1>n
      <3> QED BY <2>2, <3>1 DEF Rec, Key
    <2>4. wkey'["s"].key = "app" /\ wkey'["s"].n = 0
          /\ (EarlyTaken => rkey'["s"].key = "early" /\ rkey'["s"].n = 0)
          /\ (~EarlyTaken => rkey'["s"].key = "hs")
      BY <2>2 DEF Key
    <2>5. ServerAt'  BY <1>4, <1>8, <2>2, <2>4 DEF ServerAt
    <2>6. OutAt'
      <3>1. \A i \in 1 .. Len(out["s"]) : FALSE  BY <1>o
      <3>2. ~EarlyTaken => Released = 0  BY DEF Released
      <3>3. 0 <= Released  BY <1>n
      <3> QED BY <1>1, <1>2, <1>4, <1>o, <2>4, <3>1, <3>2, <3>3 DEF OutAt
    <2>7. InputAt("s")'
      <3>1. Len(ptbuf["s"]) = read["s"]  BY <1>1, <1>8 DEF InputAt
      <3>2. read["s"] \in Nat  BY <1>1, <1>e DEF CliTypes
      <3>3. 0 + 0 = read["s"] - Len(ptbuf["s"])  BY <3>1, <3>2
      <3> QED BY <1>1, <1>2, <2>2, <2>4, <3>3 DEF InputAt
    <2>8. ServerRecord(y)  BY <2>3 DEF ServerRecord
    <2>9. Place("c", rkey["s"])' = Retries + 1
      <3>1. CASE EarlyTaken
        <4>1. Retries = 0  BY <3>1 DEF Retries, EarlyTaken
        <4>2. Place("c", rkey["s"])' = 1 + 0  BY <1>4, <2>4, <3>1 DEF Place
        <4> QED BY <4>1, <4>2
      <3>2. CASE ~EarlyTaken
        <4>1. EarlyRecords = 0  BY <3>2 DEF EarlyRecords
        <4>2. Place("c", rkey["s"])' = Retries + 1 + EarlyRecords  BY <1>4, <2>4, <3>2 DEF Place
        <4> QED BY <1>n, <4>1, <4>2
      <3> QED BY <3>1, <3>2
    <2>10. Place("s", y) = Retries  BY <2>3 DEF Place
    <2>11. NextPlace("s")' = Retries + 1
      <3>1. NextPlace("s")' = Place("s", wkey["s"])'  BY <2>2 DEF NextPlace
      <3>2. Place("s", wkey["s"])' = Retries + 1 + 0  BY <1>4, <2>4 DEF Place
      <3> QED BY <1>n, <3>1, <3>2
    <2> QED BY <2>1, <2>2, <2>5, <2>6, <2>7, <2>8, <2>9, <2>10, <2>11
  <1>12. /\ ServerAt' /\ OutAt' /\ InputAt("s")' /\ ServerRecord(y) /\ tls'["s"] # "done"
         /\ Place("c", rkey["s"])' = rkey["s"].n + 1
         /\ Place("s", y) = NextPlace("s") /\ NextPlace("s")' = NextPlace("s") + 1
         /\ st'["s"] # "shutdown"
    BY <1>10, <1>11 DEF TakesHello
  <1>13. RecordsTell' /\ EarlyComesEarly'
    <2>1. \A i \in 1 .. Len(x) : ServerRecord(x[i])  BY <1>z, <1>12
    <2>2. tls'["c"] \in {tls["c"], "done"}  BY <1>2
    <2> QED BY <1>e, <1>y, <1>12, <2>1, <2>2, TakesRecords
  <1>14. TakesPlaces("s", x)
    <2>1. NextPlace("s") \in Nat  BY <1>1, PlaceTypes
    <2>2. \A i \in 1 .. Len(x) : Place("s", x[i]) = NextPlace("s") + i - 1
      <3>1. NextPlace("s") + 1 - 1 = NextPlace("s")  BY <2>1
      <3> QED BY <1>z, <1>12, <3>1
    <2> QED BY <1>y, <1>12, <2>2 DEF TakesPlaces
  <1>15. Place("c", rkey["s"])' = Place("c", rkey["s"]) + (IF Skips("s", Head(net["c"])) THEN 0 ELSE 1)
    BY <1>2, <1>12, <1>p
  <1> QED BY <1>e, <1>2, <1>y, <1>9, <1>12, <1>13, <1>14, <1>15, TakesRest

\* HelloRetryRequest at the client.
TakesRetry(r, y) ==
    /\ Takes("c", "s", <<y>>) /\ r = Head(net["s"]) /\ Expected("c", r) /\ ~Skips("c", r)
    /\ r.what = "retry" /\ pc'["c"] = "consume" /\ y = Rec(Key("plain"), 1, "hello", 0)
    /\ wkey'["c"] = Key("none") /\ maxEarly' = 0 /\ taken' = "rejected" /\ rkey'["c"] = Next1(rkey["c"])
    /\ UNCHANGED <<st, tls, ptbuf, out>>

LEMMA TakesRetryInv ==
    ASSUME CliInv, NEW r, NEW y, TakesRetry(r, y)
    PROVE CliTypes' => CliInv'
  <1>e. "c" \in Ends /\ "s" \in Ends  BY DEF Ends
  <1>1. /\ CliTypes /\ ClientAt /\ ServerAt /\ RecordsTell /\ OutAt /\ EarlyComesEarly /\ InputAt("c")
    BY <1>e DEF CliInv
  <1>2. /\ Takes("c", "s", <<y>>) /\ UNCHANGED <<st, tls, ptbuf, out>>
        /\ r = Head(net["s"]) /\ pc'["c"] = "consume" /\ ~Skips("c", r)
        /\ r.what = "retry" /\ r.key = rkey["c"].key /\ r.n = rkey["c"].n
        /\ rkey'["s"] = rkey["s"] /\ wkey'["s"] = wkey["s"] /\ UNCHANGED <<inputfd, read>>
        /\ wkey'["c"] = Key("none") /\ maxEarly' = 0 /\ taken' = "rejected" /\ rkey'["c"] = Next1(rkey["c"])
    BY DEF TakesRetry, Expected, Takes
  <1>3. y \in CliRecord /\ y.key = "plain" /\ y.n = 1 /\ y.what = "hello"
    BY DEF TakesRetry, Rec, Key, CliRecord, KeyNames, Kinds
  <1>x. PICK x : x = <<y>>  OBVIOUS
  <1>y. x \in Seq(CliRecord) /\ Len(x) = 1 /\ Takes("c", "s", x) /\ x[1] = y  BY <1>2, <1>3, <1>x
  <1>z. \A i \in 1 .. Len(x) : i = 1 /\ x[i] = y  BY <1>y
  <1>4. /\ EarlyTaken' = EarlyTaken /\ Retries' = Retries /\ Released' = Released
        /\ EarlyRecords' = EarlyRecords /\ early' = early /\ scen' = scen
        /\ \A e, k : Place(e, k)' = Place(e, k)
    BY <1>e, <1>y, TakesFixed
  <1>5. ServerRecord(r) /\ r.n \in Nat  BY <1>e, <1>2, <1>y, TakesTold
  <1>6. rkey["c"].key = "plain" /\ rkey["c"].n = 0 /\ scen.retry  BY <1>2, <1>5 DEF ServerRecord
  <1>7. tls["c"] = "server_hello" /\ st["c"] = "handshake"  BY <1>1, <1>6 DEF ClientAt
  <1>8. Retries = 1 /\ ~EarlyTaken /\ Released = 0  BY <1>6 DEF Retries, EarlyTaken, Released
  <1>9. rkey'["c"].key = "plain" /\ rkey'["c"].n = 1
    <2>1. rkey["c"] \in CliKey  BY <1>1, <1>e DEF CliTypes
    <2> QED BY <1>2, <1>6, <2>1, NextKey
  <1>10. ClientAt'  BY <1>2, <1>4, <1>7, <1>8, <1>9 DEF ClientAt
  <1>11. ServerAt'  BY <1>1, <1>2, <1>4 DEF ServerAt
  <1>12. OutAt'
    <2>1. Len(out["c"]) = 0  BY <1>1, <1>6 DEF OutAt
    <2> QED BY <1>1, <1>2, <1>4, <1>9, <2>1 DEF OutAt
  <1>13. InputAt("c")'  BY <1>1, <1>2, <1>4, <1>7 DEF InputAt
  <1>14. RecordsTell' /\ EarlyComesEarly'
    <2>1. ClientRecord(y)'  BY <1>3, <1>4, <1>8 DEF ClientRecord
    <2>2. \A i \in 1 .. Len(x) : ClientRecord(x[i])'
      <3>1. TAKE i \in 1 .. Len(x)
      <3>2. x[i] = y  BY <1>z
      <3> QED BY <2>1, <3>2
    <2>3. \A i \in 1 .. Len(x) : x[i].key # "early"  BY <1>3, <1>z
    <2>4. tls'["c"] \in {tls["c"], "done"} /\ (tls'["s"] = "done" => tls["s"] = "done")  BY <1>2
    <2> QED BY <1>e, <1>y, <2>2, <2>3, <2>4, TakesRecords
  <1>15. TakesPlaces("c", x)
    <2>1. NextPlace("c") = 1 /\ NextPlace("c")' = 2
      BY <1>2, <1>4, <1>6, <1>7, <1>8, <1>9 DEF NextPlace
    <2>2. Place("c", y) = 1  BY <1>3 DEF Place
    <2> QED BY <1>y, <1>z, <2>1, <2>2 DEF TakesPlaces
  <1>16. Place("s", rkey["c"])' = Place("s", rkey["c"]) + (IF Skips("c", Head(net["s"])) THEN 0 ELSE 1)
    <2>1. Place("s", rkey["c"]) = 0 /\ Place("s", rkey["c"])' = 1  BY <1>6, <1>9 DEF Place
    <2> QED BY <1>2, <2>1
  <1>17. st'["c"] # "shutdown"  BY <1>2, <1>7
  <1> QED BY <1>e, <1>2, <1>y, <1>10, <1>11, <1>12, <1>13, <1>14, <1>15, <1>16, <1>17, TakesRest

\* The server's flight at the client.
TakesFlight(r, x) ==
    LET took == r.what = "flight_early"
        how == IF taken = "unknown" THEN IF took THEN "accepted" ELSE "rejected" ELSE taken
    IN /\ Takes("c", "s", x) /\ r = Head(net["s"]) /\ Expected("c", r) /\ ~Skips("c", r)
       /\ r.what \in {"flight", "flight_early"} /\ pc'["c"] = "consume"
       /\ taken' = how
       /\ x = (IF took THEN <<Rec(wkey["c"], 0, "end_of_early", 0)>> ELSE <<>>)
                 \o <<Rec(Key("hs"), 0, "finished", 0)>>
       /\ wkey'["c"] = Key("app") /\ rkey'["c"] = Key("app")
       /\ tls'["c"] = "done" /\ st'["c"] = "1rtt"
       /\ ptbuf'["c"] = (IF how = "accepted" THEN ShiftBuffer(ptbuf["c"], Len(early["c"])) ELSE ptbuf["c"])
       /\ UNCHANGED <<maxEarly, out>>

\* The rest of a buffer.
LEMMA ShiftedIs ==
    ASSUME NEW b \in Seq(Nat), NEW k \in 0 .. Len(b)
    PROVE /\ Len(b) \in Nat /\ Len(ShiftBuffer(b, k)) = Len(b) - k
          /\ \A i \in 1 .. Len(b) - k : ShiftBuffer(b, k)[i] = b[k + i]
  <1>1. Len(b) \in Nat /\ \A i \in 1 .. Len(b) : b[i] \in Nat  BY LenProperties, ElementOfSeq
  <1>2. PICK L : L = Len(b)  OBVIOUS
  <1>3. L \in Nat /\ k \in Nat /\ k <= L  BY <1>1, <1>2
  <1>4. /\ k + 1 \in Int /\ L \in Int /\ k + 1 .. L \subseteq 1 .. L
        /\ L - (k + 1) + 1 = L - k
        /\ (IF k + 1 <= L THEN L - (k + 1) + 1 ELSE 0) = L - k
        /\ \A i \in 1 .. L - k : (k + 1) + i - 1 = k + i
    BY <1>3
  <1>5. \A i \in k + 1 .. L : b[i] \in Nat  BY <1>1, <1>2, <1>4
  <1>6. /\ Len(SubSeq(b, k + 1, L)) = IF k + 1 <= L THEN L - (k + 1) + 1 ELSE 0
        /\ \A i \in 1 .. L - (k + 1) + 1 : SubSeq(b, k + 1, L)[i] = b[(k + 1) + i - 1]
    BY <1>4, <1>5, SubSeqProperties
  <1>7. PICK R : R = SubSeq(b, k + 1, L)  OBVIOUS
  <1>8. Len(R) = L - k /\ \A i \in 1 .. L - k : R[i] = b[k + i]  BY <1>4, <1>6, <1>7
  <1>9. ShiftBuffer(b, k) = R  BY <1>2, <1>7 DEF ShiftBuffer
  <1> QED BY <1>1, <1>2, <1>8, <1>9

\* What was sent early counts from here on if it was taken.
LEMMA TakesFlightInv ==
    ASSUME CliInv, NEW r, NEW x, TakesFlight(r, x)
    PROVE CliTypes' => CliInv'
  <1>e. "c" \in Ends /\ "s" \in Ends  BY DEF Ends
  <1>1. /\ CliTypes /\ ClientAt /\ ServerAt /\ RecordsTell /\ OutAt /\ EarlyComesEarly /\ InputAt("c")
    BY <1>e DEF CliInv
  <1>2. /\ Takes("c", "s", x) /\ UNCHANGED <<maxEarly, out>>
        /\ r = Head(net["s"]) /\ pc'["c"] = "consume" /\ ~Skips("c", r)
        /\ r.what \in {"flight", "flight_early"} /\ r.key = rkey["c"].key /\ r.n = rkey["c"].n
        /\ rkey'["s"] = rkey["s"] /\ wkey'["s"] = wkey["s"] /\ st'["s"] = st["s"] /\ tls'["s"] = tls["s"]
        /\ UNCHANGED <<inputfd, read, early, scen>>
        /\ wkey'["c"] = Key("app") /\ rkey'["c"] = Key("app") /\ tls'["c"] = "done" /\ st'["c"] = "1rtt"
    BY DEF TakesFlight, Expected, Takes
  <1>n. /\ Len(early["c"]) \in Nat /\ Retries \in Nat /\ Released \in Nat /\ EarlyRecords \in Nat
        /\ NextPlace("c") \in Nat /\ wkey["c"].n \in Nat /\ wkey["c"].key \in KeyNames
    <2>1. wkey["c"].n \in Nat /\ wkey["c"].key \in KeyNames  BY <1>1, <1>e DEF CliTypes, CliKey
    <2> QED BY <1>1, <2>1, PlaceTypes
  <1>3. PICK y, z : y = Rec(wkey["c"], 0, "end_of_early", 0) /\ z = Rec(Key("hs"), 0, "finished", 0)
    OBVIOUS
  <1>4. /\ y \in CliRecord /\ y.what = "end_of_early" /\ y.key = wkey["c"].key /\ y.n = wkey["c"].n
        /\ z \in CliRecord /\ z.what = "finished" /\ z.key = "hs" /\ z.n = 0
    <2>1. /\ y = [key |-> wkey["c"].key, n |-> wkey["c"].n + 0, what |-> "end_of_early", data |-> 0]
          /\ wkey["c"].n + 0 = wkey["c"].n
      BY <1>3, <1>n DEF Rec
    <2>2. z = [key |-> "hs", n |-> 0 + 0, what |-> "finished", data |-> 0] /\ 0 + 0 = 0
      BY <1>3 DEF Rec, Key
    <2> QED BY <1>n, <2>1, <2>2 DEF CliRecord, Kinds, KeyNames
  <1>6. \/ r.what = "flight_early" /\ x = <<y>> \o <<z>>
        \/ r.what = "flight" /\ x = <<>> \o <<z>>
    BY <1>2, <1>3 DEF TakesFlight
  <1>7. /\ x \in Seq(CliRecord)
        /\ r.what = "flight_early" => Len(x) = 2 /\ x[1] = y /\ x[2] = z
        /\ r.what = "flight" => Len(x) = 1 /\ x[1] = z
    <2>1. /\ <<y>> \o <<z>> \in Seq(CliRecord) /\ Len(<<y>> \o <<z>>) = 2
          /\ (<<y>> \o <<z>>)[1] = y /\ (<<y>> \o <<z>>)[2] = z
      BY <1>4
    <2>2. <<>> \o <<z>> \in Seq(CliRecord) /\ Len(<<>> \o <<z>>) = 1 /\ (<<>> \o <<z>>)[1] = z
      BY <1>4
    <2> QED BY <1>6, <2>1, <2>2
  <1>8. /\ EarlyTaken' = EarlyTaken /\ Retries' = Retries /\ Released' = Released
        /\ EarlyRecords' = EarlyRecords
        /\ \A e, k : Place(e, k)' = Place(e, k)
    BY <1>e, <1>2, <1>7, TakesFixed
  <1>9. ServerRecord(r)  BY <1>e, <1>2, <1>7, TakesTold
  <1>10. /\ r.what = (IF EarlyTaken THEN "flight_early" ELSE "flight") /\ rkey["c"].key = "plain"
         /\ rkey["c"].n = Retries
    BY <1>2, <1>9 DEF ServerRecord
  <1>11. tls["c"] = "server_hello" /\ st["c"] = "handshake"  BY <1>1, <1>10 DEF ClientAt
  <1>12. EarlyTaken => /\ taken = "unknown" /\ wkey["c"].key = "early" /\ wkey["c"].n = Len(early["c"])
                       /\ Retries = 0
    <2>1. EarlyTaken => Retries = 0 /\ scen.maxEarly > 0  BY DEF EarlyTaken, Retries
    <2> QED BY <1>1, <1>10, <1>11, <2>1 DEF ClientAt
  <1>13. taken' = IF EarlyTaken THEN "accepted" ELSE "rejected"
    <2>1. taken' = IF taken = "unknown" THEN IF r.what = "flight_early" THEN "accepted" ELSE "rejected" ELSE taken
      BY DEF TakesFlight
    <2>2. taken \in {"unknown", "rejected"}  BY <1>1, <1>11 DEF ClientAt
    <2> QED BY <1>10, <1>12, <2>1, <2>2
  <1>14. ptbuf'["c"] = IF EarlyTaken THEN ShiftBuffer(ptbuf["c"], Len(early["c"])) ELSE ptbuf["c"]
    <2>1. ptbuf'["c"] = IF taken' = "accepted" THEN ShiftBuffer(ptbuf["c"], Len(early["c"])) ELSE ptbuf["c"]
      BY DEF TakesFlight
    <2> QED BY <1>13, <2>1
  <1>15. /\ wkey'["c"].key = "app" /\ wkey'["c"].n = 0 /\ rkey'["c"].key = "app" /\ rkey'["c"].n = 0
    BY <1>2 DEF Key
  <1>16. ClientAt'  BY <1>2, <1>8, <1>13, <1>15 DEF ClientAt
  <1>17. ServerAt' /\ tls["s"] # "done"
    <2>1. tls["s"] # "done"  BY <1>1, <1>11 DEF ServerAt
    <2>2. ServerAt'  BY <1>1, <1>2, <1>8, <2>1 DEF ServerAt
    <2> QED BY <2>1, <2>2
  <1>18. OutAt'
    <2>1. Len(out["c"]) = 0  BY <1>1, <1>10 DEF OutAt
    <2> QED BY <1>1, <1>2, <1>8, <1>15, <2>1 DEF OutAt
  <1>19. InputAt("c")'
    <2>0. PICK b, k, n : b = ptbuf["c"] /\ k = Released /\ n = read["c"]  OBVIOUS
    <2>1. b \in Seq(Nat) /\ n \in Nat  BY <1>1, <1>e, <2>0 DEF CliTypes
    <2>2. Len(b) = n /\ Len(early["c"]) <= n /\ \A i \in 1 .. Len(b) : b[i] = n - Len(b) + i
      BY <1>1, <1>11, <2>0 DEF InputAt
    <2>3. k \in 0 .. Len(b) /\ (EarlyTaken => k = Len(early["c"])) /\ (~EarlyTaken => k = 0)
      BY <1>n, <2>0, <2>1, <2>2 DEF Released
    <2>4. /\ Len(b) \in Nat /\ Len(ShiftBuffer(b, k)) = Len(b) - k
          /\ \A i \in 1 .. Len(b) - k : ShiftBuffer(b, k)[i] = b[k + i]
      BY <2>1, <2>3, ShiftedIs
    <2>5. PICK d : d = ptbuf'["c"]  OBVIOUS
    <2>6. Len(d) = n - k /\ \A i \in 1 .. n - k : d[i] = b[k + i]
      <3>1. CASE EarlyTaken
        <4>1. d = ShiftBuffer(b, k)  BY <1>14, <2>0, <2>3, <2>5, <3>1
        <4> QED BY <2>2, <2>4, <4>1
      <3>2. CASE ~EarlyTaken
        <4>1. d = b /\ k = 0  BY <1>14, <2>0, <2>3, <2>5, <3>2
        <4>2. \A i \in 1 .. n - 0 : 0 + i = i  BY <2>1
        <4> QED BY <2>1, <2>2, <4>1, <4>2
      <3> QED BY <3>1, <3>2
    <2>7. \A i \in 1 .. n - k : b[k + i] = k + i
      <3>1. TAKE i \in 1 .. n - k
      <3>2. k + i \in 1 .. Len(b) /\ n - Len(b) + (k + i) = k + i  BY <2>1, <2>2, <2>3
      <3> QED BY <2>2, <3>2
    <2>8. k \in 0 .. n  BY <2>2, <2>3
    <2>9. /\ Len(d) <= n /\ 0 + k = n - Len(d)
          /\ \A i \in 1 .. Len(d) : d[i] = n - Len(d) + i
      <3>1. n - k <= n /\ 0 + k = n - (n - k)  BY <2>1, <2>8
      <3>2. \A i \in 1 .. n - k : k + i = n - (n - k) + i  BY <2>1, <2>8
      <3> QED BY <2>6, <2>7, <3>1, <3>2
    <2>10. /\ read'["c"] = n /\ wkey'["c"].n = 0 /\ Released' = k /\ ptbuf'["c"] = d
           /\ st'["c"] = "1rtt" /\ pc'["c"] = "consume"
      BY <1>2, <1>8, <1>15, <2>0, <2>5
    <2> QED BY <2>9, <2>10 DEF InputAt
  <1>20. RecordsTell' /\ EarlyComesEarly'
    <2>1. ClientRecord(z)'  BY <1>2, <1>4 DEF ClientRecord
    <2>2. EarlyTaken => ClientRecord(y)'  BY <1>2, <1>4, <1>8, <1>12 DEF ClientRecord
    <2>3. \A i \in 1 .. Len(x) : ClientRecord(x[i])'
      <3>1. TAKE i \in 1 .. Len(x)
      <3>2. x[i] = z \/ (x[i] = y /\ EarlyTaken)  BY <1>7, <1>10
      <3> QED BY <2>1, <2>2, <3>2
    <2>4. \A i \in 1 .. Len(x) : x[i].key = "early" => \A j \in 1 .. Len(x) : j < i => x[j].what # "finished"
      <3>1. TAKE i \in 1 .. Len(x)
      <3>2. x[i].key = "early" => i = 1  BY <1>4, <1>7, <1>10
      <3> QED BY <3>2
    <2>5. tls'["c"] \in {tls["c"], "done"} /\ (tls'["s"] = "done" => tls["s"] = "done")  BY <1>2
    <2> QED BY <1>e, <1>2, <1>7, <1>11, <1>17, <2>3, <2>4, <2>5, TakesRecords
  <1>21. TakesPlaces("c", x)
    <2>1. NextPlace("c") = 1 + Retries + Released  BY <1>10, <1>11 DEF NextPlace
    <2>2. NextPlace("c")' = Retries + 2 + EarlyRecords + 0
      <3>1. NextPlace("c")' = Place("c", wkey["c"])'  BY <1>2 DEF NextPlace
      <3>2. Place("c", wkey["c"])' = Retries + 2 + EarlyRecords + 0  BY <1>8, <1>15 DEF Place
      <3> QED BY <3>1, <3>2
    <2>3. Place("c", z) = Retries + 1 + EarlyRecords  BY <1>4 DEF Place
    <2>4. CASE EarlyTaken
      <3>1. Place("c", y) = 1 + Len(early["c"])  BY <1>4, <1>12, <2>4 DEF Place
      <3>2. EarlyRecords = Len(early["c"]) + 1 /\ Released = Len(early["c"]) /\ Retries = 0
        BY <1>12, <2>4 DEF EarlyRecords, Released
      <3>3. Len(x) = 2 /\ x[1] = y /\ x[2] = z  BY <1>7, <1>10, <2>4
      <3>4. /\ Place("c", y) = NextPlace("c") + 1 - 1 /\ Place("c", z) = NextPlace("c") + 2 - 1
            /\ NextPlace("c")' = NextPlace("c") + 2
        BY <1>n, <2>1, <2>2, <2>3, <3>1, <3>2
      <3>5. \A i \in 1 .. 2 : i = 1 \/ i = 2  OBVIOUS
      <3>6. \A i \in 1 .. 2 : Place("c", x[i]) = NextPlace("c") + i - 1  BY <3>3, <3>4, <3>5
      <3> QED BY <3>3, <3>4, <3>6 DEF TakesPlaces
    <2>5. CASE ~EarlyTaken
      <3>2. EarlyRecords = 0 /\ Released = 0  BY <2>5 DEF EarlyRecords, Released
      <3>3. Len(x) = 1 /\ x[1] = z  BY <1>7, <1>10, <2>5
      <3>4. Place("c", z) = NextPlace("c") + 1 - 1 /\ NextPlace("c")' = NextPlace("c") + 1
        BY <1>n, <2>1, <2>2, <2>3, <3>2
      <3>5. \A i \in 1 .. 1 : i = 1  OBVIOUS
      <3>6. \A i \in 1 .. 1 : Place("c", x[i]) = NextPlace("c") + i - 1  BY <3>3, <3>4, <3>5
      <3> QED BY <3>3, <3>4, <3>6 DEF TakesPlaces
    <2> QED BY <2>4, <2>5
  <1>22. Place("s", rkey["c"])' = Place("s", rkey["c"]) + (IF Skips("c", Head(net["s"])) THEN 0 ELSE 1)
    <2>1. Place("s", rkey["c"]) = Retries  BY <1>10 DEF Place
    <2>2. Place("s", rkey["c"])' = Retries + 1 + 0  BY <1>8, <1>15 DEF Place
    <2> QED BY <1>n, <1>2, <2>1, <2>2
  <1>23. st'["c"] # "shutdown"  BY <1>2
  <1> QED BY <1>e, <1>2, <1>7, <1>16, <1>17, <1>18, <1>19, <1>20, <1>21, <1>22, <1>23, TakesRest

\* Each way to take a record keeps the invariant.
LEMMA ConsumeInv ==
    ASSUME CliInv, NEW p \in Ends, Consume(p) PROVE CliInv'
  <1>t. CliTypes /\ CliTypes' /\ RecordsTell  BY ConsumeTypes DEF CliInv
  <1>0. PICK q, r : q = Other(p) /\ r = Head(net[q])  OBVIOUS
  <1>1. /\ q \in Ends /\ q # p /\ p \in {"c", "s"} /\ (p = "s" => q = "c") /\ (p = "c" => q = "s")
        /\ "c" \in Ends /\ "s" \in Ends
    BY <1>0 DEF Ends, Other
  <1>2. /\ pc[p] \in {"select", "consume"} /\ net[q] # <<>>
        /\ net' = [net EXCEPT ![q] = Tail(@)] /\ UNCHANGED <<scen, early, inputfd, read>>
    BY <1>0 DEF Consume
  <1>3. (p = "s" => ClientRecord(r)) /\ (p = "c" => ServerRecord(r))
    <2>1. PICK N, E : N = net[q] /\ E = encbuf[q]  OBVIOUS
    <2>2. N \in Seq(CliRecord) /\ E \in Seq(CliRecord) /\ N # <<>>  BY <1>t, <1>1, <1>2, <2>1 DEF CliTypes
    <2>e. Shorter(N \o E, Head(N), Tail(N) \o E)  BY <2>2, StreamLess, Zenon
    <2>3. Len(N \o E) \in Nat \ {0} /\ (N \o E)[1] = Head(N)  BY <2>e DEF Shorter
    <2>4. Stream(q) = N \o E  BY <2>1 DEF Stream
    <2>a. r = Head(N)  BY <1>0, <2>1
    <2>b. PICK S : S = Stream(q)  OBVIOUS
    <2>c. Len(S) \in Nat \ {0} /\ S[1] = r  BY <2>3, <2>4, <2>a, <2>b
    <2>d. 1 \in 1 .. Len(S)  BY <2>c
    <2>5. 1 \in 1 .. Len(Stream(q)) /\ Stream(q)[1] = r  BY <2>b, <2>c, <2>d
    <2> QED BY <1>t, <1>1, <2>5 DEF RecordsTell
  <1>4. \A e \in Ends : encbuf[e] \in Seq(CliRecord) /\ encbuf[e] \o <<>> = encbuf[e]
    <2>1. \A e \in Ends : encbuf[e] \in Seq(CliRecord)  BY <1>t DEF CliTypes
    <2>2. \A s \in Seq(CliRecord) : s \o <<>> = s  OBVIOUS
    <2> QED BY <2>1, <2>2
  <1>5. encbuf' = encbuf => encbuf' = [encbuf EXCEPT ![p] = @ \o <<>>]  BY <1>t, <1>4 DEF CliTypes
  <1>6. CASE /\ Skips(p, r) /\ pc' = [pc EXCEPT ![p] = "consume"]
             /\ UNCHANGED <<st, tls, wkey, rkey, maxEarly, taken, encbuf, ptbuf, out>>
    <2>1. pc'[q] = pc[q] /\ pc'[p] = "consume"  BY <1>t, <1>1, <1>6 DEF CliTypes
    <2>2. Takes(p, q, <<>>)  BY <1>0, <1>2, <1>5, <1>6, <2>1 DEF Takes
    <2>3. Drops(p, q, r)  BY <1>0, <1>6, <2>1, <2>2 DEF Drops
    <2> QED BY <1>t, <1>1, <2>3, DropsInv
  <1>7. CASE /\ ~Skips(p, r) /\ Exits(p, IF Expected(p, r) THEN "closed" ELSE "bad_record")
             /\ UNCHANGED <<st, tls, wkey, rkey, maxEarly, taken, encbuf, ptbuf, out>>
    <2>1. pc'[q] = pc[q] /\ pc'[p] = IF Expected(p, r) THEN "closed" ELSE "bad_record"
      BY <1>t, <1>1, <1>7 DEF CliTypes, Exits
    <2>2. Takes(p, q, <<>>)  BY <1>0, <1>2, <1>5, <1>7, <2>1 DEF Takes
    <2>3. Drops(p, q, r)  BY <1>0, <1>7, <2>1, <2>2 DEF Drops
    <2> QED BY <1>t, <1>1, <2>3, DropsInv
  <1>8. CASE /\ ~Skips(p, r) /\ Expected(p, r) /\ r.what = "hello" /\ pc' = [pc EXCEPT ![p] = "consume"]
             /\ ServerTakesHello /\ UNCHANGED <<maxEarly, taken, ptbuf, out>>
    <2>1. p = "s" /\ q = "c"  BY <1>1, <1>3, <1>8 DEF ServerRecord
    <2>2. pc'["c"] = pc["c"] /\ pc'["s"] = "consume"  BY <1>t, <1>1, <1>8, <2>1 DEF CliTypes
    <2>3. \A y : Append(encbuf["s"], y) = encbuf["s"] \o <<y>>
      <3>1. encbuf["s"] \in Seq(CliRecord)  BY <1>1, <1>4
      <3> QED BY <3>1
    <2>4. PICK y : /\ encbuf' = [encbuf EXCEPT !["s"] = Append(@, y)] /\ (AsksAgain(y) \/ Answers(y))
                   /\ tls'["c"] = tls["c"] /\ rkey'["c"] = rkey["c"] /\ wkey'["c"] = wkey["c"] /\ st'["c"] = st["c"]
      <3>1. CASE scen.retry /\ tls["s"] = "client_hello"
        <4>1. PICK y : y = Rec(Key("plain"), 0, "retry", 0)  OBVIOUS
        <4>2. /\ encbuf' = [encbuf EXCEPT !["s"] = Append(@, y)]
              /\ tls' = [tls EXCEPT !["s"] = "second_hello"]
              /\ rkey' = [rkey EXCEPT !["s"] = Next1(@)]
              /\ UNCHANGED <<st, wkey>>
          BY <1>8, <3>1, <4>1 DEF ServerTakesHello
        <4>3. /\ tls'["c"] = tls["c"] /\ tls'["s"] = "second_hello"
              /\ rkey'["c"] = rkey["c"] /\ rkey'["s"] = Next1(rkey["s"])
          BY <1>t, <1>1, <4>2 DEF CliTypes
        <4>4. AsksAgain(y)  BY <3>1, <4>1, <4>2, <4>3 DEF AsksAgain
        <4> QED BY <4>2, <4>3, <4>4
      <3>2. CASE ~(scen.retry /\ tls["s"] = "client_hello")
        <4> DEFINE takes == scen.accept /\ scen.maxEarly > 0 /\ tls["s"] = "client_hello"
        <4>1. PICK y : y = Rec(Key("plain"), IF scen.retry THEN 1 ELSE 0,
                               IF takes THEN "flight_early" ELSE "flight", 0)
          OBVIOUS
        <4>2. /\ encbuf' = [encbuf EXCEPT !["s"] = Append(@, y)]
              /\ tls' = [tls EXCEPT !["s"] = IF takes THEN "end_of_early" ELSE "finished"]
              /\ rkey' = [rkey EXCEPT !["s"] = IF takes THEN Key("early") ELSE Key("hs")]
              /\ wkey' = [wkey EXCEPT !["s"] = Key("app")]
              /\ st' = [st EXCEPT !["s"] = "1rtt"]
          BY <1>8, <3>2, <4>1 DEF ServerTakesHello
        <4>3. /\ tls'["c"] = tls["c"] /\ tls'["s"] = (IF takes THEN "end_of_early" ELSE "finished")
              /\ rkey'["c"] = rkey["c"] /\ rkey'["s"] = (IF takes THEN Key("early") ELSE Key("hs"))
              /\ wkey'["c"] = wkey["c"] /\ wkey'["s"] = Key("app")
              /\ st'["c"] = st["c"] /\ st'["s"] = "1rtt"
          BY <1>t, <1>1, <4>2 DEF CliTypes
        <4>4. Answers(y)  BY <3>2, <4>1, <4>3 DEF Answers
        <4> QED BY <4>2, <4>3, <4>4
      <3> QED BY <3>1, <3>2
    <2>5. encbuf' = [encbuf EXCEPT !["s"] = @ \o <<y>>]  BY <2>3, <2>4
    <2>6. Takes("s", "c", <<y>>)  BY <1>0, <1>2, <1>8, <2>1, <2>2, <2>4, <2>5 DEF Takes
    <2>7. TakesHello(r, y)  BY <1>0, <1>8, <2>1, <2>2, <2>4, <2>6 DEF TakesHello
    <2> QED BY <1>t, <2>7, TakesHelloInv
  <1>9. CASE /\ ~Skips(p, r) /\ Expected(p, r) /\ r.what = "retry" /\ pc' = [pc EXCEPT ![p] = "consume"]
             /\ ClientTakesRetry /\ UNCHANGED out
    <2>1. p = "c" /\ q = "s"  BY <1>1, <1>3, <1>9 DEF ClientRecord
    <2>2. pc'["s"] = pc["s"] /\ pc'["c"] = "consume"  BY <1>t, <1>1, <1>9, <2>1 DEF CliTypes
    <2>3. PICK y : y = Rec(Key("plain"), 1, "hello", 0)  OBVIOUS
    <2>4. /\ encbuf' = [encbuf EXCEPT !["c"] = Append(@, y)]
          /\ wkey' = [wkey EXCEPT !["c"] = Key("none")] /\ rkey' = [rkey EXCEPT !["c"] = Next1(@)]
          /\ maxEarly' = 0 /\ taken' = "rejected" /\ UNCHANGED <<st, tls, ptbuf>>
      BY <1>9, <2>3 DEF ClientTakesRetry
    <2>5. Append(encbuf["c"], y) = encbuf["c"] \o <<y>>
      <3>1. encbuf["c"] \in Seq(CliRecord)  BY <1>1, <1>4
      <3> QED BY <3>1
    <2>6. encbuf' = [encbuf EXCEPT !["c"] = @ \o <<y>>]  BY <2>4, <2>5
    <2>7. /\ wkey'["s"] = wkey["s"] /\ wkey'["c"] = Key("none")
          /\ rkey'["s"] = rkey["s"] /\ rkey'["c"] = Next1(rkey["c"])
      BY <1>t, <1>1, <2>4 DEF CliTypes
    <2>8. Takes("c", "s", <<y>>)  BY <1>0, <1>2, <1>9, <2>1, <2>2, <2>4, <2>6, <2>7 DEF Takes
    <2>9. TakesRetry(r, y)  BY <1>0, <1>9, <2>1, <2>2, <2>3, <2>4, <2>7, <2>8 DEF TakesRetry
    <2> QED BY <1>t, <2>9, TakesRetryInv
  <1>10. CASE /\ ~Skips(p, r) /\ Expected(p, r) /\ r.what \in {"flight", "flight_early"}
              /\ pc' = [pc EXCEPT ![p] = "consume"] /\ ClientTakesFlight(r) /\ UNCHANGED out
    <2>1. p = "c" /\ q = "s"  BY <1>1, <1>3, <1>10 DEF ClientRecord
    <2>2. pc'["s"] = pc["s"] /\ pc'["c"] = "consume"  BY <1>t, <1>1, <1>10, <2>1 DEF CliTypes
    <2> DEFINE took == r.what = "flight_early"
               how == IF taken = "unknown" THEN IF took THEN "accepted" ELSE "rejected" ELSE taken
    <2>3. PICK u, v : /\ u = (IF took THEN <<Rec(wkey["c"], 0, "end_of_early", 0)>> ELSE <<>>)
                      /\ v = <<Rec(Key("hs"), 0, "finished", 0)>>
      OBVIOUS
    <2>4. /\ taken' = how /\ UNCHANGED maxEarly
          /\ encbuf' = [encbuf EXCEPT !["c"] = @ \o u \o v]
          /\ wkey' = [wkey EXCEPT !["c"] = Key("app")]
          /\ rkey' = [rkey EXCEPT !["c"] = Key("app")]
          /\ tls' = [tls EXCEPT !["c"] = "done"]
          /\ st' = [st EXCEPT !["c"] = "1rtt"]
          /\ ptbuf' = [ptbuf EXCEPT !["c"] = IF how = "accepted" THEN ShiftBuffer(@, Len(early["c"])) ELSE @]
      BY <1>10, <2>3 DEF ClientTakesFlight
    <2>5. u \in Seq(CliRecord) /\ v \in Seq(CliRecord)
      <3>1. wkey["c"].key \in KeyNames /\ wkey["c"].n \in Nat  BY <1>t, <1>1 DEF CliTypes, CliKey
      <3>2. Rec(wkey["c"], 0, "end_of_early", 0) \in CliRecord  BY <3>1 DEF Rec, CliRecord, Kinds
      <3>3. Rec(Key("hs"), 0, "finished", 0) \in CliRecord  BY DEF Rec, Key, CliRecord, Kinds, KeyNames
      <3> QED BY <2>3, <3>2, <3>3
    <2>6. encbuf["c"] \o u \o v = encbuf["c"] \o (u \o v)
      <3>1. encbuf["c"] \in Seq(CliRecord)  BY <1>1, <1>4
      <3>2. \A a \in Seq(CliRecord), b \in Seq(CliRecord), c \in Seq(CliRecord) : (a \o b) \o c = a \o (b \o c)
        BY ConcatAssociative
      <3> QED BY <2>5, <3>1, <3>2
    <2>7. encbuf' = [encbuf EXCEPT !["c"] = @ \o (u \o v)]  BY <2>4, <2>6
    <2>8. /\ wkey'["s"] = wkey["s"] /\ wkey'["c"] = Key("app") /\ rkey'["s"] = rkey["s"] /\ rkey'["c"] = Key("app")
          /\ tls'["s"] = tls["s"] /\ tls'["c"] = "done" /\ st'["s"] = st["s"] /\ st'["c"] = "1rtt"
      BY <1>t, <1>1, <2>4 DEF CliTypes
    <2>9. /\ ptbuf'["s"] = ptbuf["s"]
          /\ ptbuf'["c"] = (IF how = "accepted" THEN ShiftBuffer(ptbuf["c"], Len(early["c"])) ELSE ptbuf["c"])
      BY <1>t, <1>1, <2>4 DEF CliTypes
    <2>10. Takes("c", "s", u \o v)  BY <1>0, <1>2, <1>10, <2>1, <2>2, <2>7, <2>8, <2>9 DEF Takes
    <2>11. TakesFlight(r, u \o v)
      BY <1>0, <1>10, <2>1, <2>2, <2>3, <2>4, <2>8, <2>9, <2>10 DEF TakesFlight
    <2> QED BY <1>t, <2>11, TakesFlightInv
  <1>11. CASE /\ ~Skips(p, r) /\ Expected(p, r) /\ r.what \in {"end_of_early", "finished"}
              /\ pc' = [pc EXCEPT ![p] = "consume"] /\ ServerTakesFinish(r)
              /\ UNCHANGED <<st, wkey, maxEarly, taken, encbuf, ptbuf, out>>
    <2>1. p = "s" /\ q = "c"  BY <1>1, <1>3, <1>11 DEF ServerRecord
    <2>2. /\ pc'["c"] = pc["c"] /\ pc'["s"] = "consume" /\ tls'["c"] = tls["c"] /\ rkey'["c"] = rkey["c"]
          /\ rkey'["s"] = Key(IF r.what = "end_of_early" THEN "hs" ELSE "app")
          /\ tls'["s"] = IF r.what = "end_of_early" THEN "finished" ELSE "done"
      BY <1>t, <1>1, <1>11, <2>1 DEF CliTypes, ServerTakesFinish
    <2>3. Takes("s", "c", <<>>)  BY <1>0, <1>2, <1>5, <1>11, <2>1, <2>2 DEF Takes
    <2>4. TakesFinish(r)  BY <1>0, <1>11, <2>1, <2>2, <2>3 DEF TakesFinish
    <2> QED BY <1>t, <2>4, TakesFinishInv
  <1>12. CASE /\ ~Skips(p, r) /\ Expected(p, r) /\ r.what = "data" /\ pc' = [pc EXCEPT ![p] = "consume"]
              /\ out' = [out EXCEPT ![p] = Append(@, r.data)]
              /\ rkey' = [rkey EXCEPT ![p] = Next1(@)]
              /\ UNCHANGED <<st, tls, wkey, maxEarly, taken, encbuf, ptbuf>>
    <2>1. pc'[q] = pc[q] /\ pc'[p] = "consume" /\ out'[q] = out[q] /\ rkey'[q] = rkey[q]
      BY <1>t, <1>1, <1>12 DEF CliTypes
    <2>2. Takes(p, q, <<>>)  BY <1>0, <1>2, <1>5, <1>12, <2>1 DEF Takes
    <2>3. TakesData(p, q, r)  BY <1>0, <1>12, <2>1, <2>2 DEF TakesData
    <2> QED BY <1>t, <1>1, <2>3, TakesDataInv
  <1> QED BY <1>0, <1>6, <1>7, <1>8, <1>9, <1>10, <1>11, <1>12 DEF Consume

\* handle_connection moves the input to the other end: what either end writes
\* to standard output is the peer's input from its start, early data that is
\* taken in order included, and as long as the kernel takes every write whole no
\* record fails to decrypt and the sending side is closed after all data.
THEOREM LoopsAreSound == CliSpec => []LoopSound
  <1>1. CliInit => CliInv  BY CliInitInv
  <1>2. CliInv /\ [CliNext]_clivars => CliInv'
    <2> SUFFICES ASSUME CliInv, [CliNext]_clivars PROVE CliInv'  OBVIOUS
    <2>1. CASE CliNext
      <3>1. PICK p \in Ends : Consume(p) \/ SocketClosed(p) \/ ReadInput(p) \/ Encrypt(p) \/ Write(p) \/ CloseSender(p)
        BY <2>1 DEF CliNext
      <3> QED BY <3>1, ConsumeInv, SocketClosedInv, ReadInputInv, EncryptInv, WriteInv, CloseSenderInv
    <2>2. CASE UNCHANGED clivars
      <3>0. UNCHANGED <<scen, pc, st, tls, wkey, rkey, maxEarly, taken, encbuf, ptbuf, early, inputfd, read, out, net>>
        BY <2>2 DEF clivars
      <3>1. Stream("c")' = Stream("c") /\ Stream("s")' = Stream("s")  BY <3>0 DEF Stream
      <3>2. CliTypes'  BY <2>2 DEF clivars, CliInv, CliTypes
      <3>3. ClientAt' /\ ServerAt' /\ OutAt' /\ RecordsTell' /\ EarlyComesEarly'
        BY <3>0, <3>1, SameStreams DEF CliInv
      <3>4. \A q \in Ends : InputAt(q)'  BY <3>0 DEF CliInv, InputAt, Released, EarlyTaken
      <3>5. ASSUME scen.whole PROVE \A q \in Ends : WholeAt(q)'
        <4>1. \A q \in Ends : Other(q) \in Ends /\ q \in {"c", "s"}  BY DEF Ends, Other
        <4>2. \A q \in Ends : InSequence(q)' <=> InSequence(q)  BY <3>0, <3>1, <4>1, SameStreams
        <4> QED BY <3>0, <3>5, <4>1, <4>2 DEF CliInv, WholeAt
      <3> QED BY <3>0, <3>2, <3>3, <3>4, <3>5 DEF CliInv
    <2> QED BY <2>1, <2>2
  <1>3. CliInv => LoopSound
    <2> SUFFICES ASSUME CliInv PROVE LoopSound  OBVIOUS
    <2>1. CliTypes /\ OutAt /\ \A p \in Ends : InputAt(p)  BY DEF CliInv
    <2>2. /\ out["c"] \in Seq(Nat) /\ out["s"] \in Seq(Nat) /\ early["c"] \in Seq(Nat)
      BY <2>1 DEF CliTypes, Ends
    <2>3. DOMAIN out["c"] = 1 .. Len(out["c"]) /\ DOMAIN out["s"] = 1 .. Len(out["s"])
          /\ DOMAIN early["c"] = 1 .. Len(early["c"]) /\ Len(out["s"]) \in Nat /\ Len(early["c"]) \in Nat
      BY <2>2, LenProperties
    <2>4. InOrder(out["c"])  BY <2>1, <2>3 DEF OutAt, InOrder
    <2>5. ASSUME EarlySentOnce \/ ~EarlyTaken PROVE InOrder(out["s"])
      <3>1. \A i \in 1 .. Len(out["s"]) : out["s"][i] = IF i <= Released THEN early["c"][i] ELSE i
        BY <2>1 DEF OutAt
      <3>2. CASE EarlyTaken
        <4>1. \A i \in 1 .. Len(early["c"]) : early["c"][i] = i  BY <2>3, <2>5, <3>2 DEF EarlySentOnce, InOrder
        <4>2. \A i \in 1 .. Len(out["s"]) : i <= Released => i \in 1 .. Len(early["c"])
          BY <2>3, <3>2 DEF Released
        <4> QED BY <2>3, <3>1, <4>1, <4>2 DEF InOrder
      <3>3. CASE ~EarlyTaken
        <4>1. \A i \in 1 .. Len(out["s"]) : ~(i <= Released)  BY <2>3, <3>3 DEF Released
        <4> QED BY <2>3, <3>1, <4>1 DEF InOrder
      <3> QED BY <3>2, <3>3
    <2>6. StreamsStayWhole
      <3>1. SUFFICES ASSUME scen.whole PROVE CloseAfterAllData /\ \A p \in Ends : pc[p] # "bad_record"
        BY DEF StreamsStayWhole
      <3>2. \A p \in Ends : WholeAt(p)  BY <3>1 DEF CliInv
      <3>3. \A p \in Ends : pc[p] # "bad_record"  BY <3>2 DEF WholeAt
      <3>4. \A p \in Ends : st[p] = "shutdown" => encbuf[p] = <<>> /\ ptbuf[p] = <<>>
        BY <2>1, <3>2 DEF WholeAt, InputAt
      <3>5. CloseAfterAllData  BY <3>4 DEF CloseAfterAllData
      <3> QED BY <3>3, <3>5
    <2> QED BY <2>4, <2>5, <2>6 DEF LoopSound, OutputIsInput
  <1> QED BY <1>1, <1>2, <1>3, PTL DEF CliSpec
=============================================================================
