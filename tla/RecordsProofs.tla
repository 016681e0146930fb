----------------------------- MODULE RecordsProofs -----------------------------
(***************************************************************************)
(* However the transport cuts the bytes up, and whatever the limits are:   *)
(* proofs of CutsDoNotMatter, MessagesWhole, EndFlagIsTrue and             *)
(* MemoryBounded.                                                          *)
(*                                                                         *)
(* Records and messages are places in a byte string.  What was consumed is *)
(* cut where records end (Framed), the contents of the handshake records   *)
(* make up a stream that is cut once where records and once where messages *)
(* end (StreamOf), and what is kept is what follows the last cut.  The     *)
(* recursive functions of the model are shown to follow these cuts by      *)
(* induction on the place, with sets of numbers (Induct).                  *)
(***************************************************************************)
EXTENDS Records, SequenceTheorems, NaturalsInduction, WellFoundedInduction, TLAPS

-----------------------------------------------------------------------------
(* Induction over the natural numbers, for a set of numbers. *)
LEMMA Induct ==
  ASSUME NEW S, 0 \in S, \A k \in Nat : k \in S => k + 1 \in S
  PROVE  Nat \subseteq S
<1> DEFINE T == Nat \ S
<1> SUFFICES ASSUME T # {} PROVE FALSE
  OBVIOUS
<1>0. T \subseteq Nat /\ T # {} /\ \A x \in Nat : x \in T <=> x \notin S
  OBVIOUS
<1> HIDE DEF T
<1>1. PICK m \in T : \A x \in T : <<x, m>> \notin OpToRel(<, Nat)
  BY <1>0, NatLessThanWellFounded, WFMin
<1>2. m # 0 /\ m - 1 \in Nat /\ m \in Nat /\ m \notin S
  BY <1>0
<1>3. <<m - 1, m>> \in OpToRel(<, Nat)
  <2>1. <<m - 1, m>> \in {ss \in Nat \X Nat : ss[1] < ss[2]}
    BY <1>2
  <2> QED BY <2>1 DEF OpToRel
<1>4. m - 1 \in S
  BY <1>0, <1>1, <1>2, <1>3
<1>5. (m - 1) + 1 \in S /\ (m - 1) + 1 = m
  BY <1>2, <1>4
<1> QED BY <1>2, <1>5

-----------------------------------------------------------------------------
(* Parts of a sequence. *)

(* The first n elements, and the others. *)
LEMMA TakeDrop ==
  ASSUME NEW S, NEW s \in Seq(S), NEW n \in 0 .. Len(s)
  PROVE  /\ Take(s, n) \in Seq(S) /\ Len(Take(s, n)) = n
         /\ \A i \in 1 .. n : Take(s, n)[i] = s[i]
         /\ Drop(s, n) \in Seq(S) /\ Len(Drop(s, n)) = Len(s) - n
         /\ \A i \in 1 .. Len(s) - n : Drop(s, n)[i] = s[i + n]
<1>1. Len(s) \in Nat /\ n \in Nat /\ \A i \in 1 .. Len(s) : s[i] \in S
  BY LenProperties, ElementOfSeq
<1>2. /\ SubSeq(s, 1, n) \in Seq(S)
      /\ Len(SubSeq(s, 1, n)) = IF 1 <= n THEN n - 1 + 1 ELSE 0
      /\ \A i \in 1 .. n - 1 + 1 : SubSeq(s, 1, n)[i] = s[1 + i - 1]
  <2>1. \A i \in 1 .. n : s[i] \in S
    BY <1>1
  <2> QED BY <1>1, <2>1, SubSeqProperties
<1>3. /\ SubSeq(s, n + 1, Len(s)) \in Seq(S)
      /\ Len(SubSeq(s, n + 1, Len(s))) = IF n + 1 <= Len(s) THEN Len(s) - (n + 1) + 1 ELSE 0
      /\ \A i \in 1 .. Len(s) - (n + 1) + 1 :
            SubSeq(s, n + 1, Len(s))[i] = s[(n + 1) + i - 1]
  <2>1. \A i \in n + 1 .. Len(s) : s[i] \in S
    BY <1>1
  <2> QED BY <1>1, <2>1, SubSeqProperties
<1>4. ASSUME NEW i \in 1 .. n PROVE SubSeq(s, 1, n)[i] = s[i]
  <2>1. i \in 1 .. n - 1 + 1 /\ 1 + i - 1 = i
    BY <1>1
  <2> QED BY <1>2, <2>1
<1>5. ASSUME NEW i \in 1 .. Len(s) - n PROVE SubSeq(s, n + 1, Len(s))[i] = s[i + n]
  <2>1. i \in 1 .. Len(s) - (n + 1) + 1 /\ (n + 1) + i - 1 = i + n
    BY <1>1
  <2> QED BY <1>3, <2>1
<1>6. Len(SubSeq(s, 1, n)) = n /\ Len(SubSeq(s, n + 1, Len(s))) = Len(s) - n
  BY <1>1, <1>2, <1>3
<1> QED BY <1>2, <1>3, <1>4, <1>5, <1>6 DEF Take, Drop

(* Two parts of the same sequence one after the other. *)
LEMMA TakeOn ==
  ASSUME NEW S, NEW s \in Seq(S), NEW n \in 0 .. Len(s), NEW k \in 0 .. Len(s) - n
  PROVE  Take(s, n) \o Take(Drop(s, n), k) = Take(s, n + k)
<1>1. Len(s) \in Nat /\ n + k \in 0 .. Len(s) /\ n \in Nat /\ k \in Nat
  BY LenProperties
<1>2. /\ Take(s, n) \in Seq(S) /\ Len(Take(s, n)) = n
      /\ \A i \in 1 .. n : Take(s, n)[i] = s[i]
      /\ Drop(s, n) \in Seq(S) /\ Len(Drop(s, n)) = Len(s) - n
      /\ \A i \in 1 .. Len(s) - n : Drop(s, n)[i] = s[i + n]
  BY TakeDrop
<1> DEFINE d == Drop(s, n)
           t == Take(d, k)
           u == Take(s, n)
           v == Take(s, n + k)
<1> HIDE DEF d, u, v
<1>3. t \in Seq(S) /\ Len(t) = k /\ \A i \in 1 .. k : t[i] = d[i]
  BY <1>2, TakeDrop DEF d
<1>4. v \in Seq(S) /\ Len(v) = n + k /\ \A i \in 1 .. n + k : v[i] = s[i]
  BY <1>1, TakeDrop DEF v
<1> HIDE DEF t
<1>5. /\ u \o t \in Seq(S) /\ Len(u \o t) = n + k
      /\ \A i \in 1 .. n + k : (u \o t)[i] = IF i <= n THEN u[i] ELSE t[i - n]
  <2>1. u \in Seq(S) /\ Len(u) = n
    BY <1>2 DEF u
  <2>2. /\ u \o t \in Seq(S) /\ Len(u \o t) = Len(u) + Len(t)
        /\ \A i \in 1 .. Len(u) + Len(t) :
              (u \o t)[i] = IF i <= Len(u) THEN u[i] ELSE t[i - Len(u)]
    BY <1>3, <2>1, ConcatProperties
  <2> QED BY <1>3, <2>1, <2>2
<1>6. ASSUME NEW i \in 1 .. n + k PROVE (u \o t)[i] = v[i]
  <2>1. CASE i <= n
    BY <1>1, <1>2, <1>4, <1>5, <2>1 DEF u
  <2>2. CASE ~(i <= n)
    <3>1. i - n \in 1 .. k /\ i - n \in 1 .. Len(s) - n /\ (i - n) + n = i
      BY <1>1, <2>2
    <3>2. t[i - n] = s[i]
      BY <1>2, <1>3, <3>1 DEF d
    <3> QED BY <1>4, <1>5, <2>2, <3>2
  <2> QED BY <2>1, <2>2
<1> DEFINE x == u \o t
<1> HIDE DEF x
<1>7. x \in Seq(S) /\ Len(x) = Len(v) /\ \A i \in 1 .. Len(x) : x[i] = v[i]
  BY <1>4, <1>5, <1>6 DEF x
<1>8. x = v
  BY <1>4, <1>7, SeqEqual
<1> QED BY <1>8 DEF x, u, t, d, v

-----------------------------------------------------------------------------
(* Framing as a function of the place in the byte string. *)

FrameStep(s, f, i) ==
    IF i + HeaderSize > Len(s) \/ i + HeaderSize + s[i + 2] > Len(s) THEN <<>>
    ELSE <<Record(SubSeq(s, i + 1, i + HeaderSize + s[i + 2]))>> \o f[i + HeaderSize + s[i + 2]]

FramesFrom(s) == CHOOSE f : f = [i \in 0 .. Len(s) |-> FrameStep(s, f, i)]

(* Its recursion ends at the end of the string. *)
LEMMA FramesExist ==
  ASSUME NEW s \in Seq(Nat)
  PROVE  \E f : f = [i \in 0 .. Len(s) |-> FrameStep(s, f, i)]
<1> DEFINE n == Len(s)
           Q(k) == \E f : f = [i \in (n - k) .. n |-> FrameStep(s, f, i)]
           S == {k \in Nat : k <= n => Q(k)}
<1>1. n \in Nat /\ \A i \in 1 .. n : s[i] \in Nat
  BY LenProperties
<1>2. 0 \in S
  <2> DEFINE f == [i \in (n - 0) .. n |-> <<>>]
  <2>1. ASSUME NEW i \in (n - 0) .. n PROVE FrameStep(s, f, i) = <<>>
    BY <1>1 DEF FrameStep, HeaderSize
  <2>2. f = [i \in (n - 0) .. n |-> FrameStep(s, f, i)]
    BY <2>1
  <2> QED BY <2>2
<1>3. ASSUME NEW k \in Nat, k \in S PROVE k + 1 \in S
  <2> SUFFICES ASSUME k + 1 <= n PROVE Q(k + 1)
    OBVIOUS
  <2>1. Q(k)
    BY <1>1, <1>3
  <2>2. PICK f : f = [i \in (n - k) .. n |-> FrameStep(s, f, i)]
    BY <2>1
  <2> DEFINE a == n - (k + 1)
             g == [i \in a .. n |-> IF i = a THEN FrameStep(s, f, i) ELSE f[i]]
  <2>3. a \in Nat /\ a + 1 = n - k /\ a <= n
    BY <1>1
  <2>4. ASSUME NEW i \in a .. n PROVE FrameStep(s, g, i) = FrameStep(s, f, i)
    <3>1. CASE i + HeaderSize > Len(s) \/ i + HeaderSize + s[i + 2] > Len(s)
      BY <3>1 DEF FrameStep
    <3>2. CASE ~(i + HeaderSize > Len(s) \/ i + HeaderSize + s[i + 2] > Len(s))
      <4> DEFINE j == i + HeaderSize + s[i + 2]
      <4>1. i \in Nat /\ s[i + 2] \in Nat
        BY <1>1, <2>3, <3>2 DEF HeaderSize
      <4>2. j \in a .. n /\ j # a
        BY <1>1, <2>3, <3>2, <4>1, SMTT(30) DEF HeaderSize
      <4> HIDE DEF j
      <4>3. g[j] = f[j]
        BY <4>2
      <4> HIDE DEF g
      <4> QED BY <3>2, <4>3 DEF FrameStep, j
    <3> QED BY <3>1, <3>2
  <2>5. ASSUME NEW i \in a .. n PROVE g[i] = FrameStep(s, g, i)
    <3>1. CASE i = a
      BY <2>4, <3>1
    <3>2. CASE i # a
      <4>1. i \in (n - k) .. n
        <5> HIDE DEF a, n
        <5>1. i >= a + 1 /\ i <= n /\ i \in Int
          BY <1>1, <2>3, <3>2
        <5> QED BY <1>1, <2>3, <5>1
      <4>2. f[i] = FrameStep(s, f, i)
        <5> HIDE DEF n
        <5> QED BY <2>2, <4>1
      <4> QED BY <2>4, <3>2, <4>2
    <3> QED BY <3>1, <3>2
  <2>6. g = [i \in a .. n |-> FrameStep(s, g, i)]
    BY <2>5
  <2> QED BY <2>6
<1>4. n \in S
  BY <1>1, <1>2, <1>3, Induct
<1>5. Q(n) /\ n - n = 0
  BY <1>1, <1>4
<1> QED BY <1>5

(* So it is a function, and it satisfies its equation. *)
LEMMA FramesEquation ==
  ASSUME NEW s \in Seq(Nat)
  PROVE  /\ Framing(s) = FramesFrom(s)[0]
         /\ \A i \in 0 .. Len(s) : FramesFrom(s)[i] = FrameStep(s, FramesFrom(s), i)
<1>1. FramesFrom(s) = [i \in 0 .. Len(s) |-> FrameStep(s, FramesFrom(s), i)]
  BY FramesExist DEF FramesFrom
<1>2. Framing(s) = FramesFrom(s)[0]
  BY DEF Framing, FramesFrom, FrameStep
<1> QED BY <1>1, <1>2

-----------------------------------------------------------------------------
(* Where records begin. *)

RecordType == [type : Nat, fragment : Seq(Nat)]

(* The records q are those of s up to the last of the places b. *)
Framed(s, q, b) ==
    /\ b \in [0 .. Len(q) -> 0 .. Len(s)]
    /\ b[0] = 0
    /\ \A k \in 0 .. Len(q) - 1 :
          /\ b[k] + HeaderSize <= Len(s)
          /\ b[k + 1] = b[k] + HeaderSize + s[b[k] + 2]
          /\ q[k + 1] = Record(SubSeq(s, b[k] + 1, b[k + 1]))

(* What follows place e is not a whole record. *)
Incomplete(s, e) == e + HeaderSize > Len(s) \/ e + HeaderSize + s[e + 2] > Len(s)

(* Then q are the records of s. *)
LEMMA FramedIsFraming ==
  ASSUME NEW s \in Seq(Nat), NEW q \in Seq(RecordType), NEW b, Framed(s, q, b),
         Incomplete(s, b[Len(q)])
  PROVE  Framing(s) = q
<1> DEFINE n == Len(q)
           F == FramesFrom(s)
           S == {k \in Nat : k <= n => F[b[n - k]] = SubSeq(q, n - k + 1, n)}
<1>1. /\ n \in Nat /\ Len(s) \in Nat
      /\ Framing(s) = F[0]
      /\ \A i \in 0 .. Len(s) : F[i] = FrameStep(s, F, i)
  BY LenProperties, FramesEquation
<1>2. b \in [0 .. n -> 0 .. Len(s)] /\ b[0] = 0
  BY DEF Framed
<1> HIDE DEF F
<1>3. 0 \in S
  <2>1. n - 0 = n /\ n \in 0 .. n
    BY <1>1
  <2>2. F[b[n]] = <<>>
    BY <1>1, <1>2, <2>1 DEF FrameStep, Incomplete
  <2>3. SubSeq(q, n + 1, n) = <<>>
    BY <1>1, SubSeqEmpty
  <2> HIDE DEF n
  <2> QED BY <2>1, <2>2, <2>3
<1>4. ASSUME NEW k \in Nat, k \in S PROVE k + 1 \in S
  <2> SUFFICES ASSUME k + 1 <= n PROVE F[b[n - (k + 1)]] = SubSeq(q, n - (k + 1) + 1, n)
    OBVIOUS
  <2> DEFINE j == n - (k + 1)
  <2>1. /\ j \in 0 .. n - 1 /\ j \in 0 .. n /\ j + 1 \in 0 .. n /\ j + 1 = n - k
        /\ j + 1 \in 1 .. n /\ n \in j + 1 .. n /\ (j + 1) + 1 = n - k + 1
    BY <1>1
  <2>2. F[b[n - k]] = SubSeq(q, n - k + 1, n)
    BY <1>1, <1>4
  <2>3. /\ b[j] + HeaderSize <= Len(s)
        /\ b[j + 1] = b[j] + HeaderSize + s[b[j] + 2]
        /\ q[j + 1] = Record(SubSeq(s, b[j] + 1, b[j + 1]))
    BY <2>1 DEF Framed
  <2> HIDE DEF j, n
  <2>4. b[j] \in 0 .. Len(s) /\ b[j + 1] \in 0 .. Len(s)
    BY <1>2, <2>1
  <2>5. ~(b[j] + HeaderSize > Len(s) \/ b[j] + HeaderSize + s[b[j] + 2] > Len(s))
    BY <1>1, <2>3, <2>4, SMTT(30) DEF HeaderSize
  <2>6. F[b[j]] = <<q[j + 1]>> \o F[b[j + 1]]
    <3>1. F[b[j]] = FrameStep(s, F, b[j])
      BY <1>1, <2>4
    <3>2. FrameStep(s, F, b[j]) = <<Record(SubSeq(s, b[j] + 1, b[j + 1]))>> \o F[b[j + 1]]
      BY <2>3, <2>5 DEF FrameStep
    <3> QED BY <2>3, <3>1, <3>2
  <2>7. SubSeq(q, j + 1, n) = <<q[j + 1]>> \o SubSeq(q, (j + 1) + 1, n)
    <3>1. j + 1 \in 1 .. Len(q) /\ n \in j + 1 .. Len(q)
      BY <2>1 DEF n
    <3> QED BY <3>1, SubSeqRecursiveFirst
  <2>8. F[b[j]] = SubSeq(q, j + 1, n)
    BY <2>1, <2>2, <2>6, <2>7
  <2> QED BY <2>8 DEF j
<1>5. n \in S
  BY <1>1, <1>3, <1>4, Induct
<1>6. F[b[0]] = SubSeq(q, 1, n)
  <2>1. n - n = 0 /\ 0 + 1 = 1 /\ n <= n
    BY <1>1
  <2> HIDE DEF n
  <2> QED BY <1>5, <2>1
<1>7. SubSeq(q, 1, n) = q
  BY SubSeqFull
<1> QED BY <1>1, <1>2, <1>6, <1>7

(* A part that two sequences have in common. *)
LEMMA SamePart ==
  ASSUME NEW s, NEW t, NEW lo \in Int, NEW hi \in Int,
         \A i \in lo .. hi : t[i] = s[i] /\ s[i] \in Nat
  PROVE  SubSeq(t, lo, hi) = SubSeq(s, lo, hi)
<1> DEFINE u == SubSeq(t, lo, hi)
           v == SubSeq(s, lo, hi)
<1>0. (\A i \in lo .. hi : s[i] \in Nat) /\ (\A i \in lo .. hi : t[i] \in Nat)
  OBVIOUS
<1>1. /\ v \in Seq(Nat) /\ Len(v) = IF lo <= hi THEN hi - lo + 1 ELSE 0
      /\ \A i \in 1 .. hi - lo + 1 : v[i] = s[lo + i - 1]
  BY <1>0, SubSeqProperties
<1>2. /\ u \in Seq(Nat) /\ Len(u) = IF lo <= hi THEN hi - lo + 1 ELSE 0
      /\ \A i \in 1 .. hi - lo + 1 : u[i] = t[lo + i - 1]
  BY <1>0, SubSeqProperties
<1> HIDE DEF u, v
<1>3. ASSUME NEW i \in 1 .. Len(u) PROVE u[i] = v[i]
  <2>1. i \in 1 .. hi - lo + 1 /\ lo + i - 1 \in lo .. hi
    BY <1>2
  <2> QED BY <1>1, <1>2, <2>1
<1>4. Len(u) = Len(v)
  BY <1>1, <1>2
<1>5. u = v
  BY <1>1, <1>2, <1>3, <1>4, SeqEqual
<1> QED BY <1>5 DEF u, v

(* More bytes change nothing about what was there. *)
LEMMA FramedLonger ==
  ASSUME NEW s \in Seq(Nat), NEW q \in Seq(RecordType), NEW b, Framed(s, q, b),
         NEW x \in Seq(Nat)
  PROVE  Framed(s \o x, q, b)
<1> DEFINE t == s \o x
<1>1. /\ t \in Seq(Nat) /\ Len(t) = Len(s) + Len(x)
      /\ \A i \in 1 .. Len(s) + Len(x) : t[i] = IF i <= Len(s) THEN s[i] ELSE x[i - Len(s)]
  BY ConcatProperties
<1>2. Len(s) \in Nat /\ Len(x) \in Nat /\ Len(q) \in Nat
  BY LenProperties
<1>3. \A i \in 1 .. Len(s) : t[i] = s[i]
  BY <1>1, <1>2
<1> HIDE DEF t
<1>4. b \in [0 .. Len(q) -> 0 .. Len(t)]
  <2>1. 0 .. Len(s) \subseteq 0 .. Len(t)
    BY <1>1, <1>2
  <2> QED BY <2>1 DEF Framed
<1>5. ASSUME NEW k \in 0 .. Len(q) - 1
      PROVE  /\ b[k] + HeaderSize <= Len(t)
             /\ b[k + 1] = b[k] + HeaderSize + t[b[k] + 2]
             /\ q[k + 1] = Record(SubSeq(t, b[k] + 1, b[k + 1]))
  <2>1. k \in 0 .. Len(q) /\ k + 1 \in 0 .. Len(q)
    BY <1>2
  <2>2. b[k] \in 0 .. Len(s) /\ b[k + 1] \in 0 .. Len(s)
    BY <2>1 DEF Framed
  <2>3. /\ b[k] + HeaderSize <= Len(s)
        /\ b[k + 1] = b[k] + HeaderSize + s[b[k] + 2]
        /\ q[k + 1] = Record(SubSeq(s, b[k] + 1, b[k + 1]))
    BY DEF Framed
  <2>4. b[k] + 2 \in 1 .. Len(s)
    <3>1. b[k] \in Nat /\ b[k] + 2 <= Len(s)
      BY <1>2, <2>2, <2>3 DEF HeaderSize
    <3> QED BY <1>2, <3>1
  <2>5. SubSeq(t, b[k] + 1, b[k + 1]) = SubSeq(s, b[k] + 1, b[k + 1])
    <3>1. \A i \in b[k] + 1 .. b[k + 1] : t[i] = s[i] /\ s[i] \in Nat
      <4>1. \A i \in 1 .. Len(s) : s[i] \in Nat
        BY ElementOfSeq
      <4> QED BY <1>2, <1>3, <2>2, <4>1
    <3>2. b[k] + 1 \in Int /\ b[k + 1] \in Int
      BY <1>2, <2>2
    <3> QED BY <3>1, <3>2, SamePart
  <2>6. b[k] + HeaderSize <= Len(t)
    BY <1>1, <1>2, <2>2, <2>3 DEF HeaderSize
  <2> QED BY <1>3, <2>3, <2>4, <2>5, <2>6
<1>6. b[0] = 0
  BY DEF Framed
<1> QED BY <1>4, <1>5, <1>6 DEF Framed, t

-----------------------------------------------------------------------------
(* parse_record. *)

(* A part of a record, with a header that was found in order. *)
Part(b) ==
    /\ Len(b) < HeaderSize \/ Len(b) < RecordSize(b)
    /\ Len(b) >= HeaderSize => HeaderOK(b)

(* A whole record. *)
Whole(w) == Len(w) >= HeaderSize /\ Len(w) = RecordSize(w)

(* What parse_record says, of the bytes it was given before and now. *)
ParseSound(b, src, p) ==
    /\ p.used \in 0 .. Len(src)
    /\ \/ /\ p.status = "more" /\ p.used = Len(src)
          /\ p.kept = b \o src /\ Part(p.kept)
       \/ p.status = "record" /\ Whole(b \o Take(src, p.used)) /\ p.record = Record(b \o Take(src, p.used))
       \/ p.status = "decode_error" /\ p.kept \in Seq(Nat) /\ Len(p.kept) <= HeaderSize

(* The fields of what it returns. *)
LEMMA ParsedFields ==
  ASSUME NEW st, NEW rec, NEW used, NEW kept
  PROVE  /\ Parsed(st, rec, used, kept).status = st /\ Parsed(st, rec, used, kept).record = rec
         /\ Parsed(st, rec, used, kept).used = used /\ Parsed(st, rec, used, kept).kept = kept
BY DEF Parsed

(* With a part of a record in recvbuf.rec, or too few bytes for a whole one. *)
LEMMA ParseBufferedOK ==
  ASSUME NEW b \in Seq(Nat), NEW src \in Seq(Nat), Part(b)
  PROVE  ParseSound(b, src, ParseBuffered(b, src))
<1> DEFINE h0 == AtMost(HeaderSize - Len(b), Len(src))
           header == b \o Take(src, h0)
           filled == IF Len(b) < HeaderSize THEN header ELSE b
           h == Len(filled) - Len(b)
           rest == Drop(src, Len(filled) - Len(b))
           t == AtMost(RecordSize(filled) - Len(filled), Len(rest))
           whole == filled \o Take(rest, t)
           p == ParseBuffered(b, src)
<1>1. Len(b) \in Nat /\ Len(src) \in Nat
  BY LenProperties
<1>2. /\ h \in 0 .. Len(src) /\ filled = b \o Take(src, h) /\ filled \in Seq(Nat)
      /\ Len(filled) = Len(b) + h
      /\ Len(b) < HeaderSize => Len(filled) <= HeaderSize
      /\ Len(filled) < HeaderSize => h = Len(src)
  <2>1. CASE Len(b) < HeaderSize
    <3>1. /\ h0 \in 0 .. Len(src) /\ Len(b) + h0 <= HeaderSize
          /\ Len(b) + h0 < HeaderSize => h0 = Len(src)
      BY <1>1, <2>1 DEF AtMost, HeaderSize
    <3> HIDE DEF h0
    <3>2. Take(src, h0) \in Seq(Nat) /\ Len(Take(src, h0)) = h0
      BY <3>1, TakeDrop
    <3>3. header \in Seq(Nat) /\ Len(header) = Len(b) + h0
      BY <3>2, ConcatProperties
    <3>4. filled = header
      BY <2>1
    <3> HIDE DEF filled, header
    <3>5. h = h0
      BY <1>1, <3>1, <3>3, <3>4
    <3> QED BY <1>1, <3>1, <3>3, <3>4, <3>5 DEF header
  <2>2. CASE ~(Len(b) < HeaderSize)
    <3>1. filled = b /\ h = 0
      BY <1>1, <2>2
    <3>2. Take(src, 0) = <<>>
      BY SubSeqEmpty DEF Take
    <3>3. b \o <<>> = b
      BY ConcatEmptySeq
    <3> HIDE DEF filled
    <3> QED BY <1>1, <2>2, <3>1, <3>2, <3>3
  <2> QED BY <2>1, <2>2
<1>2a. Len(filled) \in Nat /\ h \in Nat
  BY <1>2, LenProperties
<1>3. rest = Drop(src, h)
  OBVIOUS
<1>4. \/ Len(filled) < HeaderSize /\ p = Parsed("more", NoRecord, Len(src), filled)
      \/ /\ Len(filled) >= HeaderSize /\ ~HeaderOK(filled)
         /\ p = Parsed("decode_error", NoRecord, Len(src), filled)
      \/ /\ Len(filled) >= HeaderSize /\ HeaderOK(filled) /\ Len(whole) = RecordSize(whole)
         /\ p = Parsed("record", Record(whole), Len(whole) - Len(b), whole)
      \/ /\ Len(filled) >= HeaderSize /\ HeaderOK(filled) /\ Len(whole) # RecordSize(whole)
         /\ p = Parsed("more", NoRecord, Len(src), whole)
  <2> DEFINE hdr == ~(Len(filled) < HeaderSize)
  <2>1. hdr => Len(filled) >= HeaderSize
    BY <1>1, <1>2 DEF HeaderSize
  <2>2. p = IF Len(filled) < HeaderSize THEN Parsed("more", NoRecord, Len(src), filled)
            ELSE IF ~HeaderOK(filled) THEN Parsed("decode_error", NoRecord, Len(src), filled)
            ELSE IF Len(whole) = RecordSize(whole)
                 THEN Parsed("record", Record(whole), Len(whole) - Len(b), whole)
            ELSE Parsed("more", NoRecord, Len(src), whole)
    BY DEF ParseBuffered
  <2> HIDE DEF p, filled, whole
  <2> QED BY <2>1, <2>2
<1> HIDE DEF filled, h, rest, whole, p
<1>5. CASE Len(filled) < HeaderSize /\ p = Parsed("more", NoRecord, Len(src), filled)
  <2>1. h = Len(src) /\ Take(src, Len(src)) = src
    BY <1>2, <1>5, SubSeqFull DEF Take
  <2>2. p.status = "more" /\ p.used = Len(src) /\ p.kept = filled
    BY <1>5, ParsedFields
  <2>3. filled = b \o src
    BY <1>2, <2>1
  <2>4. Part(filled)
    BY <1>1, <1>2, <1>5 DEF Part, HeaderSize
  <2> QED BY <1>1, <2>2, <2>3, <2>4 DEF ParseSound, p
<1>6. CASE /\ Len(filled) >= HeaderSize /\ ~HeaderOK(filled)
           /\ p = Parsed("decode_error", NoRecord, Len(src), filled)
  <2>1. p.status = "decode_error" /\ p.used = Len(src) /\ p.kept = filled
    BY <1>6, ParsedFields
  <2>2. Len(b) < HeaderSize
    <3>1. CASE Len(b) >= HeaderSize
      <4>1. filled = b /\ HeaderOK(b)
        BY <1>1, <3>1 DEF filled, Part, HeaderSize
      <4> QED BY <1>6, <4>1
    <3> QED BY <1>1, <3>1 DEF HeaderSize
  <2>3. Len(filled) <= HeaderSize /\ filled \in Seq(Nat)
    BY <1>2, <2>2
  <2> QED BY <1>1, <2>1, <2>3 DEF ParseSound, p
<1>7. ASSUME Len(filled) >= HeaderSize, HeaderOK(filled)
      PROVE  /\ h + t \in 0 .. Len(src) /\ t \in Nat
             /\ whole = b \o Take(src, h + t) /\ whole \in Seq(Nat)
             /\ Len(whole) = Len(b) + (h + t) /\ Len(whole) >= HeaderSize
             /\ whole[1] = filled[1] /\ whole[2] = filled[2]
             /\ t < RecordSize(filled) - Len(filled) => h + t = Len(src)
             /\ Len(whole) <= RecordSize(filled)
  <2>1. rest \in Seq(Nat) /\ Len(rest) = Len(src) - h
    BY <1>2, <1>3, TakeDrop
  <2>2. filled[2] \in Nat
    <3>1. 2 \in 1 .. Len(filled)
      BY <1>2a, <1>7 DEF HeaderSize
    <3> QED BY <1>2, <3>1, ElementOfSeq
  <2>3. Len(filled) <= RecordSize(filled) /\ RecordSize(filled) \in Nat
    <3>1. CASE Len(b) < HeaderSize
      <4>1. Len(filled) <= HeaderSize
        BY <1>2, <3>1
      <4> QED BY <1>2a, <2>2, <4>1 DEF RecordSize, HeaderSize
    <3>2. CASE ~(Len(b) < HeaderSize)
      <4>1. filled = b
        BY <3>2 DEF filled
      <4> QED BY <1>1, <2>2, <3>2, <4>1 DEF Part, RecordSize, HeaderSize
    <3> QED BY <3>1, <3>2
  <2>4. /\ t \in 0 .. Len(src) - h /\ t <= RecordSize(filled) - Len(filled)
        /\ t < RecordSize(filled) - Len(filled) => t = Len(src) - h
    <3> DEFINE want == RecordSize(filled) - Len(filled)
    <3>1. want \in Nat /\ Len(rest) \in Nat
      BY <1>1, <1>2, <1>2a, <2>1, <2>3
    <3>2. t = AtMost(want, Len(rest))
      OBVIOUS
    <3> HIDE DEF want, t
    <3>3. t \in 0 .. Len(src) - h /\ t <= want /\ (t < want => t = Len(src) - h)
      BY <2>1, <3>1, <3>2 DEF AtMost
    <3> QED BY <3>3 DEF want
  <2> HIDE DEF t
  <2>5. Take(rest, t) \in Seq(Nat) /\ Len(Take(rest, t)) = t
    BY <2>1, <2>4, TakeDrop
  <2>6. /\ filled \o Take(rest, t) \in Seq(Nat)
        /\ Len(filled \o Take(rest, t)) = Len(filled) + Len(Take(rest, t))
        /\ \A i \in 1 .. Len(filled) + Len(Take(rest, t)) :
              (filled \o Take(rest, t))[i] =
                  IF i <= Len(filled) THEN filled[i] ELSE Take(rest, t)[i - Len(filled)]
    <3> DEFINE r == Take(rest, t)
    <3> HIDE DEF r
    <3>1. filled \in Seq(Nat) /\ r \in Seq(Nat)
      BY <1>2, <2>5 DEF r
    <3>2. /\ filled \o r \in Seq(Nat)
          /\ Len(filled \o r) = Len(filled) + Len(r)
          /\ \A i \in 1 .. Len(filled) + Len(r) :
                (filled \o r)[i] = IF i <= Len(filled) THEN filled[i] ELSE r[i - Len(filled)]
      BY <3>1, ConcatProperties
    <3> QED BY <3>2 DEF r
  <2>7. whole \in Seq(Nat) /\ Len(whole) = Len(filled) + t
    BY <2>5, <2>6 DEF whole
  <2>8. whole[1] = filled[1] /\ whole[2] = filled[2]
    <3>1. 1 \in 1 .. Len(filled) + t /\ 2 \in 1 .. Len(filled) + t /\ 1 <= Len(filled) /\ 2 <= Len(filled)
      BY <1>2a, <1>7, <2>4 DEF HeaderSize
    <3> QED BY <2>5, <2>6, <3>1 DEF whole
  <2>9. Take(src, h) \o Take(rest, t) = Take(src, h + t)
    BY <1>2, <1>3, <2>4, TakeOn
  <2>10. whole = b \o Take(src, h + t)
    <3>1. Take(src, h) \in Seq(Nat)
      BY <1>2, TakeDrop
    <3>2. (b \o Take(src, h)) \o Take(rest, t) = b \o (Take(src, h) \o Take(rest, t))
      BY <2>5, <3>1, ConcatAssociative, SMTT(30)
    <3> QED BY <1>2, <2>9, <3>2 DEF whole
  <2>11. /\ h + t \in 0 .. Len(src) /\ t \in Nat
         /\ t < RecordSize(filled) - Len(filled) => h + t = Len(src)
    BY <1>1, <1>2a, <2>4
  <2>12. Len(whole) = Len(b) + (h + t)
    BY <1>1, <1>2, <1>2a, <2>7, <2>11
  <2>13. Len(whole) >= HeaderSize /\ Len(whole) <= RecordSize(filled)
    BY <1>2a, <1>7, <2>3, <2>4, <2>7, <2>11, SMTT(30) DEF HeaderSize
  <2> QED BY <2>7, <2>8, <2>10, <2>11, <2>12, <2>13
<1> HIDE DEF t
<1>8. CASE /\ Len(filled) >= HeaderSize /\ HeaderOK(filled) /\ Len(whole) = RecordSize(whole)
           /\ p = Parsed("record", Record(whole), Len(whole) - Len(b), whole)
  <2>1. p.status = "record" /\ p.record = Record(whole) /\ p.used = Len(whole) - Len(b)
    BY <1>8, ParsedFields
  <2>2. p.used = h + t
    BY <1>1, <1>2, <1>7, <1>8, <2>1
  <2>3. whole = b \o Take(src, p.used) /\ p.used \in 0 .. Len(src)
    BY <1>7, <1>8, <2>2
  <2>4. Whole(whole)
    BY <1>7, <1>8 DEF Whole
  <2> QED BY <2>1, <2>3, <2>4 DEF ParseSound, p
<1>9. CASE /\ Len(filled) >= HeaderSize /\ HeaderOK(filled) /\ Len(whole) # RecordSize(whole)
           /\ p = Parsed("more", NoRecord, Len(src), whole)
  <2>1. p.status = "more" /\ p.used = Len(src) /\ p.kept = whole
    BY <1>9, ParsedFields
  <2>2. RecordSize(whole) = RecordSize(filled) /\ HeaderOK(whole) /\ RecordSize(filled) \in Int
    <3>0. 2 \in 1 .. Len(filled)
      BY <1>2a, <1>9 DEF HeaderSize
    <3>1. filled[2] \in Nat
      BY <1>2, <3>0, ElementOfSeq
    <3> QED BY <1>7, <1>9, <3>1, SMTT(30) DEF RecordSize, HeaderOK, HeaderSize
  <2>3. Len(whole) < RecordSize(whole)
    BY <1>1, <1>2, <1>7, <1>9, <2>2, SMTT(30)
  <2>4. h + t = Len(src)
    BY <1>1, <1>2, <1>7, <1>9, <2>2, <2>3, SMTT(30)
  <2>5. Take(src, Len(src)) = src
    BY SubSeqFull DEF Take
  <2>6. whole = b \o src
    BY <1>7, <1>9, <2>4, <2>5
  <2>7. Part(whole)
    BY <2>2, <2>3 DEF Part
  <2> QED BY <1>1, <2>1, <2>6, <2>7 DEF ParseSound, p
<1> QED BY <1>4, <1>5, <1>6, <1>8, <1>9 DEF p

(* parse_record, whether the record is all there or not. *)
LEMMA ParseRecordOK ==
  ASSUME NEW b \in Seq(Nat), NEW src \in Seq(Nat), Part(b)
  PROVE  ParseSound(b, src, ParseRecord(b, src))
<1> DEFINE p == ParseRecord(b, src)
           n == RecordSize(src)
<1>1. Len(b) \in Nat /\ Len(src) \in Nat /\ <<>> \in Seq(Nat) /\ Len(<<>>) = 0
  BY LenProperties, EmptySeq
<1>2. \/ p = Parsed("decode_error", NoRecord, Len(src), <<>>)
      \/ /\ b = <<>> /\ Len(src) >= HeaderSize /\ n <= Len(src)
         /\ p = Parsed("record", Record(Take(src, n)), n, <<>>)
      \/ p = ParseBuffered(b, src)
  <2> HIDE DEF n
  <2> QED BY DEF ParseRecord, n
<1> HIDE DEF p
<1>3. CASE p = Parsed("decode_error", NoRecord, Len(src), <<>>)
  <2>1. p.status = "decode_error" /\ p.used = Len(src) /\ p.kept = <<>>
    BY <1>3, ParsedFields
  <2>2. Len(<<>>) <= HeaderSize
    BY <1>1 DEF HeaderSize
  <2> QED BY <1>1, <2>1, <2>2 DEF ParseSound, p
<1>4. CASE /\ b = <<>> /\ Len(src) >= HeaderSize /\ n <= Len(src)
           /\ p = Parsed("record", Record(Take(src, n)), n, <<>>)
  <2>1. p.status = "record" /\ p.used = n /\ p.record = Record(Take(src, n))
    BY <1>4, ParsedFields
  <2>2. 2 \in 1 .. Len(src)
    BY <1>1, <1>4 DEF HeaderSize
  <2>3. src[2] \in Nat
    BY <2>2, ElementOfSeq
  <2>4. n \in 0 .. Len(src) /\ n >= HeaderSize /\ 2 \in 1 .. n
    BY <1>1, <1>4, <2>3 DEF RecordSize, HeaderSize
  <2>5. /\ Take(src, n) \in Seq(Nat) /\ Len(Take(src, n)) = n
        /\ \A i \in 1 .. n : Take(src, n)[i] = src[i]
    BY <2>4, TakeDrop
  <2>6. Whole(Take(src, n))
    <3>1. RecordSize(Take(src, n)) = RecordSize(src)
      BY <2>4, <2>5 DEF RecordSize
    <3>2. Len(Take(src, n)) = n /\ n >= HeaderSize
      BY <2>4, <2>5
    <3> QED BY <3>1, <3>2 DEF Whole
  <2>7. b \o Take(src, n) = Take(src, n)
    BY <1>4, <2>5, ConcatEmptySeq
  <2> QED BY <2>1, <2>4, <2>6, <2>7 DEF ParseSound, p
<1>5. CASE p = ParseBuffered(b, src)
  BY <1>5, ParseBufferedOK DEF p
<1> QED BY <1>2, <1>3, <1>4, <1>5

-----------------------------------------------------------------------------
(* The records handled are those of the byte string. *)

(* taken is whole records, which were handled, followed by what is in buf. *)
FrameInv ==
    /\ mode \in Modes
    /\ chunk \in Seq(Nat) /\ taken \in Seq(Nat) /\ buf \in Seq(Nat)
    /\ seen \in Seq(RecordType)
    /\ result = "ok" =>
          /\ Part(buf)
          /\ \E b : Framed(taken, seen, b) /\ buf = Drop(taken, b[Len(seen)])

(* Then no more whole records are in it than were handled. *)
LEMMA FramedAll ==
  ASSUME FrameInv, result = "ok"
  PROVE  seen = Framing(taken)
<1>1. PICK b : Framed(taken, seen, b) /\ buf = Drop(taken, b[Len(seen)])
  BY DEF FrameInv
<1> DEFINE e == b[Len(seen)]
<1>2. taken \in Seq(Nat) /\ seen \in Seq(RecordType) /\ Part(buf)
  BY DEF FrameInv
<1>3. Len(seen) \in Nat /\ Len(taken) \in Nat
  BY <1>2, LenProperties
<1>4. e \in 0 .. Len(taken)
  BY <1>1, <1>3 DEF Framed
<1> HIDE DEF e
<1>5. Len(buf) = Len(taken) - e /\ \A i \in 1 .. Len(taken) - e : buf[i] = taken[i + e]
  <2>1. /\ Len(Drop(taken, e)) = Len(taken) - e
        /\ \A i \in 1 .. Len(taken) - e : Drop(taken, e)[i] = taken[i + e]
    BY <1>2, <1>4, TakeDrop
  <2>2. buf = Drop(taken, e)
    BY <1>1 DEF e
  <2> QED BY <2>1, <2>2
<1>6. Incomplete(taken, e)
  <2>1. CASE Len(buf) < HeaderSize
    BY <1>3, <1>4, <1>5, <2>1 DEF Incomplete, HeaderSize
  <2>2. CASE ~(Len(buf) < HeaderSize)
    <3>1. 2 \in 1 .. Len(taken) - e
      BY <1>3, <1>4, <1>5, <2>2 DEF HeaderSize
    <3>2. buf[2] = taken[e + 2]
      BY <1>4, <1>5, <3>1
    <3>3. taken[e + 2] \in Nat
      <4>1. e + 2 \in 1 .. Len(taken)
        BY <1>3, <1>4, <3>1
      <4> QED BY <1>2, <4>1, ElementOfSeq
    <3>4. Len(buf) < HeaderSize + taken[e + 2]
      BY <1>2, <2>2, <3>2 DEF Part, RecordSize
    <3> QED BY <1>3, <1>4, <1>5, <3>3, <3>4 DEF Incomplete, HeaderSize
  <2> QED BY <2>1, <2>2
<1> QED BY <1>1, <1>2, <1>6, FramedIsFraming DEF e

(* A whole record has its type. *)
LEMMA RecordTyped ==
  ASSUME NEW w \in Seq(Nat), Len(w) >= HeaderSize
  PROVE  Record(w) \in RecordType
<1>1. Len(w) \in Nat
  BY LenProperties
<1>2. 1 \in 1 .. Len(w) /\ HeaderSize \in 0 .. Len(w)
  BY <1>1 DEF HeaderSize
<1>3. w[1] \in Nat /\ Drop(w, HeaderSize) \in Seq(Nat)
  BY <1>2, ElementOfSeq, TakeDrop
<1> QED BY <1>3 DEF Record, RecordType

(* One more record of the byte string. *)
LEMMA FramedOneMore ==
  ASSUME NEW s \in Seq(Nat), NEW q \in Seq(RecordType), NEW b, Framed(s, q, b),
         NEW w, w = Drop(s, b[Len(q)]), Whole(w)
  PROVE  \E c : /\ Framed(s, Append(q, Record(w)), c)
                /\ c[Len(Append(q, Record(w)))] = Len(s)
<1> DEFINE n == Len(q)
           e == b[n]
           r == Record(w)
           c == [k \in 0 .. n + 1 |-> IF k <= n THEN b[k] ELSE Len(s)]
<1>1. n \in Nat /\ Len(s) \in Nat /\ b \in [0 .. n -> 0 .. Len(s)] /\ b[0] = 0
  BY LenProperties DEF Framed
<1>2. e \in 0 .. Len(s)
  BY <1>1
<1> HIDE DEF e
<1>3. /\ w \in Seq(Nat) /\ Len(w) = Len(s) - e
      /\ \A i \in 1 .. Len(s) - e : w[i] = s[i + e]
  <2>1. /\ Drop(s, e) \in Seq(Nat) /\ Len(Drop(s, e)) = Len(s) - e
        /\ \A i \in 1 .. Len(s) - e : Drop(s, e)[i] = s[i + e]
    BY <1>2, TakeDrop
  <2>2. w = Drop(s, e)
    BY DEF e
  <2> QED BY <2>1, <2>2
<1>4. r \in RecordType
  BY <1>3, RecordTyped DEF Whole
<1> HIDE DEF r
<1>5. /\ Append(q, r) \in Seq(RecordType) /\ Len(Append(q, r)) = n + 1
      /\ \A i \in 1 .. n : Append(q, r)[i] = q[i]
      /\ Append(q, r)[n + 1] = r
  BY <1>4, AppendProperties
<1>6. /\ c \in [0 .. n + 1 -> 0 .. Len(s)] /\ c[0] = 0 /\ c[n + 1] = Len(s) /\ c[n] = e
      /\ \A k \in 0 .. n : c[k] = b[k]
  BY <1>1 DEF e
<1> HIDE DEF c, n
<1>7. e + HeaderSize <= Len(s) /\ Len(s) = e + HeaderSize + s[e + 2] /\ w = SubSeq(s, e + 1, Len(s))
  <2>1. Len(w) >= HeaderSize /\ Len(w) = HeaderSize + w[2]
    BY DEF Whole, RecordSize
  <2>2. 2 \in 1 .. Len(s) - e
    BY <1>1, <1>2, <1>3, <2>1 DEF HeaderSize
  <2>3. w[2] = s[e + 2] /\ w[2] \in Nat
    <3>1. 2 + e = e + 2
      BY <1>2
    <3> QED BY <1>3, <2>2, <3>1, ElementOfSeq
  <2>4. w = SubSeq(s, e + 1, Len(s))
    BY DEF Drop, e, n
  <2>5. e \in Nat /\ Len(s) \in Nat /\ Len(s) - e >= 2 /\ Len(s) - e = 2 + s[e + 2] /\ s[e + 2] \in Nat
    <3>1. e \in Nat /\ Len(s) \in Nat
      BY <1>1, <1>2
    <3>2. Len(w) = Len(s) - e
      BY <1>3
    <3>3. Len(w) >= 2 /\ Len(w) = 2 + w[2]
      BY <2>1 DEF HeaderSize
    <3> QED BY <2>3, <3>1, <3>2, <3>3
  <2>6. e + HeaderSize <= Len(s) /\ Len(s) = e + HeaderSize + s[e + 2]
    BY <2>5 DEF HeaderSize
  <2> QED BY <2>4, <2>6
<1>8. ASSUME NEW k \in 0 .. n
      PROVE  /\ c[k] + HeaderSize <= Len(s)
             /\ c[k + 1] = c[k] + HeaderSize + s[c[k] + 2]
             /\ Append(q, r)[k + 1] = Record(SubSeq(s, c[k] + 1, c[k + 1]))
  <2>1. CASE k = n
    BY <1>5, <1>6, <1>7, <2>1 DEF r
  <2>2. CASE k # n
    <3>1. k \in 0 .. n - 1 /\ k + 1 \in 0 .. n /\ k + 1 \in 1 .. n
      BY <1>1, <2>2
    <3>2. /\ b[k] + HeaderSize <= Len(s)
          /\ b[k + 1] = b[k] + HeaderSize + s[b[k] + 2]
          /\ q[k + 1] = Record(SubSeq(s, b[k] + 1, b[k + 1]))
      BY <3>1 DEF Framed, n
    <3> QED BY <1>5, <1>6, <3>1, <3>2
  <2> QED BY <2>1, <2>2
<1>9. (n + 1) - 1 = n
  BY <1>1
<1>10. Framed(s, Append(q, r), c)
  BY <1>5, <1>6, <1>8, <1>9 DEF Framed
<1> QED BY <1>5, <1>6, <1>10 DEF r

(* Nothing has arrived. *)
LEMMA FrameInit ==
  ASSUME Init
  PROVE  FrameInv
<1>1. /\ mode \in Modes /\ chunk = <<>> /\ buf = <<>> /\ taken = <<>> /\ seen = <<>>
      /\ result = "ok"
  BY DEF Init
<1>2. <<>> \in Seq(Nat) /\ <<>> \in Seq(RecordType) /\ Len(<<>>) = 0
  BY EmptySeq
<1>3. Part(<<>>)
  BY <1>2 DEF Part, HeaderSize
<1> DEFINE b == [k \in 0 .. 0 |-> 0]
<1>4. b[0] = 0 /\ b \in [0 .. 0 -> 0 .. 0] /\ 0 .. 0 - 1 = {}
  OBVIOUS
<1> HIDE DEF b
<1>5. Framed(<<>>, <<>>, b)
  BY <1>2, <1>4 DEF Framed
<1>6. Drop(<<>>, b[Len(<<>>)]) = <<>>
  <2>1. SubSeq(<<>>, 0 + 1, 0) = <<>>
    BY <1>2, SubSeqEmpty
  <2> QED BY <1>2, <1>4, <2>1 DEF Drop
<1> QED BY <1>1, <1>2, <1>3, <1>5, <1>6 DEF FrameInv

(* What follows e when more bytes come. *)
LEMMA DropLonger ==
  ASSUME NEW s \in Seq(Nat), NEW x \in Seq(Nat), NEW e \in 0 .. Len(s)
  PROVE  Drop(s \o x, e) = Drop(s, e) \o x
<1> DEFINE t == s \o x
           d == Drop(s, e)
           u == d \o x
           v == Drop(t, e)
<1>1. /\ t \in Seq(Nat) /\ Len(t) = Len(s) + Len(x)
      /\ \A i \in 1 .. Len(s) + Len(x) : t[i] = IF i <= Len(s) THEN s[i] ELSE x[i - Len(s)]
  BY ConcatProperties
<1>2. Len(s) \in Nat /\ Len(x) \in Nat /\ e \in Nat /\ e <= Len(s)
  BY LenProperties
<1>3. d \in Seq(Nat) /\ Len(d) = Len(s) - e /\ \A i \in 1 .. Len(s) - e : d[i] = s[i + e]
  BY TakeDrop
<1> HIDE DEF t, d
<1>4. e \in 0 .. Len(t)
  BY <1>1, <1>2
<1>5. v \in Seq(Nat) /\ Len(v) = Len(t) - e /\ \A i \in 1 .. Len(t) - e : v[i] = t[i + e]
  BY <1>1, <1>4, TakeDrop
<1>6. /\ u \in Seq(Nat) /\ Len(u) = Len(d) + Len(x)
      /\ \A i \in 1 .. Len(d) + Len(x) : u[i] = IF i <= Len(d) THEN d[i] ELSE x[i - Len(d)]
  BY <1>3, ConcatProperties
<1> HIDE DEF u, v
<1>7. Len(u) = Len(v) /\ Len(u) = Len(s) + Len(x) - e
  BY <1>1, <1>2, <1>3, <1>5, <1>6
<1>8. ASSUME NEW i \in 1 .. Len(u) PROVE u[i] = v[i]
  <2>1. /\ i \in Nat /\ i \in 1 .. Len(t) - e /\ i + e \in 1 .. Len(s) + Len(x)
        /\ i \in 1 .. Len(d) + Len(x) /\ (i + e <= Len(s) <=> i <= Len(d))
        /\ i - Len(d) = (i + e) - Len(s)
    BY <1>1, <1>2, <1>3, <1>7
  <2>2. v[i] = IF i + e <= Len(s) THEN s[i + e] ELSE x[(i + e) - Len(s)]
    BY <1>1, <1>5, <2>1
  <2>3. u[i] = IF i <= Len(d) THEN d[i] ELSE x[i - Len(d)]
    BY <1>6, <2>1
  <2>4. i <= Len(d) => d[i] = s[i + e]
    BY <1>3, <2>1
  <2> QED BY <2>1, <2>2, <2>3, <2>4, SMTT(30)
<1>9. u = v
  BY <1>5, <1>6, <1>7, <1>8, SeqEqual
<1> QED BY <1>9 DEF u, v, d, t

(* What handle_input does with the answer of parse_record keeps it so. *)
LEMMA FrameInput ==
  ASSUME FrameInv, HandleInput
  PROVE  FrameInv'
<1> DEFINE p == ParseRecord(buf, chunk)
<1>1. /\ result = "ok" /\ mode' = mode
      /\ NeedsMore(p) \/ BadHeader(p) \/ OneRecord(p)
      /\ chunk' = Drop(chunk, p.used)
      /\ taken' = taken \o Take(chunk, p.used)
  BY DEF HandleInput
<1>2. /\ mode \in Modes /\ chunk \in Seq(Nat) /\ taken \in Seq(Nat) /\ buf \in Seq(Nat)
      /\ seen \in Seq(RecordType) /\ Part(buf)
  BY <1>1 DEF FrameInv
<1>3. PICK b : Framed(taken, seen, b) /\ buf = Drop(taken, b[Len(seen)])
  BY <1>1 DEF FrameInv
<1>4. ParseSound(buf, chunk, p)
  BY <1>2, ParseRecordOK
<1> HIDE DEF p
<1> DEFINE x == Take(chunk, p.used)
           t == taken \o x
           e == b[Len(seen)]
<1>5. p.used \in 0 .. Len(chunk)
  BY <1>4 DEF ParseSound
<1>6. x \in Seq(Nat) /\ Drop(chunk, p.used) \in Seq(Nat)
  BY <1>2, <1>5, TakeDrop
<1>7. t \in Seq(Nat) /\ taken' = t
  BY <1>1, <1>2, <1>6, ConcatProperties
<1>8. e \in 0 .. Len(taken)
  <2>1. Len(seen) \in 0 .. Len(seen)
    BY <1>2, LenProperties
  <2> QED BY <1>3, <2>1 DEF Framed
<1> HIDE DEF e, x
<1>9. Framed(t, seen, b)
  BY <1>2, <1>3, <1>6, FramedLonger
<1>10. Drop(t, e) = buf \o x
  <2>1. Drop(t, e) = Drop(taken, e) \o x
    BY <1>2, <1>6, <1>8, DropLonger
  <2> QED BY <1>3, <2>1 DEF e
<1> HIDE DEF t
<1>11. CASE NeedsMore(p)
  <2>1. p.status = "more" /\ buf' = p.kept /\ result' = result /\ seen' = seen
    BY <1>11 DEF NeedsMore
  <2>2. p.used = Len(chunk) /\ p.kept = buf \o chunk /\ Part(p.kept)
    BY <1>4, <2>1 DEF ParseSound
  <2>3. x = chunk
    BY <1>2, <2>2, SubSeqFull DEF x, Take
  <2>4. buf' = Drop(t, e) /\ Part(buf')
    BY <1>10, <2>1, <2>2, <2>3
  <2>5. buf' \in Seq(Nat)
    BY <1>2, <2>1, <2>2, ConcatProperties
  <2>6. Framed(taken', seen', b) /\ buf' = Drop(taken', b[Len(seen')])
    BY <1>7, <1>9, <2>1, <2>4 DEF e
  <2> QED BY <1>1, <1>2, <1>6, <1>7, <2>1, <2>4, <2>5, <2>6 DEF FrameInv
<1>12. CASE BadHeader(p)
  <2>1. p.status = "decode_error" /\ buf' = p.kept /\ result' = p.status /\ seen' = seen
    BY <1>12 DEF BadHeader
  <2>2. p.kept \in Seq(Nat)
    BY <1>4, <2>1 DEF ParseSound
  <2> QED BY <1>1, <1>2, <1>6, <1>7, <2>1, <2>2 DEF FrameInv
<1>13. CASE OneRecord(p)
  <2>1. p.status = "record" /\ buf' = <<>> /\ seen' = Append(seen, p.record)
    BY <1>13 DEF OneRecord
  <2> DEFINE w == buf \o x
  <2>2. Whole(w) /\ p.record = Record(w)
    BY <1>4, <2>1 DEF ParseSound, x
  <2>3. w = Drop(t, b[Len(seen)])
    BY <1>10 DEF e
  <2>4. w \in Seq(Nat)
    BY <1>2, <1>6, ConcatProperties
  <2> HIDE DEF w
  <2>5. Record(w) \in RecordType
    BY <2>2, <2>4, RecordTyped DEF Whole
  <2>6. seen' \in Seq(RecordType)
    BY <1>2, <2>1, <2>2, <2>5, AppendProperties
  <2>7. PICK c : Framed(t, Append(seen, Record(w)), c) /\ c[Len(Append(seen, Record(w)))] = Len(t)
    BY <1>2, <1>7, <1>9, <2>2, <2>3, FramedOneMore, SMTT(30)
  <2>8. Framed(t, seen', c) /\ c[Len(seen')] = Len(t)
    BY <2>1, <2>2, <2>7
  <2>9. Drop(t, Len(t)) = <<>>
    <3>1. Len(t) \in Nat
      BY <1>7, LenProperties
    <3>2. Len(t) + 1 > Len(t) /\ Len(t) + 1 \in Int
      BY <3>1
    <3> QED BY <1>7, <3>1, <3>2, SubSeqEmpty DEF Drop
  <2>10. Framed(taken', seen', c) /\ buf' = Drop(taken', c[Len(seen')])
    BY <1>7, <2>1, <2>8, <2>9
  <2>11. <<>> \in Seq(Nat) /\ Part(<<>>)
    BY EmptySeq DEF Part, HeaderSize
  <2> QED BY <1>1, <1>2, <1>6, <1>7, <2>1, <2>6, <2>10, <2>11 DEF FrameInv
<1> QED BY <1>1, <1>11, <1>12, <1>13

(* Every step keeps it. *)
LEMMA FrameNext ==
  ASSUME FrameInv, [Next]_vars
  PROVE  FrameInv'
<1>1. CASE UNCHANGED vars
  BY <1>1 DEF vars, FrameInv
<1>2. CASE \E c \in Cells[mode] : Arrive(c)
  <2>1. PICK c \in Cells[mode] : Arrive(c)
    BY <1>2
  <2>2. c \in Nat
    BY RecordsAssumption DEF FrameInv
  <2>3. chunk' = Append(chunk, c) /\ UNCHANGED <<mode, buf, result, taken, seen>>
    BY <2>1 DEF Arrive
  <2>4. chunk' \in Seq(Nat)
    BY <2>2, <2>3, AppendProperties DEF FrameInv
  <2> QED BY <2>3, <2>4 DEF FrameInv
<1> QED BY <1>1, <1>2, FrameInput DEF Next

(* However the bytes are cut up, the records handled are those of the byte  *)
(* string (CutsDoNotMatter): parse_record's fast path, which reads a record *)
(* where it lies, and its slow path, which completes recvbuf.rec over       *)
(* several calls, agree with reading everything at one go, for every length *)
(* and every limit.                                                         *)
THEOREM CutsAreHarmless == Spec => []CutsDoNotMatter
<1>1. Init => FrameInv
  BY FrameInit
<1>2. FrameInv /\ [Next]_vars => FrameInv'
  BY FrameNext
<1>3. FrameInv => CutsDoNotMatter
  BY FramedAll DEF CutsDoNotMatter
<1> QED BY <1>1, <1>2, <1>3, PTL DEF Spec

-----------------------------------------------------------------------------
(* The loop of handle_handshake_record, as a function of the place. *)

MessageEnd(s, i) == i + 1 + s[i + 1]

(* No whole message is left at place i. *)
NoneLeft(s, i) == i = Len(s) \/ MessageEnd(s, i) > Len(s)

CallAt(s, i) ==
    [message |-> SubSeq(s, i + 1, MessageEnd(s, i)), last |-> MessageEnd(s, i) = Len(s)]

LoopStep(s, f, i) ==
    IF NoneLeft(s, i) THEN [calls |-> <<>>, used |-> i, refused |-> FALSE]
    ELSE IF CallAt(s, i).message \in Refused
         THEN [calls |-> <<CallAt(s, i)>>, used |-> MessageEnd(s, i), refused |-> TRUE]
         ELSE [f[MessageEnd(s, i)] EXCEPT !.calls = <<CallAt(s, i)>> \o @]

LoopFrom(s) == CHOOSE f : f = [i \in 0 .. Len(s) |-> LoopStep(s, f, i)]

(* A message that is whole ends behind its beginning. *)
LEMMA MessageEnds ==
  ASSUME NEW s \in Seq(Nat), NEW i \in 0 .. Len(s), ~NoneLeft(s, i)
  PROVE  /\ MessageEnd(s, i) \in 0 .. Len(s) /\ i < MessageEnd(s, i) /\ i < Len(s)
         /\ s[i + 1] \in Nat /\ i + 1 \in 1 .. Len(s)
<1>1. Len(s) \in Nat /\ i \in Nat /\ i # Len(s) /\ ~(i + 1 + s[i + 1] > Len(s))
  BY LenProperties DEF NoneLeft, MessageEnd
<1>2. i + 1 \in 1 .. Len(s)
  BY <1>1
<1>3. s[i + 1] \in Nat
  BY <1>2, ElementOfSeq
<1> QED BY <1>1, <1>2, <1>3 DEF MessageEnd

(* The recursion ends at the end of the bytes. *)
LEMMA LoopExists ==
  ASSUME NEW s \in Seq(Nat)
  PROVE  \E f : f = [i \in 0 .. Len(s) |-> LoopStep(s, f, i)]
<1> DEFINE n == Len(s)
           Q(k) == \E f : f = [i \in (n - k) .. n |-> LoopStep(s, f, i)]
           S == {k \in Nat : k <= n => Q(k)}
<1>1. n \in Nat
  BY LenProperties
<1>2. 0 \in S
  <2> DEFINE f == [i \in (n - 0) .. n |-> [calls |-> <<>>, used |-> i, refused |-> FALSE]]
  <2>1. ASSUME NEW i \in (n - 0) .. n
        PROVE  LoopStep(s, f, i) = [calls |-> <<>>, used |-> i, refused |-> FALSE]
    <3>1. NoneLeft(s, i)
      BY <1>1 DEF NoneLeft
    <3> QED BY <3>1 DEF LoopStep
  <2>2. f = [i \in (n - 0) .. n |-> LoopStep(s, f, i)]
    BY <2>1
  <2> QED BY <2>2
<1>3. ASSUME NEW k \in Nat, k \in S PROVE k + 1 \in S
  <2> SUFFICES ASSUME k + 1 <= n PROVE Q(k + 1)
    OBVIOUS
  <2>1. Q(k)
    BY <1>1, <1>3
  <2>2. PICK f : f = [i \in (n - k) .. n |-> LoopStep(s, f, i)]
    BY <2>1
  <2> DEFINE a == n - (k + 1)
             g == [i \in a .. n |-> IF i = a THEN LoopStep(s, f, i) ELSE f[i]]
  <2>3. a \in Nat /\ a + 1 = n - k /\ a <= n
    BY <1>1
  <2>4. ASSUME NEW i \in a .. n PROVE LoopStep(s, g, i) = LoopStep(s, f, i)
    <3>1. CASE NoneLeft(s, i)
      BY <3>1 DEF LoopStep
    <3>2. CASE ~NoneLeft(s, i)
      <4> DEFINE j == MessageEnd(s, i)
      <4>0. \A m \in a .. n : m \in 0 .. n
        <5> HIDE DEF a, n
        <5> QED BY <1>1, <2>3
      <4>1. i \in 0 .. Len(s)
        BY <4>0
      <4>2. j \in 0 .. Len(s) /\ i < j
        BY <3>2, <4>1, MessageEnds
      <4> HIDE DEF j
      <4>3. j \in a .. n /\ j # a
        <5> HIDE DEF a
        <5> QED BY <1>1, <2>3, <4>1, <4>2
      <4>4. g[j] = f[j]
        BY <4>3
      <4> HIDE DEF g
      <4> QED BY <3>2, <4>4 DEF LoopStep, j
    <3> QED BY <3>1, <3>2
  <2>5. ASSUME NEW i \in a .. n PROVE g[i] = LoopStep(s, g, i)
    <3>1. CASE i = a
      BY <2>4, <3>1
    <3>2. CASE i # a
      <4>1. i \in (n - k) .. n
        <5> HIDE DEF a, n
        <5>1. i >= a + 1 /\ i <= n /\ i \in Int
          BY <1>1, <2>3, <3>2
        <5> QED BY <1>1, <2>3, <5>1
      <4>2. f[i] = LoopStep(s, f, i)
        <5> HIDE DEF n
        <5> QED BY <2>2, <4>1
      <4> QED BY <2>4, <3>2, <4>2
    <3> QED BY <3>1, <3>2
  <2>6. g = [i \in a .. n |-> LoopStep(s, g, i)]
    BY <2>5
  <2> QED BY <2>6
<1>4. n \in S
  BY <1>1, <1>2, <1>3, Induct
<1>5. Q(n) /\ n - n = 0
  BY <1>1, <1>4
<1> QED BY <1>5

(* So it satisfies its equation. *)
LEMMA LoopEquation ==
  ASSUME NEW s \in Seq(Nat)
  PROVE  /\ Loop(s) = LoopFrom(s)[0]
         /\ \A i \in 0 .. Len(s) : LoopFrom(s)[i] = LoopStep(s, LoopFrom(s), i)
<1>1. LoopFrom(s) = [i \in 0 .. Len(s) |-> LoopStep(s, LoopFrom(s), i)]
  BY LoopExists DEF LoopFrom
<1>2. Loop(s) = LoopFrom(s)[0]
  BY DEF Loop, LoopFrom, LoopStep, NoneLeft, MessageEnd, CallAt
<1> QED BY <1>1, <1>2

CallType == [message : Seq(Nat), last : BOOLEAN]
RunType == [calls : Seq(CallType), used : Nat, refused : BOOLEAN]

(* The calls q are for the messages of s, the k-th from place b[k - 1] to  *)
(* place b[k].                                                             *)
Chain(s, q, b) ==
    /\ b \in [0 .. Len(q) -> 0 .. Len(s)]
    /\ \A k \in 0 .. Len(q) - 1 :
          /\ b[k] < Len(s)
          /\ b[k + 1] = MessageEnd(s, b[k])
          /\ q[k + 1] = CallAt(s, b[k])

(* What the loop does when it starts at place i. *)
RunsFrom(s, i, r) ==
    /\ r \in RunType
    /\ ~r.refused => NoneLeft(s, r.used)
    /\ \E b : Chain(s, r.calls, b) /\ b[0] = i /\ r.used = b[Len(r.calls)]

(* A call has its type. *)
LEMMA CallTyped ==
  ASSUME NEW s \in Seq(Nat), NEW i \in 0 .. Len(s), ~NoneLeft(s, i)
  PROVE  CallAt(s, i) \in CallType
<1>1. MessageEnd(s, i) \in 0 .. Len(s) /\ Len(s) \in Nat
  BY MessageEnds, LenProperties
<1>2. i + 1 \in Int /\ MessageEnd(s, i) \in Int
  BY <1>1
<1>3. \A j \in i + 1 .. MessageEnd(s, i) : s[j] \in Nat
  <2>1. \A j \in 1 .. Len(s) : s[j] \in Nat
    BY ElementOfSeq
  <2> QED BY <1>1, <2>1
<1>4. SubSeq(s, i + 1, MessageEnd(s, i)) \in Seq(Nat)
  BY <1>2, <1>3, SubSeqProperties
<1> QED BY <1>4 DEF CallAt, CallType

(* It stops. *)
LEMMA RunStops ==
  ASSUME NEW s \in Seq(Nat), NEW i \in 0 .. Len(s), NEW x \in BOOLEAN, ~x => NoneLeft(s, i)
  PROVE  RunsFrom(s, i, [calls |-> <<>>, used |-> i, refused |-> x])
<1> DEFINE r == [calls |-> <<>>, used |-> i, refused |-> x]
           b == [k \in 0 .. 0 |-> i]
<1>1. r.calls = <<>> /\ r.used = i /\ r.refused = x
  OBVIOUS
<1>2. <<>> \in Seq(CallType) /\ Len(<<>>) = 0 /\ i \in Nat
  BY EmptySeq, LenProperties
<1>3. r \in RunType
  BY <1>2 DEF RunType
<1>4. b[0] = i /\ b \in [0 .. 0 -> 0 .. Len(s)] /\ 0 .. 0 - 1 = {}
  OBVIOUS
<1> HIDE DEF b, r
<1>5. Chain(s, <<>>, b)
  BY <1>2, <1>4 DEF Chain
<1>6. Chain(s, r.calls, b) /\ b[0] = i /\ r.used = b[Len(r.calls)]
  BY <1>1, <1>2, <1>4, <1>5
<1> QED BY <1>1, <1>3, <1>6 DEF RunsFrom, r

(* It goes on. *)
LEMMA RunGoesOn ==
  ASSUME NEW s \in Seq(Nat), NEW i \in 0 .. Len(s), ~NoneLeft(s, i),
         NEW r, RunsFrom(s, MessageEnd(s, i), r)
  PROVE  RunsFrom(s, i, [calls |-> <<CallAt(s, i)>> \o r.calls, used |-> r.used,
                         refused |-> r.refused])
<1> DEFINE m == CallAt(s, i)
           q == r.calls
           n == Len(q)
           o == <<m>> \o q
           t == [calls |-> o, used |-> r.used, refused |-> r.refused]
<1>1. PICK c : Chain(s, q, c) /\ c[0] = MessageEnd(s, i) /\ r.used = c[n]
  BY DEF RunsFrom
<1>2. r \in RunType /\ (~r.refused => NoneLeft(s, r.used)) /\ q \in Seq(CallType)
  BY DEF RunsFrom, RunType
<1>3. m \in CallType
  BY CallTyped
<1>4. n \in Nat /\ Len(s) \in Nat /\ i < Len(s)
  BY <1>2, MessageEnds, LenProperties
<1> HIDE DEF q, m
<1>5. <<m>> \in Seq(CallType) /\ Len(<<m>>) = 1 /\ <<m>>[1] = m
  BY <1>3
<1>6. /\ o \in Seq(CallType) /\ Len(o) = 1 + n
      /\ \A k \in 1 .. 1 + n : o[k] = IF k <= 1 THEN <<m>>[k] ELSE q[k - 1]
  <2> DEFINE mm == <<m>>
  <2>1. mm \in Seq(CallType) /\ Len(mm) = 1
    BY <1>5
  <2> HIDE DEF mm
  <2>2. /\ mm \o q \in Seq(CallType) /\ Len(mm \o q) = Len(mm) + Len(q)
        /\ \A k \in 1 .. Len(mm) + Len(q) :
              (mm \o q)[k] = IF k <= Len(mm) THEN mm[k] ELSE q[k - Len(mm)]
    BY <1>2, <2>1, ConcatProperties
  <2> QED BY <2>1, <2>2 DEF mm
<1>7. o[1] = m /\ \A k \in 1 .. n : o[k + 1] = q[k]
  <2>1. 1 \in 1 .. 1 + n
    BY <1>4
  <2>2. ASSUME NEW k \in 1 .. n PROVE o[k + 1] = q[k]
    <3>1. k + 1 \in 1 .. 1 + n /\ ~(k + 1 <= 1) /\ (k + 1) - 1 = k
      BY <1>4
    <3> QED BY <1>6, <3>1
  <2> QED BY <1>5, <1>6, <2>1, <2>2
<1>8. t.calls = o /\ t.used = r.used /\ t.refused = r.refused /\ t \in RunType
  BY <1>2, <1>6 DEF RunType
<1> DEFINE b == [k \in 0 .. 1 + n |-> IF k = 0 THEN i ELSE c[k - 1]]
<1>9. c \in [0 .. n -> 0 .. Len(s)]
  BY <1>1 DEF Chain
<1> HIDE DEF o, t, n
<1>10. /\ b \in [0 .. 1 + n -> 0 .. Len(s)] /\ b[0] = i
       /\ \A k \in 0 .. n : b[k + 1] = c[k]
  <2>1. ASSUME NEW k \in 0 .. 1 + n PROVE (IF k = 0 THEN i ELSE c[k - 1]) \in 0 .. Len(s)
    <3>1. CASE k = 0
      BY <3>1
    <3>2. CASE k # 0
      <4>1. k - 1 \in 0 .. n
        BY <1>4, <3>2
      <4> QED BY <1>9, <3>2, <4>1
    <3> QED BY <3>1, <3>2
  <2>2. ASSUME NEW k \in 0 .. n PROVE b[k + 1] = c[k]
    <3>1. k + 1 \in 0 .. 1 + n /\ k + 1 # 0 /\ (k + 1) - 1 = k
      BY <1>4
    <3> QED BY <3>1
  <2>3. 0 \in 0 .. 1 + n
    BY <1>4
  <2> QED BY <2>1, <2>2, <2>3
<1> HIDE DEF b
<1>11. ASSUME NEW k \in 0 .. n
       PROVE  b[k] < Len(s) /\ b[k + 1] = MessageEnd(s, b[k]) /\ o[k + 1] = CallAt(s, b[k])
  <2>1. CASE k = 0
    <3>1. b[1] = c[0]
      BY <1>4, <1>10
    <3> QED BY <1>1, <1>4, <1>7, <1>10, <2>1, <3>1 DEF m
  <2>2. CASE k # 0
    <3>1. k - 1 \in 0 .. n /\ k - 1 \in 0 .. n - 1 /\ (k - 1) + 1 = k /\ k \in 1 .. n
      BY <1>4, <2>2
    <3>2. b[k] = c[k - 1] /\ b[k + 1] = c[k]
      BY <1>10, <3>1
    <3>3. c[k - 1] < Len(s) /\ c[k] = MessageEnd(s, c[k - 1]) /\ q[k] = CallAt(s, c[k - 1])
      BY <1>1, <3>1 DEF Chain, n
    <3> QED BY <1>7, <3>1, <3>2, <3>3
  <2> QED BY <2>1, <2>2
<1>12. Chain(s, o, b)
  <2>1. (1 + n) - 1 = n
    BY <1>4
  <2> QED BY <1>6, <1>10, <1>11, <2>1 DEF Chain
<1>13. b[1 + n] = c[n]
  <2>1. n \in 0 .. n /\ n + 1 = 1 + n
    BY <1>4
  <2> QED BY <1>10, <2>1
<1>14. Chain(s, t.calls, b) /\ b[0] = i /\ t.used = b[Len(t.calls)]
  BY <1>1, <1>6, <1>8, <1>10, <1>12, <1>13 DEF n
<1>15. ~t.refused => NoneLeft(s, t.used)
  BY <1>2, <1>8
<1>16. RunsFrom(s, i, t)
  BY <1>8, <1>14, <1>15 DEF RunsFrom
<1> QED BY <1>16 DEF t, o, m, q

(* The loop handles whole messages, one after the other, until a message is  *)
(* refused or no whole one is left.                                          *)
LEMMA LoopRuns ==
  ASSUME NEW s \in Seq(Nat)
  PROVE  RunsFrom(s, 0, Loop(s))
<1> DEFINE n == Len(s)
           F == LoopFrom(s)
           S == {k \in Nat : \A i \in 0 .. n : n - k <= i => RunsFrom(s, i, F[i])}
<1>1. /\ n \in Nat /\ Loop(s) = F[0]
      /\ \A i \in 0 .. Len(s) : F[i] = LoopStep(s, F, i)
  BY LenProperties, LoopEquation
<1> HIDE DEF F
<1>2. ASSUME NEW i \in 0 .. n, \A j \in 0 .. n : i < j => RunsFrom(s, j, F[j])
      PROVE  RunsFrom(s, i, F[i])
  <2> DEFINE e == MessageEnd(s, i)
             m == CallAt(s, i)
  <2>0. F[i] = LoopStep(s, F, i)
    BY <1>1
  <2>1. CASE NoneLeft(s, i)
    <3>1. F[i] = [calls |-> <<>>, used |-> i, refused |-> FALSE]
      BY <2>0, <2>1 DEF LoopStep
    <3>2. RunsFrom(s, i, [calls |-> <<>>, used |-> i, refused |-> FALSE])
      BY <2>1, RunStops
    <3> QED BY <3>1, <3>2
  <2>2. CASE ~NoneLeft(s, i)
    <3>1. e \in 0 .. n /\ i < e
      BY <2>2, MessageEnds
    <3>2. CASE m.message \in Refused
      <4>1. F[i] = [calls |-> <<m>>, used |-> e, refused |-> TRUE]
        BY <2>0, <2>2, <3>2 DEF LoopStep
      <4> DEFINE r == [calls |-> <<>>, used |-> e, refused |-> TRUE]
      <4>2. RunsFrom(s, e, r)
        BY <3>1, RunStops
      <4>3. r.calls = <<>> /\ r.used = e /\ r.refused = TRUE
        OBVIOUS
      <4> HIDE DEF r
      <4>4. RunsFrom(s, i, [calls |-> <<m>> \o r.calls, used |-> r.used, refused |-> r.refused])
        BY <2>2, <4>2, RunGoesOn
      <4>5. <<m>> \o <<>> = <<m>>
        <5>1. <<m>> \in Seq(CallType)
          BY <2>2, CallTyped
        <5> HIDE DEF m
        <5> DEFINE mm == <<m>>
        <5>2. mm \in Seq(CallType)
          BY <5>1
        <5> HIDE DEF mm
        <5>3. mm \o <<>> = mm
          BY <5>2, ConcatEmptySeq
        <5> QED BY <5>3 DEF mm
      <4> QED BY <4>1, <4>3, <4>4, <4>5
    <3>3. CASE m.message \notin Refused
      <4>1. F[i] = [F[e] EXCEPT !.calls = <<m>> \o @]
        BY <2>0, <2>2, <3>3 DEF LoopStep
      <4>2. RunsFrom(s, e, F[e])
        BY <1>2, <3>1
      <4>3. F[e] \in RunType
        BY <4>2 DEF RunsFrom
      <4>4. F[i] = [calls |-> <<m>> \o F[e].calls, used |-> F[e].used, refused |-> F[e].refused]
        <5> HIDE DEF e, m
        <5> QED BY <4>1, <4>3 DEF RunType
      <4>5. RunsFrom(s, i, [calls |-> <<m>> \o F[e].calls, used |-> F[e].used,
                            refused |-> F[e].refused])
        BY <2>2, <4>2, RunGoesOn
      <4> QED BY <4>4, <4>5
    <3> QED BY <3>2, <3>3
  <2> QED BY <2>1, <2>2
<1>3. 0 \in S
  <2>1. ASSUME NEW i \in 0 .. n, n - 0 <= i PROVE RunsFrom(s, i, F[i])
    <3>1. \A j \in 0 .. n : ~(i < j)
      BY <1>1, <2>1
    <3> HIDE DEF n
    <3> QED BY <1>2, <3>1
  <2> QED BY <2>1
<1>4. ASSUME NEW k \in Nat, k \in S PROVE k + 1 \in S
  <2>1. ASSUME NEW i \in 0 .. n, n - (k + 1) <= i PROVE RunsFrom(s, i, F[i])
    <3>1. ASSUME NEW j \in 0 .. n, i < j PROVE RunsFrom(s, j, F[j])
      <4>1. n - k <= j
        BY <1>1, <2>1, <3>1
      <4> QED BY <1>4, <4>1
    <3> HIDE DEF n
    <3> QED BY <1>2, <3>1
  <2> QED BY <2>1
<1>5. n \in S
  BY <1>1, <1>3, <1>4, Induct
<1>6. RunsFrom(s, 0, F[0])
  <2>1. 0 \in 0 .. n /\ n - n <= 0
    BY <1>1
  <2> QED BY <1>5, <2>1
<1> QED BY <1>1, <1>6

-----------------------------------------------------------------------------
(* What handling a record does to the receiver. *)

(* A set of places has a last one. *)
LEMMA LastPlace ==
  ASSUME NEW n \in Nat, NEW M, M \subseteq 1 .. n, M # {}
  PROVE  \E i \in M : \A j \in M : j <= i
<1> DEFINE T == {k \in Nat : n - k \in M}
<1>0. T \subseteq Nat /\ T # {} /\ \A k \in Nat : k \in T <=> n - k \in M
  <2>1. PICK i \in M : TRUE
    OBVIOUS
  <2>2. n - i \in Nat /\ n - (n - i) = i
    BY <2>1
  <2>3. n - i \in T
    BY <2>1, <2>2
  <2> QED BY <2>3
<1> HIDE DEF T
<1>1. PICK m \in T : \A x \in T : <<x, m>> \notin OpToRel(<, Nat)
  BY <1>0, NatLessThanWellFounded, WFMin
<1>2. m \in Nat /\ n - m \in M
  BY <1>0
<1>3. ASSUME NEW j \in M PROVE j <= n - m
  <2>1. n - j \in Nat /\ n - (n - j) = j /\ j \in Nat
    OBVIOUS
  <2>2. n - j \in T
    BY <1>0, <2>1
  <2>3. ~(n - j < m)
    <3>1. SUFFICES ASSUME n - j < m PROVE FALSE
      OBVIOUS
    <3>2. <<n - j, m>> \in {ss \in Nat \X Nat : ss[1] < ss[2]}
      BY <1>2, <2>1, <3>1
    <3>3. <<n - j, m>> \in OpToRel(<, Nat)
      BY <3>2 DEF OpToRel
    <3> QED BY <1>1, <2>2, <3>3
  <2> QED BY <1>2, <2>1, <2>3
<1> QED BY <1>2, <1>3

(* The content of a record without its padding. *)
LEMMA UnpaddedTyped ==
  ASSUME NEW f \in Seq(Nat)
  PROVE  Unpadded(f) \in Seq(Nat)
<1> DEFINE M == {i \in 1 .. Len(f) : f[i] # 0}
           c == CHOOSE i \in M : \A j \in M : j <= i
<1>1. Len(f) \in Nat /\ <<>> \in Seq(Nat) /\ M \subseteq 1 .. Len(f)
  BY LenProperties, EmptySeq
<1>2. Unpadded(f) = IF M = {} THEN <<>> ELSE Take(f, c)
  BY DEF Unpadded
<1> HIDE DEF M
<1>3. ASSUME M # {} PROVE c \in 0 .. Len(f)
  <2>1. \E i \in M : \A j \in M : j <= i
    BY <1>1, <1>3, LastPlace
  <2>2. c \in M
    BY <2>1
  <2> HIDE DEF c
  <2> QED BY <1>1, <2>2
<1> HIDE DEF c
<1>4. ASSUME M # {} PROVE Take(f, c) \in Seq(Nat)
  BY <1>3, <1>4, TakeDrop
<1> QED BY <1>1, <1>2, <1>4

(* The record added nothing to the handshake stream. *)
Aside(o) ==
    /\ o.mess = mess /\ o.calls = <<>> /\ o.frags = <<>>
    /\ o.skipped \in Nat
    /\ o.result = "ok" => o.skipped = skipped \/ o.skipped <= MaxSkip

(* Its content f went to handle_handshake_record, and that ran its loop. *)
Added(o, f) ==
    LET s   == mess \o f
        run == Loop(s)
    IN  /\ o.calls = run.calls /\ o.frags = <<f>> /\ o.skipped = skipped
        /\ \/ o.result # "ok" /\ o.mess \in {mess, <<>>}
           \/ /\ o.result = "ok" /\ ~run.refused /\ o.mess = Drop(s, run.used)
              /\ o.mess # <<>> => ~Overflows(Len(o.mess))

(* The fields of an outcome. *)
LEMMA OutcomeFields ==
  ASSUME NEW a, NEW b, NEW c, NEW d, NEW e, NEW f
  PROVE  LET o == Outcome(a, b, c, d, e, f)
         IN  o.result = a /\ o.mess = b /\ o.calls = c /\ o.data = d /\ o.skipped = e /\ o.frags = f
BY DEF Outcome

(* An outcome that touches nothing. *)
LEMMA EndsAside ==
  ASSUME skipped \in Nat, NEW error
  PROVE  Aside(Ends(error))
BY OutcomeFields DEF Aside, Ends

(* handle_handshake_record. *)
LEMMA HandshakeOutcome ==
  ASSUME skipped \in Nat, NEW type, NEW f
  PROVE  LET o == HandleHandshakeRecord(type, f) IN Aside(o) \/ Added(o, f)
<1> DEFINE s == mess \o f
           run == Loop(s)
           left == Drop(s, run.used)
           end(res, m) == Outcome(res, m, run.calls, <<>>, skipped, <<f>>)
           o == HandleHandshakeRecord(type, f)
<1>1. \/ \E error : o = Ends(error)
      \/ o = end("unexpected_message", <<>>)
      \/ o = end("handshake_failure", mess)
      \/ ~run.refused /\ ~(left # <<>> /\ Overflows(Len(left))) /\ o = end("ok", left)
  <2>1. o = IF type # HandshakeType THEN Ends("decode_error")
            ELSE IF mess # <<>> /\ Overflows(Len(s)) THEN Ends("handshake_failure")
            ELSE IF run.refused THEN end("unexpected_message", <<>>)
            ELSE IF left # <<>> /\ Overflows(Len(left)) THEN end("handshake_failure", mess)
            ELSE end("ok", left)
    BY DEF HandleHandshakeRecord
  <2> HIDE DEF o, left, run, s, end
  <2> QED BY <2>1
<1>2. CASE \E error : o = Ends(error)
  BY <1>2, EndsAside
<1>3. ASSUME NEW res, NEW m, o = end(res, m)
      PROVE  /\ o.calls = run.calls /\ o.frags = <<f>> /\ o.skipped = skipped
             /\ o.result = res /\ o.mess = m
  <2> HIDE DEF run, o
  <2> QED BY <1>3, OutcomeFields
<1>4. CASE o = end("unexpected_message", <<>>)
  <2>1. /\ o.calls = run.calls /\ o.frags = <<f>> /\ o.skipped = skipped
        /\ o.result = "unexpected_message" /\ o.mess = <<>>
    BY <1>3, <1>4
  <2> HIDE DEF o
  <2> QED BY <2>1 DEF Added, o
<1>5. CASE o = end("handshake_failure", mess)
  <2>1. /\ o.calls = run.calls /\ o.frags = <<f>> /\ o.skipped = skipped
        /\ o.result = "handshake_failure" /\ o.mess = mess
    BY <1>3, <1>5
  <2> HIDE DEF o
  <2> QED BY <2>1 DEF Added, o
<1>6. CASE ~run.refused /\ ~(left # <<>> /\ Overflows(Len(left))) /\ o = end("ok", left)
  <2>1. /\ o.calls = run.calls /\ o.frags = <<f>> /\ o.skipped = skipped
        /\ o.result = "ok" /\ o.mess = left
    BY <1>3, <1>6
  <2> HIDE DEF o
  <2> QED BY <1>6, <2>1 DEF Added, o
<1> QED BY <1>1, <1>2, <1>4, <1>5, <1>6

(* handle_input and handle_input_tls12. *)
LEMMA RecordOutcome ==
  ASSUME skipped \in Nat, NEW r \in RecordType, NEW o,
         o = IF mode.tls12 THEN HandleRecordTls12(r) ELSE HandleRecord(r)
  PROVE  Aside(o) \/ \E f \in Seq(Nat) : Added(o, f)
<1> DEFINE Good(x) == Aside(x) \/ \E f \in Seq(Nat) : Added(x, f)
           g == r.fragment
           inner == Unpadded(Plaintext(g))
<1>1. g \in Seq(Nat) /\ Len(g) \in Nat
  BY LenProperties DEF RecordType
<1>2. ASSUME NEW error PROVE Good(Ends(error))
  BY EndsAside
<1>3. ASSUME NEW f PROVE Good(HandleAlert(f))
  BY <1>2 DEF HandleAlert
<1>4. ASSUME NEW f PROVE Good(Deliver(f))
  BY OutcomeFields DEF Deliver, Aside
<1>5. Good(SkipEarlyData(g))
  <2> DEFINE n == skipped + Len(g)
             res == IF n > MaxSkip THEN "handshake_failure" ELSE "ok"
             x == Outcome(res, mess, <<>>, <<>>, n, <<>>)
  <2>1. x = SkipEarlyData(g)
    BY DEF SkipEarlyData
  <2>2. n \in Nat /\ MaxSkip \in Nat
    BY <1>1, RecordsAssumption
  <2>3. res = "ok" => n <= MaxSkip
    <3> HIDE DEF n
    <3> QED BY <2>2
  <2> HIDE DEF n, res
  <2>4. x.result = res /\ x.mess = mess /\ x.calls = <<>> /\ x.skipped = n /\ x.frags = <<>>
    BY OutcomeFields
  <2> HIDE DEF x
  <2>5. Aside(x)
    BY <2>2, <2>3, <2>4 DEF Aside
  <2> QED BY <2>1, <2>5
<1>6. ASSUME NEW type, NEW f \in Seq(Nat) PROVE Good(HandleHandshakeRecord(type, f))
  BY HandshakeOutcome
<1>7. ASSUME NEW type, NEW f \in Seq(Nat) PROVE Good(HandleContent(type, f))
  <2> HIDE DEF Good
  <2> QED BY <1>2, <1>3, <1>4, <1>6 DEF HandleContent
<1>8. Good(HandleRecordTls12(r))
  <2> HIDE DEF Good
  <2> QED BY <1>2, <1>3, <1>4 DEF HandleRecordTls12
<1>9. ASSUME Opens(g), inner # <<>>
      PROVE  Take(inner, Len(inner) - 1) \in Seq(Nat)
  <2>1. g # <<>>
    BY <1>9 DEF Opens
  <2>2. Len(g) - 1 \in 0 .. Len(g)
    BY <1>1, <2>1, EmptySeq
  <2>3. Plaintext(g) \in Seq(Nat)
    BY <1>1, <2>2, TakeDrop DEF Plaintext
  <2>4. inner \in Seq(Nat)
    BY <2>3, UnpaddedTyped
  <2> HIDE DEF inner
  <2>5. Len(inner) - 1 \in 0 .. Len(inner)
    BY <1>9, <2>4, EmptySeq, LenProperties
  <2> QED BY <2>4, <2>5, TakeDrop
<1>10. Good(HandleRecord(r))
  <2> HIDE DEF Good, inner
  <2>1. \/ \E error : HandleRecord(r) = Ends(error)
        \/ HandleRecord(r) = SkipEarlyData(g)
        \/ /\ Opens(g) /\ inner # <<>>
           /\ HandleRecord(r) = HandleContent(inner[Len(inner)], Take(inner, Len(inner) - 1))
        \/ HandleRecord(r) = HandleContent(r.type, g)
    BY DEF HandleRecord, inner
  <2> HIDE DEF g
  <2>2. CASE HandleRecord(r) = HandleContent(r.type, g)
    BY <1>1, <1>7, <2>2
  <2>3. CASE /\ Opens(g) /\ inner # <<>>
             /\ HandleRecord(r) = HandleContent(inner[Len(inner)], Take(inner, Len(inner) - 1))
    BY <1>7, <1>9, <2>3
  <2> QED BY <1>2, <1>5, <2>1, <2>2, <2>3
<1> QED BY <1>8, <1>10

-----------------------------------------------------------------------------
(* Parts of the handshake stream. *)

(* The sequences q, end to end, are the part of g up to the last of the places b. *)
Cut(g, q, b) ==
    /\ b \in [0 .. Len(q) -> 0 .. Len(g)]
    /\ b[0] = 0
    /\ \A k \in 0 .. Len(q) - 1 :
          b[k] <= b[k + 1] /\ q[k + 1] = SubSeq(g, b[k] + 1, b[k + 1])

(* Two parts of g that meet. *)
LEMMA PartsMeet ==
  ASSUME NEW g \in Seq(Nat), NEW i \in 0 .. Len(g), NEW j \in 0 .. Len(g), i <= j
  PROVE  SubSeq(g, 1, i) \o SubSeq(g, i + 1, j) = SubSeq(g, 1, j)
<1>1. Len(g) \in Nat
  BY LenProperties
<1>2. 1 \in 1 .. Len(g) + 1 /\ i \in 1 - 1 .. Len(g) /\ j \in i .. Len(g)
  BY <1>1
<1> QED BY <1>2, ConcatAdjacentSubSeq

(* FlattenSeq puts the sequences end to end. *)
LEMMA FlattenCut ==
  ASSUME NEW g \in Seq(Nat), NEW q \in Seq(Seq(Nat)), NEW b, Cut(g, q, b)
  PROVE  FlattenSeq(q) = SubSeq(g, 1, b[Len(q)])
<1> DEFINE n == Len(q)
           Step(f, i) == IF i = 1 THEN q[i] ELSE f[i - 1] \o q[i]
           Eq(f) == f = [i \in 1 .. n |-> Step(f, i)]
           p(i) == SubSeq(g, 1, b[i])
<1>1. n \in Nat /\ Len(g) \in Nat /\ b \in [0 .. n -> 0 .. Len(g)] /\ b[0] = 0
  BY LenProperties DEF Cut
<1>2. CASE n = 0
  <2>1. q = <<>>
    BY <1>2, EmptySeq
  <2>2. SubSeq(g, 1, 0) = <<>>
    BY SubSeqEmpty
  <2>3. b[n] = 0
    BY <1>1, <1>2
  <2>4. FlattenSeq(q) = q
    BY <1>2 DEF FlattenSeq
  <2>5. SubSeq(g, 1, b[Len(q)]) = SubSeq(g, 1, 0)
    BY <2>3
  <2> DEFINE x == SubSeq(g, 1, b[Len(q)])
             y == SubSeq(g, 1, 0)
  <2> HIDE DEF x, y
  <2>6. x = y /\ y = <<>>
    BY <2>2, <2>5 DEF x, y
  <2>7. FlattenSeq(q) = x
    BY <2>1, <2>4, <2>6
  <2> QED BY <2>7 DEF x
<1>3. CASE n # 0
  <2>1. /\ q[1] = p(1)
        /\ \A i \in 2 .. n : p(i) = p(i - 1) \o q[i]
    <3>1. ASSUME NEW i \in 1 .. n
          PROVE  /\ b[i - 1] <= b[i] /\ q[i] = SubSeq(g, b[i - 1] + 1, b[i])
                 /\ b[i - 1] \in 0 .. Len(g) /\ b[i] \in 0 .. Len(g)
      <4>1. i - 1 \in 0 .. n - 1 /\ (i - 1) + 1 = i /\ i - 1 \in 0 .. n /\ i \in 0 .. n
        BY <1>1
      <4>2. b[i - 1] <= b[(i - 1) + 1] /\ q[(i - 1) + 1] = SubSeq(g, b[i - 1] + 1, b[(i - 1) + 1])
        BY <4>1 DEF Cut
      <4> QED BY <1>1, <4>1, <4>2
    <3>2. q[1] = p(1)
      <4>1. 1 \in 1 .. n /\ 1 - 1 = 0 /\ 0 + 1 = 1
        BY <1>1, <1>3
      <4> QED BY <1>1, <3>1, <4>1
    <3>3. ASSUME NEW i \in 2 .. n PROVE p(i) = p(i - 1) \o q[i]
      <4>1. i \in 1 .. n
        BY <1>1
      <4>2. /\ b[i - 1] <= b[i] /\ q[i] = SubSeq(g, b[i - 1] + 1, b[i])
            /\ b[i - 1] \in 0 .. Len(g) /\ b[i] \in 0 .. Len(g)
        BY <3>1, <4>1
      <4> QED BY <4>2, PartsMeet
    <3> QED BY <3>2, <3>3
  <2> HIDE DEF p
  <2>2. \E f : Eq(f)
    <3> DEFINE f == [i \in 1 .. n |-> p(i)]
    <3>1. ASSUME NEW i \in 1 .. n PROVE p(i) = Step(f, i)
      <4>1. CASE i = 1
        BY <2>1, <4>1
      <4>2. CASE i # 1
        <5>1. i \in 2 .. n /\ i - 1 \in 1 .. n
          BY <1>1, <4>2
        <5>2. f[i - 1] = p(i - 1)
          BY <5>1
        <5> HIDE DEF f
        <5> QED BY <2>1, <4>2, <5>1, <5>2
      <4> QED BY <4>1, <4>2
    <3>2. Eq(f)
      BY <3>1
    <3> QED BY <3>2
  <2> DEFINE h == CHOOSE f : Eq(f)
  <2>3. Eq(h)
    BY <2>2
  <2>4. FlattenSeq(q) = h[n]
    BY <1>3 DEF FlattenSeq
  <2> HIDE DEF h
  <2>5. \A i \in 1 .. n : h[i] = Step(h, i)
    BY <2>3
  <2> DEFINE S == {k \in Nat : k + 1 <= n => h[k + 1] = p(k + 1)}
  <2>6. 0 \in S
    <3>1. 1 \in 1 .. n /\ 0 + 1 = 1
      BY <1>1, <1>3
    <3>2. h[1] = p(1)
      BY <2>1, <2>5, <3>1
    <3> QED BY <3>1, <3>2
  <2>7. ASSUME NEW k \in Nat, k \in S PROVE k + 1 \in S
    <3> SUFFICES ASSUME (k + 1) + 1 <= n PROVE h[(k + 1) + 1] = p((k + 1) + 1)
      OBVIOUS
    <3> DEFINE i == (k + 1) + 1
    <3>1. i \in 1 .. n /\ i \in 2 .. n /\ i # 1 /\ i - 1 = k + 1 /\ k + 1 <= n
      BY <1>1
    <3>2. h[k + 1] = p(k + 1)
      BY <2>7, <3>1
    <3> HIDE DEF i
    <3>3. h[i] = h[i - 1] \o q[i]
      BY <2>5, <3>1
    <3>4. p(i) = p(i - 1) \o q[i]
      BY <2>1, <3>1
    <3>5. h[i] = p(i)
      BY <3>1, <3>2, <3>3, <3>4
    <3> QED BY <3>5 DEF i
  <2>8. n - 1 \in S
    <3>1. n - 1 \in Nat
      BY <1>1, <1>3
    <3> QED BY <2>6, <2>7, <3>1, Induct
  <2>9. h[n] = p(n)
    <3>1. (n - 1) + 1 = n /\ n <= n
      BY <1>1
    <3> HIDE DEF n
    <3> QED BY <2>8, <3>1
  <2> QED BY <2>4, <2>9 DEF p
<1> QED BY <1>2, <1>3

(* A part of a part. *)
LEMMA PartOfRest ==
  ASSUME NEW g \in Seq(Nat), NEW e \in 0 .. Len(g),
         NEW lo \in 1 .. Len(g) - e + 1, NEW hi \in lo - 1 .. Len(g) - e
  PROVE  SubSeq(Drop(g, e), lo, hi) = SubSeq(g, e + lo, e + hi)
<1> DEFINE s == Drop(g, e)
           u == SubSeq(s, lo, hi)
           v == SubSeq(g, e + lo, e + hi)
<1>1. Len(g) \in Nat /\ e \in Nat /\ lo \in Nat /\ hi \in Int /\ e <= Len(g)
  BY LenProperties
<1>2. s \in Seq(Nat) /\ Len(s) = Len(g) - e /\ \A i \in 1 .. Len(g) - e : s[i] = g[i + e]
  BY TakeDrop
<1>3. \A i \in 1 .. Len(g) : g[i] \in Nat
  BY ElementOfSeq
<1> HIDE DEF s
<1>4. \A i \in lo .. hi : s[i] \in Nat
  <2>1. \A i \in 1 .. Len(s) : s[i] \in Nat
    BY <1>2, ElementOfSeq
  <2>2. ASSUME NEW i \in lo .. hi PROVE i \in 1 .. Len(s)
    <3>1. hi <= Len(s) /\ 1 <= lo /\ Len(s) \in Int
      BY <1>1, <1>2
    <3> QED BY <1>1, <3>1
  <2> QED BY <2>1, <2>2
<1>5. /\ u \in Seq(Nat) /\ Len(u) = IF lo <= hi THEN hi - lo + 1 ELSE 0
      /\ \A i \in 1 .. hi - lo + 1 : u[i] = s[lo + i - 1]
  BY <1>1, <1>4, SubSeqProperties
<1>6. /\ v \in Seq(Nat)
      /\ Len(v) = IF e + lo <= e + hi THEN (e + hi) - (e + lo) + 1 ELSE 0
      /\ \A i \in 1 .. (e + hi) - (e + lo) + 1 : v[i] = g[(e + lo) + i - 1]
  <2>1. e + lo \in Int /\ e + hi \in Int
    BY <1>1
  <2>2. ASSUME NEW i \in e + lo .. e + hi PROVE g[i] \in Nat
    <3>1. e + hi <= Len(g) /\ 1 <= e + lo
      BY <1>1
    <3>2. i \in 1 .. Len(g)
      BY <1>1, <3>1
    <3> QED BY <1>3, <3>2
  <2> QED BY <2>1, <2>2, SubSeqProperties
<1> HIDE DEF u, v
<1>7. Len(u) = Len(v) /\ Len(u) <= hi - lo + 1
  BY <1>1, <1>5, <1>6
<1>8. ASSUME NEW i \in 1 .. Len(u) PROVE u[i] = v[i]
  <2>1. /\ i \in 1 .. hi - lo + 1 /\ i \in 1 .. (e + hi) - (e + lo) + 1
        /\ lo + i - 1 \in 1 .. Len(g) - e /\ (lo + i - 1) + e = (e + lo) + i - 1
    BY <1>1, <1>5, <1>7
  <2>2. u[i] = s[lo + i - 1]
    BY <1>5, <2>1
  <2>3. v[i] = g[(e + lo) + i - 1]
    BY <1>6, <2>1
  <2>4. s[lo + i - 1] = g[(lo + i - 1) + e]
    BY <1>2, <2>1
  <2> QED BY <2>1, <2>2, <2>3, <2>4
<1>9. u = v
  BY <1>5, <1>6, <1>7, <1>8, SeqEqual
<1> QED BY <1>9 DEF u, v, s

(* The messages of the calls q are those of g up to the last of the places b. *)
Messages(g, q, b) ==
    /\ b \in [0 .. Len(q) -> 0 .. Len(g)]
    /\ b[0] = 0
    /\ \A k \in 0 .. Len(q) - 1 :
          /\ b[k] < Len(g)
          /\ b[k + 1] = MessageEnd(g, b[k])
          /\ q[k + 1].message = SubSeq(g, b[k] + 1, b[k + 1])

(* What g \o x has at the places of g and behind place e. *)
LEMMA LongerPlaces ==
  ASSUME NEW g \in Seq(Nat), NEW x \in Seq(Nat), NEW e \in 0 .. Len(g)
  PROVE  LET h == g \o x
             s == Drop(h, e)
         IN  /\ h \in Seq(Nat) /\ Len(h) = Len(g) + Len(x)
             /\ \A i \in 1 .. Len(g) : h[i] = g[i] /\ g[i] \in Nat
             /\ s \in Seq(Nat) /\ Len(s) = Len(h) - e /\ e \in 0 .. Len(h)
             /\ \A i \in 1 .. Len(s) : s[i] = h[e + i]
             /\ {Len(g), Len(x), Len(h), Len(s), e} \subseteq Nat
<1> DEFINE h == g \o x
           s == Drop(h, e)
<1>1. Len(g) \in Nat /\ Len(x) \in Nat /\ e \in Nat
  BY LenProperties
<1>2. /\ h \in Seq(Nat) /\ Len(h) = Len(g) + Len(x)
      /\ \A i \in 1 .. Len(g) + Len(x) : h[i] = IF i <= Len(g) THEN g[i] ELSE x[i - Len(g)]
  BY ConcatProperties
<1>3. \A i \in 1 .. Len(g) : h[i] = g[i] /\ g[i] \in Nat
  <2>1. ASSUME NEW i \in 1 .. Len(g) PROVE h[i] = g[i] /\ g[i] \in Nat
    <3>1. i \in 1 .. Len(g) + Len(x) /\ i <= Len(g)
      BY <1>1
    <3> HIDE DEF h
    <3> QED BY <1>2, <3>1, ElementOfSeq
  <2> QED BY <2>1
<1> HIDE DEF h
<1>4. e \in 0 .. Len(h) /\ Len(h) \in Nat
  BY <1>1, <1>2
<1>5. s \in Seq(Nat) /\ Len(s) = Len(h) - e /\ \A i \in 1 .. Len(h) - e : s[i] = h[i + e]
  BY <1>2, <1>4, TakeDrop
<1> HIDE DEF s
<1>6. \A i \in 1 .. Len(s) : s[i] = h[e + i]
  <2>1. ASSUME NEW i \in 1 .. Len(s) PROVE s[i] = h[e + i]
    <3>1. i \in 1 .. Len(h) - e /\ e + i = i + e
      BY <1>1, <1>4, <1>5
    <3> QED BY <1>5, <3>1
  <2> QED BY <2>1
<1>7. Len(s) \in Nat
  BY <1>5, LenProperties
<1> QED BY <1>1, <1>2, <1>3, <1>4, <1>5, <1>6, <1>7 DEF h, s

(* A message at place i of what follows e. *)
LEMMA MessageShift ==
  ASSUME NEW h \in Seq(Nat), NEW e \in 0 .. Len(h), NEW s, s = Drop(h, e),
         NEW i \in 0 .. Len(s)
  PROVE  /\ NoneLeft(s, i) <=> NoneLeft(h, e + i)
         /\ i < Len(s) => MessageEnd(h, e + i) = e + MessageEnd(s, i)
<1>1. /\ s \in Seq(Nat) /\ Len(s) = Len(h) - e /\ e \in Nat /\ Len(h) \in Nat /\ i \in Nat
      /\ \A j \in 1 .. Len(h) - e : s[j] = h[j + e]
  <2>1. /\ Drop(h, e) \in Seq(Nat) /\ Len(Drop(h, e)) = Len(h) - e
        /\ \A j \in 1 .. Len(h) - e : Drop(h, e)[j] = h[j + e]
    BY TakeDrop
  <2>2. Len(h) \in Nat /\ Len(s) \in Nat
    BY <2>1, LenProperties
  <2>3. e \in Nat /\ i \in Nat
    BY <2>2
  <2> QED BY <2>1, <2>2, <2>3
<1>1a. Len(s) = Len(h) - e /\ e \in Nat /\ Len(h) \in Nat /\ Len(s) \in Nat /\ i \in Nat /\ i <= Len(s)
  BY <1>1, LenProperties
<1>2. CASE i = Len(s)
  <2>1. e + i = Len(h)
    BY <1>1a, <1>2
  <2> QED BY <1>1a, <1>2, <2>1 DEF NoneLeft
<1>3. CASE i # Len(s)
  <2>1. i + 1 \in 1 .. Len(h) - e /\ i + 1 \in 1 .. Len(s) /\ (i + 1) + e = (e + i) + 1 /\ e + i # Len(h)
    BY <1>1a, <1>3
  <2>2. s[i + 1] = h[(e + i) + 1] /\ s[i + 1] \in Nat
    BY <1>1, <2>1, ElementOfSeq
  <2>3. MessageEnd(h, e + i) = e + MessageEnd(s, i) /\ MessageEnd(s, i) \in Nat
    <3> DEFINE v == s[i + 1]
    <3>1. MessageEnd(h, e + i) = (e + i) + 1 + v /\ MessageEnd(s, i) = i + 1 + v /\ v \in Nat
      BY <2>2 DEF MessageEnd
    <3> HIDE DEF v
    <3> QED BY <1>1a, <3>1
  <2>4. MessageEnd(s, i) > Len(s) <=> MessageEnd(h, e + i) > Len(h)
    BY <1>1a, <2>3
  <2> QED BY <1>3, <2>1, <2>3, <2>4 DEF NoneLeft
<1> QED BY <1>2, <1>3

(* The messages of the stream so far, and those of the record behind them. *)
LEMMA MessagesJoin ==
  ASSUME NEW g \in Seq(Nat), NEW x \in Seq(Nat), NEW q \in Seq(CallType), NEW b,
         Messages(g, q, b), NEW r \in Seq(CallType), NEW c,
         Chain(Drop(g \o x, b[Len(q)]), r, c), c[0] = 0
  PROVE  \E d : /\ Messages(g \o x, q \o r, d)
                /\ \A k \in 0 .. Len(q) : d[k] = b[k]
                /\ \A k \in 0 .. Len(r) : d[Len(q) + k] = b[Len(q)] + c[k]
<1> DEFINE n == Len(q)
           m == Len(r)
           e == b[n]
           h == g \o x
           s == Drop(h, e)
           o == q \o r
           d == [k \in 0 .. n + m |-> IF k <= n THEN b[k] ELSE e + c[k - n]]
<1>1. n \in Nat /\ m \in Nat
  BY LenProperties
<1>2. b \in [0 .. n -> 0 .. Len(g)] /\ b[0] = 0
  BY DEF Messages
<1>3. e \in 0 .. Len(g)
  <2>1. n \in 0 .. n
    BY <1>1
  <2> HIDE DEF n
  <2> QED BY <1>2, <2>1
<1> HIDE DEF e
<1>4. /\ h \in Seq(Nat) /\ Len(h) = Len(g) + Len(x)
      /\ \A i \in 1 .. Len(g) : h[i] = g[i] /\ g[i] \in Nat
      /\ s \in Seq(Nat) /\ Len(s) = Len(h) - e /\ e \in 0 .. Len(h)
      /\ Len(g) \in Nat /\ Len(x) \in Nat /\ Len(h) \in Nat /\ Len(s) \in Nat /\ e \in Nat
  BY <1>3, LongerPlaces
<1>4a. /\ Len(g) \in Nat /\ Len(x) \in Nat /\ Len(h) \in Nat /\ Len(s) \in Nat /\ e \in Nat
       /\ Len(h) = Len(g) + Len(x) /\ Len(s) = Len(h) - e
  BY <1>4
<1>5. /\ o \in Seq(CallType) /\ Len(o) = n + m
      /\ \A k \in 1 .. n + m : o[k] = IF k <= n THEN q[k] ELSE r[k - n]
  BY ConcatProperties
<1>6. Chain(s, r, c)
  BY DEF e
<1> HIDE DEF h, s, o, n, m
<1>7. c \in [0 .. m -> 0 .. Len(s)]
  BY <1>6 DEF Chain, m
<1>8. /\ d \in [0 .. n + m -> 0 .. Len(h)]
      /\ \A k \in 0 .. n : d[k] = b[k]
      /\ \A k \in 0 .. m : d[n + k] = e + c[k]
  <2>1. ASSUME NEW k \in 0 .. n + m PROVE (IF k <= n THEN b[k] ELSE e + c[k - n]) \in 0 .. Len(h)
    <3>1. CASE k <= n
      <4>1. k \in 0 .. n
        BY <1>1, <3>1
      <4>2. b[k] \in 0 .. Len(g)
        BY <1>2, <4>1
      <4> QED BY <1>4, <3>1, <4>2
    <3>2. CASE ~(k <= n)
      <4>1. k - n \in 0 .. m
        BY <1>1, <3>2
      <4>2. c[k - n] \in 0 .. Len(s)
        BY <1>7, <4>1
      <4> QED BY <1>4, <3>2, <4>2
    <3> QED BY <3>1, <3>2
  <2>2. ASSUME NEW k \in 0 .. n PROVE d[k] = b[k]
    <3>1. k \in 0 .. n + m /\ k <= n
      BY <1>1
    <3> QED BY <3>1
  <2>3. ASSUME NEW k \in 0 .. m PROVE d[n + k] = e + c[k]
    <3>1. n + k \in 0 .. n + m /\ (n + k) - n = k /\ (n + k <= n <=> k = 0)
      BY <1>1
    <3>2. CASE k = 0
      <4>1. n + k = n /\ n \in 0 .. n /\ e + 0 = e
        BY <1>1, <1>4, <3>2
      <4>2. d[n] = b[n]
        BY <2>2, <4>1
      <4> QED BY <3>2, <4>1, <4>2 DEF e
    <3>3. CASE k # 0
      BY <3>1, <3>3
    <3> QED BY <3>2, <3>3
  <2> QED BY <2>1, <2>2, <2>3
<1> HIDE DEF d
<1>9. d[0] = 0
  BY <1>1, <1>2, <1>8
<1>10. ASSUME NEW k \in 0 .. n + m - 1
       PROVE  /\ d[k] < Len(h)
              /\ d[k + 1] = MessageEnd(h, d[k])
              /\ o[k + 1].message = SubSeq(h, d[k] + 1, d[k + 1])
  <2>1. CASE k < n
    <3>1. k \in 0 .. n - 1 /\ k \in 0 .. n /\ k + 1 \in 0 .. n /\ k + 1 \in 1 .. n + m /\ k + 1 <= n
      BY <1>1, <2>1
    <3>2. d[k] = b[k] /\ d[k + 1] = b[k + 1] /\ o[k + 1] = q[k + 1]
      BY <1>5, <1>8, <3>1
    <3>3. b[k] \in 0 .. Len(g) /\ b[k + 1] \in 0 .. Len(g)
      BY <1>2, <3>1
    <3>4. /\ b[k] < Len(g) /\ b[k + 1] = MessageEnd(g, b[k])
          /\ q[k + 1].message = SubSeq(g, b[k] + 1, b[k + 1])
      BY <3>1 DEF Messages, n
    <3>5. b[k] + 1 \in 1 .. Len(g)
      <4>1. b[k] \in Nat /\ b[k] < Len(g) /\ Len(g) \in Nat
        BY <1>4a, <3>3, <3>4
      <4> QED BY <4>1
    <3>6. MessageEnd(h, b[k]) = MessageEnd(g, b[k])
      BY <1>4, <3>5 DEF MessageEnd
    <3>7. SubSeq(h, b[k] + 1, b[k + 1]) = SubSeq(g, b[k] + 1, b[k + 1])
      <4>1. \A i \in b[k] + 1 .. b[k + 1] : i \in 1 .. Len(g)
        BY <1>4a, <3>3, SMTT(30)
      <4>2. \A i \in b[k] + 1 .. b[k + 1] : h[i] = g[i] /\ g[i] \in Nat
        BY <1>4, <4>1
      <4>3. b[k] + 1 \in Int /\ b[k + 1] \in Int
        BY <1>4a, <3>3
      <4> QED BY <4>2, <4>3, SamePart
    <3>8. b[k] < Len(h)
      BY <1>4a, <3>3, <3>4
    <3> QED BY <3>2, <3>4, <3>6, <3>7, <3>8
  <2>2. CASE ~(k < n)
    <3> DEFINE j == k - n
    <3>1. /\ j \in 0 .. m - 1 /\ j \in 0 .. m /\ j + 1 \in 0 .. m
          /\ k + 1 \in 1 .. n + m /\ ~(k + 1 <= n) /\ (k + 1) - n = j + 1
          /\ n + j = k /\ n + (j + 1) = k + 1
      BY <1>1, <2>2
    <3> HIDE DEF j
    <3>2. d[k] = e + c[j] /\ d[k + 1] = e + c[j + 1] /\ o[k + 1] = r[j + 1]
      BY <1>5, <1>8, <3>1
    <3>3. c[j] \in 0 .. Len(s) /\ c[j + 1] \in 0 .. Len(s)
      BY <1>7, <3>1
    <3>4. c[j] < Len(s) /\ c[j + 1] = MessageEnd(s, c[j]) /\ r[j + 1] = CallAt(s, c[j])
      BY <1>6, <3>1 DEF Chain, m
    <3>5. MessageEnd(h, e + c[j]) = e + MessageEnd(s, c[j])
      <4>1. s = Drop(h, e)
        BY DEF s
      <4>2. h \in Seq(Nat) /\ e \in 0 .. Len(h)
        BY <1>4
      <4> QED BY <3>3, <3>4, <4>1, <4>2, MessageShift
    <3>6. r[j + 1].message = SubSeq(s, c[j] + 1, c[j + 1])
      <4>1. CallAt(s, c[j]).message = SubSeq(s, c[j] + 1, MessageEnd(s, c[j]))
        BY DEF CallAt
      <4> QED BY <3>4, <4>1
    <3>7. SubSeq(s, c[j] + 1, c[j + 1]) = SubSeq(h, (e + c[j]) + 1, e + c[j + 1])
      <4>1. c[j] <= c[j + 1]
        <5>1. c[j] + 1 \in 1 .. Len(s)
          BY <1>4a, <3>3, <3>4
        <5>2. s[c[j] + 1] \in Nat
          BY <1>4, <5>1, ElementOfSeq
        <5> QED BY <1>4a, <3>3, <3>4, <5>2, SMTT(30) DEF MessageEnd
      <4>2. c[j] + 1 \in 1 .. Len(h) - e + 1 /\ c[j + 1] \in (c[j] + 1) - 1 .. Len(h) - e
        BY <1>4a, <3>3, <4>1, SMTT(60)
      <4>3. SubSeq(s, c[j] + 1, c[j + 1]) = SubSeq(h, e + (c[j] + 1), e + c[j + 1])
        BY <1>4, <4>2, PartOfRest DEF s
      <4>4. e + (c[j] + 1) = (e + c[j]) + 1
        BY <1>4a, <3>3
      <4> QED BY <4>3, <4>4
    <3>8. e + c[j] < Len(h)
      BY <1>4a, <3>3, <3>4
    <3> QED BY <3>2, <3>4, <3>5, <3>6, <3>7, <3>8
  <2> QED BY <2>1, <2>2
<1>11. Messages(h, o, d)
  <2>1. Len(o) = n + m /\ d \in [0 .. n + m -> 0 .. Len(h)]
    BY <1>5, <1>8
  <2>2. ASSUME NEW k \in 0 .. Len(o) - 1
        PROVE  /\ d[k] < Len(h)
               /\ d[k + 1] = MessageEnd(h, d[k])
               /\ o[k + 1].message = SubSeq(h, d[k] + 1, d[k + 1])
    <3>1. k \in 0 .. n + m - 1
      BY <1>1, <2>1
    <3> QED BY <1>10, <3>1
  <2> QED BY <1>9, <2>1, <2>2 DEF Messages
<1> QED BY <1>8, <1>11 DEF h, o, n, m, e

(* The part of a message that is kept is not whole, so that no message of the *)
(* record that is put behind it ends before that record begins.               *)
LEMMA NewEndsLater ==
  ASSUME NEW g \in Seq(Nat), NEW x \in Seq(Nat), NEW e \in 0 .. Len(g), NoneLeft(g, e),
         NEW r \in Seq(CallType), NEW c, Chain(Drop(g \o x, e), r, c), c[0] = 0
  PROVE  \A k \in 1 .. Len(r) : e + c[k] > Len(g)
<1> DEFINE m == Len(r)
           h == g \o x
           s == Drop(h, e)
           S == {k \in Nat : k + 1 <= m => e + c[k + 1] > Len(g)}
<1>1. /\ h \in Seq(Nat) /\ Len(h) = Len(g) + Len(x)
      /\ \A i \in 1 .. Len(g) : h[i] = g[i] /\ g[i] \in Nat
      /\ s \in Seq(Nat) /\ Len(s) = Len(h) - e /\ e \in 0 .. Len(h)
      /\ Len(g) \in Nat /\ Len(x) \in Nat /\ Len(h) \in Nat /\ Len(s) \in Nat /\ e \in Nat
  BY LongerPlaces
<1>2. m \in Nat
  BY LenProperties
<1>3. Chain(s, r, c) /\ s = Drop(h, e)
  OBVIOUS
<1> HIDE DEF h, s, m
<1>4. c \in [0 .. m -> 0 .. Len(s)]
  BY <1>3 DEF Chain, m
<1>5. ASSUME NEW k \in 0 .. m - 1
      PROVE  /\ c[k] < Len(s) /\ c[k] \in Nat /\ c[k + 1] \in Nat
             /\ c[k + 1] = MessageEnd(s, c[k])
             /\ MessageEnd(h, e + c[k]) = e + c[k + 1]
             /\ c[k] < c[k + 1]
  <2>1. k \in 0 .. m /\ k + 1 \in 0 .. m
    BY <1>2
  <2>2. c[k] \in 0 .. Len(s) /\ c[k + 1] \in 0 .. Len(s) /\ Len(s) \in Nat
    BY <1>1, <1>4, <2>1
  <2>3. c[k] < Len(s) /\ c[k + 1] = MessageEnd(s, c[k])
    BY <1>3 DEF Chain, m
  <2>4. h \in Seq(Nat) /\ e \in 0 .. Len(h) /\ s \in Seq(Nat)
    BY <1>1
  <2>5. MessageEnd(h, e + c[k]) = e + MessageEnd(s, c[k])
    BY <1>3, <2>2, <2>3, <2>4, MessageShift
  <2>6. ~NoneLeft(s, c[k])
    BY <2>2, <2>3 DEF NoneLeft
  <2>7. c[k] < MessageEnd(s, c[k])
    BY <2>2, <2>4, <2>6, MessageEnds
  <2> QED BY <2>2, <2>3, <2>5, <2>7
<1>6. 0 \in S
  <2> SUFFICES ASSUME 0 + 1 <= m PROVE e + c[0 + 1] > Len(g)
    OBVIOUS
  <2>1. 0 \in 0 .. m - 1 /\ 0 + 1 = 1
    BY <1>2
  <2>2. MessageEnd(h, e + c[0]) = e + c[1] /\ c[0] < c[1] /\ c[1] \in Nat
    BY <1>5, <2>1
  <2>3. MessageEnd(h, e) = e + c[1] /\ 0 < c[1]
    <3>1. e + c[0] = e
      BY <1>1
    <3> QED BY <2>2, <3>1
  <2>4. CASE e = Len(g)
    <3>1. e \in Nat /\ c[1] \in Nat /\ Len(g) \in Nat
      BY <1>1, <2>2
    <3> QED BY <2>3, <2>4, <3>1
  <2>5. CASE e # Len(g)
    <3>1. MessageEnd(g, e) > Len(g)
      BY <2>5 DEF NoneLeft
    <3>2. e + 1 \in 1 .. Len(g)
      BY <1>1, <2>5
    <3>3. MessageEnd(h, e) = MessageEnd(g, e)
      BY <1>1, <3>2 DEF MessageEnd
    <3> QED BY <2>3, <3>1, <3>3
  <2> QED BY <2>4, <2>5
<1>7. ASSUME NEW k \in Nat, k \in S PROVE k + 1 \in S
  <2> SUFFICES ASSUME (k + 1) + 1 <= m PROVE e + c[(k + 1) + 1] > Len(g)
    OBVIOUS
  <2>1. k + 1 \in 0 .. m - 1 /\ k + 1 <= m
    BY <1>2
  <2>2. c[k + 1] < c[(k + 1) + 1] /\ c[k + 1] \in Nat /\ c[(k + 1) + 1] \in Nat
    BY <1>5, <2>1
  <2>3. e + c[k + 1] > Len(g)
    BY <1>7, <2>1
  <2>4. e \in Nat /\ Len(g) \in Nat
    BY <1>1
  <2> QED BY <2>2, <2>3, <2>4
<1>8. ASSUME NEW k \in 1 .. m PROVE e + c[k] > Len(g)
  <2>1. k - 1 \in Nat /\ (k - 1) + 1 = k /\ k <= m
    BY <1>2
  <2>2. k - 1 \in S
    BY <1>6, <1>7, <2>1, Induct
  <2> QED BY <2>1, <2>2
<1> QED BY <1>8 DEF m

(* The contents of one more record. *)
LEMMA CutJoin ==
  ASSUME NEW g \in Seq(Nat), NEW x \in Seq(Nat), NEW q \in Seq(Seq(Nat)), NEW b,
         Cut(g, q, b), b[Len(q)] = Len(g)
  PROVE  \E d : /\ Cut(g \o x, q \o <<x>>, d)
                /\ \A k \in 0 .. Len(q) : d[k] = b[k]
                /\ d[Len(q) + 1] = Len(g \o x)
                /\ q \o <<x>> \in Seq(Seq(Nat)) /\ Len(q \o <<x>>) = Len(q) + 1
<1> DEFINE n == Len(q)
           h == g \o x
           o == q \o <<x>>
           d == [k \in 0 .. n + 1 |-> IF k <= n THEN b[k] ELSE Len(h)]
<1>1. n \in Nat /\ Len(g) \in Nat
  BY LenProperties
<1>2. b \in [0 .. n -> 0 .. Len(g)] /\ b[0] = 0
  BY DEF Cut
<1>3. /\ h \in Seq(Nat) /\ Len(h) = Len(g) + Len(x)
      /\ \A i \in 1 .. Len(g) : h[i] = g[i] /\ g[i] \in Nat
      /\ Drop(h, Len(g)) = x
      /\ Len(x) \in Nat /\ Len(h) \in Nat
  <2>1. Len(g) \in 0 .. Len(g)
    BY <1>1
  <2>2. Drop(h, Len(g)) = Drop(g, Len(g)) \o x
    BY <2>1, DropLonger
  <2>3. Drop(g, Len(g)) = <<>>
    <3>1. Len(g) + 1 > Len(g) /\ Len(g) + 1 \in Int /\ Len(g) \in Int
      BY <1>1
    <3> QED BY <3>1, SubSeqEmpty DEF Drop
  <2>4. <<>> \o x = x
    BY ConcatEmptySeq
  <2>5. /\ h \in Seq(Nat) /\ Len(h) = Len(g) + Len(x)
        /\ \A i \in 1 .. Len(g) : h[i] = g[i] /\ g[i] \in Nat
        /\ Len(x) \in Nat /\ Len(h) \in Nat
    BY <2>1, LongerPlaces
  <2> HIDE DEF h
  <2> QED BY <2>2, <2>3, <2>4, <2>5
<1>4. /\ o \in Seq(Seq(Nat)) /\ Len(o) = n + 1
      /\ \A k \in 1 .. n : o[k] = q[k]
      /\ o[n + 1] = x
  <2>1. o = Append(q, x)
    BY AppendIsConcat
  <2>2. /\ Append(q, x) \in Seq(Seq(Nat)) /\ Len(Append(q, x)) = Len(q) + 1
        /\ \A k \in 1 .. Len(q) : Append(q, x)[k] = q[k]
        /\ Append(q, x)[Len(q) + 1] = x
    BY AppendProperties
  <2> HIDE DEF o
  <2> QED BY <2>1, <2>2
<1> HIDE DEF h, o, n
<1>5. /\ d \in [0 .. n + 1 -> 0 .. Len(h)] /\ d[n + 1] = Len(h)
      /\ \A k \in 0 .. n : d[k] = b[k]
  <2>1. ASSUME NEW k \in 0 .. n + 1 PROVE (IF k <= n THEN b[k] ELSE Len(h)) \in 0 .. Len(h)
    <3>1. CASE k <= n
      <4>1. k \in 0 .. n
        BY <1>1, <3>1
      <4>2. b[k] \in 0 .. Len(g)
        BY <1>2, <4>1
      <4> QED BY <1>1, <1>3, <3>1, <4>2
    <3>2. CASE ~(k <= n)
      BY <1>3, <3>2
    <3> QED BY <3>1, <3>2
  <2>2. ASSUME NEW k \in 0 .. n PROVE d[k] = b[k]
    <3>1. k \in 0 .. n + 1 /\ k <= n
      BY <1>1
    <3> QED BY <3>1
  <2>3. n + 1 \in 0 .. n + 1 /\ ~(n + 1 <= n)
    BY <1>1
  <2> QED BY <2>1, <2>2, <2>3
<1> HIDE DEF d
<1>6. d[0] = 0
  BY <1>1, <1>2, <1>5
<1>7. ASSUME NEW k \in 0 .. Len(o) - 1
      PROVE  d[k] <= d[k + 1] /\ o[k + 1] = SubSeq(h, d[k] + 1, d[k + 1])
  <2>0. k \in 0 .. n
    BY <1>1, <1>4
  <2>1. CASE k = n
    <3>1. d[k] = Len(g) /\ d[k + 1] = Len(h) /\ o[k + 1] = x
      <4>1. d[n] = b[n]
        BY <1>5, <2>0, <2>1
      <4> QED BY <1>4, <1>5, <2>1, <4>1 DEF n
    <3>2. Len(g) <= Len(h)
      BY <1>1, <1>3
    <3>3. SubSeq(h, Len(g) + 1, Len(h)) = x
      BY <1>3 DEF Drop
    <3> QED BY <3>1, <3>2, <3>3
  <2>2. CASE k # n
    <3>1. k \in 0 .. n - 1 /\ k + 1 \in 0 .. n /\ k + 1 \in 1 .. n
      BY <1>1, <2>0, <2>2
    <3>2. b[k] <= b[k + 1] /\ q[k + 1] = SubSeq(g, b[k] + 1, b[k + 1])
      BY <3>1 DEF Cut, n
    <3>3. d[k] = b[k] /\ d[k + 1] = b[k + 1] /\ o[k + 1] = q[k + 1]
      BY <1>4, <1>5, <2>0, <3>1
    <3>4. b[k] \in 0 .. Len(g) /\ b[k + 1] \in 0 .. Len(g)
      BY <1>2, <2>0, <3>1
    <3>5. SubSeq(h, b[k] + 1, b[k + 1]) = SubSeq(g, b[k] + 1, b[k + 1])
      <4>1. \A i \in b[k] + 1 .. b[k + 1] : i \in 1 .. Len(g)
        BY <1>1, <3>4
      <4>2. \A i \in b[k] + 1 .. b[k + 1] : h[i] = g[i] /\ g[i] \in Nat
        BY <1>3, <4>1
      <4>3. b[k] + 1 \in Int /\ b[k + 1] \in Int
        BY <1>1, <3>4
      <4> QED BY <4>2, <4>3, SamePart
    <3> QED BY <3>2, <3>3, <3>5
  <2> QED BY <2>1, <2>2
<1>8. d \in [0 .. Len(o) -> 0 .. Len(h)]
  BY <1>4, <1>5
<1>9. Cut(h, o, d)
  BY <1>6, <1>7, <1>8 DEF Cut
<1> QED BY <1>4, <1>5, <1>9 DEF h, o, n

-----------------------------------------------------------------------------
(* The handshake stream. *)

(* The contents fs of the records make up the stream g, which is cut at the  *)
(* places e between records and at the places b between messages; cs are the *)
(* calls for its whole messages, and ms is what is left.                     *)
StreamOf(g, b, e, cs, fs, ms) ==
    /\ g \in Seq(Nat) /\ cs \in Seq(CallType) /\ fs \in Seq(Seq(Nat))
    /\ Messages(g, cs, b)
    /\ NoneLeft(g, b[Len(cs)]) /\ ms = Drop(g, b[Len(cs)])
    /\ Cut(g, fs, e) /\ e[Len(fs)] = Len(g)
    /\ \A k \in 1 .. Len(cs) : cs[k].last <=> \E n \in 0 .. Len(fs) : b[k] = e[n]

(* handle_handshake_record adds a record to it. *)
LEMMA StreamGrows ==
  ASSUME NEW g, NEW b, NEW e, NEW cs, NEW fs, NEW ms, StreamOf(g, b, e, cs, fs, ms),
         NEW f \in Seq(Nat), NEW run, run = Loop(ms \o f), ~run.refused
  PROVE  \E h, d, a : StreamOf(h, d, a, cs \o run.calls, fs \o <<f>>, Drop(ms \o f, run.used))
<1> DEFINE n == Len(cs)
           p == Len(fs)
           m == Len(run.calls)
           x == b[n]
           h == g \o f
           s == ms \o f
           o == cs \o run.calls
           q == fs \o <<f>>
<1>1. /\ g \in Seq(Nat) /\ cs \in Seq(CallType) /\ fs \in Seq(Seq(Nat))
      /\ Messages(g, cs, b) /\ NoneLeft(g, x) /\ ms = Drop(g, x)
      /\ Cut(g, fs, e) /\ e[p] = Len(g)
      /\ \A k \in 1 .. n : cs[k].last <=> \E i \in 0 .. p : b[k] = e[i]
  BY DEF StreamOf
<1>2. n \in Nat /\ p \in Nat /\ n \in 0 .. n
  BY <1>1, LenProperties
<1>3. b \in [0 .. n -> 0 .. Len(g)] /\ e \in [0 .. p -> 0 .. Len(g)]
  BY <1>1 DEF Messages, Cut
<1> HIDE DEF n, p
<1>4. x \in 0 .. Len(g)
  BY <1>2, <1>3
<1> HIDE DEF x
<1>5. s = Drop(h, x)
  <2>1. Drop(g \o f, x) = Drop(g, x) \o f
    BY <1>1, <1>4, DropLonger
  <2> QED BY <1>1, <2>1
<1>6. /\ h \in Seq(Nat) /\ Len(h) = Len(g) + Len(f)
      /\ s \in Seq(Nat) /\ Len(s) = Len(h) - x /\ x \in 0 .. Len(h)
      /\ Len(g) \in Nat /\ Len(f) \in Nat /\ Len(h) \in Nat /\ Len(s) \in Nat /\ x \in Nat
  <2>1. /\ h \in Seq(Nat) /\ Len(h) = Len(g) + Len(f)
        /\ Drop(h, x) \in Seq(Nat) /\ Len(Drop(h, x)) = Len(h) - x /\ x \in 0 .. Len(h)
        /\ Len(g) \in Nat /\ Len(f) \in Nat /\ Len(h) \in Nat /\ Len(Drop(h, x)) \in Nat /\ x \in Nat
    BY <1>1, <1>4, LongerPlaces, ZenonT(30)
  <2> HIDE DEF h, s
  <2> QED BY <1>5, <2>1
<1>7. RunsFrom(s, 0, run)
  BY <1>6, LoopRuns
<1>8. run \in RunType /\ run.calls \in Seq(CallType) /\ NoneLeft(s, run.used) /\ m \in Nat
  BY <1>7, LenProperties DEF RunsFrom, RunType
<1>9. PICK c : Chain(s, run.calls, c) /\ c[0] = 0 /\ run.used = c[m]
  BY <1>7 DEF RunsFrom
<1>10. c \in [0 .. m -> 0 .. Len(s)]
  BY <1>9 DEF Chain
<1>11. PICK d : /\ Messages(h, o, d)
                /\ \A k \in 0 .. n : d[k] = b[k]
                /\ \A k \in 0 .. m : d[n + k] = x + c[k]
  <2>1. Chain(Drop(g \o f, b[Len(cs)]), run.calls, c)
    BY <1>5, <1>9 DEF x, n
  <2>2. \E d : /\ Messages(g \o f, cs \o run.calls, d)
               /\ \A k \in 0 .. Len(cs) : d[k] = b[k]
               /\ \A k \in 0 .. Len(run.calls) : d[Len(cs) + k] = b[Len(cs)] + c[k]
    <3>1. g \in Seq(Nat) /\ cs \in Seq(CallType) /\ Messages(g, cs, b) /\ c[0] = 0
      BY <1>1, <1>9
    <3> DEFINE r == run.calls
    <3>2. r \in Seq(CallType) /\ Chain(Drop(g \o f, b[Len(cs)]), r, c)
      BY <1>8, <2>1
    <3> HIDE DEF r
    <3>3. \E d : /\ Messages(g \o f, cs \o r, d)
                 /\ \A k \in 0 .. Len(cs) : d[k] = b[k]
                 /\ \A k \in 0 .. Len(r) : d[Len(cs) + k] = b[Len(cs)] + c[k]
      BY <3>1, <3>2, MessagesJoin, SMTT(60)
    <3> QED BY <3>3 DEF r
  <2> QED BY <2>2 DEF x, n
<1>12. PICK a : /\ Cut(h, q, a)
                /\ \A k \in 0 .. p : a[k] = e[k]
                /\ a[p + 1] = Len(h)
                /\ q \in Seq(Seq(Nat)) /\ Len(q) = p + 1
  BY <1>1, CutJoin, ZenonT(30) DEF p
<1>13. \A k \in 1 .. m : x + c[k] > Len(g)
  <2>1. Chain(Drop(g \o f, x), run.calls, c)
    BY <1>5, <1>9
  <2> QED BY <1>1, <1>4, <1>8, <1>9, <2>1, NewEndsLater
<1>14. /\ o \in Seq(CallType) /\ Len(o) = n + m
       /\ \A k \in 1 .. n + m : o[k] = IF k <= n THEN cs[k] ELSE run.calls[k - n]
  BY <1>1, <1>8, ConcatProperties DEF n
<1> HIDE DEF o, q, h, s, m
<1>15. d[Len(o)] = x + run.used /\ run.used \in 0 .. Len(s)
  <2>1. m \in 0 .. m
    BY <1>8
  <2> QED BY <1>9, <1>10, <1>11, <1>14, <2>1
<1>16. NoneLeft(h, d[Len(o)])
  <2>1. NoneLeft(s, run.used) <=> NoneLeft(h, x + run.used)
    BY <1>5, <1>6, <1>15, MessageShift
  <2> QED BY <1>8, <1>15, <2>1
<1>17. Drop(s, run.used) = Drop(h, d[Len(o)])
  <2> DEFINE u == run.used
  <2>1. u \in 0 .. Len(s)
    BY <1>15
  <2> HIDE DEF u
  <2>2. u + 1 \in 1 .. Len(h) - x + 1 /\ Len(s) \in (u + 1) - 1 .. Len(h) - x
    BY <1>6, <2>1
  <2>3. SubSeq(Drop(h, x), u + 1, Len(s)) = SubSeq(h, x + (u + 1), x + Len(s))
    BY <1>6, <2>2, PartOfRest
  <2>4. x + (u + 1) = (x + u) + 1 /\ x + Len(s) = Len(h)
    BY <1>6, <2>1
  <2>5. SubSeq(s, u + 1, Len(s)) = SubSeq(h, (x + u) + 1, Len(h))
    BY <1>5, <2>3, <2>4
  <2> QED BY <1>15, <2>5 DEF Drop, u
<1>18. ASSUME NEW k \in 1 .. n + m
       PROVE  o[k].last <=> \E i \in 0 .. p + 1 : d[k] = a[i]
  <2>0. p + 1 \in 0 .. p + 1 /\ \A i \in 0 .. p + 1 : i = p + 1 \/ i \in 0 .. p
    BY <1>2
  <2>1. CASE k <= n
    <3>1. k \in 1 .. n /\ k \in 0 .. n /\ o[k] = cs[k] /\ d[k] = b[k]
      <4>1. k \in 1 .. n /\ k \in 0 .. n
        BY <1>2, <1>8, <2>1
      <4> QED BY <1>11, <1>14, <2>1, <4>1
    <3>2. b[k] \in 0 .. Len(g)
      BY <1>3, <3>1
    <3>3. cs[k].last <=> \E i \in 0 .. p : b[k] = e[i]
      BY <1>1, <3>1
    <3>4. ASSUME NEW i \in 0 .. p, b[k] = e[i] PROVE \E j \in 0 .. p + 1 : d[k] = a[j]
      <4>1. i \in 0 .. p + 1
        BY <1>2
      <4> QED BY <1>12, <3>1, <3>4, <4>1
    <3>5. ASSUME NEW i \in 0 .. p + 1, d[k] = a[i] PROVE \E j \in 0 .. p : b[k] = e[j]
      <4>1. CASE i \in 0 .. p
        BY <1>12, <3>1, <3>5, <4>1
      <4>2. CASE i = p + 1
        <5>1. b[k] = Len(h)
          BY <1>12, <3>1, <3>5, <4>2
        <5>2. Len(h) = Len(g)
          BY <1>6, <3>2, <5>1
        <5>3. p \in 0 .. p
          BY <1>2
        <5> QED BY <1>1, <5>1, <5>2, <5>3
      <4> QED BY <2>0, <4>1, <4>2
    <3> QED BY <3>1, <3>3, <3>4, <3>5
  <2>2. CASE ~(k <= n)
    <3> DEFINE j == k - n
    <3>1. /\ j \in 1 .. m /\ j \in 0 .. m /\ n + j = k /\ j - 1 \in 0 .. m - 1
          /\ (j - 1) + 1 = j
      BY <1>2, <1>8, <2>2
    <3> HIDE DEF j
    <3>2. o[k] = run.calls[j] /\ d[k] = x + c[j]
      BY <1>11, <1>14, <2>2, <3>1 DEF j
    <3>3. c[j] = MessageEnd(s, c[j - 1]) /\ run.calls[j] = CallAt(s, c[j - 1])
      BY <1>9, <3>1 DEF Chain, m
    <3>4. run.calls[j].last <=> c[j] = Len(s)
      <4>1. CallAt(s, c[j - 1]).last <=> MessageEnd(s, c[j - 1]) = Len(s)
        BY DEF CallAt
      <4> QED BY <3>3, <4>1
    <3>5. c[j] \in 0 .. Len(s)
      BY <1>10, <3>1
    <3>6. c[j] = Len(s) <=> d[k] = Len(h)
      BY <1>6, <3>2, <3>5
    <3>7. d[k] > Len(g)
      BY <1>13, <3>1, <3>2
    <3>8. ASSUME NEW i \in 0 .. p PROVE d[k] # a[i]
      <4>1. a[i] \in 0 .. Len(g)
        BY <1>3, <1>12
      <4>2. d[k] \in Nat
        BY <1>6, <3>2, <3>5
      <4> QED BY <1>6, <3>7, <4>1, <4>2
    <3>9. d[k] = Len(h) <=> \E i \in 0 .. p + 1 : d[k] = a[i]
      BY <1>12, <2>0, <3>8
    <3> QED BY <3>2, <3>4, <3>6, <3>9
  <2> QED BY <2>1, <2>2
<1>19. Cut(h, q, a) /\ a[Len(q)] = Len(h) /\ q \in Seq(Seq(Nat))
  BY <1>12
<1>20. \A k \in 1 .. Len(o) : o[k].last <=> \E i \in 0 .. Len(q) : d[k] = a[i]
  BY <1>12, <1>14, <1>18
<1>21. StreamOf(h, d, a, o, q, Drop(s, run.used))
  BY <1>6, <1>11, <1>14, <1>16, <1>17, <1>19, <1>20 DEF StreamOf
<1> QED BY <1>21 DEF o, q, s

(* The messages given to the callback, as parts of the stream. *)
LEMMA MessagesCut ==
  ASSUME NEW g \in Seq(Nat), NEW q \in Seq(CallType), NEW b, Messages(g, q, b),
         NEW n \in 0 .. Len(q)
  PROVE  /\ FlattenSeq([k \in 1 .. n |-> q[k].message]) = SubSeq(g, 1, b[n])
         /\ b[n] \in 0 .. Len(g)
<1> DEFINE t == [k \in 1 .. n |-> q[k].message]
           c == [k \in 0 .. n |-> b[k]]
<1>1. Len(q) \in Nat /\ n \in Nat /\ Len(g) \in Nat /\ n <= Len(q)
  BY LenProperties
<1>2. b \in [0 .. Len(q) -> 0 .. Len(g)] /\ b[0] = 0
  BY DEF Messages
<1>3. \A k \in 0 .. n : k \in 0 .. Len(q) /\ b[k] \in 0 .. Len(g)
  <2>1. ASSUME NEW k \in 0 .. n PROVE k \in 0 .. Len(q) /\ b[k] \in 0 .. Len(g)
    <3>1. k \in 0 .. Len(q)
      BY <1>1
    <3> QED BY <1>2, <3>1
  <2> QED BY <2>1
<1>4. t \in Seq(Seq(Nat)) /\ Len(t) = n
  <2>1. ASSUME NEW k \in 1 .. n PROVE q[k].message \in Seq(Nat)
    <3>1. k \in 1 .. Len(q)
      BY <1>1
    <3>2. q[k] \in CallType
      BY <3>1, ElementOfSeq
    <3> QED BY <3>2 DEF CallType
  <2>2. t \in Seq(Seq(Nat))
    BY <1>1, <2>1, IsASeq
  <2> QED BY <1>1, <2>2, LenProperties
<1>5. c \in [0 .. n -> 0 .. Len(g)] /\ c[0] = 0 /\ \A k \in 0 .. n : c[k] = b[k]
  BY <1>1, <1>2, <1>3
<1>6. \A k \in 1 .. n : t[k] = q[k].message
  OBVIOUS
<1> HIDE DEF t, c
<1>7. ASSUME NEW k \in 0 .. Len(t) - 1
      PROVE  c[k] <= c[k + 1] /\ t[k + 1] = SubSeq(g, c[k] + 1, c[k + 1])
  <2>1. k \in 0 .. n /\ k + 1 \in 0 .. n /\ k + 1 \in 1 .. n /\ k \in 0 .. Len(q) - 1
    BY <1>1, <1>4
  <2>2. /\ b[k] < Len(g) /\ b[k + 1] = MessageEnd(g, b[k])
        /\ q[k + 1].message = SubSeq(g, b[k] + 1, b[k + 1])
    BY <2>1 DEF Messages
  <2>3. b[k] \in 0 .. Len(g) /\ b[k + 1] \in 0 .. Len(g) /\ c[k] = b[k] /\ c[k + 1] = b[k + 1]
    BY <1>3, <1>5, <2>1
  <2>4. ~NoneLeft(g, b[k])
    BY <1>1, <2>2, <2>3 DEF NoneLeft
  <2>5. b[k] < MessageEnd(g, b[k])
    BY <2>3, <2>4, MessageEnds
  <2>6. b[k] <= b[k + 1]
    BY <1>1, <2>2, <2>3, <2>5
  <2> QED BY <1>6, <2>1, <2>2, <2>3, <2>6
<1>8. Cut(g, t, c)
  BY <1>4, <1>5, <1>7 DEF Cut
<1>9. FlattenSeq(t) = SubSeq(g, 1, c[Len(t)])
  BY <1>4, <1>8, FlattenCut
<1>10. c[Len(t)] = b[n] /\ b[n] \in 0 .. Len(g)
  <2>1. n \in 0 .. n
    BY <1>1
  <2> QED BY <1>3, <1>4, <1>5, <2>1
<1> QED BY <1>9, <1>10 DEF t

(* The first n records, as parts of the stream. *)
LEMMA RecordsCut ==
  ASSUME NEW g \in Seq(Nat), NEW q \in Seq(Seq(Nat)), NEW b, Cut(g, q, b), NEW n \in 0 .. Len(q)
  PROVE  FlattenSeq(Take(q, n)) = SubSeq(g, 1, b[n]) /\ b[n] \in 0 .. Len(g)
<1> DEFINE t == Take(q, n)
           c == [k \in 0 .. n |-> b[k]]
<1>1. Len(q) \in Nat /\ n \in Nat /\ Len(g) \in Nat /\ n <= Len(q)
  BY LenProperties
<1>2. b \in [0 .. Len(q) -> 0 .. Len(g)] /\ b[0] = 0
  BY DEF Cut
<1>3. \A k \in 0 .. n : k \in 0 .. Len(q) /\ b[k] \in 0 .. Len(g)
  <2>1. ASSUME NEW k \in 0 .. n PROVE k \in 0 .. Len(q) /\ b[k] \in 0 .. Len(g)
    <3>1. k \in 0 .. Len(q)
      BY <1>1
    <3> QED BY <1>2, <3>1
  <2> QED BY <2>1
<1>4. t \in Seq(Seq(Nat)) /\ Len(t) = n /\ \A k \in 1 .. n : t[k] = q[k]
  BY TakeDrop
<1>5. c \in [0 .. n -> 0 .. Len(g)] /\ c[0] = 0 /\ \A k \in 0 .. n : c[k] = b[k]
  BY <1>1, <1>2, <1>3
<1> HIDE DEF t, c
<1>6. ASSUME NEW k \in 0 .. Len(t) - 1
      PROVE  c[k] <= c[k + 1] /\ t[k + 1] = SubSeq(g, c[k] + 1, c[k + 1])
  <2>1. k \in 0 .. n /\ k + 1 \in 0 .. n /\ k + 1 \in 1 .. n /\ k \in 0 .. Len(q) - 1
    BY <1>1, <1>4
  <2>2. b[k] <= b[k + 1] /\ q[k + 1] = SubSeq(g, b[k] + 1, b[k + 1])
    BY <2>1 DEF Cut
  <2> QED BY <1>4, <1>5, <2>1, <2>2
<1>7. Cut(g, t, c)
  BY <1>4, <1>5, <1>6 DEF Cut
<1>8. FlattenSeq(t) = SubSeq(g, 1, c[Len(t)])
  BY <1>4, <1>7, FlattenCut
<1>9. c[Len(t)] = b[n] /\ b[n] \in 0 .. Len(g)
  <2>1. n \in 0 .. n
    BY <1>1
  <2> QED BY <1>3, <1>4, <1>5, <2>1
<1> QED BY <1>8, <1>9 DEF t

(* What is kept stays within its bounds, and what was given to the callback   *)
(* is the handshake stream, cut where messages end.                           *)
MessageInv ==
    /\ skipped \in Nat
    /\ Len(buf) <= HeaderSize + MaxEncrypted
    /\ MaxBuffer # 0 => Len(mess) <= MaxBuffer
    /\ result = "ok" =>
          /\ skipped <= MaxSkip
          /\ \E g, b, e : StreamOf(g, b, e, calls, frags, mess)

(* A part of a record is shorter than the longest record. *)
LEMMA PartBounded ==
  ASSUME NEW b \in Seq(Nat), Part(b)
  PROVE  Len(b) <= HeaderSize + MaxEncrypted
<1>1. Len(b) \in Nat /\ MaxPlain \in Nat /\ MaxEncrypted \in Nat /\ MaxPlain <= MaxEncrypted
  BY LenProperties, RecordsAssumption
<1>2. CASE Len(b) < HeaderSize
  BY <1>1, <1>2 DEF HeaderSize
<1>3. CASE ~(Len(b) < HeaderSize)
  <2>1. Len(b) < HeaderSize + b[2] /\ HeaderOK(b)
    BY <1>1, <1>3 DEF Part, RecordSize, HeaderSize
  <2>2. 2 \in 1 .. Len(b)
    BY <1>1, <1>3 DEF HeaderSize
  <2>3. b[2] \in Nat
    BY <2>2, ElementOfSeq
  <2>4. b[2] <= MaxEncrypted
    <3>1. b[2] <= MaxEncrypted \/ b[2] <= MaxPlain
      BY <2>1 DEF HeaderOK
    <3> QED BY <1>1, <2>3, <3>1
  <2> QED BY <1>1, <2>1, <2>3, <2>4 DEF HeaderSize
<1> QED BY <1>2, <1>3

(* Nothing has been given to the callback. *)
LEMMA MessageInit ==
  ASSUME Init
  PROVE  MessageInv
<1>1. buf = <<>> /\ mess = <<>> /\ skipped = 0 /\ calls = <<>> /\ frags = <<>>
  BY DEF Init
<1>2. {MaxEncrypted, MaxBuffer, MaxSkip} \subseteq Nat
  BY RecordsAssumption
<1>3. /\ <<>> \in Seq(Nat) /\ <<>> \in Seq(CallType) /\ <<>> \in Seq(Seq(Nat)) /\ Len(<<>>) = 0
  BY EmptySeq
<1> DEFINE z == [k \in 0 .. 0 |-> 0]
<1>4. z[0] = 0 /\ z \in [0 .. 0 -> 0 .. 0] /\ 0 .. 0 - 1 = {} /\ 1 .. 0 = {}
  OBVIOUS
<1> HIDE DEF z
<1>5. Messages(<<>>, <<>>, z) /\ Cut(<<>>, <<>>, z)
  BY <1>3, <1>4 DEF Messages, Cut
<1>6. NoneLeft(<<>>, z[Len(<<>>)]) /\ <<>> = Drop(<<>>, z[Len(<<>>)])
  <2>1. SubSeq(<<>>, 0 + 1, 0) = <<>>
    BY SubSeqEmpty
  <2> QED BY <1>3, <1>4, <2>1 DEF NoneLeft, Drop
<1>7. StreamOf(<<>>, z, z, <<>>, <<>>, <<>>)
  BY <1>3, <1>4, <1>5, <1>6 DEF StreamOf
<1> QED BY <1>1, <1>2, <1>3, <1>7 DEF MessageInv, HeaderSize

(* A record is handled. *)
LEMMA MessageRecord ==
  ASSUME MessageInv, result = "ok", NEW p, OneRecord(p), p.record \in RecordType
  PROVE  MessageInv'
<1> DEFINE o == IF mode.tls12 THEN HandleRecordTls12(p.record) ELSE HandleRecord(p.record)
<1>1. /\ result' = o.result /\ mess' = o.mess /\ calls' = calls \o o.calls
      /\ skipped' = o.skipped /\ frags' = frags \o o.frags /\ buf' = <<>>
  BY DEF OneRecord
<1>2. PICK g, b, e : StreamOf(g, b, e, calls, frags, mess)
  BY DEF MessageInv
<1>3. Aside(o) \/ \E f \in Seq(Nat) : Added(o, f)
  <2>1. skipped \in Nat
    BY DEF MessageInv
  <2>2. PICK r : r = o
    OBVIOUS
  <2>3. Aside(r) \/ \E f \in Seq(Nat) : Added(r, f)
    BY <2>1, <2>2, RecordOutcome
  <2> QED BY <2>2, <2>3
<1> HIDE DEF o
<1>4. {MaxEncrypted, MaxBuffer, MaxSkip} \subseteq Nat /\ Len(<<>>) = 0
  BY RecordsAssumption
<1>5. Len(buf') <= HeaderSize + MaxEncrypted
  BY <1>1, <1>4 DEF HeaderSize
<1>6. CASE Aside(o)
  <2>1. /\ mess' = mess /\ calls' = calls \o <<>> /\ frags' = frags \o <<>>
        /\ skipped' \in Nat /\ (result' = "ok" => skipped' = skipped \/ skipped' <= MaxSkip)
    BY <1>1, <1>6 DEF Aside
  <2>2. calls \in Seq(CallType) /\ frags \in Seq(Seq(Nat))
    BY <1>2 DEF StreamOf
  <2>3. calls' = calls /\ frags' = frags
    BY <2>1, <2>2, ConcatEmptySeq
  <2>4. StreamOf(g, b, e, calls', frags', mess')
    BY <1>2, <2>1, <2>3
  <2>5. MaxBuffer # 0 => Len(mess') <= MaxBuffer
    BY <2>1 DEF MessageInv
  <2>6. skipped <= MaxSkip
    BY DEF MessageInv
  <2> QED BY <1>5, <2>1, <2>4, <2>5, <2>6 DEF MessageInv
<1>7. CASE \E f \in Seq(Nat) : Added(o, f)
  <2>1. PICK f \in Seq(Nat) : Added(o, f)
    BY <1>7
  <2>2. PICK run : run = Loop(mess \o f)
    OBVIOUS
  <2>3. /\ o.calls = run.calls /\ o.frags = <<f>> /\ o.skipped = skipped
        /\ \/ o.result # "ok" /\ o.mess \in {mess, <<>>}
           \/ /\ o.result = "ok" /\ ~run.refused /\ o.mess = Drop(mess \o f, run.used)
              /\ o.mess # <<>> => ~Overflows(Len(o.mess))
    BY <2>1, <2>2 DEF Added
  <2>4. skipped' = skipped /\ skipped \in Nat /\ skipped <= MaxSkip
    BY <1>1, <2>3 DEF MessageInv
  <2>5. CASE o.result # "ok" /\ o.mess \in {mess, <<>>}
    <3>1. MaxBuffer # 0 => Len(mess') <= MaxBuffer
      BY <1>1, <1>4, <2>5 DEF MessageInv
    <3>2. result' # "ok"
      BY <1>1, <2>5
    <3> QED BY <1>5, <2>4, <3>1, <3>2 DEF MessageInv
  <2>6. CASE /\ o.result = "ok" /\ ~run.refused /\ o.mess = Drop(mess \o f, run.used)
             /\ o.mess # <<>> => ~Overflows(Len(o.mess))
    <3>1. PICK x : x = mess
      OBVIOUS
    <3>2. StreamOf(g, b, e, calls, frags, x) /\ run = Loop(x \o f)
      BY <1>2, <2>2, <3>1
    <3>3. PICK cs, fs : cs = calls /\ fs = frags
      OBVIOUS
    <3>4. PICK h, d, a : StreamOf(h, d, a, cs \o run.calls, fs \o <<f>>, Drop(x \o f, run.used))
      BY <2>6, <3>2, <3>3, StreamGrows
    <3>5. /\ calls' = cs \o run.calls /\ frags' = fs \o <<f>> /\ mess' = Drop(x \o f, run.used)
      BY <1>1, <2>3, <2>6, <3>1, <3>3
    <3>6. StreamOf(h, d, a, calls', frags', mess')
      BY <3>4, <3>5
    <3>7. MaxBuffer # 0 => Len(mess') <= MaxBuffer
      <4>1. mess' = o.mess
        BY <1>1
      <4>2. CASE mess' = <<>>
        BY <1>4, <4>2
      <4>3. CASE mess' # <<>>
        <5>1. Drop(h, d[Len(calls')]) \in Seq(Nat)
          <6>1. h \in Seq(Nat) /\ Messages(h, cs \o run.calls, d) /\ cs \o run.calls \in Seq(CallType)
            BY <3>4 DEF StreamOf
          <6>2. Len(cs \o run.calls) \in 0 .. Len(cs \o run.calls)
            BY <6>1, LenProperties
          <6>3. d[Len(cs \o run.calls)] \in 0 .. Len(h)
            BY <6>1, <6>2 DEF Messages
          <6>4. Drop(h, d[Len(cs \o run.calls)]) \in Seq(Nat)
            BY <6>1, <6>3, TakeDrop
          <6> QED BY <3>5, <6>4
        <5>2. mess' \in Seq(Nat)
          BY <3>6, <5>1 DEF StreamOf
        <5>3. Len(mess') \in Nat
          BY <5>2, LenProperties
        <5>4. ~(MaxBuffer # 0 /\ Len(mess') > MaxBuffer)
          BY <2>6, <4>1, <4>3 DEF Overflows
        <5> QED BY <1>4, <5>3, <5>4
      <4> QED BY <4>2, <4>3
    <3> QED BY <1>5, <2>4, <3>6, <3>7 DEF MessageInv
  <2> QED BY <2>3, <2>5, <2>6
<1> QED BY <1>3, <1>6, <1>7

(* Every step keeps it. *)
LEMMA MessageNext ==
  ASSUME FrameInv, MessageInv, [Next]_vars
  PROVE  MessageInv'
<1>1. CASE UNCHANGED vars
  BY <1>1 DEF vars, MessageInv
<1>2. CASE \E c \in Cells[mode] : Arrive(c)
  <2>1. UNCHANGED <<buf, mess, skipped, result, calls, frags>>
    BY <1>2 DEF Arrive
  <2> QED BY <2>1 DEF MessageInv
<1>3. CASE HandleInput
  <2> DEFINE p == ParseRecord(buf, chunk)
  <2>1. result = "ok" /\ (NeedsMore(p) \/ BadHeader(p) \/ OneRecord(p))
    BY <1>3 DEF HandleInput
  <2>2. buf \in Seq(Nat) /\ chunk \in Seq(Nat) /\ Part(buf)
    BY <2>1 DEF FrameInv
  <2>3. ParseSound(buf, chunk, p)
    BY <2>2, ParseRecordOK
  <2> HIDE DEF p
  <2>5. CASE NeedsMore(p)
    <3>1. p.status = "more" /\ buf' = p.kept /\ UNCHANGED <<mess, skipped, result, calls, frags>>
      BY <2>5 DEF NeedsMore
    <3>2. p.kept = buf \o chunk /\ Part(p.kept)
      BY <2>3, <3>1 DEF ParseSound
    <3>3. p.kept \in Seq(Nat)
      BY <2>2, <3>2, ConcatProperties
    <3>4. Len(p.kept) <= HeaderSize + MaxEncrypted
      BY <3>2, <3>3, PartBounded
    <3> QED BY <3>1, <3>4 DEF MessageInv
  <2>6. CASE BadHeader(p)
    <3>1. /\ p.status = "decode_error" /\ buf' = p.kept /\ result' = p.status
          /\ UNCHANGED <<mess, skipped, calls, frags>>
      BY <2>6 DEF BadHeader
    <3>2. p.kept \in Seq(Nat) /\ Len(p.kept) <= HeaderSize
      BY <2>3, <3>1 DEF ParseSound
    <3>3. Len(p.kept) <= HeaderSize + MaxEncrypted
      <4>1. Len(p.kept) \in Nat /\ MaxEncrypted \in Nat
        BY <3>2, LenProperties, RecordsAssumption
      <4> QED BY <3>2, <4>1 DEF HeaderSize
    <3> QED BY <3>1, <3>3 DEF MessageInv
  <2>7. CASE OneRecord(p)
    <3>1. p.status = "record"
      BY <2>7 DEF OneRecord
    <3>2. /\ p.used \in 0 .. Len(chunk) /\ Whole(buf \o Take(chunk, p.used))
          /\ p.record = Record(buf \o Take(chunk, p.used))
      BY <2>3, <3>1 DEF ParseSound
    <3>3. Take(chunk, p.used) \in Seq(Nat)
      BY <2>2, <3>2, TakeDrop
    <3>4. buf \o Take(chunk, p.used) \in Seq(Nat)
      BY <2>2, <3>3, ConcatProperties
    <3>5. p.record \in RecordType
      BY <3>2, <3>4, RecordTyped DEF Whole
    <3> QED BY <2>1, <2>7, <3>5, MessageRecord
  <2> QED BY <2>1, <2>5, <2>6, <2>7
<1> QED BY <1>1, <1>2, <1>3 DEF Next

(* The k-th message starts where the one before ends, and is whole. *)
LEMMA WholeMessages ==
  ASSUME NEW g \in Seq(Nat), NEW q \in Seq(CallType), NEW b, Messages(g, q, b),
         NEW k \in 1 .. Len(q)
  PROVE  Len(q[k].message) = 1 + q[k].message[1]
<1> DEFINE i == k - 1
           t == SubSeq(g, b[i] + 1, b[k])
<1>1. Len(q) \in Nat /\ Len(g) \in Nat
  BY LenProperties
<1>2. i \in 0 .. Len(q) - 1 /\ i \in 0 .. Len(q) /\ k \in 0 .. Len(q) /\ i + 1 = k
  BY <1>1
<1> HIDE DEF i
<1>3. b[i] \in 0 .. Len(g) /\ b[k] \in 0 .. Len(g)
  BY <1>2 DEF Messages
<1>4. b[i] < Len(g) /\ b[k] = MessageEnd(g, b[i]) /\ q[k].message = t
  <2>1. /\ b[i] < Len(g) /\ b[i + 1] = MessageEnd(g, b[i])
        /\ q[i + 1].message = SubSeq(g, b[i] + 1, b[i + 1])
    BY <1>2 DEF Messages
  <2> QED BY <1>2, <2>1
<1> DEFINE x == b[i]
           y == b[k]
<1>5. x \in Nat /\ y \in Nat /\ x < Len(g) /\ y <= Len(g) /\ x + 1 \in 1 .. Len(g)
  <2>1. x \in Nat /\ y \in Nat /\ x < Len(g) /\ y <= Len(g)
    BY <1>1, <1>3, <1>4
  <2> HIDE DEF x, y
  <2> QED BY <1>1, <2>1
<1>6. g[x + 1] \in Nat /\ y = x + 1 + g[x + 1]
  BY <1>4, <1>5, ElementOfSeq DEF MessageEnd
<1> HIDE DEF x, y
<1>7. \A j \in x + 1 .. y : g[j] \in Nat
  <2>1. ASSUME NEW j \in x + 1 .. y PROVE g[j] \in Nat
    <3>1. j \in 1 .. Len(g)
      BY <1>1, <1>5
    <3> QED BY <3>1, ElementOfSeq
  <2> QED BY <2>1
<1>8. /\ Len(SubSeq(g, x + 1, y)) = IF x + 1 <= y THEN y - (x + 1) + 1 ELSE 0
      /\ \A j \in 1 .. y - (x + 1) + 1 : SubSeq(g, x + 1, y)[j] = g[(x + 1) + j - 1]
  <2>1. x + 1 \in Int /\ y \in Int
    BY <1>5
  <2> QED BY <1>7, <2>1, SubSeqProperties
<1>9. 1 \in 1 .. y - (x + 1) + 1 /\ (x + 1) + 1 - 1 = x + 1 /\ x + 1 <= y /\ y - (x + 1) + 1 = 1 + g[x + 1]
  <2> DEFINE v == g[x + 1]
  <2>1. v \in Nat /\ y = x + 1 + v
    BY <1>6
  <2> HIDE DEF v
  <2>2. 1 \in 1 .. y - (x + 1) + 1 /\ (x + 1) + 1 - 1 = x + 1 /\ x + 1 <= y /\ y - (x + 1) + 1 = 1 + v
    BY <1>5, <2>1
  <2> QED BY <2>2 DEF v
<1>10. Len(SubSeq(g, x + 1, y)) = 1 + g[x + 1] /\ SubSeq(g, x + 1, y)[1] = g[x + 1]
  BY <1>8, <1>9
<1> QED BY <1>4, <1>10 DEF x, y

(* What the invariant says of the messages, ... *)
LEMMA StreamWhole ==
  ASSUME MessageInv, result = "ok"
  PROVE  /\ Handed(Len(calls)) \o mess = FlattenSeq(frags)
         /\ \A k \in DOMAIN calls : Len(calls[k].message) = 1 + calls[k].message[1]
         /\ mess # <<>> => Len(mess) < 1 + mess[1]
<1>1. PICK g, b, e : StreamOf(g, b, e, calls, frags, mess)
  BY DEF MessageInv
<1>2. /\ g \in Seq(Nat) /\ calls \in Seq(CallType) /\ frags \in Seq(Seq(Nat))
      /\ Messages(g, calls, b)
      /\ NoneLeft(g, b[Len(calls)]) /\ mess = Drop(g, b[Len(calls)])
      /\ Cut(g, frags, e) /\ e[Len(frags)] = Len(g)
  BY <1>1 DEF StreamOf
<1>3. Len(g) \in Nat /\ Len(calls) \in 0 .. Len(calls) /\ Len(g) \in 0 .. Len(g)
  BY <1>2, LenProperties
<1> DEFINE x == b[Len(calls)]
<1>4. Handed(Len(calls)) = SubSeq(g, 1, x) /\ x \in 0 .. Len(g)
  BY <1>2, <1>3, MessagesCut DEF Handed
<1> HIDE DEF x
<1>5. mess = SubSeq(g, x + 1, Len(g)) /\ NoneLeft(g, x)
  BY <1>2 DEF Drop, x
<1>6. SubSeq(g, 1, x) \o SubSeq(g, x + 1, Len(g)) = SubSeq(g, 1, Len(g))
  <2>1. x <= Len(g)
    BY <1>3, <1>4
  <2> QED BY <1>2, <1>3, <1>4, <2>1, PartsMeet
<1>7. FlattenSeq(frags) = SubSeq(g, 1, Len(g))
  BY <1>2, FlattenCut
<1>8. Handed(Len(calls)) \o mess = FlattenSeq(frags)
  BY <1>4, <1>5, <1>6, <1>7
<1>9. ASSUME NEW k \in DOMAIN calls PROVE Len(calls[k].message) = 1 + calls[k].message[1]
  <2>1. k \in 1 .. Len(calls)
    BY <1>2, LenProperties
  <2> QED BY <1>2, <2>1, WholeMessages
<1>10. ASSUME mess # <<>> PROVE Len(mess) < 1 + mess[1]
  <2>1. /\ Drop(g, x) \in Seq(Nat) /\ Len(Drop(g, x)) = Len(g) - x
        /\ \A i \in 1 .. Len(g) - x : Drop(g, x)[i] = g[i + x]
    BY <1>2, <1>4, TakeDrop
  <2>2. mess = Drop(g, x)
    BY <1>5 DEF Drop
  <2>3. mess \in Seq(Nat) /\ Len(mess) = Len(g) - x /\ \A i \in 1 .. Len(g) - x : mess[i] = g[i + x]
    BY <2>1, <2>2
  <2>4. Len(mess) # 0 /\ Len(mess) \in Nat /\ x \in Nat
    BY <1>3, <1>4, <1>10, <2>3, EmptySeq, LenProperties
  <2>5. x # Len(g) /\ 1 \in 1 .. Len(g) - x /\ 1 \in 1 .. Len(mess) /\ 1 + x = x + 1
    BY <1>3, <2>3, <2>4
  <2>6. mess[1] = g[x + 1] /\ mess[1] \in Nat
    BY <2>3, <2>5, ElementOfSeq
  <2>7. x + 1 + mess[1] > Len(g)
    BY <1>5, <2>5, <2>6 DEF NoneLeft, MessageEnd
  <2> DEFINE v == mess[1]
  <2>8. v \in Nat /\ x + 1 + v > Len(g)
    BY <2>6, <2>7
  <2>9. Len(mess) = Len(g) - x
    BY <2>3
  <2> HIDE DEF v
  <2>10. Len(mess) < 1 + v
    BY <1>3, <2>4, <2>8, <2>9
  <2> QED BY <2>10 DEF v
<1> QED BY <1>8, <1>9, <1>10

(* ... and of the flag is_end_of_record. *)
LEMMA StreamFlags ==
  ASSUME MessageInv, result = "ok", NEW k \in DOMAIN calls
  PROVE  calls[k].last <=> Len(Handed(k)) \in RecordEnds
<1>1. PICK g, b, e : StreamOf(g, b, e, calls, frags, mess)
  BY DEF MessageInv
<1>2. /\ g \in Seq(Nat) /\ calls \in Seq(CallType) /\ frags \in Seq(Seq(Nat))
      /\ Messages(g, calls, b) /\ Cut(g, frags, e)
      /\ \A i \in 1 .. Len(calls) : calls[i].last <=> \E n \in 0 .. Len(frags) : b[i] = e[n]
  BY <1>1 DEF StreamOf
<1>3. Len(calls) \in Nat /\ k \in 1 .. Len(calls)
  BY <1>2, LenProperties
<1>4. k \in 0 .. Len(calls)
  BY <1>3
<1>5. ASSUME NEW i \in 0 .. Len(g) PROVE Len(SubSeq(g, 1, i)) = i
  BY <1>2, <1>5, TakeDrop DEF Take
<1>6. Len(Handed(k)) = b[k]
  <2>1. Handed(k) = SubSeq(g, 1, b[k]) /\ b[k] \in 0 .. Len(g)
    BY <1>2, <1>4, MessagesCut DEF Handed
  <2> QED BY <1>5, <2>1
<1>7. ASSUME NEW n \in 0 .. Len(frags) PROVE Len(FlattenSeq(Take(frags, n))) = e[n]
  <2>1. FlattenSeq(Take(frags, n)) = SubSeq(g, 1, e[n]) /\ e[n] \in 0 .. Len(g)
    BY <1>2, RecordsCut
  <2> QED BY <1>5, <2>1
<1>8. b[k] \in RecordEnds <=> \E n \in 0 .. Len(frags) : b[k] = e[n]
  BY <1>7 DEF RecordEnds
<1> QED BY <1>2, <1>3, <1>6, <1>8

(* What an endpoint keeps is bounded, whatever arrives and however it is cut  *)
(* (MemoryBounded): recvbuf.rec by the longest record the header check lets    *)
(* through, recvbuf.mess by max_buffer_size, also when it is filled over many  *)
(* records, and the early data skipped by its limit.                           *)
THEOREM MemoryStaysBounded == Spec => []MemoryBounded
<1>1. Init => FrameInv /\ MessageInv
  BY FrameInit, MessageInit
<1>2. (FrameInv /\ MessageInv) /\ [Next]_vars => (FrameInv /\ MessageInv)'
  BY FrameNext, MessageNext
<1>3. FrameInv /\ MessageInv => MemoryBounded
  BY DEF MessageInv, MemoryBounded
<1> QED BY <1>1, <1>2, <1>3, PTL DEF Spec

(* The messages the callback is given are those of the handshake stream, each *)
(* whole, none twice and none left out, however the stream is cut into        *)
(* records and the records into reads (MessagesWhole).                        *)
THEOREM MessagesComeWhole == Spec => []MessagesWhole
<1>1. Init => FrameInv /\ MessageInv
  BY FrameInit, MessageInit
<1>2. (FrameInv /\ MessageInv) /\ [Next]_vars => (FrameInv /\ MessageInv)'
  BY FrameNext, MessageNext
<1>3. FrameInv /\ MessageInv => MessagesWhole
  BY StreamWhole DEF MessagesWhole
<1> QED BY <1>1, <1>2, <1>3, PTL DEF Spec

(* The callback is told that a message ends its record exactly when it does   *)
(* (EndFlagIsTrue): the flag that the handlers of ClientHello, ServerHello    *)
(* and Finished look at before they change keys.                              *)
THEOREM EndFlagsAreTrue == Spec => []EndFlagIsTrue
<1>1. Init => FrameInv /\ MessageInv
  BY FrameInit, MessageInit
<1>2. (FrameInv /\ MessageInv) /\ [Next]_vars => (FrameInv /\ MessageInv)'
  BY FrameNext, MessageNext
<1>3. FrameInv /\ MessageInv => EndFlagIsTrue
  BY StreamFlags DEF EndFlagIsTrue
<1> QED BY <1>1, <1>2, <1>3, PTL DEF Spec
=============================================================================
