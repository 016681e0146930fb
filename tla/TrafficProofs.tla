---------------------------- MODULE TrafficProofs ----------------------------
(***************************************************************************)
(* Proofs about Traffic, for every value of its constants.                 *)
(***************************************************************************)
EXTENDS Traffic, TLAPS

(***************************************************************************)
(* What a send call does to the context it uses                            *)
(***************************************************************************)

\* The operators on a context keep it a context.
LEMMA ContextTypes ==
    ASSUME NEW c \in Protection, NEW n \in Nat
    PROVE  /\ Advance(c, n) \in Protection
           /\ NextKey(c) \in Protection
           /\ LostKey(c) \in Protection
           /\ Imported(c) \in Protection
<1>1. Advance(c, n) \in Protection
  BY DEF Advance, Protection
<1>2. NextKey(c) \in Protection
  BY DEF NextKey, Protection
<1>3. LostKey(c) \in Protection
  BY DEF LostKey, Protection
<1>4. Imported(c) \in Protection
  BY DEF Imported, Protection
<1> QED BY <1>1, <1>2, <1>3, <1>4

\* What a context seals are records, and it consumes nonces.
LEMMA SealTypes ==
    ASSUME NEW c \in Protection, NEW n \in Nat
    PROVE  /\ Nonces(c, n) \in Seq(Position)
           /\ DataRecords(c, n) \in Seq(Record)
           /\ \A kind \in Kinds, req \in BOOLEAN : Seal(c, 0, kind, req) \in Record
<1>1. Nonces(c, n) \in Seq(Position)
  BY DEF Nonces, Position, Protection
<1>2. DataRecords(c, n) \in Seq(Record)
  BY DEF DataRecords, Seal, Record, Kinds, Protection
<1>3. \A kind \in Kinds, req \in BOOLEAN : Seal(c, 0, kind, req) \in Record
  BY DEF Seal, Record, Protection
<1> QED BY <1>1, <1>2, <1>3

\* The result of update_send_key, whichever allocation fails.
LEMMA UpdateSendKeyTypes ==
    ASSUME NEW c \in Protection, NEW req \in BOOLEAN, NEW fault
    PROVE  LET u == UpdateSendKey(c, req, fault)
           IN  u.enc \in Protection /\ u.out \in Seq(Record) /\ u.used \in Seq(Position)
<1> DEFINE u == UpdateSendKey(c, req, fault)
<1>1. 1 \in Nat /\ "ku" \in Kinds
  BY DEF Kinds
<1>2. Advance(c, 1) \in Protection /\ NextKey(c) \in Protection
  BY <1>1, ContextTypes
<1>3. LostKey(Advance(c, 1)) \in Protection
  BY <1>1, <1>2, ContextTypes
<1>4. Nonces(c, 1) \in Seq(Position) /\ Seal(c, 0, "ku", req) \in Record
  BY <1>1, SealTypes
<1>5. CASE fault = "reserve"
  <2>1. UpdateSendKey(c, req, fault) = [enc |-> c, out |-> <<>>, used |-> <<>>]
    BY <1>5 DEF UpdateSendKey
  <2> QED BY <2>1
<1>6. CASE fault = "hkdf"
  <2>1. UpdateSendKey(c, req, fault) = [enc |-> Advance(c, 1), out |-> <<>>, used |-> Nonces(c, 1)]
    BY <1>6 DEF UpdateSendKey
  <2> QED BY <2>1, <1>2, <1>4
<1>7. CASE fault = "aead"
  <2>1. UpdateSendKey(c, req, fault) =
           [enc |-> LostKey(Advance(c, 1)), out |-> <<>>, used |-> Nonces(c, 1)]
    BY <1>7 DEF UpdateSendKey
  <2> QED BY <2>1, <1>3, <1>4
<1>8. CASE fault \notin {"reserve", "hkdf", "aead"}
  <2>1. UpdateSendKey(c, req, fault) =
           [enc |-> NextKey(c), out |-> <<Seal(c, 0, "ku", req)>>, used |-> Nonces(c, 1)]
    BY <1>8 DEF UpdateSendKey
  <2> QED BY <2>1, <1>2, <1>4
<1> QED BY <1>5, <1>6, <1>7, <1>8

(***************************************************************************)
(* Type correctness                                                        *)
(***************************************************************************)

\* A sequence of one element.
LEMMA Singleton ==
    ASSUME NEW S, NEW x \in S
    PROVE  <<x>> \in Seq(S) /\ Len(<<x>>) = 1 /\ <<x>>[1] = x
OBVIOUS

\* Setting one field of one object.
LEMMA FieldUpdate ==
    ASSUME NEW S, NEW f \in [Endpoints -> [Owners -> S]],
           NEW e \in Endpoints, NEW o \in Owners, NEW v \in S
    PROVE  [f EXCEPT ![e][o] = v] \in [Endpoints -> [Owners -> S]]
OBVIOUS

\* The end of a send call keeps the variables of the sending side typed.
LEMMA TransmitTypes ==
    ASSUME TypeOK, NEW e \in Endpoints, NEW o \in Owners, NEW c \in Protection,
           NEW out \in Seq(Record), NEW used \in Seq(Position),
           Transmit(e, o, c, out, used)
    PROVE  /\ enc' \in [Endpoints -> [Owners -> Protection]]
           /\ wire' \in [Endpoints -> Seq(Record)]
           /\ sealed' \in [Endpoints -> Seq(Position)]
           /\ broken' \in [Endpoints -> BOOLEAN]
           /\ owed' \in [Endpoints -> BOOLEAN]
<1>1. enc' \in [Endpoints -> [Owners -> Protection]]
  BY DEF Transmit, TypeOK
<1>2. wire' \in [Endpoints -> Seq(Record)]
  BY DEF Transmit, TypeOK
<1>3. sealed' \in [Endpoints -> Seq(Position)]
  BY DEF Transmit, TypeOK
<1>4. broken' \in [Endpoints -> BOOLEAN]
  BY DEF Transmit, TypeOK
<1>5. owed' \in [Endpoints -> BOOLEAN]
  BY DEF Transmit, TypeOK
<1> QED BY <1>1, <1>2, <1>3, <1>4, <1>5

\* So does all that ptls_send and ptls_tx_sendv do.
LEMMA SendEffectTypes ==
    ASSUME TypeOK, NEW e \in Endpoints, NEW o \in Owners, NEW n \in Nat, NEW fault,
           fault = "data" => n > 0,
           SendEffect(e, o, n, fault)
    PROVE  /\ enc' \in [Endpoints -> [Owners -> Protection]]
           /\ wire' \in [Endpoints -> Seq(Record)]
           /\ sealed' \in [Endpoints -> Seq(Position)]
           /\ broken' \in [Endpoints -> BOOLEAN]
           /\ owed' \in [Endpoints -> BOOLEAN]
           /\ needs' \in [Endpoints -> [Owners -> BOOLEAN]]
           /\ request' \in [Endpoints -> [Owners -> BOOLEAN]]
<1> DEFINE c == enc[e][o]
           ku == NeedsUpdate(e, o)
           u  == IF ku THEN UpdateSendKey(c, request[e][o], fault)
                 ELSE [enc |-> c, out |-> <<>>, used |-> <<>>]
           failed == ku /\ fault \in {"reserve", "hkdf", "aead"}
<1>1. c \in Protection /\ request[e][o] \in BOOLEAN
  BY DEF TypeOK
<1>2. u.enc \in Protection /\ u.out \in Seq(Record) /\ u.used \in Seq(Position)
  <2>1. CASE ku
    BY <2>1, <1>1, UpdateSendKeyTypes
  <2>2. CASE ~ku
    BY <2>2, <1>1
  <2> QED BY <2>1, <2>2
<1> HIDE DEF c, ku, u
<1>3. CASE failed
  <2>1. /\ Transmit(e, o, u.enc, <<>>, u.used)
        /\ needs' = [needs EXCEPT ![e][o] = TRUE]
        /\ UNCHANGED request
    BY <1>3 DEF SendEffect, c, ku, u
  <2>2. needs' \in [Endpoints -> [Owners -> BOOLEAN]] /\ request' \in [Endpoints -> [Owners -> BOOLEAN]]
    BY <2>1 DEF TypeOK
  <2>3. <<>> \in Seq(Record)
    OBVIOUS
  <2> QED BY <2>1, <2>2, <2>3, <1>2, TransmitTypes
<1>4. CASE ~failed
  <2>1. /\ needs' = [needs EXCEPT ![e][o] = FALSE]
        /\ request' = [request EXCEPT ![e][o] = IF ku THEN FALSE ELSE @]
        /\ IF fault = "data"
           THEN Transmit(e, o, Advance(u.enc, n - 1), <<>>, u.used \o Nonces(u.enc, n - 1))
           ELSE Transmit(e, o, Advance(u.enc, n), u.out \o DataRecords(u.enc, n),
                         u.used \o Nonces(u.enc, n))
    BY <1>4 DEF SendEffect, c, ku, u
  <2>2. needs' \in [Endpoints -> [Owners -> BOOLEAN]]
    BY <2>1 DEF TypeOK
  <2>3. request' \in [Endpoints -> [Owners -> BOOLEAN]]
    BY <2>1 DEF TypeOK
  <2>4. CASE fault = "data"
    <3>1. n - 1 \in Nat /\ <<>> \in Seq(Record)
      BY <2>4
    <3>2. Advance(u.enc, n - 1) \in Protection /\ Nonces(u.enc, n - 1) \in Seq(Position)
      BY <3>1, <1>2, ContextTypes, SealTypes
    <3>3. u.used \o Nonces(u.enc, n - 1) \in Seq(Position)
      BY <3>2, <1>2
    <3> QED BY <2>1, <2>2, <2>3, <2>4, <3>1, <3>2, <3>3, TransmitTypes
  <2>5. CASE fault # "data"
    <3>1. /\ Advance(u.enc, n) \in Protection
          /\ Nonces(u.enc, n) \in Seq(Position)
          /\ DataRecords(u.enc, n) \in Seq(Record)
      BY <1>2, ContextTypes, SealTypes
    <3>2. u.used \o Nonces(u.enc, n) \in Seq(Position) /\ u.out \o DataRecords(u.enc, n) \in Seq(Record)
      BY <3>1, <1>2
    <3> QED BY <2>1, <2>2, <2>3, <2>5, <3>1, <3>2, TransmitTypes
  <2> QED BY <2>4, <2>5
<1> QED BY <1>3, <1>4

\* The handlers of a received record keep the receiving side typed.
LEMMA HandleInputTypes ==
    ASSUME TypeOK, NEW e \in Endpoints, NEW r \in Record, NEW fault, HandleInput(e, r, fault)
    PROVE  /\ dec' \in [Endpoints -> Protection]
           /\ needs' \in [Endpoints -> [Owners -> BOOLEAN]]
           /\ keyUpdateRequests' \in [Endpoints -> 0..MaxRequests]
           /\ skipped' \in Nat \cup {NotSkipping}
           /\ got' \in [Endpoints -> Seq(Record)]
           /\ closed' \in [Endpoints -> Reasons]
           /\ owed' \in [Endpoints -> BOOLEAN]
<1> USE DEF Reasons
<1>1. CASE r.plain
  <2>1. /\ closed' = [closed EXCEPT ![e] =
                        IF r.kind = "alert" THEN "peer_alert" ELSE "handshake_failure"]
        /\ UNCHANGED <<dec, needs, keyUpdateRequests, skipped, got, owed>>
    BY <1>1 DEF HandleInput, Opens
  <2>2. closed' \in [Endpoints -> Reasons]
    BY <2>1 DEF TypeOK
  <2> QED BY <2>1, <2>2 DEF TypeOK
<1>2. CASE ~r.plain /\ ~Opens(e, r)
  <2>1. Undecryptable(e) /\ UNCHANGED <<dec, needs, keyUpdateRequests, got, owed>>
    BY <1>2 DEF HandleInput
  <2>2. closed' \in [Endpoints -> Reasons]
    BY <2>1 DEF TypeOK, Undecryptable
  <2>3. skipped' \in Nat \cup {NotSkipping}
    BY <2>1 DEF TypeOK, Undecryptable
  <2> QED BY <2>1, <2>2, <2>3 DEF TypeOK
<1>3. CASE Opens(e, r)
  <2>1. /\ got' = [got EXCEPT ![e] = Append(@, r)]
        /\ UNCHANGED skipped
        /\ \/ r.kind = "ku" /\ HandleKeyUpdate(e, r.req, fault)
           \/ /\ r.kind # "ku"
              /\ dec' = [dec EXCEPT ![e].seq = @ + 1]
              /\ closed' = [closed EXCEPT ![e] = IF r.kind = "alert" THEN "peer_alert" ELSE @]
              /\ UNCHANGED <<needs, keyUpdateRequests, owed>>
    BY <1>3 DEF HandleInput, Opens
  <2>2. got' \in [Endpoints -> Seq(Record)] /\ skipped' \in Nat \cup {NotSkipping}
    BY <2>1 DEF TypeOK
  <2>3. CASE r.kind # "ku"
    <3>1. dec' \in [Endpoints -> Protection]
      <4> DEFINE c == [dec[e] EXCEPT !.seq = @ + 1]
      <4>1. dec[e] \in Protection
        BY DEF TypeOK
      <4>2. c \in Protection
        BY <4>1 DEF Protection
      <4>3. dec' = [dec EXCEPT ![e] = c]
        BY <2>1, <2>3
      <4> HIDE DEF c
      <4> QED BY <4>2, <4>3 DEF TypeOK
    <3>2. closed' \in [Endpoints -> Reasons]
      BY <2>1, <2>3 DEF TypeOK
    <3> QED BY <2>1, <2>2, <2>3, <3>1, <3>2 DEF TypeOK
  <2>4. CASE r.kind = "ku"
    <3> DEFINE c == [dec[e] EXCEPT !.seq = @ + 1]
    <3>1. c \in Protection /\ r.req \in BOOLEAN
      <4>1. dec[e] \in Protection
        BY DEF TypeOK
      <4>2. c \in Protection
        BY <4>1 DEF Protection
      <4> QED BY <4>2 DEF Record
    <3>2. NextKey(c) \in Protection /\ LostKey(c) \in Protection
      BY <3>1, ContextTypes
    <3>3. HandleKeyUpdate(e, r.req, fault)
      BY <2>1, <2>4
    <3> HIDE DEF c
    <3>4. dec' = [dec EXCEPT ![e] = NextKey(c)] \/ dec' = [dec EXCEPT ![e] = LostKey(c)]
      BY <3>3 DEF HandleKeyUpdate, c
    <3>5. dec' \in [Endpoints -> Protection]
      BY <3>2, <3>4 DEF TypeOK
    <3>6. needs' \in [Endpoints -> [Owners -> BOOLEAN]]
      <4>1. needs' = needs \/ needs' = [needs EXCEPT ![e]["tls"] = TRUE]
        BY <3>3 DEF HandleKeyUpdate
      <4>2. "tls" \in Owners
        BY DEF Owners
      <4>3. needs \in [Endpoints -> [Owners -> BOOLEAN]]
        BY DEF TypeOK
      <4>4. [needs EXCEPT ![e]["tls"] = TRUE] \in [Endpoints -> [Owners -> BOOLEAN]]
        BY <4>2, <4>3, FieldUpdate
      <4> QED BY <4>1, <4>3, <4>4
    <3>7. keyUpdateRequests' \in [Endpoints -> 0..MaxRequests]
      <4>1. keyUpdateRequests[e] \in 0..MaxRequests /\ MaxRequests \in Nat
        BY ConstantsAssumption DEF TypeOK
      <4>2. \/ keyUpdateRequests' = keyUpdateRequests
            \/ /\ keyUpdateRequests' = [keyUpdateRequests EXCEPT ![e] = keyUpdateRequests[e] + 1]
               /\ keyUpdateRequests[e] # MaxRequests
        BY <3>3 DEF HandleKeyUpdate, TypeOK, RequestsFull
      <4>3. keyUpdateRequests \in [Endpoints -> 0..MaxRequests]
        BY DEF TypeOK
      <4>4. keyUpdateRequests[e] # MaxRequests => keyUpdateRequests[e] + 1 \in 0..MaxRequests
        BY <4>1
      <4> QED BY <4>2, <4>3, <4>4
    <3>8. closed' \in [Endpoints -> Reasons]
      BY <3>3 DEF HandleKeyUpdate, TypeOK
    <3>9. owed' \in [Endpoints -> BOOLEAN]
      BY <3>1, <3>3 DEF HandleKeyUpdate, TypeOK
    <3> QED BY <2>2, <3>5, <3>6, <3>7, <3>8, <3>9
  <2> QED BY <2>3, <2>4
<1> QED BY <1>1, <1>2, <1>3

\* The initial states are typed.
LEMMA InitTypes == Init => TypeOK
<1> SUFFICES ASSUME Init PROVE TypeOK
  OBVIOUS
<1>1. Fresh \in Protection /\ NoProtection \in Protection
  BY DEF Fresh, NoProtection, Protection
<1>2. NumTickets \in Nat /\ MaxRequests \in Nat
  BY ConstantsAssumption
<1>3. Advance(Fresh, NumTickets) \in Protection /\ Nonces(Fresh, NumTickets) \in Seq(Position)
  BY <1>1, <1>2, ContextTypes, SealTypes
<1>4. enc \in [Endpoints -> [Owners -> Protection]]
  BY <1>1, <1>3 DEF Init
<1>5. dec \in [Endpoints -> Protection]
  BY <1>1 DEF Init
<1> DEFINE tickets == [i \in 1..NumTickets |-> Seal(Fresh, i - 1, "nst", FALSE)]
<1>6. tickets \in Seq(Record)
  BY <1>1, <1>2 DEF Seal, Record, Kinds, Fresh, Protection
<1>7. wire \in [Endpoints -> Seq(Record)]
  <2>1. wire = [e \in Endpoints |-> IF e = Server THEN tickets ELSE <<>>]
    BY DEF Init
  <2> HIDE DEF tickets
  <2> QED BY <1>6, <2>1
<1>8. sealed \in [Endpoints -> Seq(Position)]
  BY <1>3 DEF Init
<1>9. skipped \in Nat \cup {NotSkipping}
  BY DEF Init
<1>10. got \in [Endpoints -> Seq(Record)]
  BY DEF Init
<1>11. closed \in [Endpoints -> Reasons]
  BY DEF Init, Reasons
<1>12. /\ needs \in [Endpoints -> [Owners -> BOOLEAN]]
       /\ request \in [Endpoints -> [Owners -> BOOLEAN]]
       /\ txState \in [Endpoints -> {"none", "live", "freed"}]
  BY DEF Init
<1>13. /\ keyUpdateRequests \in [Endpoints -> 0..MaxRequests]
       /\ taken \in [Endpoints -> Nat]
       /\ updates \in Nat
  BY <1>2 DEF Init
<1>14. /\ broken \in [Endpoints -> BOOLEAN]
       /\ owed \in [Endpoints -> BOOLEAN]
       /\ migrated \in [Endpoints -> BOOLEAN]
       /\ rejected \in BOOLEAN
  BY DEF Init
<1> QED BY <1>4, <1>5, <1>7, <1>8, <1>9, <1>10, <1>11, <1>12, <1>13, <1>14 DEF TypeOK

\* Every step keeps the variables typed.
LEMMA NextTypes == TypeOK /\ [Next]_vars => TypeOK'
<1> SUFFICES ASSUME TypeOK, [Next]_vars PROVE TypeOK'
  OBVIOUS
<1>1. CASE UNCHANGED vars
  BY <1>1 DEF vars, TypeOK
<1>2. ASSUME NEW e \in Endpoints, NEW o \in Owners, NEW n \in 0..MaxChunks,
             NEW f \in SendFaults, PtlsSend(e, o, n, f)
      PROVE  TypeOK'
  <2>1. n \in Nat /\ (f = "data" => n > 0) /\ SendEffect(e, o, n, f)
    BY <1>2 DEF PtlsSend, SendFault
  <2>2. UNCHANGED <<dec, keyUpdateRequests, skipped, got, closed, migrated, rejected, txState, taken, updates>>
    BY <1>2 DEF PtlsSend, rxVars
  <2> QED BY <2>1, <2>2, SendEffectTypes DEF TypeOK
<1>3. ASSUME NEW e \in Endpoints, NEW req \in BOOLEAN, PtlsUpdateKey(e, req)
      PROVE  TypeOK'
  <2>1. "tls" \in Owners
    BY DEF Owners
  <2>2. needs' \in [Endpoints -> [Owners -> BOOLEAN]]
    BY <1>3, <2>1, FieldUpdate DEF PtlsUpdateKey, TypeOK
  <2>3. request' \in [Endpoints -> [Owners -> BOOLEAN]]
    BY <1>3, <2>1, FieldUpdate DEF PtlsUpdateKey, TypeOK
  <2>4. updates' \in Nat
    BY <1>3 DEF PtlsUpdateKey, TypeOK
  <2> QED BY <1>3, <2>2, <2>3, <2>4 DEF PtlsUpdateKey, rxVars, TypeOK
<1>4. ASSUME NEW e \in Endpoints, NEW o \in Owners, PtlsSendAlert(e, o)
      PROVE  TypeOK'
  <2> DEFINE c == enc[e][o]
  <2>1. c \in Protection /\ 1 \in Nat /\ "alert" \in Kinds
    BY DEF TypeOK, Kinds
  <2> HIDE DEF c
  <2>2. /\ Advance(c, 1) \in Protection
        /\ Seal(c, 0, "alert", FALSE) \in Record
        /\ Nonces(c, 1) \in Seq(Position)
    <3>1. Advance(c, 1) \in Protection
      BY <2>1, ContextTypes
    <3>2. Nonces(c, 1) \in Seq(Position)
      BY <2>1, SealTypes
    <3>3. Seal(c, 0, "alert", FALSE) \in Record
      BY <2>1, SealTypes
    <3> QED BY <3>1, <3>2, <3>3
  <2>5. <<Seal(c, 0, "alert", FALSE)>> \in Seq(Record)
    BY <2>2, Singleton
  <2>3. Transmit(e, o, Advance(c, 1), <<Seal(c, 0, "alert", FALSE)>>, Nonces(c, 1))
    BY <1>4 DEF PtlsSendAlert, c
  <2>4. UNCHANGED <<dec, keyUpdateRequests, skipped, got, closed, migrated, rejected,
                    needs, request, txState, taken, updates>>
    BY <1>4 DEF PtlsSendAlert, rxVars
  <2> QED BY <2>2, <2>5, <2>3, <2>4, TransmitTypes DEF TypeOK
<1>5. ASSUME NEW e \in Endpoints, PtlsDetachTx(e)
      PROVE  TypeOK'
  <2>1. NoProtection \in Protection /\ "tx" \in Owners /\ "tls" \in Owners
    BY DEF NoProtection, Protection, Owners
  <2>2. enc' \in [Endpoints -> [Owners -> Protection]]
    <3>1. Moved(enc[e], NoProtection) \in [Owners -> Protection]
      BY <2>1 DEF Moved, TypeOK
    <3> QED BY <1>5, <3>1 DEF PtlsDetachTx, TypeOK
  <2>3. needs' \in [Endpoints -> [Owners -> BOOLEAN]]
    <3>1. Moved(needs[e], FALSE) \in [Owners -> BOOLEAN]
      BY <2>1, ZenonT(30) DEF Moved, TypeOK
    <3> QED BY <1>5, <3>1 DEF PtlsDetachTx, TypeOK
  <2>4. request' \in [Endpoints -> [Owners -> BOOLEAN]]
    <3>1. Moved(request[e], FALSE) \in [Owners -> BOOLEAN]
      BY <2>1 DEF Moved, TypeOK
    <3> QED BY <1>5, <3>1 DEF PtlsDetachTx, TypeOK
  <2>5. txState' \in [Endpoints -> {"none", "live", "freed"}]
    BY <1>5 DEF PtlsDetachTx, TypeOK
  <2> QED BY <1>5, <2>2, <2>3, <2>4, <2>5 DEF PtlsDetachTx, rxVars, TypeOK
<1>6. ASSUME NEW e \in Endpoints, PtlsTxFree(e)
      PROVE  TypeOK'
  <2>1. NoProtection \in Protection
    BY DEF NoProtection, Protection
  <2>2. /\ enc' \in [Endpoints -> [Owners -> Protection]]
        /\ needs' \in [Endpoints -> [Owners -> BOOLEAN]]
        /\ request' \in [Endpoints -> [Owners -> BOOLEAN]]
        /\ txState' \in [Endpoints -> {"none", "live", "freed"}]
    BY <1>6, <2>1 DEF PtlsTxFree, TypeOK
  <2> QED BY <1>6, <2>2 DEF PtlsTxFree, rxVars, TypeOK
<1>7. ASSUME NEW e \in Endpoints, PtlsTakeKeyUpdateRequest(e)
      PROVE  TypeOK'
  <2>1. keyUpdateRequests[e] \in 0..MaxRequests /\ MaxRequests \in Nat
    BY ConstantsAssumption DEF TypeOK
  <2>2. keyUpdateRequests[e] - 1 \in 0..MaxRequests
    BY <1>7, <2>1 DEF PtlsTakeKeyUpdateRequest
  <2>3. keyUpdateRequests' \in [Endpoints -> 0..MaxRequests]
    BY <1>7, <2>2 DEF PtlsTakeKeyUpdateRequest, TypeOK
  <2>4. taken' \in [Endpoints -> Nat]
    BY <1>7 DEF PtlsTakeKeyUpdateRequest, TypeOK
  <2> QED BY <1>7, <2>3, <2>4 DEF PtlsTakeKeyUpdateRequest, txVars, TypeOK
<1>8. ASSUME NEW e \in Endpoints, NEW req \in BOOLEAN, NEW f \in SendFaults,
             PtlsTxUpdateKey(e, req, f)
      PROVE  TypeOK'
  <2> DEFINE u == UpdateSendKey(enc[e]["tx"], req, f)
  <2>1. "tx" \in Owners /\ enc[e]["tx"] \in Protection
    BY DEF Owners, TypeOK
  <2>2. u.enc \in Protection /\ u.out \in Seq(Record) /\ u.used \in Seq(Position)
    BY <2>1, UpdateSendKeyTypes
  <2>3. Transmit(e, "tx", u.enc, u.out, u.used)
    BY <1>8 DEF PtlsTxUpdateKey, TxUpdateKeyEffect
  <2>4. taken' \in [Endpoints -> Nat] /\ updates' \in Nat
    BY <1>8 DEF PtlsTxUpdateKey, TypeOK
  <2>5. UNCHANGED <<dec, keyUpdateRequests, skipped, got, closed, migrated, rejected,
                    needs, request, txState>>
    BY <1>8 DEF PtlsTxUpdateKey, rxVars
  <2> HIDE DEF u
  <2> QED BY <2>1, <2>2, <2>3, <2>4, <2>5, TransmitTypes DEF TypeOK
<1>9. ASSUME NEW e \in Endpoints, NEW i \in 1..Len(wire[Peer(e)]), NEW f, PtlsReceive(e, i, f)
      PROVE  TypeOK'
  <2>1. wire[Peer(e)][i] \in Record
    BY DEF TypeOK, Peer, Endpoints
  <2>2. HandleInput(e, wire[Peer(e)][i], f)
    BY <1>9 DEF PtlsReceive
  <2>3. UNCHANGED <<enc, request, txState, wire, sealed, broken, taken, migrated, rejected, updates>>
    BY <1>9 DEF PtlsReceive
  <2> QED BY <2>1, <2>2, <2>3, HandleInputTypes DEF TypeOK
<1>10. ASSUME NEW e \in Endpoints, ReceiveNext(e) \/ ReceiveAny(e) \/ ReceiveFault(e)
       PROVE  TypeOK'
  <2>1. got[e] \in Seq(Record) /\ wire[Peer(e)] \in Seq(Record)
    BY DEF TypeOK, Peer, Endpoints
  <2>2. \E i \in 1..Len(wire[Peer(e)]), f \in {"none", "rx"} : PtlsReceive(e, i, f)
    <3>1. CASE ReceiveNext(e)
      BY <2>1, <3>1 DEF ReceiveNext
    <3>2. CASE ReceiveAny(e)
      BY <3>2 DEF ReceiveAny
    <3>3. CASE ReceiveFault(e)
      BY <2>1, <3>3 DEF ReceiveFault
    <3> QED BY <1>10, <3>1, <3>2, <3>3
  <2> QED BY <2>2, <1>9
<1>11. ASSUME NEW e \in Endpoints, ExportImport(e)
       PROVE  TypeOK'
  <2>1. "tls" \in Owners /\ enc[e]["tls"] \in Protection /\ dec[e] \in Protection
    BY DEF TypeOK, Owners
  <2>2. Imported(enc[e]["tls"]) \in Protection /\ Imported(dec[e]) \in Protection
    BY <2>1, ContextTypes
  <2>3. enc' \in [Endpoints -> [Owners -> Protection]] /\ dec' \in [Endpoints -> Protection]
    BY <1>11, <2>1, <2>2 DEF ExportImport, TypeOK
  <2>4. /\ needs' \in [Endpoints -> [Owners -> BOOLEAN]]
        /\ request' \in [Endpoints -> [Owners -> BOOLEAN]]
        /\ skipped' \in Nat \cup {NotSkipping}
        /\ migrated' \in [Endpoints -> BOOLEAN]
    BY <1>11 DEF ExportImport, TypeOK
  <2> QED BY <1>11, <2>3, <2>4 DEF ExportImport, TypeOK
<1> QED BY <1>1, <1>2, <1>3, <1>4, <1>5, <1>6, <1>7, <1>8, <1>10, <1>11 DEF Next

\* Type correctness: in every reachable state every variable has its type; in
\* particular the counter of unserved requests stays within its width.
THEOREM TypeCorrect == Spec => []TypeOK
<1> QED BY InitTypes, NextTypes, PTL DEF Spec

(***************************************************************************)
(* The inductive invariant: nonces and records are strictly ordered by     *)
(* (generation, sequence number), and the context in use is ahead of all.  *)
(***************************************************************************)

\* Lexicographic order of key positions.
Before(p, q) == p.gen < q.gen \/ (p.gen = q.gen /\ p.seq < q.seq)
NotAfter(p, q) == p.gen < q.gen \/ (p.gen = q.gen /\ p.seq <= q.seq)

\* Where the context that sealed r stands afterwards.
After(r) ==
    IF r.kind = "ku" THEN [gen |-> r.gen + 1, seq |-> 0]
    ELSE [gen |-> r.gen, seq |-> IF r.plain THEN r.seq ELSE r.seq + 1]

Start == [gen |-> 0, seq |-> 0]

\* The context e transmits with.
Current(e) == IF txState[e] = "none" THEN enc[e]["tls"] ELSE enc[e]["tx"]

\* Nonces are used in increasing order, and the next one is larger still.
NonceOrder ==
    \A e \in Endpoints :
        /\ \A j \in 1..Len(sealed[e]) : \A i \in 1..(j - 1) : Before(sealed[e][i], sealed[e][j])
        /\ txState[e] # "freed" => \A i \in 1..Len(sealed[e]) : Before(sealed[e][i], Current(e))

\* x may follow a record (or the start) that left the context at position p:
\* not before p, and strictly after p when no AEAD context protects x.
Follows(p, x, clear) == IF clear THEN Before(p, x) ELSE NotAfter(p, x)

\* The records on the wire are ordered; one in the clear marks a lost position.
WireOrder ==
    \A e \in Endpoints :
        /\ \A j \in 1..Len(wire[e]) :
              /\ Follows(Start, wire[e][j], wire[e][j].plain)
              /\ \A i \in 1..(j - 1) :
                    /\ NotAfter(After(wire[e][i]), wire[e][j])
                    /\ ~wire[e][i].plain => Follows(After(wire[e][i]), wire[e][j], wire[e][j].plain)
        /\ txState[e] # "freed" =>
              /\ Follows(Start, Current(e), ~Current(e).live)
              /\ \A i \in 1..Len(wire[e]) :
                    /\ NotAfter(After(wire[e][i]), Current(e))
                    /\ ~wire[e][i].plain => Follows(After(wire[e][i]), Current(e), ~Current(e).live)

\* The receiver stands right behind the last record it opened.
Expected(e) == IF got[e] = <<>> THEN Start ELSE After(got[e][Len(got[e])])

ReceiverPosition ==
    \A e \in Endpoints :
        /\ \A i \in 1..Len(got[e]) : ~got[e][i].plain
        /\ closed[e] # "no_memory" => dec[e].gen = Expected(e).gen /\ dec[e].seq = Expected(e).seq

OrderInv == NonceOrder /\ WireOrder /\ ReceiverPosition /\ OpenedIsPrefix

(***************************************************************************)
(* Order lemmas                                                            *)
(***************************************************************************)

\* The two orders are transitive, and Before is irreflexive.
LEMMA OrderTransitive ==
    ASSUME NEW p, NEW q, NEW r,
           p.gen \in Nat, p.seq \in Nat, q.gen \in Nat, q.seq \in Nat, r.gen \in Nat, r.seq \in Nat
    PROVE  /\ NotAfter(p, q) /\ NotAfter(q, r) => NotAfter(p, r)
           /\ NotAfter(p, q) /\ Before(q, r) => Before(p, r)
           /\ Before(p, q) /\ NotAfter(q, r) => Before(p, r)
           /\ Before(p, q) => NotAfter(p, q)
           /\ NotAfter(p, p)
           /\ ~(Before(p, q) /\ NotAfter(q, p))
BY DEF NotAfter, Before

\* After is a position, behind the record unless the record is in the clear.
LEMMA AfterFacts ==
    ASSUME NEW r \in Record
    PROVE  /\ r.gen \in Nat /\ r.seq \in Nat
           /\ After(r).gen \in Nat /\ After(r).seq \in Nat
           /\ NotAfter(r, After(r))
           /\ ~r.plain => Before(r, After(r))
<1>1. r.gen \in Nat /\ r.seq \in Nat
  BY DEF Record
<1>2. CASE r.kind = "ku"
  BY <1>1, <1>2 DEF After, NotAfter, Before
<1>3. CASE r.kind # "ku"
  BY <1>1, <1>3 DEF After, NotAfter, Before
<1> QED BY <1>1, <1>2, <1>3

\* What a concatenation holds.
LEMMA Concat ==
    ASSUME NEW S, NEW s \in Seq(S), NEW t \in Seq(S)
    PROVE  /\ s \o t \in Seq(S)
           /\ Len(s) \in Nat /\ Len(t) \in Nat /\ Len(s \o t) = Len(s) + Len(t)
           /\ \A i \in 1..Len(s) : (s \o t)[i] = s[i] /\ s[i] \in S
           /\ \A i \in 1..Len(t) : t[i] \in S
           /\ \A i \in 1..(Len(s) + Len(t)) :
                 i \notin 1..Len(s) => i - Len(s) \in 1..Len(t) /\ (s \o t)[i] = t[i - Len(s)]
OBVIOUS

\* What a send call may do: from context c to context d, emitting out and
\* consuming the nonces used.
GoodSend(c, d, out, used) ==
    /\ NotAfter(c, d)
    /\ d.live \/ ~c.live \/ Before(c, d)
    /\ \A k \in 1..Len(used) :
          /\ NotAfter(c, used[k])
          /\ Before(used[k], d)
          /\ \A l \in 1..(k - 1) : Before(used[l], used[k])
    /\ \A k \in 1..Len(out) :
          /\ NotAfter(c, out[k])
          /\ NotAfter(After(out[k]), d)
          /\ out[k].plain => ~c.live
          /\ ~out[k].plain => d.live
          /\ \A l \in 1..(k - 1) : ~out[k].plain /\ NotAfter(After(out[l]), out[k])

\* A failed update: nothing is emitted.
LEMMA GoodNothing ==
    ASSUME NEW c \in Protection
    PROVE  GoodSend(c, c, <<>>, <<>>)
<1>1. c.gen \in Nat /\ c.seq \in Nat /\ c.live \in BOOLEAN
  BY DEF Protection
<1> QED BY <1>1 DEF GoodSend, NotAfter, Before

\* One record, one nonce.
LEMMA GoodSingle ==
    ASSUME NEW c, NEW d, NEW out, NEW used,
           NotAfter(c, d), d.live \/ ~c.live \/ Before(c, d),
           Len(used) = 0 \/ (Len(used) = 1 /\ NotAfter(c, used[1]) /\ Before(used[1], d)),
           \/ Len(out) = 0
           \/ /\ Len(out) = 1
              /\ NotAfter(c, out[1]) /\ NotAfter(After(out[1]), d)
              /\ out[1].plain => ~c.live
              /\ ~out[1].plain => d.live
    PROVE  GoodSend(c, d, out, used)
<1>1. ASSUME NEW m, m = 0 \/ m = 1, NEW k \in 1..m
      PROVE  m = 1 /\ k = 1 /\ \A l \in 1..(k - 1) : FALSE
  BY <1>1
<1>2. \A k \in 1..Len(used) : k = 1 /\ Len(used) = 1 /\ \A l \in 1..(k - 1) : FALSE
  BY <1>1
<1>3. \A k \in 1..Len(out) : k = 1 /\ Len(out) = 1 /\ \A l \in 1..(k - 1) : FALSE
  <2>1. Len(out) = 0 \/ Len(out) = 1
    BY Zenon
  <2> QED BY <1>1, <2>1
<1> QED BY <1>2, <1>3 DEF GoodSend

\* One record that is not a KeyUpdate: a NewSessionTicket or an alert.
LEMMA GoodOne ==
    ASSUME NEW c \in Protection, NEW kind \in Kinds \ {"ku"}
    PROVE  GoodSend(c, Advance(c, 1), <<Seal(c, 0, kind, FALSE)>>, Nonces(c, 1))
<1>1. c.gen \in Nat /\ c.seq \in Nat /\ c.live \in BOOLEAN
  BY DEF Protection
<1> DEFINE r == Seal(c, 0, kind, FALSE)
           d == Advance(c, 1)
           used == Nonces(c, 1)
<1>2. r.gen = c.gen /\ r.seq = c.seq /\ r.kind # "ku" /\ r.plain = ~c.live
  BY <1>1 DEF Seal
<1>3. Len(<<r>>) = 1 /\ <<r>>[1] = r
  OBVIOUS
<1>4. CASE c.live
  <2>1. d.gen = c.gen /\ d.seq = c.seq + 1 /\ d.live
    BY <1>1, <1>4 DEF Advance, Protection
  <2>2. Len(used) = 1 /\ used[1].gen = c.gen /\ used[1].seq = c.seq
    BY <1>1, <1>4 DEF Nonces
  <2>3. After(r).gen = c.gen /\ After(r).seq = c.seq + 1
    BY <1>2, <1>4 DEF After
  <2> HIDE DEF r, d, used
  <2>4. NotAfter(c, d) /\ NotAfter(c, used[1]) /\ Before(used[1], d) /\ NotAfter(c, r) /\ NotAfter(After(r), d)
    BY <1>1, <1>2, <2>1, <2>2, <2>3 DEF NotAfter, Before
  <2>5. GoodSend(c, d, <<r>>, used)
    BY <1>2, <1>3, <1>4, <2>1, <2>2, <2>4, GoodSingle
  <2> QED BY <2>5 DEF r, d, used
<1>5. CASE ~c.live
  <2>1. d = c
    BY <1>5 DEF Advance
  <2>2. Len(used) = 0
    BY <1>5 DEF Nonces
  <2>3. After(r).gen = c.gen /\ After(r).seq = c.seq
    BY <1>2, <1>5 DEF After
  <2> HIDE DEF r, d, used
  <2>4. NotAfter(c, d) /\ NotAfter(c, r) /\ NotAfter(After(r), d)
    BY <1>1, <1>2, <2>1, <2>3 DEF NotAfter, Before
  <2>5. GoodSend(c, d, <<r>>, used)
    BY <1>2, <1>3, <1>5, <2>2, <2>4, GoodSingle
  <2> QED BY <2>5 DEF r, d, used
<1> QED BY <1>1, <1>4, <1>5

\* update_send_key, whichever of its steps fails.
LEMMA GoodUpdate ==
    ASSUME NEW c \in Protection, NEW req \in BOOLEAN, NEW fault
    PROVE  LET u == UpdateSendKey(c, req, fault) IN GoodSend(c, u.enc, u.out, u.used)
<1>1. c.gen \in Nat /\ c.seq \in Nat /\ c.live \in BOOLEAN
  BY DEF Protection
<1> DEFINE r == Seal(c, 0, "ku", req)
           used == Nonces(c, 1)
           a == Advance(c, 1)
<1>2. r.gen = c.gen /\ r.seq = c.seq /\ r.kind = "ku" /\ r.plain = ~c.live
  BY <1>1 DEF Seal
<1>3. Len(<<r>>) = 1 /\ <<r>>[1] = r /\ Len(<<>>) = 0
  OBVIOUS
<1>4. Len(used) = 0 \/ (Len(used) = 1 /\ c.live /\ used[1].gen = c.gen /\ used[1].seq = c.seq)
  BY <1>1 DEF Nonces
<1>5. a.gen = c.gen /\ a.seq \in Nat /\ IF c.live THEN a.seq = c.seq + 1 /\ a.live ELSE a.seq = c.seq
  BY <1>1 DEF Advance, Protection
<1>6. After(r).gen = c.gen + 1 /\ After(r).seq = 0
  BY <1>2 DEF After
<1> HIDE DEF r, used, a
<1>7. CASE fault = "reserve"
  <2>1. UpdateSendKey(c, req, fault) = [enc |-> c, out |-> <<>>, used |-> <<>>]
    BY <1>7 DEF UpdateSendKey
  <2> QED BY <2>1, GoodNothing
<1>8. CASE fault = "hkdf"
  <2>1. UpdateSendKey(c, req, fault) = [enc |-> a, out |-> <<>>, used |-> used]
    BY <1>8 DEF UpdateSendKey, a, used
  <2>2. NotAfter(c, a) /\ (Len(used) = 1 => NotAfter(c, used[1]) /\ Before(used[1], a))
    BY <1>1, <1>4, <1>5 DEF NotAfter, Before
  <2>3. GoodSend(c, a, <<>>, used)
    BY <1>3, <1>4, <1>5, <2>2, GoodSingle
  <2> QED BY <2>1, <2>3
<1>9. CASE fault = "aead"
  <2> DEFINE d == LostKey(a)
  <2>1. UpdateSendKey(c, req, fault) = [enc |-> d, out |-> <<>>, used |-> used]
    BY <1>9 DEF UpdateSendKey, a, used
  <2>2. d.gen = c.gen + 1 /\ d.seq = a.seq
    BY <1>5 DEF LostKey
  <2> HIDE DEF d
  <2>3. NotAfter(c, d) /\ Before(c, d) /\ (Len(used) = 1 => NotAfter(c, used[1]) /\ Before(used[1], d))
    BY <1>1, <1>4, <1>5, <2>2 DEF NotAfter, Before
  <2>4. GoodSend(c, d, <<>>, used)
    BY <1>3, <1>4, <2>3, GoodSingle
  <2> QED BY <2>1, <2>4
<1>10. CASE fault \notin {"reserve", "hkdf", "aead"}
  <2> DEFINE d == NextKey(c)
  <2>1. UpdateSendKey(c, req, fault) = [enc |-> d, out |-> <<r>>, used |-> used]
    BY <1>10 DEF UpdateSendKey, r, used
  <2>2. d.gen = c.gen + 1 /\ d.seq = 0 /\ d.live
    BY DEF NextKey
  <2> HIDE DEF d
  <2>3. /\ NotAfter(c, d) /\ NotAfter(c, r) /\ NotAfter(After(r), d)
        /\ Len(used) = 1 => NotAfter(c, used[1]) /\ Before(used[1], d)
    BY <1>1, <1>2, <1>4, <1>6, <2>2 DEF NotAfter, Before
  <2>4. GoodSend(c, d, <<r>>, used)
    BY <1>2, <1>3, <1>4, <2>2, <2>3, GoodSingle
  <2> QED BY <2>1, <2>4
<1> QED BY <1>7, <1>8, <1>9, <1>10

\* The data records of one call.
LEMMA GoodData ==
    ASSUME NEW c \in Protection, NEW n \in Nat, c.live
    PROVE  GoodSend(c, Advance(c, n), DataRecords(c, n), Nonces(c, n))
<1>1. c.gen \in Nat /\ c.seq \in Nat
  BY DEF Protection
<1> DEFINE d == Advance(c, n)
           out == DataRecords(c, n)
           used == Nonces(c, n)
<1>2. d.gen = c.gen /\ d.seq = c.seq + n /\ d.live
  BY <1>1 DEF Advance, Protection
<1>3. Len(out) = n /\ \A k \in 1..n : out[k].gen = c.gen /\ out[k].seq = c.seq + k - 1
                                    /\ out[k].kind = "data" /\ ~out[k].plain
  <2>1. Len(out) = n
    BY DEF DataRecords
  <2>2. \A k \in 1..n : out[k] = Seal(c, k - 1, "data", FALSE)
    BY DEF DataRecords
  <2>3. \A k \in 1..n : out[k].gen = c.gen /\ out[k].seq = c.seq + k - 1
    <3> TAKE k \in 1..n
    <3>1. Seal(c, k - 1, "data", FALSE).gen = c.gen /\ Seal(c, k - 1, "data", FALSE).seq = c.seq + (k - 1)
      BY DEF Seal
    <3> HIDE DEF out
    <3> QED BY <1>1, <2>2, <3>1
  <2>4. \A k \in 1..n : out[k].kind = "data" /\ ~out[k].plain
    <3> TAKE k \in 1..n
    <3>1. Seal(c, k - 1, "data", FALSE).kind = "data" /\ ~Seal(c, k - 1, "data", FALSE).plain
      BY DEF Seal
    <3> HIDE DEF out
    <3> QED BY <2>2, <3>1
  <2> QED BY <2>1, <2>3, <2>4
<1>4. Len(used) = n /\ \A k \in 1..n : used[k].gen = c.gen /\ used[k].seq = c.seq + k - 1
  BY <1>1 DEF Nonces
<1>5. \A k \in 1..n : After(out[k]).gen = c.gen /\ After(out[k]).seq = c.seq + k
  BY <1>1, <1>3 DEF After
<1> HIDE DEF d, out, used
<1>6. NotAfter(c, d)
  BY <1>1, <1>2 DEF NotAfter
<1>7. \A k \in 1..n : /\ NotAfter(c, used[k]) /\ Before(used[k], d)
                      /\ \A l \in 1..(k - 1) : Before(used[l], used[k])
  BY <1>1, <1>2, <1>4 DEF NotAfter, Before
<1>8. ASSUME NEW k \in 1..n
      PROVE  /\ NotAfter(c, out[k]) /\ NotAfter(After(out[k]), d)
             /\ \A l \in 1..(k - 1) : NotAfter(After(out[l]), out[k])
  <2>1. out[k].gen = c.gen /\ out[k].seq = c.seq + k - 1 /\ After(out[k]).gen = c.gen
        /\ After(out[k]).seq = c.seq + k
    BY <1>3, <1>5
  <2>2. ASSUME NEW l \in 1..(k - 1) PROVE NotAfter(After(out[l]), out[k])
    <3>1. l \in 1..n /\ After(out[l]).gen = c.gen /\ After(out[l]).seq = c.seq + l
      BY <1>5
    <3> QED BY <1>1, <2>1, <3>1 DEF NotAfter
  <2> QED BY <1>1, <1>2, <2>1, <2>2 DEF NotAfter
<1>9. GoodSend(c, d, out, used)
  BY <1>2, <1>3, <1>4, <1>6, <1>7, <1>8 DEF GoodSend
<1> QED BY <1>9 DEF d, out, used

\* A call whose output is discarded.
LEMMA GoodDrop ==
    ASSUME NEW c, NEW d, NEW out, NEW used, GoodSend(c, d, out, used)
    PROVE  GoodSend(c, d, <<>>, used)
BY DEF GoodSend

\* A call that does two such things one after the other with a live context.
LEMMA GoodCompose ==
    ASSUME NEW c \in Protection, NEW d \in Protection, NEW f \in Protection,
           NEW o1 \in Seq(Record), NEW o2 \in Seq(Record),
           NEW u1 \in Seq(Position), NEW u2 \in Seq(Position),
           d.live, f.live, GoodSend(c, d, o1, u1), GoodSend(d, f, o2, u2)
    PROVE  GoodSend(c, f, o1 \o o2, u1 \o u2)
<1> DEFINE o == o1 \o o2
           u == u1 \o u2
<1>1. /\ c.gen \in Nat /\ c.seq \in Nat /\ d.gen \in Nat /\ d.seq \in Nat
      /\ f.gen \in Nat /\ f.seq \in Nat
  BY DEF Protection
<1>2. \A p \in Position : p.gen \in Nat /\ p.seq \in Nat
  BY DEF Position
<1>3. NotAfter(c, d) /\ NotAfter(d, f)
  BY DEF GoodSend
<1>4. NotAfter(c, f)
  BY <1>1, <1>3, OrderTransitive
<1>5. ASSUME NEW k \in 1..Len(u)
      PROVE  /\ NotAfter(c, u[k])
             /\ Before(u[k], f)
             /\ \A l \in 1..(k - 1) : Before(u[l], u[k])
  <2>1. CASE k \in 1..Len(u1)
    <3>1. u[k] = u1[k] /\ u1[k] \in Position /\ \A l \in 1..(k - 1) : l \in 1..Len(u1) /\ u[l] = u1[l]
      BY <2>1, Concat
    <3>2. NotAfter(c, u1[k]) /\ Before(u1[k], d) /\ \A l \in 1..(k - 1) : Before(u1[l], u1[k])
      BY <2>1 DEF GoodSend
    <3>3. Before(u1[k], f)
      BY <1>1, <1>2, <1>3, <3>1, <3>2, OrderTransitive
    <3> HIDE DEF u
    <3> QED BY <3>1, <3>2, <3>3
  <2>2. CASE k \notin 1..Len(u1)
    <3> DEFINE k2 == k - Len(u1)
    <3>1. k2 \in 1..Len(u2) /\ u[k] = u2[k2] /\ u2[k2] \in Position
      BY <2>2, Concat
    <3>2. NotAfter(d, u2[k2]) /\ Before(u2[k2], f) /\ \A l \in 1..(k2 - 1) : Before(u2[l], u2[k2])
      BY <3>1 DEF GoodSend
    <3>3. NotAfter(c, u2[k2])
      BY <1>1, <1>2, <1>3, <3>1, <3>2, OrderTransitive
    <3>4. ASSUME NEW l \in 1..(k - 1) PROVE Before(u[l], u[k])
      <4>1. CASE l \in 1..Len(u1)
        <5>1. u[l] = u1[l] /\ u1[l] \in Position /\ Before(u1[l], d)
          BY <4>1, Concat DEF GoodSend
        <5>2. Before(u1[l], u2[k2])
          BY <1>1, <1>2, <3>1, <3>2, <5>1, OrderTransitive
        <5> QED BY <3>1, <5>1, <5>2
      <4>2. CASE l \notin 1..Len(u1)
        <5>1. l - Len(u1) \in 1..(k2 - 1) /\ u[l] = u2[l - Len(u1)]
          BY <4>2, Concat
        <5> HIDE DEF u, k2
        <5> QED BY <3>1, <3>2, <5>1
      <4> QED BY <4>1, <4>2
    <3> HIDE DEF u, k2
    <3> QED BY <3>1, <3>2, <3>3, <3>4
  <2> QED BY <2>1, <2>2
<1>6. ASSUME NEW k \in 1..Len(o)
      PROVE  /\ NotAfter(c, o[k])
             /\ NotAfter(After(o[k]), f)
             /\ o[k].plain => ~c.live
             /\ \A l \in 1..(k - 1) : ~o[k].plain /\ NotAfter(After(o[l]), o[k])
  <2>1. CASE k \in 1..Len(o1)
    <3>1. o[k] = o1[k] /\ o1[k] \in Record /\ \A l \in 1..(k - 1) : l \in 1..Len(o1) /\ o[l] = o1[l]
      BY <2>1, Concat
    <3>2. /\ NotAfter(c, o1[k]) /\ NotAfter(After(o1[k]), d)
          /\ o1[k].plain => ~c.live
          /\ \A l \in 1..(k - 1) : ~o1[k].plain /\ NotAfter(After(o1[l]), o1[k])
      BY <2>1 DEF GoodSend
    <3>3. NotAfter(After(o1[k]), f)
      BY <1>1, <1>3, <3>1, <3>2, AfterFacts, OrderTransitive
    <3> HIDE DEF o
    <3> QED BY <3>1, <3>2, <3>3
  <2>2. CASE k \notin 1..Len(o1)
    <3> DEFINE k2 == k - Len(o1)
    <3>1. k2 \in 1..Len(o2) /\ o[k] = o2[k2] /\ o2[k2] \in Record
      BY <2>2, Concat
    <3>2. /\ NotAfter(d, o2[k2]) /\ NotAfter(After(o2[k2]), f)
          /\ ~o2[k2].plain
          /\ \A l \in 1..(k2 - 1) : NotAfter(After(o2[l]), o2[k2])
      BY <3>1 DEF GoodSend
    <3>3. NotAfter(c, o2[k2])
      BY <1>1, <1>3, <3>1, <3>2, AfterFacts, OrderTransitive
    <3>4. ASSUME NEW l \in 1..(k - 1) PROVE NotAfter(After(o[l]), o[k])
      <4>1. CASE l \in 1..Len(o1)
        <5>1. o[l] = o1[l] /\ o1[l] \in Record /\ NotAfter(After(o1[l]), d)
          BY <4>1, Concat DEF GoodSend
        <5>2. NotAfter(After(o1[l]), o2[k2])
          BY <1>1, <3>1, <3>2, <5>1, AfterFacts, OrderTransitive
        <5> QED BY <3>1, <5>1, <5>2
      <4>2. CASE l \notin 1..Len(o1)
        <5>1. l - Len(o1) \in 1..(k2 - 1) /\ o[l] = o2[l - Len(o1)]
          BY <4>2, Concat
        <5> HIDE DEF o, k2
        <5> QED BY <3>1, <3>2, <5>1
      <4> QED BY <4>1, <4>2
    <3> HIDE DEF o, k2
    <3> QED BY <3>1, <3>2, <3>3, <3>4
  <2> QED BY <2>1, <2>2
<1> HIDE DEF o, u
<1>7. GoodSend(c, f, o, u)
  BY <1>4, <1>5, <1>6 DEF GoodSend
<1> QED BY <1>7 DEF o, u

\* ptls_send and ptls_tx_sendv are good sends.
LEMMA SendEffectGood ==
    ASSUME TypeOK, NEW e \in Endpoints, NEW o \in Owners, NEW n \in Nat, NEW fault,
           enc[e][o].live, fault = "data" => n > 0, SendEffect(e, o, n, fault)
    PROVE  \E d \in Protection, out \in Seq(Record), used \in Seq(Position) :
               Transmit(e, o, d, out, used) /\ GoodSend(enc[e][o], d, out, used)
<1> DEFINE c == enc[e][o]
           ku == NeedsUpdate(e, o)
           u  == IF ku THEN UpdateSendKey(c, request[e][o], fault)
                 ELSE [enc |-> c, out |-> <<>>, used |-> <<>>]
           failed == ku /\ fault \in {"reserve", "hkdf", "aead"}
<1>1. c \in Protection /\ request[e][o] \in BOOLEAN /\ c.live
  BY DEF TypeOK
<1>2. u.enc \in Protection /\ u.out \in Seq(Record) /\ u.used \in Seq(Position)
      /\ GoodSend(c, u.enc, u.out, u.used)
  <2>1. CASE ku
    BY <2>1, <1>1, UpdateSendKeyTypes, GoodUpdate
  <2>2. CASE ~ku
    <3>1. u.enc = c /\ u.out = <<>> /\ u.used = <<>>
      BY <2>2
    <3> HIDE DEF u, c
    <3> QED BY <3>1, <1>1, GoodNothing
  <2> QED BY <2>1, <2>2
<1>3. ~failed => u.enc.live
  <2>1. CASE ku /\ ~failed
    <3>1. u.enc = NextKey(c)
      BY <2>1 DEF UpdateSendKey
    <3> QED BY <3>1 DEF NextKey
  <2>2. CASE ~ku
    BY <2>2, <1>1
  <2> QED BY <2>1, <2>2
<1> HIDE DEF c, ku, u
<1>4. CASE failed
  <2>1. Transmit(e, o, u.enc, <<>>, u.used)
    BY <1>4 DEF SendEffect, c, ku, u
  <2>2. GoodSend(c, u.enc, <<>>, u.used) /\ <<>> \in Seq(Record)
    BY <1>2, GoodDrop
  <2> QED BY <1>2, <2>1, <2>2 DEF c
<1>5. CASE ~failed /\ fault = "data"
  <2> DEFINE d == Advance(u.enc, n - 1)
             used == Nonces(u.enc, n - 1)
             data == DataRecords(u.enc, n - 1)
  <2>1. Transmit(e, o, d, <<>>, u.used \o used)
    BY <1>5 DEF SendEffect, c, ku, u
  <2>2. n - 1 \in Nat
    BY <1>5
  <2>3. d \in Protection /\ used \in Seq(Position) /\ data \in Seq(Record)
    BY <1>2, <2>2, ContextTypes, SealTypes
  <2>4. GoodSend(u.enc, d, data, used) /\ u.enc.live
    BY <1>2, <1>3, <1>5, <2>2, GoodData
  <2>5. d.live
    BY <1>2, <2>2, <2>4 DEF Advance, Protection
  <2> HIDE DEF d, used, data
  <2>6. GoodSend(c, d, u.out \o data, u.used \o used)
    BY <1>1, <1>2, <2>3, <2>4, <2>5, GoodCompose
  <2>7. GoodSend(c, d, <<>>, u.used \o used) /\ <<>> \in Seq(Record)
    BY <2>6, GoodDrop
  <2>8. u.used \o used \in Seq(Position)
    BY <1>2, <2>3
  <2> QED BY <2>1, <2>3, <2>7, <2>8 DEF c
<1>6. CASE ~failed /\ fault # "data"
  <2> DEFINE d == Advance(u.enc, n)
             used == Nonces(u.enc, n)
             data == DataRecords(u.enc, n)
  <2>1. Transmit(e, o, d, u.out \o data, u.used \o used)
    BY <1>6 DEF SendEffect, c, ku, u
  <2>3. d \in Protection /\ used \in Seq(Position) /\ data \in Seq(Record)
    BY <1>2, ContextTypes, SealTypes
  <2>4. GoodSend(u.enc, d, data, used) /\ u.enc.live
    BY <1>2, <1>3, <1>6, GoodData
  <2>5. d.live
    BY <1>2, <2>4 DEF Advance, Protection
  <2> HIDE DEF d, used, data
  <2>6. GoodSend(c, d, u.out \o data, u.used \o used)
    BY <1>1, <1>2, <2>3, <2>4, <2>5, GoodCompose
  <2>7. u.used \o used \in Seq(Position) /\ u.out \o data \in Seq(Record)
    BY <1>2, <2>3
  <2> QED BY <2>1, <2>3, <2>6, <2>7 DEF c
<1> QED BY <1>4, <1>5, <1>6

\* What may follow a context may follow what the context itself may follow.
LEMMA FollowsStep ==
    ASSUME NEW p, NEW c, NEW x, NEW clear, NEW dead,
           p.gen \in Nat, p.seq \in Nat, c.gen \in Nat, c.seq \in Nat, x.gen \in Nat, x.seq \in Nat,
           Follows(p, c, dead), NotAfter(c, x), clear => (dead \/ Before(c, x))
    PROVE  Follows(p, x, clear)
<1>1. NotAfter(p, c)
  BY DEF Follows, Before, NotAfter
<1>2. CASE clear /\ dead
  BY <1>2, OrderTransitive DEF Follows
<1>3. CASE clear /\ ~dead
  BY <1>1, <1>3, OrderTransitive DEF Follows
<1>4. CASE ~clear
  BY <1>1, <1>4, OrderTransitive DEF Follows
<1> QED BY <1>2, <1>3, <1>4

\* A good send keeps nonces and wire ordered.
LEMMA TransmitOrder ==
    ASSUME TypeOK, NonceOrder, WireOrder,
           NEW e \in Endpoints, NEW o \in Owners, Available(e, o), UNCHANGED txState,
           NEW d \in Protection, NEW out \in Seq(Record), NEW used \in Seq(Position),
           Transmit(e, o, d, out, used), GoodSend(enc[e][o], d, out, used)
    PROVE  NonceOrder' /\ WireOrder'
<1> DEFINE c == enc[e][o]
           s == sealed[e]
           w == wire[e]
<1>1. c \in Protection /\ s \in Seq(Position) /\ w \in Seq(Record)
  BY DEF TypeOK
<1>2. c.gen \in Nat /\ c.seq \in Nat /\ d.gen \in Nat /\ d.seq \in Nat
  BY <1>1 DEF Protection
<1>3. \A p \in Position : p.gen \in Nat /\ p.seq \in Nat
  BY DEF Position
<1>4. Current(e) = c /\ txState[e] # "freed" /\ Current(e)' = d
  BY DEF Available, Current, Transmit, TypeOK, Owners
<1>5. \A g \in Endpoints \ {e} : Current(g)' = Current(g) /\ sealed'[g] = sealed[g] /\ wire'[g] = wire[g]
                                 /\ txState'[g] = txState[g]
  BY DEF Current, Transmit, TypeOK
<1>6. sealed'[e] = s \o used /\ wire'[e] = w \o out
  BY DEF Transmit, TypeOK
<1>7. NonceOrder'
  <2> DEFINE t == s \o used
  <2>1. /\ \A j \in 1..Len(s) : \A i \in 1..(j - 1) : Before(s[i], s[j])
        /\ \A i \in 1..Len(s) : Before(s[i], c)
    BY <1>4 DEF NonceOrder
  <2>2. ASSUME NEW j \in 1..Len(t)
        PROVE  Before(t[j], d) /\ \A i \in 1..(j - 1) : Before(t[i], t[j])
    <3>1. CASE j \in 1..Len(s)
      <4>1. t[j] = s[j] /\ s[j] \in Position /\ \A i \in 1..(j - 1) : i \in 1..Len(s) /\ t[i] = s[i]
        BY <1>1, <3>1, Concat
      <4>2. Before(s[j], c) /\ NotAfter(c, d) /\ \A i \in 1..(j - 1) : Before(s[i], s[j])
        BY <2>1, <3>1 DEF GoodSend
      <4>3. Before(s[j], d)
        BY <1>2, <1>3, <4>1, <4>2, OrderTransitive
      <4> HIDE DEF t, s
      <4> QED BY <4>1, <4>2, <4>3
    <3>2. CASE j \notin 1..Len(s)
      <4> DEFINE k == j - Len(s)
      <4>1. k \in 1..Len(used) /\ t[j] = used[k] /\ used[k] \in Position
        BY <1>1, <3>2, Concat
      <4>2. NotAfter(c, used[k]) /\ Before(used[k], d) /\ \A l \in 1..(k - 1) : Before(used[l], used[k])
        BY <4>1 DEF GoodSend
      <4>3. ASSUME NEW i \in 1..(j - 1) PROVE Before(t[i], t[j])
        <5>1. CASE i \in 1..Len(s)
          <6>1. t[i] = s[i] /\ s[i] \in Position /\ Before(s[i], c)
            BY <1>1, <2>1, <5>1, Concat
          <6>2. Before(s[i], used[k])
            BY <1>2, <1>3, <4>1, <4>2, <6>1, OrderTransitive
          <6> QED BY <4>1, <6>1, <6>2
        <5>2. CASE i \notin 1..Len(s)
          <6>1. i - Len(s) \in 1..(k - 1) /\ t[i] = used[i - Len(s)]
            BY <1>1, <5>2, Concat
          <6> HIDE DEF t, k
          <6> QED BY <4>1, <4>2, <6>1
        <5> QED BY <5>1, <5>2
      <4> HIDE DEF t, k
      <4> QED BY <4>1, <4>2, <4>3
    <3> QED BY <3>1, <3>2
  <2> HIDE DEF t
  <2>3. ASSUME NEW g \in Endpoints
        PROVE  /\ \A j \in 1..Len(sealed'[g]) : \A i \in 1..(j - 1) : Before(sealed'[g][i], sealed'[g][j])
               /\ txState'[g] # "freed" =>
                     \A i \in 1..Len(sealed'[g]) : Before(sealed'[g][i], Current(g)')
    <3>1. CASE g = e
      <4>1. sealed'[g] = t /\ Current(g)' = d
        BY <1>4, <1>6, <3>1 DEF t
      <4> QED BY <2>2, <4>1
    <3>2. CASE g # e
      <4>1. sealed'[g] = sealed[g] /\ Current(g)' = Current(g) /\ txState'[g] = txState[g]
        BY <1>5, <3>2
      <4> QED BY <4>1 DEF NonceOrder
    <3> QED BY <3>1, <3>2
  <2> QED BY <2>3 DEF NonceOrder
<1>8. WireOrder'
  <2> DEFINE t == w \o out
  <2>1. ASSUME NEW j \in 1..Len(w)
        PROVE  /\ Follows(Start, w[j], w[j].plain)
               /\ \A i \in 1..(j - 1) :
                     /\ NotAfter(After(w[i]), w[j])
                     /\ ~w[i].plain => Follows(After(w[i]), w[j], w[j].plain)
    BY DEF WireOrder
  <2>2. Follows(Start, c, ~c.live)
    BY <1>4 DEF WireOrder
  <2>3. ASSUME NEW i \in 1..Len(w)
        PROVE  NotAfter(After(w[i]), c) /\ (~w[i].plain => Follows(After(w[i]), c, ~c.live))
    BY <1>4 DEF WireOrder
  <2>4. Start.gen \in Nat /\ Start.seq \in Nat
    BY DEF Start
  <2>5. NotAfter(c, d) /\ (~d.live => (~c.live \/ Before(c, d)))
    BY DEF GoodSend
  <2>6. Follows(Start, d, ~d.live)
    BY <1>2, <2>2, <2>4, <2>5, FollowsStep
  <2>7. ASSUME NEW j \in 1..Len(w), NEW x, NEW clear, x.gen \in Nat, x.seq \in Nat,
               NotAfter(c, x), clear => (~c.live \/ Before(c, x))
        PROVE  NotAfter(After(w[j]), x) /\ (~w[j].plain => Follows(After(w[j]), x, clear))
    <3>1. w[j] \in Record /\ After(w[j]).gen \in Nat /\ After(w[j]).seq \in Nat
      BY <1>1, AfterFacts
    <3>2. NotAfter(After(w[j]), x)
      BY <1>2, <2>3, <2>7, <3>1, OrderTransitive
    <3>3. ~w[j].plain => Follows(After(w[j]), x, clear)
      BY <1>2, <2>3, <2>7, <3>1, FollowsStep
    <3> QED BY <3>2, <3>3
  <2>8. ASSUME NEW k \in 1..Len(out)
        PROVE  /\ out[k] \in Record /\ out[k].gen \in Nat /\ out[k].seq \in Nat
               /\ NotAfter(c, out[k]) /\ NotAfter(After(out[k]), d)
               /\ out[k].plain => ~c.live
               /\ ~out[k].plain => d.live
               /\ \A l \in 1..(k - 1) : ~out[k].plain /\ NotAfter(After(out[l]), out[k])
    <3>1. out[k] \in Record
      OBVIOUS
    <3>2. out[k].gen \in Nat /\ out[k].seq \in Nat
      BY <3>1, AfterFacts
    <3> QED BY <3>1, <3>2 DEF GoodSend
  <2>9. ASSUME NEW j \in 1..Len(t)
        PROVE  /\ Follows(Start, t[j], t[j].plain)
               /\ NotAfter(After(t[j]), d)
               /\ ~t[j].plain => Follows(After(t[j]), d, ~d.live)
               /\ \A i \in 1..(j - 1) :
                     /\ NotAfter(After(t[i]), t[j])
                     /\ ~t[i].plain => Follows(After(t[i]), t[j], t[j].plain)
    <3>1. CASE j \in 1..Len(w)
      <4>1. t[j] = w[j] /\ \A i \in 1..(j - 1) : t[i] = w[i]
        BY <1>1, <3>1, Concat
      <4>2. NotAfter(After(w[j]), d) /\ (~w[j].plain => Follows(After(w[j]), d, ~d.live))
        BY <1>2, <2>5, <2>7, <3>1
      <4> HIDE DEF t, w
      <4> QED BY <2>1, <3>1, <4>1, <4>2
    <3>2. CASE j \notin 1..Len(w)
      <4> DEFINE k == j - Len(w)
      <4>1. k \in 1..Len(out) /\ t[j] = out[k]
        BY <1>1, <3>2, Concat
      <4>2. Follows(Start, out[k], out[k].plain)
        <5> DEFINE x == out[k]
        <5>1. x.gen \in Nat /\ x.seq \in Nat /\ NotAfter(c, x) /\ (x.plain => ~c.live)
          BY <2>8, <4>1
        <5> HIDE DEF x, c, k
        <5>2. Follows(Start, x, x.plain)
          BY <1>2, <2>2, <2>4, <5>1, FollowsStep
        <5> QED BY <5>2 DEF x
      <4>3. ~out[k].plain => Follows(After(out[k]), d, ~d.live)
        BY <2>8, <4>1 DEF Follows
      <4>4. ASSUME NEW i \in 1..(j - 1)
            PROVE  /\ NotAfter(After(t[i]), t[j])
                   /\ ~t[i].plain => Follows(After(t[i]), t[j], t[j].plain)
        <5>1. CASE i \in 1..Len(w)
          <6>1. t[i] = w[i]
            BY <1>1, <5>1, Concat
          <6>2. NotAfter(After(w[i]), out[k]) /\ (~w[i].plain => Follows(After(w[i]), out[k], out[k].plain))
            BY <2>7, <2>8, <4>1, <5>1
          <6> HIDE DEF t, w, k
          <6> QED BY <4>1, <6>1, <6>2
        <5>2. CASE i \notin 1..Len(w)
          <6>1. i - Len(w) \in 1..(k - 1) /\ t[i] = out[i - Len(w)]
            BY <1>1, <5>2, Concat
          <6> HIDE DEF t, w, k
          <6>2. ~out[k].plain /\ NotAfter(After(t[i]), out[k])
            BY <2>8, <4>1, <6>1
          <6> QED BY <4>1, <6>2 DEF Follows
        <5> QED BY <5>1, <5>2
      <4> HIDE DEF t, k
      <4> QED BY <2>8, <4>1, <4>2, <4>3, <4>4
    <3> QED BY <3>1, <3>2
  <2> HIDE DEF t
  <2>10. ASSUME NEW g \in Endpoints
         PROVE  /\ \A j \in 1..Len(wire'[g]) :
                     /\ Follows(Start, wire'[g][j], wire'[g][j].plain)
                     /\ \A i \in 1..(j - 1) :
                           /\ NotAfter(After(wire'[g][i]), wire'[g][j])
                           /\ ~wire'[g][i].plain =>
                                 Follows(After(wire'[g][i]), wire'[g][j], wire'[g][j].plain)
                /\ txState'[g] # "freed" =>
                     /\ Follows(Start, Current(g)', ~(Current(g)').live)
                     /\ \A i \in 1..Len(wire'[g]) :
                           /\ NotAfter(After(wire'[g][i]), Current(g)')
                           /\ ~wire'[g][i].plain =>
                                 Follows(After(wire'[g][i]), Current(g)', ~(Current(g)').live)
    <3>1. CASE g = e
      <4>1. wire'[g] = t /\ Current(g)' = d
        BY <1>4, <1>6, <3>1 DEF t
      <4> QED BY <2>6, <2>9, <4>1
    <3>2. CASE g # e
      <4>1. wire'[g] = wire[g] /\ Current(g)' = Current(g) /\ txState'[g] = txState[g]
        BY <1>5, <3>2
      <4> QED BY <4>1 DEF WireOrder
    <3> QED BY <3>1, <3>2
  <2> QED BY <2>10 DEF WireOrder, Start, After
<1> QED BY <1>7, <1>8

\* Sending does not disturb what was received.
LEMMA TransmitReceived ==
    ASSUME TypeOK, ReceiverPosition, OpenedIsPrefix,
           NEW e \in Endpoints, NEW o \in Owners, UNCHANGED <<got, dec, closed>>,
           NEW d \in Protection, NEW out \in Seq(Record), NEW used \in Seq(Position),
           Transmit(e, o, d, out, used)
    PROVE  ReceiverPosition' /\ OpenedIsPrefix'
<1>1. ReceiverPosition'
  BY DEF ReceiverPosition, Expected
<1>2. ASSUME NEW g \in Endpoints
      PROVE  /\ Len(got'[g]) <= Len(wire'[Peer(g)])
             /\ \A i \in 1..Len(got'[g]) : got'[g][i] = wire'[Peer(g)][i]
  <2>1. Peer(g) \in Endpoints /\ got[g] \in Seq(Record) /\ wire[Peer(g)] \in Seq(Record)
    BY DEF Peer, Endpoints, TypeOK
  <2>2. Len(got[g]) <= Len(wire[Peer(g)]) /\ \A i \in 1..Len(got[g]) : got[g][i] = wire[Peer(g)][i]
    BY DEF OpenedIsPrefix
  <2>3. CASE Peer(g) = e
    <3>1. wire'[Peer(g)] = wire[Peer(g)] \o out
      BY <2>1, <2>3 DEF Transmit, TypeOK
    <3>2. /\ Len(wire'[Peer(g)]) = Len(wire[Peer(g)]) + Len(out) /\ Len(out) \in Nat
          /\ \A i \in 1..Len(wire[Peer(g)]) : wire'[Peer(g)][i] = wire[Peer(g)][i]
      BY <2>1, <3>1, Concat
    <3> QED BY <2>1, <2>2, <3>2
  <2>4. CASE Peer(g) # e
    <3>1. wire'[Peer(g)] = wire[Peer(g)]
      BY <2>1, <2>4 DEF Transmit, TypeOK
    <3> QED BY <2>2, <3>1
  <2> QED BY <2>3, <2>4
<1>3. OpenedIsPrefix'
  BY <1>2 DEF OpenedIsPrefix, Peer
<1> QED BY <1>1, <1>3

\* The only record that opens is the one right behind those already opened.
LEMMA OnlyNextOpens ==
    ASSUME TypeOK, OrderInv, NEW e \in Endpoints, closed[e] = "no",
           NEW i \in 1..Len(wire[Peer(e)]), Opens(e, wire[Peer(e)][i])
    PROVE  i = Len(got[e]) + 1
<1> DEFINE w == wire[Peer(e)]
           n == Len(got[e])
           E == Expected(e)
<1>1. Peer(e) \in Endpoints /\ got[e] \in Seq(Record) /\ w \in Seq(Record) /\ n \in Nat /\ Len(w) \in Nat
  BY DEF Peer, Endpoints, TypeOK
<1>2. n <= Len(w) /\ \A j \in 1..n : got[e][j] = w[j] /\ ~w[j].plain
  BY DEF OrderInv, OpenedIsPrefix, ReceiverPosition
<1>3. \A j \in 1..Len(w) : w[j] \in Record
  BY <1>1
<1>4. w[i].gen = E.gen /\ w[i].seq = E.seq /\ ~w[i].plain
  BY DEF OrderInv, ReceiverPosition, Opens
<1>5. E = IF n = 0 THEN Start ELSE After(w[n])
  <2>1. CASE n = 0
    BY <1>1, <2>1 DEF Expected
  <2>2. CASE n # 0
    <3>1. got[e] # <<>> /\ n \in 1..n
      BY <1>1, <2>2
    <3> QED BY <1>2, <2>2, <3>1 DEF Expected
  <2> QED BY <2>1, <2>2
<1>6. /\ \A j \in 1..Len(w) : Follows(Start, w[j], w[j].plain)
      /\ \A j \in 1..Len(w) : \A k \in 1..(j - 1) :
            NotAfter(After(w[k]), w[j]) /\ (~w[k].plain => Follows(After(w[k]), w[j], w[j].plain))
  BY <1>1 DEF OrderInv, WireOrder
<1> HIDE DEF w, n, E
<1>7. E.gen \in Nat /\ E.seq \in Nat /\ NotAfter(E, w[i]) /\ NotAfter(w[i], E)
  <2>1. w[i].gen \in Nat /\ w[i].seq \in Nat
    BY <1>3, AfterFacts DEF w
  <2> QED BY <1>4, <2>1 DEF NotAfter
<1>8. i \in 1..Len(w)
  BY DEF w
<1>9. CASE i <= n
  <2>1. n # 0 /\ n \in 1..Len(w) /\ E = After(w[n])
    BY <1>1, <1>2, <1>5, <1>8, <1>9
  <2>2. w[i] \in Record /\ w[n] \in Record
    BY <1>3, <1>8, <2>1
  <2>3. Before(w[i], After(w[i])) /\ NotAfter(w[n], After(w[n]))
    BY <1>4, <2>2, AfterFacts
  <2>4. Before(w[i], E)
    <3>1. CASE i = n
      BY <2>1, <2>3, <3>1
    <3>2. CASE i # n
      <4>1. NotAfter(After(w[i]), w[n])
        BY <1>1, <1>6, <1>8, <1>9, <2>1, <3>2
      <4>2. Before(w[i], w[n])
        BY <2>2, <2>3, <4>1, AfterFacts, OrderTransitive
      <4> QED BY <2>1, <2>2, <2>3, <4>2, AfterFacts, OrderTransitive
    <3> QED BY <3>1, <3>2
  <2>5. FALSE
    BY <1>7, <2>2, <2>4, AfterFacts, OrderTransitive
  <2> QED BY <2>5
<1>10. CASE i > n + 1
  <2> DEFINE m == n + 1
  <2>1. m \in 1..Len(w) /\ m \in 1..(i - 1)
    BY <1>1, <1>8, <1>10
  <2>2. w[m] \in Record /\ w[i] \in Record
    BY <1>3, <1>8, <2>1
  <2>3. Follows(E, w[m], w[m].plain)
    <3>1. CASE n = 0
      BY <1>5, <1>6, <2>1, <3>1
    <3>2. CASE n # 0
      <4>1. n \in 1..(m - 1) /\ n \in 1..n
        BY <1>1, <3>2
      <4> QED BY <1>2, <1>5, <1>6, <2>1, <3>2, <4>1
    <3> QED BY <3>1, <3>2
  <2>4. NotAfter(After(w[m]), w[i])
    BY <1>6, <1>8, <2>1
  <2> HIDE DEF m
  <2>5. Before(E, After(w[m]))
    <3>1. CASE w[m].plain
      BY <1>7, <2>2, <2>3, <3>1, AfterFacts, OrderTransitive DEF Follows
    <3>2. CASE ~w[m].plain
      BY <1>7, <2>2, <2>3, <3>2, AfterFacts, OrderTransitive DEF Follows
    <3> QED BY <3>1, <3>2
  <2>6. Before(E, w[i])
    BY <1>7, <2>2, <2>4, <2>5, AfterFacts, OrderTransitive
  <2>7. FALSE
    BY <1>7, <2>2, <2>6, AfterFacts, OrderTransitive
  <2> QED BY <2>7
<1> QED BY <1>1, <1>8, <1>9, <1>10 DEF n

\* ptls_receive, whatever record it is given.
LEMMA ReceiveOrder ==
    ASSUME TypeOK, OrderInv, NEW e \in Endpoints, NEW i \in 1..Len(wire[Peer(e)]), NEW fault,
           PtlsReceive(e, i, fault)
    PROVE  ReceiverPosition' /\ OpenedIsPrefix'
<1> DEFINE w == wire[Peer(e)]
           r == w[i]
           n == Len(got[e])
<1>1. Peer(e) \in Endpoints /\ got[e] \in Seq(Record) /\ w \in Seq(Record) /\ n \in Nat
      /\ r \in Record /\ dec[e] \in Protection
  BY DEF Peer, Endpoints, TypeOK
<1>2. closed[e] = "no" /\ HandleInput(e, r, fault) /\ wire' = wire
  BY DEF PtlsReceive
<1>3. CASE ~Opens(e, r)
  <2>1. got' = got /\ dec' = dec
    BY <1>2, <1>3 DEF HandleInput
  <2>2. \A g \in Endpoints : closed'[g] # "no_memory" => closed[g] # "no_memory"
    <3>1. \A g \in Endpoints \ {e} : closed'[g] = closed[g]
      BY <1>2, <1>3 DEF HandleInput, Undecryptable, TypeOK
    <3> QED BY <1>2, <3>1
  <2>3. ReceiverPosition'
    BY <2>1, <2>2 DEF OrderInv, ReceiverPosition, Expected
  <2>4. OpenedIsPrefix'
    BY <1>2, <2>1 DEF OrderInv, OpenedIsPrefix, Peer
  <2> QED BY <2>3, <2>4
<1>4. CASE Opens(e, r)
  <2>1. i = n + 1
    BY <1>2, <1>4, OnlyNextOpens
  <2>2. got' = [got EXCEPT ![e] = Append(@, r)]
    BY <1>2, <1>4 DEF HandleInput, Opens
  <2>3. /\ got'[e] = Append(got[e], r) /\ Len(got'[e]) = n + 1 /\ got'[e][n + 1] = r /\ got'[e] # <<>>
        /\ \A j \in 1..n : got'[e][j] = got[e][j]
    BY <1>1, <2>2 DEF TypeOK
  <2>4. \A g \in Endpoints \ {e} : got'[g] = got[g] /\ dec'[g] = dec[g] /\ closed'[g] = closed[g]
    <3>1. \A g \in Endpoints \ {e} : got'[g] = got[g]
      BY <2>2 DEF TypeOK
    <3>2. \A g \in Endpoints \ {e} : dec'[g] = dec[g] /\ closed'[g] = closed[g]
      <4>1. CASE r.kind = "ku"
        BY <1>2, <1>4, <4>1, SMTT(30) DEF HandleInput, Opens, HandleKeyUpdate, TypeOK
      <4>2. CASE r.kind # "ku"
        BY <1>2, <1>4, <4>2 DEF HandleInput, Opens, TypeOK
      <4> QED BY <4>1, <4>2
    <3> QED BY <3>1, <3>2
  <2>5. r.gen = dec[e].gen /\ r.seq = dec[e].seq /\ ~r.plain
    BY <1>4 DEF Opens
  <2>6. closed'[e] # "no_memory" => dec'[e].gen = After(r).gen /\ dec'[e].seq = After(r).seq
    <3>1. CASE r.kind = "ku"
      <4> DEFINE c == [dec[e] EXCEPT !.seq = @ + 1]
      <4>1. c.gen = dec[e].gen
        BY <1>1 DEF Protection
      <4>2. HandleKeyUpdate(e, r.req, fault)
        BY <1>2, <1>4, <3>1 DEF HandleInput, Opens
      <4>3. CASE fault = "rx"
        BY <4>2, <4>3 DEF HandleKeyUpdate, TypeOK
      <4>4. CASE fault # "rx"
        <5>1. dec'[e] = NextKey(c)
          BY <4>2, <4>4 DEF HandleKeyUpdate, TypeOK
        <5>2. NextKey(c).gen = c.gen + 1 /\ NextKey(c).seq = 0
          BY DEF NextKey
        <5>3. After(r).gen = r.gen + 1 /\ After(r).seq = 0
          BY <3>1 DEF After
        <5> HIDE DEF c
        <5> QED BY <2>5, <4>1, <5>1, <5>2, <5>3
      <4> QED BY <4>3, <4>4
    <3>2. CASE r.kind # "ku"
      <4>1. dec'[e] = [dec[e] EXCEPT !.seq = @ + 1]
        BY <1>2, <1>4, <3>2 DEF HandleInput, Opens, TypeOK
      <4>2. dec'[e].gen = dec[e].gen /\ dec'[e].seq = dec[e].seq + 1
        BY <1>1, <4>1 DEF Protection
      <4>3. After(r).gen = r.gen /\ After(r).seq = r.seq + 1
        BY <2>5, <3>2 DEF After
      <4> QED BY <2>5, <4>2, <4>3
    <3> QED BY <3>1, <3>2
  <2> HIDE DEF r, n
  <2>7. ReceiverPosition'
    <3> SUFFICES ASSUME NEW g \in Endpoints
                 PROVE  /\ \A j \in 1..Len(got'[g]) : ~got'[g][j].plain
                        /\ closed'[g] # "no_memory" =>
                              dec'[g].gen = (Expected(g)').gen /\ dec'[g].seq = (Expected(g)').seq
      BY DEF ReceiverPosition
    <3>1. CASE g = e
      <4>1. Expected(e)' = After(r)
        BY <2>3 DEF Expected, After
      <4>2. \A j \in 1..n : ~got[e][j].plain
        BY DEF OrderInv, ReceiverPosition, n
      <4>3. ASSUME NEW j \in 1..Len(got'[e]) PROVE ~got'[e][j].plain
        <5>1. j \in 1..n \/ j = n + 1
          BY <1>1, <2>3
        <5> QED BY <2>3, <2>5, <4>2, <5>1
      <4> QED BY <2>6, <3>1, <4>1, <4>3
    <3>2. CASE g # e
      <4>1. got'[g] = got[g] /\ dec'[g] = dec[g] /\ closed'[g] = closed[g] /\ Expected(g)' = Expected(g)
        BY <2>4, <3>2 DEF Expected, After
      <4> QED BY <4>1 DEF OrderInv, ReceiverPosition
    <3> QED BY <3>1, <3>2
  <2>8. OpenedIsPrefix'
    <3> SUFFICES ASSUME NEW g \in Endpoints
                 PROVE  /\ Len(got'[g]) <= Len(wire[Peer(g)])
                        /\ \A j \in 1..Len(got'[g]) : got'[g][j] = wire[Peer(g)][j]
      BY <1>2 DEF OpenedIsPrefix, Peer
    <3>1. CASE g = e
      <4>1. n <= Len(w) /\ \A j \in 1..n : got[e][j] = w[j]
        BY DEF OrderInv, OpenedIsPrefix, n
      <4>2. n + 1 <= Len(w) /\ w[n + 1] = r
        BY <2>1 DEF r
      <4>3. ASSUME NEW j \in 1..Len(got'[e]) PROVE got'[e][j] = w[j]
        <5>1. j \in 1..n \/ j = n + 1
          BY <1>1, <2>3
        <5> HIDE DEF w
        <5> QED BY <2>3, <4>1, <4>2, <5>1
      <4> QED BY <2>3, <3>1, <4>2, <4>3
    <3>2. CASE g # e
      BY <2>4, <3>2 DEF OrderInv, OpenedIsPrefix
    <3> QED BY <3>1, <3>2
  <2> QED BY <2>7, <2>8
<1> QED BY <1>3, <1>4

\* The initial states are ordered.
LEMMA InitOrder == Init => OrderInv
<1> SUFFICES ASSUME Init PROVE OrderInv
  OBVIOUS
<1>1. NumTickets \in Nat /\ Client # Server
  BY ConstantsAssumption
<1>2. Fresh \in Protection /\ Fresh.live /\ Fresh.gen = 0 /\ Fresh.seq = 0
  BY DEF Fresh, Protection
<1> DEFINE tickets == [i \in 1..NumTickets |-> Seal(Fresh, i - 1, "nst", FALSE)]
           c == Advance(Fresh, NumTickets)
           used == Nonces(Fresh, NumTickets)
<1>3. c.gen = 0 /\ c.seq = NumTickets /\ c.live
  BY <1>1, <1>2 DEF Advance, Fresh
<1>4. Len(used) = NumTickets /\ \A i \in 1..NumTickets : used[i].gen = 0 /\ used[i].seq = i - 1
  BY <1>1, <1>2 DEF Nonces
<1>5. Len(tickets) = NumTickets
  BY <1>1
<1>6. ASSUME NEW i \in 1..NumTickets
      PROVE  tickets[i].gen = 0 /\ tickets[i].seq = i - 1 /\ ~tickets[i].plain
             /\ After(tickets[i]).gen = 0 /\ After(tickets[i]).seq = i
  <2> DEFINE x == Seal(Fresh, i - 1, "nst", FALSE)
  <2>1. x.gen = 0 /\ x.kind = "nst"
    BY <1>2 DEF Seal
  <2>3. x.seq = i - 1
    BY <1>1, <1>2 DEF Seal
  <2>4. ~x.plain
    BY <1>2 DEF Seal
  <2>2. tickets[i] = x
    OBVIOUS
  <2> HIDE DEF x, tickets
  <2>5. After(x).gen = 0 /\ After(x).seq = i
    BY <1>1, <2>1, <2>3, <2>4 DEF After
  <2> QED BY <2>1, <2>2, <2>3, <2>4, <2>5
<1>7. /\ txState[Client] = "none" /\ txState[Server] = "none"
      /\ Current(Client) = Fresh /\ Current(Server) = c
      /\ sealed[Client] = <<>> /\ sealed[Server] = used
      /\ wire[Client] = <<>> /\ wire[Server] = tickets
  BY <1>1 DEF Init, Current, Endpoints, Owners
<1>8. Start.gen = 0 /\ Start.seq = 0
  BY DEF Start
<1> HIDE DEF tickets, c, used
<1>9. NonceOrder
  BY <1>1, <1>3, <1>4, <1>7, SMTT(30) DEF NonceOrder, Endpoints, Before
<1>10. WireOrder
  <2>1. ASSUME NEW i \in 1..NumTickets
        PROVE  NotAfter(After(tickets[i]), c) /\ NotAfter(Start, tickets[i])
    <3>1. After(tickets[i]).gen = 0 /\ After(tickets[i]).seq = i
          /\ tickets[i].gen = 0 /\ tickets[i].seq = i - 1
      BY <1>6
    <3>2. NotAfter(After(tickets[i]), c)
      BY <1>1, <1>3, <3>1 DEF NotAfter
    <3>3. NotAfter(Start, tickets[i])
      BY <1>1, <1>8, <3>1 DEF NotAfter
    <3> QED BY <3>2, <3>3
  <2>2. ASSUME NEW j \in 1..NumTickets, NEW i \in 1..(j - 1)
        PROVE  NotAfter(After(tickets[i]), tickets[j])
    <3>1. i \in 1..NumTickets
      BY <1>1
    <3>2. After(tickets[i]).gen = 0 /\ After(tickets[i]).seq = i
          /\ tickets[j].gen = 0 /\ tickets[j].seq = j - 1
      BY <1>6, <3>1
    <3> QED BY <1>1, <3>1, <3>2 DEF NotAfter
  <2>3. NotAfter(Start, c) /\ NotAfter(Start, Fresh)
    BY <1>1, <1>2, <1>3, <1>8 DEF NotAfter
  <2> QED BY <1>2, <1>3, <1>5, <1>6, <1>7, <2>1, <2>2, <2>3 DEF WireOrder, Endpoints, Follows
<1>11. ReceiverPosition
  BY <1>2 DEF Init, ReceiverPosition, Expected, Start
<1>12. OpenedIsPrefix
  <2>1. Len(wire[Client]) \in Nat /\ Len(wire[Server]) \in Nat
    BY <1>1, <1>5, <1>7
  <2>2. \A e \in Endpoints : Peer(e) \in Endpoints /\ got[e] = <<>>
    BY DEF Init, Peer, Endpoints
  <2> QED BY <2>1, <2>2 DEF OpenedIsPrefix, Endpoints
<1> QED BY <1>9, <1>10, <1>11, <1>12 DEF OrderInv

\* Nothing moves in the order when contexts, wire and receiver stay.
LEMMA SameOrder ==
    ASSUME OrderInv, UNCHANGED <<wire, sealed, got, dec, closed>>,
           \A e \in Endpoints : txState'[e] # "freed" => txState[e] # "freed" /\ Current(e)' = Current(e)
    PROVE  OrderInv'
<1>1. NonceOrder'
  <2> SUFFICES ASSUME NEW e \in Endpoints
               PROVE  /\ \A j \in 1..Len(sealed[e]) : \A i \in 1..(j - 1) : Before(sealed[e][i], sealed[e][j])
                      /\ txState'[e] # "freed" =>
                            \A i \in 1..Len(sealed[e]) : Before(sealed[e][i], Current(e)')
    BY DEF NonceOrder
  <2> QED BY DEF OrderInv, NonceOrder
<1>2. WireOrder'
  <2> SUFFICES ASSUME NEW e \in Endpoints
               PROVE  /\ \A j \in 1..Len(wire[e]) :
                            /\ Follows(Start, wire[e][j], wire[e][j].plain)
                            /\ \A i \in 1..(j - 1) :
                                  /\ NotAfter(After(wire[e][i]), wire[e][j])
                                  /\ ~wire[e][i].plain =>
                                        Follows(After(wire[e][i]), wire[e][j], wire[e][j].plain)
                      /\ txState'[e] # "freed" =>
                            /\ Follows(Start, Current(e)', ~(Current(e)').live)
                            /\ \A i \in 1..Len(wire[e]) :
                                  /\ NotAfter(After(wire[e][i]), Current(e)')
                                  /\ ~wire[e][i].plain =>
                                        Follows(After(wire[e][i]), Current(e)', ~(Current(e)').live)
    BY DEF WireOrder
  <2> QED BY DEF OrderInv, WireOrder
<1>3. ReceiverPosition'
  BY DEF OrderInv, ReceiverPosition, Expected
<1>4. OpenedIsPrefix'
  BY DEF OrderInv, OpenedIsPrefix, Peer
<1> QED BY <1>1, <1>2, <1>3, <1>4 DEF OrderInv

\* Every step keeps the order.
LEMMA NextOrder == TypeOK /\ OrderInv /\ [Next]_vars => OrderInv'
<1> SUFFICES ASSUME TypeOK, OrderInv, [Next]_vars PROVE OrderInv'
  OBVIOUS
<1>1. CASE UNCHANGED vars
  <2>1. UNCHANGED <<wire, sealed, got, dec, closed>> /\ \A e \in Endpoints : Current(e)' = Current(e)
    BY <1>1 DEF vars, Current
  <2> QED BY <1>1, <2>1, SameOrder DEF vars
<1>2. ASSUME NEW e \in Endpoints, NEW o \in Owners, Available(e, o), UNCHANGED <<txState, got, dec, closed>>,
             \E d \in Protection, out \in Seq(Record), used \in Seq(Position) :
                 Transmit(e, o, d, out, used) /\ GoodSend(enc[e][o], d, out, used)
      PROVE  OrderInv'
  <2>1. PICK d \in Protection, out \in Seq(Record), used \in Seq(Position) :
             Transmit(e, o, d, out, used) /\ GoodSend(enc[e][o], d, out, used)
    BY <1>2
  <2>2. NonceOrder' /\ WireOrder'
    BY <1>2, <2>1, TransmitOrder DEF OrderInv
  <2>3. ReceiverPosition' /\ OpenedIsPrefix'
    BY <1>2, <2>1, TransmitReceived DEF OrderInv
  <2> QED BY <2>2, <2>3 DEF OrderInv
<1>3. ASSUME NEW e \in Endpoints, NEW o \in Owners, NEW n \in 0..MaxChunks,
             NEW f \in SendFaults, PtlsSend(e, o, n, f)
      PROVE  OrderInv'
  <2>1. /\ n \in Nat /\ (f = "data" => n > 0) /\ SendEffect(e, o, n, f) /\ enc[e][o].live
        /\ Available(e, o) /\ UNCHANGED <<txState, got, dec, closed>>
    BY <1>3 DEF PtlsSend, SendFault, rxVars
  <2>2. \E d \in Protection, out \in Seq(Record), used \in Seq(Position) :
            Transmit(e, o, d, out, used) /\ GoodSend(enc[e][o], d, out, used)
    BY <2>1, SendEffectGood
  <2> QED BY <1>2, <2>1, <2>2
<1>4. ASSUME NEW e \in Endpoints, NEW req \in BOOLEAN, PtlsUpdateKey(e, req)
      PROVE  OrderInv'
  BY <1>4, SameOrder DEF PtlsUpdateKey, rxVars, Current
<1>5. ASSUME NEW e \in Endpoints, NEW o \in Owners, PtlsSendAlert(e, o)
      PROVE  OrderInv'
  <2> DEFINE c == enc[e][o]
  <2>1. c \in Protection /\ 1 \in Nat /\ "alert" \in Kinds /\ "alert" \in Kinds \ {"ku"}
    BY DEF TypeOK, Kinds
  <2>2. /\ Transmit(e, o, Advance(c, 1), <<Seal(c, 0, "alert", FALSE)>>, Nonces(c, 1))
        /\ Available(e, o) /\ UNCHANGED <<txState, got, dec, closed>>
    BY <1>5 DEF PtlsSendAlert, rxVars
  <2> HIDE DEF c
  <2>3. Advance(c, 1) \in Protection
    BY <2>1, ContextTypes
  <2>4. Nonces(c, 1) \in Seq(Position)
    BY <2>1, SealTypes
  <2>5. Seal(c, 0, "alert", FALSE) \in Record
    BY <2>1, SealTypes
  <2>6. <<Seal(c, 0, "alert", FALSE)>> \in Seq(Record)
    BY <2>5, Singleton
  <2>7. GoodSend(c, Advance(c, 1), <<Seal(c, 0, "alert", FALSE)>>, Nonces(c, 1))
    BY <2>1, GoodOne
  <2>8. \E d \in Protection, out \in Seq(Record), used \in Seq(Position) :
            Transmit(e, o, d, out, used) /\ GoodSend(c, d, out, used)
    BY <2>2, <2>3, <2>4, <2>6, <2>7
  <2> QED BY <1>2, <2>2, <2>8 DEF c
<1>6. ASSUME NEW e \in Endpoints, PtlsDetachTx(e)
      PROVE  OrderInv'
  <2>1. Current(e)' = Current(e)
    <3>1. Current(e) = enc[e]["tls"]
      BY <1>6 DEF PtlsDetachTx, Current
    <3>2. txState'[e] = "live" /\ enc'[e] = Moved(enc[e], NoProtection)
      BY <1>6 DEF PtlsDetachTx, TypeOK
    <3>3. Moved(enc[e], NoProtection)["tx"] = enc[e]["tls"]
      BY DEF Moved, Owners
    <3> QED BY <3>1, <3>2, <3>3 DEF Current
  <2>2. \A g \in Endpoints \ {e} : Current(g)' = Current(g) /\ txState'[g] = txState[g]
    BY <1>6 DEF PtlsDetachTx, Current, TypeOK
  <2>3. txState[e] # "freed"
    BY <1>6 DEF PtlsDetachTx
  <2> QED BY <1>6, <2>1, <2>2, <2>3, SameOrder DEF PtlsDetachTx, rxVars
<1>7. ASSUME NEW e \in Endpoints, PtlsTxFree(e)
      PROVE  OrderInv'
  <2>1. \A g \in Endpoints \ {e} : Current(g)' = Current(g) /\ txState'[g] = txState[g]
    BY <1>7 DEF PtlsTxFree, Current, TypeOK
  <2>2. txState'[e] = "freed"
    BY <1>7 DEF PtlsTxFree, TypeOK
  <2> QED BY <1>7, <2>1, <2>2, SameOrder DEF PtlsTxFree, rxVars
<1>8. ASSUME NEW e \in Endpoints, PtlsTakeKeyUpdateRequest(e)
      PROVE  OrderInv'
  BY <1>8, SameOrder DEF PtlsTakeKeyUpdateRequest, txVars, Current
<1>9. ASSUME NEW e \in Endpoints, NEW req \in BOOLEAN, NEW f \in SendFaults,
             PtlsTxUpdateKey(e, req, f)
      PROVE  OrderInv'
  <2> DEFINE u == UpdateSendKey(enc[e]["tx"], req, f)
  <2>1. "tx" \in Owners /\ enc[e]["tx"] \in Protection
    BY DEF Owners, TypeOK
  <2>2. u.enc \in Protection /\ u.out \in Seq(Record) /\ u.used \in Seq(Position)
        /\ GoodSend(enc[e]["tx"], u.enc, u.out, u.used)
    BY <2>1, UpdateSendKeyTypes, GoodUpdate
  <2>3. /\ Transmit(e, "tx", u.enc, u.out, u.used)
        /\ UNCHANGED <<txState, got, dec, closed>>
    BY <1>9 DEF PtlsTxUpdateKey, TxUpdateKeyEffect, rxVars
  <2>4. Available(e, "tx")
    BY <1>9 DEF PtlsTxUpdateKey, Available
  <2> HIDE DEF u
  <2> QED BY <1>2, <2>1, <2>2, <2>3, <2>4
<1>10. ASSUME NEW e \in Endpoints, NEW i \in 1..Len(wire[Peer(e)]), NEW f, PtlsReceive(e, i, f)
       PROVE  OrderInv'
  <2>1. ReceiverPosition' /\ OpenedIsPrefix'
    BY <1>10, ReceiveOrder
  <2>2. UNCHANGED <<enc, txState, wire, sealed>>
    BY <1>10 DEF PtlsReceive
  <2>3. NonceOrder' /\ WireOrder'
    BY <2>2 DEF OrderInv, NonceOrder, WireOrder, Current, Start
  <2> QED BY <2>1, <2>3 DEF OrderInv
<1>11. ASSUME NEW e \in Endpoints, ReceiveNext(e) \/ ReceiveAny(e) \/ ReceiveFault(e)
       PROVE  OrderInv'
  <2>1. got[e] \in Seq(Record) /\ wire[Peer(e)] \in Seq(Record)
    BY DEF TypeOK, Peer, Endpoints
  <2>2. \E i \in 1..Len(wire[Peer(e)]), f \in {"none", "rx"} : PtlsReceive(e, i, f)
    <3>1. CASE ReceiveNext(e)
      BY <2>1, <3>1 DEF ReceiveNext
    <3>2. CASE ReceiveAny(e)
      BY <3>2 DEF ReceiveAny
    <3>3. CASE ReceiveFault(e)
      BY <2>1, <3>3 DEF ReceiveFault
    <3> QED BY <1>11, <3>1, <3>2, <3>3
  <2> QED BY <2>2, <1>10
<1>12. ASSUME NEW e \in Endpoints, ExportImport(e)
       PROVE  OrderInv'
  <2> DEFINE c == enc[e]["tls"]
             d == Imported(c)
  <2>1. "tls" \in Owners /\ c \in Protection /\ dec[e] \in Protection
    BY DEF Owners, TypeOK
  <2>2. d.gen = c.gen /\ d.seq = c.seq /\ d.live
    BY <2>1 DEF Imported, Protection
  <2>3. /\ txState[e] = "none"
        /\ enc' = [enc EXCEPT ![e]["tls"] = d]
        /\ dec' = [dec EXCEPT ![e] = Imported(dec[e])]
        /\ UNCHANGED <<txState, wire, sealed, got, closed>>
    BY <1>12, <2>1 DEF ExportImport, TypeOK
  <2> HIDE DEF d
  <2>4. Current(e) = c /\ Current(e)' = d
    BY <2>1, <2>3 DEF Current, TypeOK
  <2>5. \A g \in Endpoints \ {e} : Current(g)' = Current(g)
    BY <2>3 DEF Current, TypeOK
  <2>6. \A x : (Before(x, c) <=> Before(x, d)) /\ (NotAfter(x, c) <=> NotAfter(x, d))
    BY <2>2 DEF Before, NotAfter
  <2> HIDE DEF c
  <2>7. NonceOrder'
    <3> SUFFICES ASSUME NEW g \in Endpoints
                 PROVE  /\ \A j \in 1..Len(sealed[g]) : \A i \in 1..(j - 1) : Before(sealed[g][i], sealed[g][j])
                        /\ txState[g] # "freed" =>
                              \A i \in 1..Len(sealed[g]) : Before(sealed[g][i], Current(g)')
      BY <2>3 DEF NonceOrder
    <3>1. CASE g = e
      BY <2>4, <2>6, <3>1 DEF OrderInv, NonceOrder
    <3>2. CASE g # e
      BY <2>5, <3>2 DEF OrderInv, NonceOrder
    <3> QED BY <3>1, <3>2
  <2>8. WireOrder'
    <3> SUFFICES ASSUME NEW g \in Endpoints
                 PROVE  /\ \A j \in 1..Len(wire[g]) :
                              /\ Follows(Start, wire[g][j], wire[g][j].plain)
                              /\ \A i \in 1..(j - 1) :
                                    /\ NotAfter(After(wire[g][i]), wire[g][j])
                                    /\ ~wire[g][i].plain =>
                                          Follows(After(wire[g][i]), wire[g][j], wire[g][j].plain)
                        /\ txState[g] # "freed" =>
                              /\ Follows(Start, Current(g)', ~(Current(g)').live)
                              /\ \A i \in 1..Len(wire[g]) :
                                    /\ NotAfter(After(wire[g][i]), Current(g)')
                                    /\ ~wire[g][i].plain =>
                                          Follows(After(wire[g][i]), Current(g)', ~(Current(g)').live)
      BY <2>3 DEF WireOrder
    <3>1. \A j \in 1..Len(wire[g]) :
              /\ Follows(Start, wire[g][j], wire[g][j].plain)
              /\ \A i \in 1..(j - 1) :
                    /\ NotAfter(After(wire[g][i]), wire[g][j])
                    /\ ~wire[g][i].plain =>
                          Follows(After(wire[g][i]), wire[g][j], wire[g][j].plain)
      BY DEF OrderInv, WireOrder
    <3>2. CASE g = e
      <4>1. /\ Follows(Start, c, ~c.live)
            /\ \A i \in 1..Len(wire[g]) : NotAfter(After(wire[g][i]), c)
        BY <2>3, <2>4, <3>2 DEF OrderInv, WireOrder
      <4>2. NotAfter(Start, c)
        <5>1. c.gen \in Nat /\ c.seq \in Nat
          BY <2>1 DEF Protection
        <5>2. Start.gen = 0 /\ Start.seq = 0
          BY DEF Start
        <5> QED BY <5>1, <5>2 DEF NotAfter
      <4>3. NotAfter(Start, d) /\ \A i \in 1..Len(wire[g]) : NotAfter(After(wire[g][i]), d)
        BY <2>6, <4>1, <4>2
      <4> QED BY <2>2, <2>4, <3>1, <3>2, <4>3 DEF Follows
    <3>3. CASE g # e
      <4>1. Current(g)' = Current(g)
        BY <2>5, <3>3
      <4> QED BY <3>1, <4>1 DEF OrderInv, WireOrder
    <3> QED BY <3>2, <3>3
  <2>9. ReceiverPosition'
    <3>1. \A g \in Endpoints : dec'[g].gen = dec[g].gen /\ dec'[g].seq = dec[g].seq
      <4>1. Imported(dec[e]).gen = dec[e].gen /\ Imported(dec[e]).seq = dec[e].seq
        BY <2>1 DEF Imported, Protection
      <4>2. dec \in [Endpoints -> Protection]
        BY DEF TypeOK
      <4> QED BY <2>3, <4>1, <4>2
    <3> QED BY <2>3, <3>1 DEF OrderInv, ReceiverPosition, Expected
  <2>10. OpenedIsPrefix'
    BY <2>3 DEF OrderInv, OpenedIsPrefix, Peer
  <2> QED BY <2>7, <2>8, <2>9, <2>10 DEF OrderInv
<1> QED BY <1>1, <1>3, <1>4, <1>5, <1>6, <1>7, <1>8, <1>9, <1>11, <1>12 DEF Next

\* The order holds in every reachable state.
LEMMA OrderCorrect == Spec => []OrderInv
<1> QED BY InitTypes, NextTypes, InitOrder, NextOrder, PTL DEF Spec

\* No traffic key seals two records with the same sequence number, whatever
\* allocations fail, whenever transmission is detached or the connection moved.
THEOREM NoncesNeverRepeat == Spec => []NonceUnique
<1>1. TypeOK /\ OrderInv => NonceUnique
  <2> SUFFICES ASSUME TypeOK, OrderInv, NEW e \in Endpoints,
                      NEW i \in 1..Len(sealed[e]), NEW j \in 1..Len(sealed[e]), i # j
               PROVE  sealed[e][i] # sealed[e][j]
    BY DEF NonceUnique
  <2>1. sealed[e] \in Seq(Position) /\ sealed[e][i] \in Position /\ sealed[e][j] \in Position
    BY DEF TypeOK
  <2>2. i \in 1..(j - 1) \/ j \in 1..(i - 1)
    BY <2>1
  <2>3. Before(sealed[e][i], sealed[e][j]) \/ Before(sealed[e][j], sealed[e][i])
    BY <2>2 DEF OrderInv, NonceOrder
  <2> QED BY <2>1, <2>3, SMTT(30) DEF Before, Position
<1> QED BY <1>1, TypeCorrect, OrderCorrect, PTL

\* What is opened is a prefix of what was sealed, under any delivery.
THEOREM OpenedAreSent == Spec => []OpenedIsPrefix
<1>1. OrderInv => OpenedIsPrefix
  BY DEF OrderInv
<1> QED BY <1>1, OrderCorrect, PTL

(***************************************************************************)
(* Refinement of the channel                                               *)
(***************************************************************************)

\* A step as the channel towards e sees it: the sender adds records, e takes the next record, e gives
\* up, or nothing happens.
Adds(e) ==
    /\ wire'[Peer(e)] \in Seq(Record)
    /\ Len(wire[Peer(e)]) <= Len(wire'[Peer(e)])
    /\ \A i \in 1..Len(wire[Peer(e)]) : wire'[Peer(e)][i] = wire[Peer(e)][i]
    /\ got'[e] = got[e] /\ closed'[e] = closed[e]

Takes(e) ==
    /\ closed[e] = "no"
    /\ Len(got[e]) < Len(wire[Peer(e)])
    /\ got'[e] = Append(got[e], wire[Peer(e)][Len(got[e]) + 1])
    /\ wire'[Peer(e)] = wire[Peer(e)]

GivesUp(e) ==
    /\ closed[e] = "no" /\ closed'[e] # "no"
    /\ wire'[Peer(e)] = wire[Peer(e)] /\ got'[e] = got[e]

Nothing(e) == wire'[Peer(e)] = wire[Peer(e)] /\ got'[e] = got[e] /\ closed'[e] = closed[e]

StreamStep(e) == Adds(e) \/ Takes(e) \/ GivesUp(e) \/ Nothing(e)

\* A send call adds its records at the end.
LEMMA TransmitStream ==
    ASSUME TypeOK, NEW g \in Endpoints, NEW o \in Owners, NEW d \in Protection,
           NEW out \in Seq(Record), NEW used \in Seq(Position),
           Transmit(g, o, d, out, used), UNCHANGED <<got, closed>>,
           NEW e \in Endpoints
    PROVE  StreamStep(e)
<1>1. Peer(e) \in Endpoints /\ wire[Peer(e)] \in Seq(Record)
  BY DEF Peer, Endpoints, TypeOK
<1>2. wire' = [wire EXCEPT ![g] = wire[g] \o out]
  BY DEF Transmit
<1>3. CASE Peer(e) = g
  <2> DEFINE w == wire[g]
             x == w \o out
  <2>1. wire'[Peer(e)] = x
    BY <1>1, <1>2, <1>3 DEF TypeOK
  <2>2. w \in Seq(Record) /\ x \in Seq(Record) /\ Len(x) = Len(w) + Len(out) /\ Len(out) \in Nat /\ Len(w) \in Nat
    BY <1>1, <1>3
  <2>3. \A i \in 1..Len(w) : x[i] = w[i]
    BY <2>2
  <2>4. Len(w) <= Len(x)
    BY <2>2
  <2> HIDE DEF w, x
  <2>5. wire[Peer(e)] = w
    BY <1>3 DEF w
  <2> QED BY <2>1, <2>2, <2>3, <2>4, <2>5 DEF StreamStep, Adds
<1>4. CASE Peer(e) # g
  <2>1. wire'[Peer(e)] = wire[Peer(e)]
    BY <1>1, <1>2, <1>4 DEF TypeOK
  <2> QED BY <2>1 DEF StreamStep, Nothing
<1> QED BY <1>3, <1>4

\* ptls_receive takes the next record, gives up, or skips.
LEMMA ReceiveStream ==
    ASSUME TypeOK, OrderInv, NEW g \in Endpoints, NEW i \in 1..Len(wire[Peer(g)]), NEW fault,
           PtlsReceive(g, i, fault), NEW e \in Endpoints
    PROVE  StreamStep(e)
<1> DEFINE r == wire[Peer(g)][i]
<1>1. closed[g] = "no" /\ HandleInput(g, r, fault) /\ wire' = wire
  BY DEF PtlsReceive
<1>2. got \in [Endpoints -> Seq(Record)] /\ closed \in [Endpoints -> Reasons] /\ Peer(g) \in Endpoints
      /\ wire[Peer(g)] \in Seq(Record) /\ Len(got[g]) \in Nat /\ Len(wire[Peer(g)]) \in Nat
  BY DEF TypeOK, Peer, Endpoints
<1>3. \A h \in Endpoints \ {g} : got'[h] = got[h] /\ closed'[h] = closed[h]
  BY <1>1, <1>2 DEF HandleInput, Undecryptable, HandleKeyUpdate
<1>4. CASE e # g
  BY <1>1, <1>3, <1>4 DEF StreamStep, Nothing
<1>5. CASE e = g /\ Opens(g, r)
  <2>1. i = Len(got[g]) + 1
    BY <1>1, <1>5, OnlyNextOpens
  <2>2. got' = [got EXCEPT ![g] = Append(got[g], r)]
    BY <1>1, <1>5 DEF HandleInput, Opens
  <2>3. got'[g] = Append(got[g], r)
    BY <1>2, <2>2
  <2>4. Len(got[g]) < Len(wire[Peer(g)])
    BY <1>2, <2>1
  <2> QED BY <1>1, <1>5, <2>1, <2>3, <2>4 DEF StreamStep, Takes
<1>6. CASE e = g /\ ~Opens(g, r)
  <2>1. got' = got
    BY <1>1, <1>6 DEF HandleInput
  <2>2. closed'[g] = closed[g] \/ closed'[g] # "no"
    BY <1>1
  <2> QED BY <1>1, <1>6, <2>1, <2>2 DEF StreamStep, GivesUp, Nothing
<1> QED BY <1>4, <1>5, <1>6

\* A step that leaves the wire and the receivers alone.
LEMMA QuietStream ==
    ASSUME UNCHANGED <<wire, got, closed>>, NEW e \in Endpoints
    PROVE  StreamStep(e)
BY DEF StreamStep, Nothing

\* Every step is a step of the channel towards each endpoint.
LEMMA NextStream == TypeOK /\ OrderInv /\ [Next]_vars => \A e \in Endpoints : StreamStep(e)
<1> SUFFICES ASSUME TypeOK, OrderInv, [Next]_vars, NEW e \in Endpoints PROVE StreamStep(e)
  OBVIOUS
<1>1. CASE UNCHANGED vars
  BY <1>1, QuietStream DEF vars
<1>2. ASSUME NEW g \in Endpoints, NEW o \in Owners, NEW n \in 0..MaxChunks,
             NEW f \in SendFaults, PtlsSend(g, o, n, f)
      PROVE  StreamStep(e)
  <2>1. /\ n \in Nat /\ (f = "data" => n > 0) /\ SendEffect(g, o, n, f) /\ enc[g][o].live
        /\ UNCHANGED <<got, closed>>
    BY <1>2 DEF PtlsSend, SendFault, rxVars
  <2>2. PICK d \in Protection, out \in Seq(Record), used \in Seq(Position) :
            Transmit(g, o, d, out, used) /\ GoodSend(enc[g][o], d, out, used)
    BY <2>1, SendEffectGood
  <2> QED BY <2>1, <2>2, TransmitStream
<1>3. ASSUME NEW g \in Endpoints, NEW req \in BOOLEAN, PtlsUpdateKey(g, req)
      PROVE  StreamStep(e)
  BY <1>3, QuietStream DEF PtlsUpdateKey, rxVars
<1>4. ASSUME NEW g \in Endpoints, NEW o \in Owners, PtlsSendAlert(g, o)
      PROVE  StreamStep(e)
  <2> DEFINE c == enc[g][o]
  <2>1. c \in Protection /\ 1 \in Nat /\ "alert" \in Kinds
    BY DEF TypeOK, Kinds
  <2>2. Transmit(g, o, Advance(c, 1), <<Seal(c, 0, "alert", FALSE)>>, Nonces(c, 1)) /\ UNCHANGED <<got, closed>>
    BY <1>4 DEF PtlsSendAlert, rxVars
  <2> HIDE DEF c
  <2>3. Advance(c, 1) \in Protection /\ Nonces(c, 1) \in Seq(Position) /\ Seal(c, 0, "alert", FALSE) \in Record
    BY <2>1, ContextTypes, SealTypes
  <2>4. <<Seal(c, 0, "alert", FALSE)>> \in Seq(Record)
    BY <2>3, Singleton
  <2> QED BY <2>2, <2>3, <2>4, TransmitStream
<1>5. ASSUME NEW g \in Endpoints, PtlsDetachTx(g) \/ PtlsTxFree(g)
      PROVE  StreamStep(e)
  BY <1>5, QuietStream DEF PtlsDetachTx, PtlsTxFree, rxVars
<1>6. ASSUME NEW g \in Endpoints, PtlsTakeKeyUpdateRequest(g)
      PROVE  StreamStep(e)
  BY <1>6, QuietStream DEF PtlsTakeKeyUpdateRequest, txVars
<1>7. ASSUME NEW g \in Endpoints, NEW req \in BOOLEAN, NEW f \in SendFaults, PtlsTxUpdateKey(g, req, f)
      PROVE  StreamStep(e)
  <2> DEFINE u == UpdateSendKey(enc[g]["tx"], req, f)
  <2>1. enc[g]["tx"] \in Protection /\ "tx" \in Owners
    BY DEF TypeOK, Owners
  <2>2. Transmit(g, "tx", u.enc, u.out, u.used) /\ UNCHANGED <<got, closed>>
    BY <1>7 DEF PtlsTxUpdateKey, TxUpdateKeyEffect, rxVars
  <2>3. u.enc \in Protection /\ u.out \in Seq(Record) /\ u.used \in Seq(Position)
    BY <2>1, UpdateSendKeyTypes
  <2> HIDE DEF u
  <2> QED BY <2>1, <2>2, <2>3, TransmitStream
<1>8. ASSUME NEW g \in Endpoints, ReceiveNext(g) \/ ReceiveAny(g) \/ ReceiveFault(g)
      PROVE  StreamStep(e)
  <2>1. Len(got[g]) \in Nat /\ Len(wire[Peer(g)]) \in Nat
    BY DEF TypeOK, Peer, Endpoints
  <2>2. \E i \in 1..Len(wire[Peer(g)]) : PtlsReceive(g, i, "none") \/ PtlsReceive(g, i, "rx")
    BY <1>8, <2>1 DEF ReceiveNext, ReceiveAny, ReceiveFault
  <2> QED BY <2>2, ReceiveStream
<1>9. ASSUME NEW g \in Endpoints, ExportImport(g)
      PROVE  StreamStep(e)
  BY <1>9, QuietStream DEF ExportImport
<1> QED BY <1>1, <1>2, <1>3, <1>4, <1>5, <1>6, <1>7, <1>8, <1>9 DEF Next

\* ptls_send, ptls_receive, the detached transmission and the rest implement the channel, in both
\* directions, whatever the transport delivers and whatever fails.
THEOREM TrafficIsChannel == Spec => ImplementsChannel
<1>1. Init => ToServer!ChannelInit /\ ToClient!ChannelInit
  <2> SUFFICES ASSUME Init PROVE ToServer!ChannelInit /\ ToClient!ChannelInit
    OBVIOUS
  <2>1. TypeOK /\ Client \in Endpoints /\ Server \in Endpoints
    BY InitTypes DEF Endpoints
  <2>2. \A e \in Endpoints : wire[e] \in Seq(Record) /\ got[e] = <<>> /\ closed[e] = "no"
    BY <2>1 DEF TypeOK, Init
  <2> QED BY <2>1, <2>2 DEF ToServer!ChannelInit, ToClient!ChannelInit
<1>2. TypeOK /\ OrderInv /\ [Next]_vars =>
        /\ [ToServer!ChannelNext]_<<wire[Client], got[Server], (closed[Server] # "no")>>
        /\ [ToClient!ChannelNext]_<<wire[Server], got[Client], (closed[Client] # "no")>>
  <2> SUFFICES ASSUME TypeOK, OrderInv, [Next]_vars
               PROVE  /\ [ToServer!ChannelNext]_<<wire[Client], got[Server], (closed[Server] # "no")>>
                      /\ [ToClient!ChannelNext]_<<wire[Server], got[Client], (closed[Client] # "no")>>
    OBVIOUS
  <2>1. StreamStep(Client) /\ StreamStep(Server) /\ Peer(Client) = Server /\ Peer(Server) = Client
    BY NextStream, ConstantsAssumption DEF Endpoints, Peer
  <2>2. [ToServer!ChannelNext]_<<wire[Client], got[Server], (closed[Server] # "no")>>
    BY <2>1 DEF StreamStep, Adds, Takes, GivesUp, Nothing, ToServer!ChannelNext, ToServer!ChannelSend,
                ToServer!ChannelReceive, ToServer!GiveUp
  <2>3. [ToClient!ChannelNext]_<<wire[Server], got[Client], (closed[Client] # "no")>>
    BY <2>1 DEF StreamStep, Adds, Takes, GivesUp, Nothing, ToClient!ChannelNext, ToClient!ChannelSend,
                ToClient!ChannelReceive, ToClient!GiveUp
  <2> QED BY <2>2, <2>3
<1> QED BY <1>1, <1>2, TypeCorrect, OrderCorrect, PTL
        DEF Spec, ImplementsChannel, ToServer!ChannelSpec, ToClient!ChannelSpec
=============================================================================
