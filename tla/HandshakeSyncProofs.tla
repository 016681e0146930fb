------------------------- MODULE HandshakeSyncProofs -------------------------
(***************************************************************************)
(* The two state machines stay in step, the handshake never stops half     *)
(* way, the applications receive what was sent, and a failure reaches the  *)
(* other end: proofs of InStep, NobodyWaits, DeliveredIsSent and           *)
(* FailureReaches for every configuration of the two ends and any amount   *)
(* of data.                                                                *)
(*                                                                         *)
(* A configuration determines the whole conversation: its messages, keys   *)
(* and records are the fields of a story (Story, in HandshakeProofs).  The *)
(* invariant gives the state of each end that has not failed as a function *)
(* of the story, and what is in flight towards it as the part of the story *)
(* that follows that state, with the alert of a failed peer at its end.    *)
(***************************************************************************)
EXTENDS HandshakeProofs

-----------------------------------------------------------------------------
(* The client reads a record. *)

(* What is known of a client that has not failed; al is the alert on its way to it, *)
(* w the data delivered.                                                            *)
ClientKnows(y, al, w) ==
    /\ Story(y) /\ cfg \in Config /\ Counted
    /\ Shape(cl, ClientFields) /\ cl.error = "none" /\ cl.state # "start"
    /\ Always(y, cl, sv, sent.early, sent.client)
    /\ ClientAt(y, cl, sent.early, sent.client, w)
    /\ GotClient(got.client, sent.server, w)
    /\ ServerAlert(sv, al) /\ IsSeq(al)

(* The client fails: the server gets an alert unless it has failed itself. *)
ClientStops ==
    /\ cl'.state = cl.state /\ cl'.done = cl.done /\ cl'.error # "none" /\ got' = got
    /\ \E o : toServer' = toServer \o o /\ IsSeq(o) /\ (sv.error = "none" => ClientAlert(cl', o))

(* The client goes on with the story. *)
ClientMoves(y, al) ==
    /\ cl'.error = "none" /\ Always(y, cl', sv, sent.early, sent.client)
    /\ \E w : /\ ClientAt(y, cl', sent.early, sent.client, w)
              /\ GotClient(got'.client, sent.server, w) /\ got'.server = got.server
              /\ DOMAIN got' = DOMAIN got
    /\ FromServer(y, cl', sv, sent.server, al, toClient')
    /\ \E out : /\ toServer' = toServer \o out
                /\ Grows(y, cl.state, sent.early, sent.client,
                         cl'.state, sent.early, sent.client, out)

(* A handler of the client that fails. *)
LEMMA ClientFailStops ==
  ASSUME NEW c, DOMAIN c = ClientFields, c.state = cl.state, c.done = cl.done, c.done \in BOOLEAN,
         NEW code, code # "none", ClientFail(c, code), code = "peer_alert" => sv.error # "none",
         got' = got
  PROVE  ClientStops
<1>1. PICK silent \in BOOLEAN : silent <=> (c.done \/ code = "peer_alert")
  OBVIOUS
<1>2. PICK d : d = [c EXCEPT !.error = code]
  OBVIOUS
<1>3. PICK out : out = IF silent THEN <<>> ELSE Seal(NoProtection, <<Alert(code)>>)
  OBVIOUS
<1>4. cl' = d /\ toServer' = toServer \o out
  BY <1>1, <1>2, <1>3 DEF ClientFail
<1>5. d.state = c.state /\ d.done = c.done /\ d.error = code
  BY <1>2 DEF ClientFields
<1>6. CASE silent
  <2>1. out = <<>> /\ IsSeq(out)
    BY <1>3, <1>6, ShortSeq
  <2>2. sv.error = "none" => ClientAlert(d, out)
    BY <1>1, <1>5, <1>6, <2>1 DEF ClientAlert
  <2> QED BY <1>4, <1>5, <2>1, <2>2 DEF ClientStops
<1>7. CASE ~silent
  <2>1. NoProtection = Ctx(NoKey, 0)
    BY CtxUsed
  <2>2. PICK r : r = Wire(NoKey, SeqNo(NoKey, 0), [type |-> "alert", code |-> code], NoMac)
    OBVIOUS
  <2>3. out = <<r>>
    BY <1>3, <1>7, <2>1, <2>2, SealSingle DEF Alert
  <2>4. r.msg.type = "alert" /\ r.key = NoKey
    BY <2>2 DEF Wire
  <2>5. IsSeq(out)
    BY <2>3, ShortSeq
  <2>6. ~d.done /\ d.error # "none"
    BY <1>1, <1>5, <1>7
  <2>7. ClientAlert(d, out)
    BY <2>3, <2>4, <2>6 DEF ClientAlert
  <2> QED BY <1>4, <1>5, <2>5, <2>7 DEF ClientStops
<1> QED BY <1>6, <1>7

(* The client as a handler finds it, after the record has been opened. *)
LEMMA ClientOpened ==
  ASSUME NEW y, NEW al, NEW w, ClientKnows(y, al, w), NEW r, NEW c, c = [cl EXCEPT !.dec = Read(@, r)]
  PROVE  /\ DOMAIN c = ClientFields /\ DOMAIN c.enc = ContextFields /\ DOMAIN c.dec = ContextFields
         /\ c.dec = Read(cl.dec, r) /\ c.enc = cl.enc /\ c.pending = cl.pending
         /\ c.sched = cl.sched /\ c.share = cl.share /\ c.usingEarly = cl.usingEarly
         /\ c.offeredPsk = cl.offeredPsk /\ c.isPsk = cl.isPsk /\ c.certReq = cl.certReq
         /\ c.ccs = cl.ccs /\ c.state = cl.state /\ c.done = cl.done /\ c.error = "none"
<1>1. DOMAIN cl = ClientFields /\ DOMAIN cl.enc = ContextFields /\ DOMAIN cl.dec = ContextFields
  BY DEF ClientKnows, Shape
<1>2. cl.error = "none"
  BY DEF ClientKnows
<1>3. PICK p : p = Read(cl.dec, r)
  OBVIOUS
<1>4. DOMAIN p = ContextFields
  BY <1>1, <1>3, ReadContext
<1>5. c = [cl EXCEPT !.dec = p]
  BY <1>3
<1>6. /\ DOMAIN c = ClientFields /\ c.dec = p /\ c.enc = cl.enc /\ c.pending = cl.pending
      /\ c.sched = cl.sched /\ c.share = cl.share /\ c.usingEarly = cl.usingEarly
      /\ c.offeredPsk = cl.offeredPsk /\ c.isPsk = cl.isPsk /\ c.certReq = cl.certReq
      /\ c.ccs = cl.ccs /\ c.state = cl.state /\ c.done = cl.done /\ c.error = cl.error
  BY <1>1, <1>5 DEF ClientFields
<1> QED BY <1>1, <1>2, <1>3, <1>4, <1>6

(* The handlers a record can go to. *)
LEMMA ClientDispatch ==
  ASSUME ClientReceive, NEW r, r = Head(toClient), NEW c, c = [cl EXCEPT !.dec = Read(@, r)]
  PROVE  /\ cfg' = cfg /\ sv' = sv /\ sent' = sent
         /\ \/ (ClientIgnoreCcs(r) \/ ClientRefuse(r)) /\ got' = got
            \/ /\ r.msg.type # "ccs" /\ Opens(cl.dec, r) /\ got' = got
               /\ \/ ClientHandleRetry(c, r)
                  \/ ClientHandleHello(c, r)
                  \/ ClientHandleEncryptedExtensions(c, r)
                  \/ ClientHandleCertificateRequest(c, r)
                  \/ ClientHandleCertificate(c, r)
                  \/ ClientHandleCertificateVerify(c, r)
                  \/ ClientHandleFinished(c, r)
                  \/ ClientHandleAlert(c, r)
                  \/ ClientHandleNewSessionTicket(c, r)
            \/ r.msg.type # "ccs" /\ Opens(cl.dec, r) /\ ClientDeliver(c, r)
BY DEF ClientReceive

(* The handler of a record that the client expects. *)
LEMMA ClientHandles ==
  ASSUME ClientReceive, NEW r, r = Head(toClient), NEW c, c = [cl EXCEPT !.dec = Read(@, r)],
         Opens(cl.dec, r), r.msg.type \in ClientTakes(cl.state) \cup {"alert"}, r.msg.type # "ccs"
  PROVE  /\ r.msg.type # "data" => got' = got
         /\ r.msg.type = "hrr" => ClientHandleRetry(c, r)
         /\ r.msg.type = "sh" => ClientHandleHello(c, r)
         /\ r.msg.type = "ee" => ClientHandleEncryptedExtensions(c, r)
         /\ r.msg.type = "cr" => ClientHandleCertificateRequest(c, r)
         /\ r.msg.type = "cert" => ClientHandleCertificate(c, r)
         /\ r.msg.type = "cv" => ClientHandleCertificateVerify(c, r)
         /\ r.msg.type = "fin" => ClientHandleFinished(c, r)
         /\ r.msg.type = "alert" => ClientHandleAlert(c, r)
         /\ r.msg.type = "nst" => ClientHandleNewSessionTicket(c, r)
         /\ r.msg.type = "data" => ClientDeliver(c, r)
<1>1. ~ClientRefuse(r) /\ ~ClientIgnoreCcs(r)
  BY DEF ClientRefuse, ClientIgnoreCcs
<1>2. /\ ClientHandleRetry(c, r) => r.msg.type = "hrr"
      /\ ClientHandleHello(c, r) => r.msg.type = "sh"
      /\ ClientHandleEncryptedExtensions(c, r) => r.msg.type = "ee"
      /\ ClientHandleCertificateRequest(c, r) => r.msg.type = "cr"
      /\ ClientHandleCertificate(c, r) => r.msg.type = "cert"
      /\ ClientHandleCertificateVerify(c, r) => r.msg.type = "cv"
      /\ ClientHandleFinished(c, r) => r.msg.type = "fin"
      /\ ClientHandleAlert(c, r) => r.msg.type = "alert"
      /\ ClientHandleNewSessionTicket(c, r) => r.msg.type = "nst"
      /\ ClientDeliver(c, r) => r.msg.type = "data"
  BY DEF ClientHandleRetry, ClientHandleHello, ClientHandleEncryptedExtensions,
         ClientHandleCertificateRequest, ClientHandleCertificate, ClientHandleCertificateVerify,
         ClientHandleFinished, ClientHandleAlert, ClientHandleNewSessionTicket, ClientDeliver
<1> QED BY <1>1, <1>2, ClientDispatch

(* The handler's client has completed its handshake, or has not. *)
LEMMA ClientOpenedDone ==
  ASSUME NEW y, NEW al, NEW w, ClientKnows(y, al, w), NEW r, NEW c, c = [cl EXCEPT !.dec = Read(@, r)]
  PROVE  c.done \in BOOLEAN /\ cl.done \in BOOLEAN
<1>1. cl.done \in BOOLEAN
  BY DEF ClientKnows, Always
<1>2. c.done = cl.done
  BY ClientOpened
<1> QED BY <1>1, <1>2

(* The server's alert. *)
LEMMA ClientReadsAlert ==
  ASSUME NEW y, NEW al, NEW w, ClientKnows(y, al, w), ClientReceive, al # <<>>, toClient = al
  PROVE  ClientStops
<1>1. PICK r : al = <<r>> /\ r.msg.type = "alert" /\ sv.error # "none"
  BY DEF ClientKnows, ServerAlert
<1>2. r = Head(toClient)
  BY <1>1
<1>3. PICK c : c = [cl EXCEPT !.dec = Read(@, r)]
  OBVIOUS
<1>4. c.done \in BOOLEAN /\ cl.done \in BOOLEAN
  BY <1>3, ClientOpenedDone
<1>5. DOMAIN c = ClientFields /\ c.state = cl.state /\ c.done = cl.done
  BY <1>3, ClientOpened
<1>6. DOMAIN cl = ClientFields
  BY DEF ClientKnows, Shape
<1>7. CASE Opens(cl.dec, r)
  <2>1. ClientHandleAlert(c, r) /\ got' = got
    BY <1>1, <1>2, <1>3, <1>7, ClientHandles
  <2>2. ClientFail(c, "peer_alert")
    BY <2>1 DEF ClientHandleAlert
  <2> QED BY <1>1, <1>4, <1>5, <2>1, <2>2, ClientFailStops
<1>8. CASE ~Opens(cl.dec, r)
  <2>1. ClientRefuse(r) /\ got' = got
    BY <1>1, <1>2, <1>3, <1>8, ClientDispatch DEF ClientIgnoreCcs
  <2>2. ClientFail(cl, Unreadable(cl.dec, r)) /\ Unreadable(cl.dec, r) # "none"
    BY <1>8, <2>1 DEF ClientRefuse, Unreadable
  <2> QED BY <1>1, <1>4, <1>5, <1>6, <2>1, <2>2, ClientFailStops
<1> QED BY <1>7, <1>8

(* The client c that a handler finds: the record is open, p its context for reading. *)
ClientMet(c, p) ==
    /\ DOMAIN c = ClientFields /\ c.dec = p /\ c.enc = cl.enc /\ c.pending = cl.pending
    /\ c.sched = cl.sched /\ c.share = cl.share /\ c.usingEarly = cl.usingEarly
    /\ c.offeredPsk = cl.offeredPsk /\ c.isPsk = cl.isPsk /\ c.certReq = cl.certReq
    /\ c.ccs = cl.ccs /\ c.state = cl.state /\ c.done = cl.done /\ c.error = "none"
    /\ c.done \in BOOLEAN

(* The handler that the record goes to, by its type. *)
ClientHandled(c, r, t) ==
    /\ r.msg.type # "data" => got' = got
    /\ t = "hrr" => ClientHandleRetry(c, r)
    /\ t = "sh" => ClientHandleHello(c, r)
    /\ t = "ee" => ClientHandleEncryptedExtensions(c, r)
    /\ t = "cr" => ClientHandleCertificateRequest(c, r)
    /\ t = "cert" => ClientHandleCertificate(c, r)
    /\ t = "cv" => ClientHandleCertificateVerify(c, r)
    /\ t = "fin" => ClientHandleFinished(c, r)
    /\ t = "nst" => ClientHandleNewSessionTicket(c, r)
    /\ t = "data" => ClientDeliver(c, r)

(* A record that the client's context opens. *)
LEMMA ClientOpensNext ==
  ASSUME NEW y, NEW al, NEW w, ClientKnows(y, al, w), ClientReceive, NEW r, NEW t,
         Starts(toClient, r, t), NEW k, NEW q, cl.dec = Ctx(k, q), r.key = k, k # NoKey => r.seq = q,
         r.msg.type \in ClientTakes(cl.state), r.msg.type # "ccs"
  PROVE  \E c : /\ ClientMet(c, IF k = NoKey THEN Ctx(k, q) ELSE Ctx(k, q + 1))
                /\ ClientHandled(c, r, r.msg.type) /\ toClient' = t
<1>1. toClient' = Tail(toClient)
  BY ClientTakesOff
<1>2. r = Head(toClient) /\ Tail(toClient) = t
  BY DEF Starts
<1>3. Opens(cl.dec, r) /\ Read(cl.dec, r) = IF k = NoKey THEN Ctx(k, q) ELSE Ctx(k, q + 1)
  BY CtxOpens
<1>4. PICK c : c = [cl EXCEPT !.dec = Read(@, r)]
  OBVIOUS
<1>5. /\ DOMAIN c = ClientFields
      /\ c.dec = Read(cl.dec, r) /\ c.enc = cl.enc /\ c.pending = cl.pending
      /\ c.sched = cl.sched /\ c.share = cl.share /\ c.usingEarly = cl.usingEarly
      /\ c.offeredPsk = cl.offeredPsk /\ c.isPsk = cl.isPsk /\ c.certReq = cl.certReq
      /\ c.ccs = cl.ccs /\ c.state = cl.state /\ c.done = cl.done /\ c.error = "none"
  BY ZenonT(60), <1>4, ClientOpened
<1>6. c.done \in BOOLEAN
  BY <1>4, ClientOpenedDone
<1>7. ClientMet(c, IF k = NoKey THEN Ctx(k, q) ELSE Ctx(k, q + 1))
  BY <1>3, <1>5, <1>6 DEF ClientMet
<1>8. ClientHandled(c, r, r.msg.type)
  BY <1>2, <1>3, <1>4, ClientHandles DEF ClientHandled
<1> QED BY <1>1, <1>2, <1>7, <1>8

(* A record in the clear, and one under the handshake or the application key. *)
LEMMA ClientOpensPlain ==
  ASSUME NEW y, NEW al, NEW w, ClientKnows(y, al, w), ClientReceive, NEW r, NEW t,
         Starts(toClient, r, t), cl.dec = NoProtection, r.key = NoKey,
         r.msg.type \in ClientTakes(cl.state), r.msg.type # "ccs"
  PROVE  \E c : ClientMet(c, NoProtection) /\ ClientHandled(c, r, r.msg.type) /\ toClient' = t
<1>1. cl.dec = Ctx(NoKey, 0) /\ NoProtection = Ctx(NoKey, 0)
  BY CtxUsed
<1> QED BY <1>1, ClientOpensNext

(* A sealed record with the key and the number the client expects. *)
LEMMA ClientOpensSealed ==
  ASSUME NEW y, NEW al, NEW w, ClientKnows(y, al, w), ClientReceive, NEW r, NEW t,
         Starts(toClient, r, t), NEW k, NEW q, cl.dec = Ctx(k, q), r.key = k, r.seq = q, k # NoKey,
         r.msg.type \in ClientTakes(cl.state), r.msg.type # "ccs"
  PROVE  \E c : ClientMet(c, Ctx(k, q + 1)) /\ ClientHandled(c, r, r.msg.type) /\ toClient' = t
BY ClientOpensNext

(* A step of the client that sends nothing, before the end of the handshake. *)
LEMMA ClientMovesQuietly ==
  ASSUME NEW y, NEW al, NEW w, ClientKnows(y, al, w), NEW d, ClientReply(d, <<>>), got' = got,
         cl.state \notin {"start", "post"}, d.state \notin {"start", "post"}, d.error = "none",
         cl.state # d.state => d.state # "expect_sh",
         cl.state = "expect_sh" /\ d.state # "expect_sh" => ~y.retry,
         ClientAt(y, d, sent.early, sent.client, 0), Always(y, d, sv, sent.early, sent.client),
         FromServer(y, d, sv, sent.server, al, toClient')
  PROVE  ClientMoves(y, al)
<1>1. cl' = d /\ toServer' = toServer \o <<>>
  BY DEF ClientReply
<1>2. w = 0 /\ GotClient(got.client, sent.server, w) /\ sent.early \in Nat /\ sent.client \in Nat
  BY DEF ClientKnows, ClientAt, Counted
<1>3. GotClient(got'.client, sent.server, 0) /\ got'.server = got.server /\ DOMAIN got' = DOMAIN got
  BY <1>2
<1>4. Grows(y, cl.state, sent.early, sent.client, d.state, sent.early, sent.client, <<>>)
  BY <1>2, GrowsQuietly
<1>5. Grows(y, cl.state, sent.early, sent.client, cl'.state, sent.early, sent.client, <<>>)
  BY <1>1, <1>4
<1>6. /\ ClientAt(y, cl', sent.early, sent.client, 0)
      /\ Always(y, cl', sv, sent.early, sent.client)
      /\ FromServer(y, cl', sv, sent.server, al, toClient') /\ cl'.error = "none"
  BY <1>1
<1> QED BY <1>1, <1>3, <1>5, <1>6 DEF ClientMoves

(* ChangeCipherSpec is ignored. *)
LEMMA ClientReadsCcs ==
  ASSUME NEW y, NEW al, NEW w, ClientKnows(y, al, w), ClientReceive, NEW t,
         Starts(toClient, CcsRec, t),
         \/ cl.state = "expect_sh2" /\ t = SHello(y, sv.state, sent.server) \o al
         \/ cl.state = "expect_ee" /\ t = SExt(y, sv.state, sent.server) \o al
  PROVE  ClientMoves(y, al)
<1>1. toClient' = t /\ CcsRec = Head(toClient)
  BY ClientTakesOff DEF Starts
<1>2. CcsRec.msg.type = "ccs"
  BY DEF CcsRec, Wire, Plain
<1>3. PICK c : c = [cl EXCEPT !.dec = Read(@, CcsRec)]
  OBVIOUS
<1>4. ClientIgnoreCcs(CcsRec) /\ got' = got
  BY <1>1, <1>2, <1>3, ClientDispatch DEF ClientRefuse, ClientDeliver
<1>5. ClientReply(cl, <<>>)
  BY <1>4 DEF ClientIgnoreCcs
<1>6. FromServer(y, cl, sv, sent.server, al, toClient')
  BY <1>1 DEF FromServer
<1>7. /\ Always(y, cl, sv, sent.early, sent.client) /\ cl.error = "none"
      /\ ClientAt(y, cl, sent.early, sent.client, w)
  BY DEF ClientKnows
<1>8. w = 0
  BY <1>7 DEF ClientAt
<1> QED BY <1>4, <1>5, <1>6, <1>7, <1>8, ClientMovesQuietly

(* With a PSK the server's Finished follows EncryptedExtensions. *)
LEMMA FoundFinishes ==
  ASSUME NEW y, y.tickets \in Nat, y.found, ~y.auth, NEW st, NEW m \in Nat
  PROVE  SRequest(y, st, m) = SFin(y, st, m)
<1>1. IsSeq(SFin(y, st, m)) /\ IsSeq(SVerify(y, st, m)) /\ IsSeq(SCert(y, st, m))
  BY ServerStreams
<1>2. SVerify(y, st, m) = SFin(y, st, m)
  BY <1>1, OptNone DEF SVerify
<1>3. SCert(y, st, m) = SVerify(y, st, m)
  BY <1>1, OptNone DEF SCert
<1>4. SRequest(y, st, m) = SCert(y, st, m)
  BY <1>1, OptNone DEF SRequest
<1> QED BY <1>2, <1>3, <1>4

(* The records of the story, by field. *)
LEMMA ServerRecords ==
  ASSUME NEW y, Records(y), Hellos(y), Schedules(y)
  PROVE  /\ y.rhrr.key = NoKey /\ y.rhrr.msg = y.hrr /\ y.hrr.type = "hrr"
         /\ y.rsh.key = NoKey /\ y.rsh.msg = y.sh /\ y.sh.type = "sh"
         /\ y.ree.key = y.ksh /\ y.ree.seq = 0 /\ y.ree.msg = y.ee /\ y.ee.type = "ee"
         /\ y.rcr.key = y.ksh /\ y.rcr.seq = 1 /\ y.rcr.msg = Plain("cr") /\ Plain("cr").type = "cr"
         /\ y.rcert.key = y.ksh /\ y.rcert.seq = y.ncr /\ y.rcert.msg = CertMsg(TRUE)
         /\ CertMsg(TRUE).type = "cert" /\ CertMsg(TRUE).some = TRUE
         /\ y.rcv.key = y.ksh /\ y.rcv.seq = y.ncr + 1 /\ y.rcv.msg = Plain("cv")
         /\ y.rcv.mac = Signature(y.scert) /\ Plain("cv").type = "cv"
         /\ y.rfin.key = y.ksh /\ y.rfin.seq = y.nfin /\ y.rfin.msg = ServerFinished
         /\ y.rfin.mac = FinishedMac(y.ksh, y.scv) /\ ServerFinished.type = "fin"
<1>1. /\ y.hrr.type = "hrr" /\ y.sh.type = "sh"
  BY DEF Hellos
<1>2. y.ee.type = "ee"
  BY DEF Schedules
<1>3. /\ Plain("cr").type = "cr" /\ Plain("cv").type = "cv" /\ ServerFinished.type = "fin"
      /\ CertMsg(TRUE).type = "cert" /\ CertMsg(TRUE).some = TRUE
  BY DEF Plain, ServerFinished, CertMsg
<1>4. /\ y.rhrr.key = NoKey /\ y.rhrr.msg = y.hrr /\ y.rsh.key = NoKey /\ y.rsh.msg = y.sh
  BY WireFields DEF Records
<1>8. y.ree.key = y.ksh /\ y.ree.seq = 0 /\ y.ree.msg = y.ee
  <2>1. y.ree = Wire(y.ksh, 0, y.ee, NoMac)
    BY DEF Records
  <2> QED BY <2>1 DEF Wire
<1>5. y.rcr.key = y.ksh /\ y.rcr.seq = 1 /\ y.rcr.msg = Plain("cr")
  <2>1. y.rcr = Wire(y.ksh, 1, Plain("cr"), NoMac)
    BY DEF Records
  <2> QED BY <2>1 DEF Wire
<1>9. y.rcert.key = y.ksh /\ y.rcert.seq = y.ncr /\ y.rcert.msg = CertMsg(TRUE)
  <2>1. y.rcert = Wire(y.ksh, y.ncr, CertMsg(TRUE), NoMac)
    BY DEF Records
  <2> QED BY <2>1 DEF Wire
<1>6. /\ y.rcv.key = y.ksh /\ y.rcv.seq = y.ncr + 1 /\ y.rcv.msg = Plain("cv")
      /\ y.rcv.mac = Signature(y.scert)
  BY WireFields DEF Records
<1>7. /\ y.rfin.key = y.ksh /\ y.rfin.seq = y.nfin /\ y.rfin.msg = ServerFinished
      /\ y.rfin.mac = FinishedMac(y.ksh, y.scv)
  BY WireFields DEF Records
<1> QED BY <1>1, <1>2, <1>3, <1>4, <1>5, <1>6, <1>7, <1>8, <1>9

(* EncryptedExtensions. *)
LEMMA ClientReadsExtensions ==
  ASSUME NEW y, NEW al, NEW w, ClientKnows(y, al, w), ClientReceive, cl.state = "expect_ee",
         NEW t, t = SRequest(y, sv.state, sent.server) \o al, Starts(toClient, y.ree, t)
  PROVE  ClientMoves(y, al)
<1>1. /\ Flags(y) /\ Hellos(y) /\ Schedules(y) /\ Keys(y) /\ Records(y) /\ cfg \in Config
      /\ sent.early \in Nat /\ sent.client \in Nat /\ sent.server \in Nat
  BY DEF ClientKnows, Story, Counted
<1>2. PICK r : r = y.ree
  OBVIOUS
<1>3. r.key = y.ksh /\ r.seq = 0 /\ r.msg = y.ee /\ y.ee.type = "ee"
  BY <1>1, <1>2, ServerRecords
<1>4. cl.dec = Ctx(y.ksh, 0) /\ cl.sched = y.hs
  BY DEF ClientKnows, ClientAt
<1>5. y.ksh # NoKey
  BY <1>1, KeysDiffer
<1>6. r.msg.type \in ClientTakes(cl.state) /\ r.msg.type # "ccs"
  BY <1>3 DEF ClientTakes
<1>7. PICK c : ClientMet(c, Ctx(y.ksh, 0 + 1)) /\ ClientHandled(c, r, r.msg.type) /\ toClient' = t
  BY <1>2, <1>3, <1>4, <1>5, <1>6, ClientOpensSealed
<1>8. ClientHandleEncryptedExtensions(c, r) /\ got' = got
  BY <1>3, <1>7 DEF ClientHandled
<1>9. /\ DOMAIN c = ClientFields /\ c.dec = Ctx(y.ksh, 1) /\ c.enc = cl.enc /\ c.pending = cl.pending
      /\ c.sched = cl.sched /\ c.share = cl.share /\ c.usingEarly = cl.usingEarly
      /\ c.offeredPsk = cl.offeredPsk /\ c.isPsk = cl.isPsk /\ c.certReq = cl.certReq
      /\ c.ccs = cl.ccs /\ c.state = cl.state /\ c.done = cl.done /\ c.error = "none"
  BY <1>7 DEF ClientMet
<1>10. /\ cl.enc = (IF Pends(y) THEN Ctx(y.ke, sent.early) ELSE Ctx(y.kch, 0))
       /\ cl.pending = (IF Pends(y) THEN y.kch ELSE NoKey)
       /\ cl.isPsk = y.found /\ cl.ccs = (y.compat /\ ~y.asks)
       /\ cl.usingEarly = Pends(y) /\ cl.certReq = FALSE /\ cl.offeredPsk = (y.id # "none")
       /\ w = 0
  <2>1. ClientAt(y, cl, sent.early, sent.client, w) /\ cl.state \in ClientMiddle
    BY DEF ClientKnows, ClientMiddle
  <2> QED BY <2>1 DEF ClientAt
<1>11. /\ y.accept \in BOOLEAN /\ y.found \in BOOLEAN /\ y.tickets \in Nat
       /\ y.found => ~y.auth
       /\ y.accept => y.found /\ y.asks /\ ~y.retry
  BY <1>1, FlagTypes
<1>12. y.ee.early = y.accept /\ Hash(y.hs, <<y.ee>>) = y.see
  BY <1>1 DEF Schedules
<1>13. PICK d : d = [c EXCEPT !.usingEarly = y.accept, !.sched = y.see,
                              !.state = IF y.found THEN "expect_fin" ELSE "expect_cr_or_cert"]
  OBVIOUS
<1>14. ClientReply(d, <<>>)
  <2>1. ~(r.msg.early /\ ~c.usingEarly)
    BY <1>3, <1>9, <1>10, <1>11, <1>12 DEF Pends
  <2>2. /\ r.msg = y.ee /\ y.ee.early = y.accept /\ c.isPsk = y.found /\ c.sched = y.hs
        /\ Hash(c.sched, <<r.msg>>) = y.see
    BY <1>3, <1>4, <1>9, <1>10, <1>12
  <2>3. ClientReply([c EXCEPT !.usingEarly = r.msg.early, !.sched = Hash(@, <<r.msg>>),
                              !.state = IF c.isPsk THEN "expect_fin" ELSE "expect_cr_or_cert"],
                    <<>>)
    BY <1>8, <2>1 DEF ClientHandleEncryptedExtensions
  <2>4. [c EXCEPT !.usingEarly = r.msg.early, !.sched = Hash(@, <<r.msg>>),
                  !.state = IF c.isPsk THEN "expect_fin" ELSE "expect_cr_or_cert"] = d
    BY <1>9, <1>13, <2>2 DEF ClientFields
  <2> QED BY <2>3, <2>4
<1>15. /\ d.usingEarly = y.accept /\ d.sched = y.see /\ d.dec = c.dec
       /\ d.state = (IF y.found THEN "expect_fin" ELSE "expect_cr_or_cert")
       /\ d.enc = c.enc /\ d.pending = c.pending /\ d.offeredPsk = c.offeredPsk
       /\ d.isPsk = c.isPsk /\ d.certReq = c.certReq /\ d.ccs = c.ccs /\ d.done = c.done
       /\ d.error = "none"
  BY <1>9, <1>13 DEF ClientFields
<1>16. ClientAt(y, d, sent.early, sent.client, 0)
  <2>1. y.found => y.see = y.scv /\ y.nfin = 1
    BY <1>1 DEF Schedules, Keys
  <2> QED BY <1>7, <1>9, <1>10, <1>11, <1>15, <2>1 DEF ClientAt, ClientMiddle
<1>17. Always(y, d, sv, sent.early, sent.client)
  <2>1. Always(y, cl, sv, sent.early, sent.client)
    BY DEF ClientKnows
  <2>2. y.found => sv.state \in Flown
    BY <2>1 DEF Always, ServerStates, Unanswered, Flown, ClientMiddle
  <2> QED BY <1>9, <1>11, <1>15, <2>1, <2>2 DEF Always, ClientStates, ClientMiddle
<1>18. FromServer(y, d, sv, sent.server, al, toClient')
  <2>1. y.found => SRequest(y, sv.state, sent.server) = SFin(y, sv.state, sent.server)
    BY <1>1, <1>11, FoundFinishes
  <2> QED BY <1>7, <1>11, <1>15, <2>1 DEF FromServer
<1> QED BY <1>8, <1>14, <1>15, <1>16, <1>17, <1>18, ClientMovesQuietly

(* A client between ServerHello and its flight. *)
LEMMA ClientInMiddle ==
  ASSUME NEW y, NEW al, NEW w, ClientKnows(y, al, w), cl.state \in ClientMiddle
  PROVE  /\ cl.enc = (IF Pends(y) THEN Ctx(y.ke, sent.early) ELSE Ctx(y.kch, 0))
         /\ cl.pending = (IF Pends(y) THEN y.kch ELSE NoKey)
         /\ cl.isPsk = y.found /\ cl.ccs = (y.compat /\ ~y.asks)
         /\ cl.usingEarly = (IF cl.state = "expect_ee" THEN Pends(y) ELSE y.accept)
         /\ cl.certReq = (y.auth /\ cl.state \notin {"expect_ee", "expect_cr_or_cert"})
         /\ cl.offeredPsk = (y.id # "none") /\ w = 0
         /\ Always(y, cl, sv, sent.early, sent.client)
<1>1. ClientAt(y, cl, sent.early, sent.client, w) /\ cl.state # "start" /\ cl.state # "post"
  BY DEF ClientKnows, ClientMiddle
<1>2. Always(y, cl, sv, sent.early, sent.client)
  BY DEF ClientKnows
<1> QED BY <1>1, <1>2 DEF ClientAt

(* CertificateRequest. *)
LEMMA ClientReadsRequest ==
  ASSUME NEW y, NEW al, NEW w, ClientKnows(y, al, w), ClientReceive,
         cl.state = "expect_cr_or_cert", y.auth,
         NEW t, t = SCert(y, sv.state, sent.server) \o al, Starts(toClient, y.rcr, t)
  PROVE  ClientMoves(y, al)
<1>1. /\ Flags(y) /\ Hellos(y) /\ Schedules(y) /\ Keys(y) /\ Records(y) /\ cfg \in Config
      /\ sent.early \in Nat /\ sent.client \in Nat /\ sent.server \in Nat
  BY DEF ClientKnows, Story, Counted
<1>2. PICK r : r = y.rcr
  OBVIOUS
<1>3. r.key = y.ksh /\ r.seq = 1 /\ r.msg = Plain("cr") /\ Plain("cr").type = "cr"
  BY <1>1, <1>2, ServerRecords
<1>4. cl.dec = Ctx(y.ksh, 1) /\ cl.sched = y.see /\ ~y.found
  BY DEF ClientKnows, ClientAt
<1>5. y.ksh # NoKey
  BY <1>1, KeysDiffer
<1>6. r.msg.type \in ClientTakes(cl.state) /\ r.msg.type # "ccs"
  BY <1>3 DEF ClientTakes
<1>7. PICK c : ClientMet(c, Ctx(y.ksh, 1 + 1)) /\ ClientHandled(c, r, r.msg.type) /\ toClient' = t
  BY <1>2, <1>3, <1>4, <1>5, <1>6, ClientOpensSealed
<1>8. ClientHandleCertificateRequest(c, r) /\ got' = got
  BY <1>3, <1>7 DEF ClientHandled
<1>9. /\ DOMAIN c = ClientFields /\ c.dec = Ctx(y.ksh, 2) /\ c.enc = cl.enc /\ c.pending = cl.pending
      /\ c.sched = cl.sched /\ c.usingEarly = cl.usingEarly
      /\ c.offeredPsk = cl.offeredPsk /\ c.isPsk = cl.isPsk
      /\ c.ccs = cl.ccs /\ c.state = cl.state /\ c.done = cl.done /\ c.error = "none"
  BY <1>7 DEF ClientMet
<1>10. /\ cl.enc = (IF Pends(y) THEN Ctx(y.ke, sent.early) ELSE Ctx(y.kch, 0))
       /\ cl.pending = (IF Pends(y) THEN y.kch ELSE NoKey)
       /\ cl.isPsk = y.found /\ cl.ccs = (y.compat /\ ~y.asks)
       /\ cl.usingEarly = y.accept /\ cl.offeredPsk = (y.id # "none")
       /\ Always(y, cl, sv, sent.early, sent.client)
  BY ClientInMiddle DEF ClientMiddle
<1>11. Hash(y.see, <<Plain("cr")>>) = y.scr
  BY <1>1 DEF Schedules
<1>12. PICK d : d = [c EXCEPT !.certReq = TRUE, !.sched = y.scr, !.state = "expect_cert"]
  OBVIOUS
<1>13. ClientReply(d, <<>>)
  <2>1. Hash(c.sched, <<r.msg>>) = y.scr
    BY <1>3, <1>4, <1>9, <1>11
  <2>2. [c EXCEPT !.certReq = TRUE, !.sched = Hash(@, <<r.msg>>), !.state = "expect_cert"] = d
    BY <1>12, <2>1
  <2> QED BY <1>8, <2>2 DEF ClientHandleCertificateRequest
<1>14. /\ d.certReq = TRUE /\ d.sched = y.scr /\ d.state = "expect_cert" /\ d.dec = c.dec
       /\ d.enc = c.enc /\ d.pending = c.pending /\ d.offeredPsk = c.offeredPsk
       /\ d.isPsk = c.isPsk /\ d.usingEarly = c.usingEarly /\ d.ccs = c.ccs /\ d.done = c.done
       /\ d.error = "none"
  BY <1>9, <1>12 DEF ClientFields
<1>15. ClientAt(y, d, sent.early, sent.client, 0)
  BY <1>4, <1>9, <1>10, <1>14 DEF ClientAt, ClientMiddle
<1>16. Always(y, d, sv, sent.early, sent.client)
  BY <1>9, <1>10, <1>14 DEF Always, ClientStates, ClientMiddle
<1>17. FromServer(y, d, sv, sent.server, al, toClient')
  BY <1>7, <1>14 DEF FromServer
<1> QED BY <1>8, <1>13, <1>14, <1>15, <1>16, <1>17, ClientMovesQuietly

(* The server's Certificate. *)
LEMMA ClientReadsCertificate ==
  ASSUME NEW y, NEW al, NEW w, ClientKnows(y, al, w), ClientReceive,
         cl.state = "expect_cert" \/ (cl.state = "expect_cr_or_cert" /\ ~y.auth),
         NEW t, t = SVerify(y, sv.state, sent.server) \o al, Starts(toClient, y.rcert, t)
  PROVE  ClientStops \/ ClientMoves(y, al)
<1>1. /\ Flags(y) /\ Hellos(y) /\ Schedules(y) /\ Keys(y) /\ Records(y) /\ cfg \in Config
      /\ sent.early \in Nat /\ sent.client \in Nat /\ sent.server \in Nat
  BY DEF ClientKnows, Story, Counted
<1>2. PICK r : r = y.rcert
  OBVIOUS
<1>3. /\ r.key = y.ksh /\ r.seq = y.ncr /\ r.msg = CertMsg(TRUE)
      /\ CertMsg(TRUE).type = "cert" /\ CertMsg(TRUE).some = TRUE
  BY <1>1, <1>2, ServerRecords
<1>4. cl.dec = Ctx(y.ksh, y.ncr) /\ cl.sched = y.scr /\ ~y.found /\ (cl.state = "expect_cert" => y.auth)
  <2>1. ClientAt(y, cl, sent.early, sent.client, w)
    BY DEF ClientKnows
  <2>2. y.ncr = (IF y.auth THEN 2 ELSE 1) /\ (~y.auth => y.scr = y.see)
    BY <1>1 DEF Keys, Schedules
  <2> QED BY <2>1, <2>2 DEF ClientAt
<1>5. y.ksh # NoKey
  BY <1>1, KeysDiffer
<1>6. r.msg.type \in ClientTakes(cl.state) /\ r.msg.type # "ccs"
  BY <1>3 DEF ClientTakes
<1>7. PICK c : ClientMet(c, Ctx(y.ksh, y.ncr + 1)) /\ ClientHandled(c, r, r.msg.type) /\ toClient' = t
  BY <1>2, <1>3, <1>4, <1>5, <1>6, ClientOpensSealed
<1>8. ClientHandleCertificate(c, r) /\ got' = got
  BY <1>3, <1>7 DEF ClientHandled
<1>9. /\ DOMAIN c = ClientFields /\ c.dec = Ctx(y.ksh, y.ncr + 1) /\ c.enc = cl.enc /\ c.pending = cl.pending
      /\ c.sched = cl.sched /\ c.usingEarly = cl.usingEarly /\ c.certReq = cl.certReq
      /\ c.offeredPsk = cl.offeredPsk /\ c.isPsk = cl.isPsk
      /\ c.ccs = cl.ccs /\ c.state = cl.state /\ c.done = cl.done /\ c.error = "none"
      /\ c.done \in BOOLEAN
  BY <1>7 DEF ClientMet
<1>10. CASE cfg.certBad
  <2>1. ClientFail(c, "bad_certificate")
    BY <1>8, <1>10 DEF ClientHandleCertificate
  <2> QED BY <1>1, <1>8, <1>9, <2>1, ClientFailStops
<1>11. CASE ~cfg.certBad
  <2>1. /\ cl.enc = (IF Pends(y) THEN Ctx(y.ke, sent.early) ELSE Ctx(y.kch, 0))
        /\ cl.pending = (IF Pends(y) THEN y.kch ELSE NoKey)
        /\ cl.isPsk = y.found /\ cl.ccs = (y.compat /\ ~y.asks)
        /\ cl.usingEarly = y.accept /\ cl.offeredPsk = (y.id # "none")
        /\ cl.certReq = (y.auth /\ cl.state \notin {"expect_ee", "expect_cr_or_cert"})
        /\ Always(y, cl, sv, sent.early, sent.client)
    BY ClientInMiddle DEF ClientMiddle
  <2>2. Hash(y.scr, <<CertMsg(TRUE)>>) = y.scert
    BY <1>1 DEF Schedules
  <2>3. PICK d : d = [c EXCEPT !.sched = y.scert, !.state = "expect_cv"]
    OBVIOUS
  <2>4. ClientReply(d, <<>>)
    <3>1. Hash(c.sched, <<r.msg>>) = y.scert
      BY <1>3, <1>4, <1>9, <2>2
    <3>2. [c EXCEPT !.sched = Hash(@, <<r.msg>>), !.state = "expect_cv"] = d
      BY <2>3, <3>1
    <3> QED BY <1>3, <1>8, <1>11, <3>2 DEF ClientHandleCertificate
  <2>5. /\ d.certReq = c.certReq /\ d.sched = y.scert /\ d.state = "expect_cv" /\ d.dec = c.dec
        /\ d.enc = c.enc /\ d.pending = c.pending /\ d.offeredPsk = c.offeredPsk
        /\ d.isPsk = c.isPsk /\ d.usingEarly = c.usingEarly /\ d.ccs = c.ccs /\ d.done = c.done
        /\ d.error = "none"
    BY <1>9, <2>3 DEF ClientFields
  <2>6. ClientAt(y, d, sent.early, sent.client, 0)
    <3>1. d.certReq = y.auth
      BY <1>1, <1>4, <1>9, <2>1, <2>5, FlagTypes
    <3> QED BY <1>4, <1>9, <2>1, <2>5, <3>1 DEF ClientAt, ClientMiddle
  <2>7. Always(y, d, sv, sent.early, sent.client)
    BY <1>9, <2>1, <2>5 DEF Always, ClientStates, ClientMiddle
  <2>8. FromServer(y, d, sv, sent.server, al, toClient')
    BY <1>7, <2>5 DEF FromServer
  <2> QED BY <1>8, <2>4, <2>5, <2>6, <2>7, <2>8, ClientMovesQuietly
<1> QED BY <1>10, <1>11

(* The server's CertificateVerify. *)
LEMMA ClientReadsVerify ==
  ASSUME NEW y, NEW al, NEW w, ClientKnows(y, al, w), ClientReceive, cl.state = "expect_cv",
         sv.state \in Flown,
         NEW t, t = SFin(y, sv.state, sent.server) \o al, Starts(toClient, y.rcv, t)
  PROVE  ClientMoves(y, al)
<1>1. /\ Flags(y) /\ Hellos(y) /\ Schedules(y) /\ Keys(y) /\ Records(y) /\ cfg \in Config
      /\ sent.early \in Nat /\ sent.client \in Nat /\ sent.server \in Nat
  BY DEF ClientKnows, Story, Counted
<1>2. PICK r : r = y.rcv
  OBVIOUS
<1>3. /\ r.key = y.ksh /\ r.seq = y.ncr + 1 /\ r.msg = Plain("cv") /\ r.mac = Signature(y.scert)
      /\ Plain("cv").type = "cv"
  BY <1>1, <1>2, ServerRecords
<1>4. cl.dec = Ctx(y.ksh, y.ncr + 1) /\ cl.sched = y.scert /\ ~y.found
  BY DEF ClientKnows, ClientAt
<1>5. y.ksh # NoKey
  BY <1>1, KeysDiffer
<1>6. r.msg.type \in ClientTakes(cl.state) /\ r.msg.type # "ccs"
  BY <1>3 DEF ClientTakes
<1>7. PICK c : ClientMet(c, Ctx(y.ksh, (y.ncr + 1) + 1)) /\ ClientHandled(c, r, r.msg.type) /\ toClient' = t
  BY <1>2, <1>3, <1>4, <1>5, <1>6, ClientOpensSealed
<1>8. ClientHandleCertificateVerify(c, r) /\ got' = got
  BY <1>3, <1>7 DEF ClientHandled
<1>9. /\ DOMAIN c = ClientFields /\ c.dec = Ctx(y.ksh, (y.ncr + 1) + 1) /\ c.enc = cl.enc
      /\ c.pending = cl.pending
      /\ c.sched = cl.sched /\ c.usingEarly = cl.usingEarly /\ c.certReq = cl.certReq
      /\ c.offeredPsk = cl.offeredPsk /\ c.isPsk = cl.isPsk
      /\ c.ccs = cl.ccs /\ c.state = cl.state /\ c.done = cl.done /\ c.error = "none"
  BY <1>7 DEF ClientMet
<1>10. /\ cl.enc = (IF Pends(y) THEN Ctx(y.ke, sent.early) ELSE Ctx(y.kch, 0))
       /\ cl.pending = (IF Pends(y) THEN y.kch ELSE NoKey)
       /\ cl.isPsk = y.found /\ cl.ccs = (y.compat /\ ~y.asks)
       /\ cl.usingEarly = y.accept /\ cl.offeredPsk = (y.id # "none")
       /\ cl.certReq = (y.auth /\ cl.state \notin {"expect_ee", "expect_cr_or_cert"})
       /\ Always(y, cl, sv, sent.early, sent.client)
  BY ClientInMiddle DEF ClientMiddle
<1>11. Hash(y.scert, <<Plain("cv")>>) = y.scv
  BY <1>1, <1>4 DEF Schedules
<1>12. PICK d : d = [c EXCEPT !.sched = y.scv, !.verified = TRUE, !.state = "expect_fin"]
  OBVIOUS
<1>13. ClientReply(d, <<>>)
  <2>1. Hash(c.sched, <<r.msg>>) = y.scv
    BY <1>3, <1>4, <1>9, <1>11
  <2>2. [c EXCEPT !.sched = Hash(@, <<r.msg>>), !.verified = TRUE, !.state = "expect_fin"] = d
    BY <1>12, <2>1
  <2>3. r.mac = Signature(c.sched)
    BY <1>3, <1>4, <1>9
  <2> QED BY <1>8, <2>2, <2>3 DEF ClientHandleCertificateVerify
<1>14. /\ d.certReq = c.certReq /\ d.sched = y.scv /\ d.state = "expect_fin" /\ d.dec = c.dec
       /\ d.enc = c.enc /\ d.pending = c.pending /\ d.offeredPsk = c.offeredPsk
       /\ d.isPsk = c.isPsk /\ d.usingEarly = c.usingEarly /\ d.ccs = c.ccs /\ d.done = c.done
       /\ d.error = "none"
  BY <1>9, <1>12 DEF ClientFields
<1>15. ClientAt(y, d, sent.early, sent.client, 0)
  <2>1. (y.ncr + 1) + 1 = y.nfin
    <3>1. y.nfin = y.ncr + 2 /\ y.ncr \in {1, 2}
      BY <1>1, <1>4 DEF Keys
    <3> QED BY <3>1
  <2>2. d.certReq = (y.auth /\ d.state \notin {"expect_ee", "expect_cr_or_cert"})
    BY <1>9, <1>10, <1>14
  <2> QED BY <1>4, <1>9, <1>10, <1>14, <2>1, <2>2 DEF ClientAt, ClientMiddle
<1>16. Always(y, d, sv, sent.early, sent.client)
  BY <1>9, <1>10, <1>14 DEF Always, ClientStates, ClientMiddle
<1>17. FromServer(y, d, sv, sent.server, al, toClient')
  BY <1>7, <1>14 DEF FromServer
<1> QED BY <1>8, <1>13, <1>14, <1>15, <1>16, <1>17, ClientMovesQuietly

(* The outcome h of sending the ClientHello m, with which the schedule is s. *)
HelloSent(h, c, m, s, st) ==
    /\ h.out = <<Wire(NoKey, 0, m, IF Identity = "none" THEN NoMac ELSE Binder(s))>>
               \o Opt(c.ccs /\ c.usingEarly, CcsRec)
    /\ DOMAIN h.tls = ClientFields /\ h.tls.sched = s /\ h.tls.state = st
    /\ h.tls.enc = (IF c.usingEarly THEN Ctx(Key("c e", s), 0) ELSE NoProtection)
    /\ h.tls.ccs = (c.ccs /\ ~c.usingEarly) /\ h.tls.dec = c.dec /\ h.tls.pending = c.pending
    /\ h.tls.share = c.share /\ h.tls.usingEarly = c.usingEarly
    /\ h.tls.offeredPsk = c.offeredPsk /\ h.tls.certReq = c.certReq
    /\ h.tls.done = c.done /\ h.tls.error = c.error

(* A ClientHello in the clear. *)
LEMMA SentHelloIs ==
  ASSUME NEW c, DOMAIN c = ClientFields, c.enc = NoProtection, c.ccs \in BOOLEAN,
         c.usingEarly \in BOOLEAN, NEW cookie, NEW st, NEW m, m = ClientHello(c, cookie),
         NEW s, s = Hash(c.sched, <<m>>), NEW h, h = SentHello(c, cookie, st)
  PROVE  HelloSent(h, c, m, s, st)
<1>1. PICK mac : mac = IF Identity = "none" THEN NoMac ELSE Binder(s)
  OBVIOUS
<1>2. PICK e : e = IF c.usingEarly THEN Protect(Key("c e", s)) ELSE Used(c.enc, 1)
  OBVIOUS
<1>3. PICK b \in BOOLEAN : b = (c.ccs /\ ~c.usingEarly)
  OBVIOUS
<1>4. PICK d : d = [c EXCEPT !.sched = s, !.state = st, !.enc = e, !.ccs = b]
  OBVIOUS
<1>5. h = [tls |-> d, out |-> Seal(c.enc, <<Item(m, mac)>>) \o ChangeCipherSpec(c.ccs /\ c.usingEarly)]
  BY <1>1, <1>2, <1>3, <1>4 DEF SentHello
<1>6. NoProtection = Ctx(NoKey, 0) /\ Used(NoProtection, 1) = NoProtection
  BY CtxUsed
<1>7. Seal(c.enc, <<Item(m, mac)>>) = <<Wire(NoKey, 0, m, mac)>>
  <2>1. SeqNo(NoKey, 0) = 0
    BY DEF SeqNo
  <2>2. Seal(Ctx(NoKey, 0), <<Item(m, mac)>>) = <<Wire(NoKey, SeqNo(NoKey, 0), m, mac)>>
    BY SealSingle
  <2> QED BY <1>6, <2>1, <2>2
<1>8. e = IF c.usingEarly THEN Ctx(Key("c e", s), 0) ELSE NoProtection
  BY <1>2, <1>6, CtxUsed
<1>9. /\ DOMAIN d = ClientFields /\ d.sched = s /\ d.state = st /\ d.enc = e /\ d.ccs = b
      /\ d.dec = c.dec /\ d.pending = c.pending /\ d.share = c.share
      /\ d.usingEarly = c.usingEarly /\ d.offeredPsk = c.offeredPsk /\ d.certReq = c.certReq
      /\ d.done = c.done /\ d.error = c.error
  BY <1>4 DEF ClientFields
<1>10. h.tls = d /\ h.out = <<Wire(NoKey, 0, m, mac)>> \o Opt(c.ccs /\ c.usingEarly, CcsRec)
  <2>1. PICK o : o = Seal(c.enc, <<Item(m, mac)>>) \o ChangeCipherSpec(c.ccs /\ c.usingEarly)
    OBVIOUS
  <2>2. h = [tls |-> d, out |-> o]
    BY <1>5, <2>1
  <2>3. h.tls = d /\ h.out = o
    BY <2>2
  <2>4. ChangeCipherSpec(c.ccs /\ c.usingEarly) = Opt(c.ccs /\ c.usingEarly, CcsRec)
    BY CcsSent
  <2>5. o = <<Wire(NoKey, 0, m, mac)>> \o Opt(c.ccs /\ c.usingEarly, CcsRec)
    BY <1>7, <2>1, <2>4
  <2> QED BY <2>3, <2>5
<1> QED BY <1>1, <1>3, <1>8, <1>9, <1>10 DEF HelloSent

(* The group of the second ClientHello. *)
LEMMA RetryShare ==
  ASSUME NEW y, Flags(y), Hellos(y), cfg \in Config, y.group # "none"
  PROVE  /\ y.share2 = (IF y.hrr.group = "none" THEN y.share1 ELSE y.hrr.group)
         /\ y.share2 \in {"g1", "g2"}
<1>1. /\ y.group = RetryGroup /\ y.has1 = (y.share1 \in cfg.groups)
      /\ y.share2 = (IF y.has1 THEN y.share1 ELSE y.group)
      /\ y.share1 = IF y.id = "ticket" THEN cfg.ticketGroup
                    ELSE IF cfg.negotiateFirst THEN "none" ELSE "g1"
  BY DEF Flags
<1>2. y.hrr.group = IF y.has1 THEN "none" ELSE y.group
  BY DEF Hellos
<1>3. cfg.groups \subseteq {"g1", "g2", "g3"} /\ cfg.ticketGroup \in {"g1", "g2"}
  BY DEF Config, Groups
<1>4. y.group \in {"g1", "g2"}
  BY <1>1 DEF RetryGroup
<1> QED BY <1>1, <1>2, <1>3, <1>4

(* The schedule of the second ClientHello. *)
LEMMA RetrySchedule ==
  ASSUME NEW y, Hellos(y)
  PROVE  /\ Hash(Hash(HashCH1(y.s1), <<y.hrr>>), <<y.ch2>>) = y.s2
         /\ ScheduleShape(y.s1) /\ ScheduleShape(Hash(HashCH1(y.s1), <<y.hrr>>))
<1>1. y.s1 = [psk |-> y.psk1, dhe |-> "unset", th |-> <<y.ch1>>]
  BY DEF Hellos
<1>2. PICK h : h = HashCH1(y.s1)
  OBVIOUS
<1>3. h = [psk |-> y.psk1, dhe |-> "unset", th |-> <<y.hash1>>]
  <2>1. y.hash1 = [type |-> "message_hash", of |-> <<y.ch1>>]
    BY DEF Hellos
  <2> QED BY <1>1, <1>2, <2>1 DEF HashCH1
<1>4. PICK g : g = Hash(h, <<y.hrr>>)
  OBVIOUS
<1>5. g = [psk |-> y.psk1, dhe |-> "unset", th |-> <<y.hash1, y.hrr>>]
  <2>1. <<y.hash1>> \o <<y.hrr>> = <<y.hash1, y.hrr>>
    BY CatShort
  <2>2. Hash([psk |-> y.psk1, dhe |-> "unset", th |-> <<y.hash1>>], <<y.hrr>>)
           = [psk |-> y.psk1, dhe |-> "unset", th |-> <<y.hash1>> \o <<y.hrr>>]
    BY HashRecord
  <2> QED BY <1>3, <1>4, <2>1, <2>2
<1>6. Hash(g, <<y.ch2>>) = [psk |-> y.psk1, dhe |-> "unset", th |-> <<y.hash1, y.hrr, y.ch2>>]
  <2>1. <<y.hash1, y.hrr>> \o <<y.ch2>> = <<y.hash1, y.hrr, y.ch2>>
    BY CatShort
  <2>2. Hash([psk |-> y.psk1, dhe |-> "unset", th |-> <<y.hash1, y.hrr>>], <<y.ch2>>)
           = [psk |-> y.psk1, dhe |-> "unset", th |-> <<y.hash1, y.hrr>> \o <<y.ch2>>]
    BY HashRecord
  <2> QED BY <1>5, <2>1, <2>2
<1>7. y.s2 = [psk |-> y.psk1, dhe |-> "unset", th |-> <<y.hash1, y.hrr, y.ch2>>]
  BY DEF Hellos
<1>8. ScheduleShape(y.s1) /\ ScheduleShape(g)
  BY <1>1, <1>5, ShortSeq DEF ScheduleShape, ScheduleFields
<1> QED BY <1>2, <1>4, <1>6, <1>7, <1>8

(* HelloRetryRequest: the client sends its second ClientHello, without 0-RTT. *)
LEMMA ClientReadsRetry ==
  ASSUME NEW y, NEW al, NEW w, ClientKnows(y, al, w), ClientReceive, cl.state = "expect_sh",
         sv.retries = 1,
         NEW t, t = SRetryCcs(y, sv.state, sent.server) \o al, Starts(toClient, y.rhrr, t)
  PROVE  ClientMoves(y, al)
<1>1. /\ Flags(y) /\ Hellos(y) /\ Schedules(y) /\ Keys(y) /\ Records(y) /\ cfg \in Config
      /\ sent.early \in Nat /\ sent.client \in Nat /\ sent.server \in Nat
  BY DEF ClientKnows, Story, Counted
<1>2. PICK r : r = y.rhrr
  OBVIOUS
<1>3. r.key = NoKey /\ r.msg = y.hrr /\ y.hrr.type = "hrr"
  BY <1>1, <1>2, ServerRecords
<1>4. /\ cl.enc = (IF y.asks THEN Ctx(y.ke, sent.early) ELSE NoProtection)
      /\ cl.dec = NoProtection /\ cl.pending = NoKey /\ w = 0
      /\ cl.sched = y.s1 /\ cl.share = y.share1 /\ cl.usingEarly = y.asks /\ cl.certReq = FALSE
      /\ cl.ccs = (y.compat /\ ~y.asks) /\ cl.offeredPsk = (y.id # "none")
  BY DEF ClientKnows, ClientAt
<1>5. Always(y, cl, sv, sent.early, sent.client)
  BY DEF ClientKnows
<1>6. y.retry /\ y.group # "none"
  BY <1>5 DEF Always
<1>7. r.msg.type \in ClientTakes(cl.state) /\ r.msg.type # "ccs"
  BY <1>3 DEF ClientTakes
<1>8. PICK c : ClientMet(c, NoProtection) /\ ClientHandled(c, r, r.msg.type) /\ toClient' = t
  BY <1>2, <1>3, <1>4, <1>7, ClientOpensPlain
<1>9. ClientHandleRetry(c, r) /\ got' = got
  BY <1>3, <1>8 DEF ClientHandled
<1>10. /\ DOMAIN c = ClientFields /\ c.dec = NoProtection /\ c.enc = cl.enc /\ c.pending = cl.pending
       /\ c.sched = cl.sched /\ c.share = cl.share /\ c.usingEarly = cl.usingEarly
       /\ c.offeredPsk = cl.offeredPsk /\ c.certReq = cl.certReq
       /\ c.ccs = cl.ccs /\ c.state = cl.state /\ c.done = cl.done /\ c.error = "none"
  BY <1>8 DEF ClientMet
<1>11. y.asks \in BOOLEAN /\ y.compat \in BOOLEAN
  BY <1>1, FlagTypes
<1>12. PICK g : g = Hash(HashCH1(y.s1), <<y.hrr>>)
  OBVIOUS
<1>13. PICK f : f = ReleaseEarlyKey(c)
  OBVIOUS
<1>14. PICK d : d = [f EXCEPT !.sched = g, !.share = y.share2]
  OBVIOUS
<1>15. /\ DOMAIN f = ClientFields /\ f.enc = NoProtection /\ f.usingEarly = FALSE
       /\ f.dec = NoProtection /\ f.pending = NoKey /\ f.offeredPsk = c.offeredPsk
       /\ f.certReq = FALSE /\ f.ccs = c.ccs /\ f.done = c.done /\ f.error = "none"
  <2>1. PICK e : e = IF c.usingEarly THEN NoProtection ELSE c.enc
    OBVIOUS
  <2>2. e = NoProtection
    BY <1>4, <1>10, <2>1
  <2>3. f = [c EXCEPT !.enc = e, !.usingEarly = FALSE]
    BY <1>13, <2>1 DEF ReleaseEarlyKey
  <2> QED BY <1>4, <1>10, <2>2, <2>3 DEF ClientFields
<1>16. /\ DOMAIN d = ClientFields /\ d.enc = NoProtection /\ d.usingEarly = FALSE
       /\ d.dec = NoProtection /\ d.pending = NoKey /\ d.offeredPsk = c.offeredPsk
       /\ d.certReq = FALSE /\ d.ccs = c.ccs /\ d.done = c.done /\ d.error = "none"
       /\ d.sched = g /\ d.share = y.share2
  BY <1>14, <1>15 DEF ClientFields
<1>17. /\ y.share2 = (IF y.hrr.group = "none" THEN y.share1 ELSE y.hrr.group)
       /\ y.share2 \in {"g1", "g2"}
  BY <1>1, <1>6, RetryShare
<1>18. PICK h : h = SentHello(d, y.hrr.cookie, "expect_sh2")
  OBVIOUS
<1>19. ClientReply(h.tls, h.out)
  <2>1. (IF r.msg.group = "none" THEN c.share ELSE r.msg.group) = y.share2
    BY <1>3, <1>4, <1>10, <1>17
  <2>2. Hash(HashCH1(c.sched), <<r.msg>>) = g
    BY <1>3, <1>4, <1>10, <1>12
  <2>3. /\ IF y.share2 \in {"g1", "g2"} THEN ClientReply(h.tls, h.out)
           ELSE ClientFail(d, "illegal_parameter")
    BY <1>3, <1>9, <1>13, <1>14, <1>18, <2>1, <2>2 DEF ClientHandleRetry
  <2> QED BY <1>17, <2>3
<1>20. ClientHello(d, y.hrr.cookie) = y.ch2
  <2>1. y.id = Identity
    BY <1>1 DEF Flags
  <2>2. y.ch2 = [type |-> "ch", share |-> y.share2, psk |-> y.id, early |-> FALSE,
                 cookie |-> y.hrr.cookie]
    BY <1>1 DEF Hellos
  <2> QED BY <1>16, <2>1, <2>2 DEF ClientHello
<1>21. Hash(g, <<y.ch2>>) = y.s2
  BY <1>1, <1>12, RetrySchedule
<1>22. /\ h.out = <<Wire(NoKey, 0, y.ch2, IF Identity = "none" THEN NoMac ELSE Binder(y.s2))>>
                  \o Opt(d.ccs /\ d.usingEarly, CcsRec)
       /\ DOMAIN h.tls = ClientFields /\ h.tls.sched = y.s2 /\ h.tls.state = "expect_sh2"
       /\ h.tls.enc = (IF d.usingEarly THEN Ctx(Key("c e", y.s2), 0) ELSE NoProtection)
       /\ h.tls.ccs = (d.ccs /\ ~d.usingEarly) /\ h.tls.dec = d.dec /\ h.tls.pending = d.pending
       /\ h.tls.share = d.share /\ h.tls.usingEarly = d.usingEarly
       /\ h.tls.offeredPsk = d.offeredPsk /\ h.tls.certReq = d.certReq
       /\ h.tls.done = d.done /\ h.tls.error = d.error
  <2>1. d.ccs \in BOOLEAN /\ d.usingEarly \in BOOLEAN /\ y.s2 = Hash(d.sched, <<y.ch2>>)
    BY <1>4, <1>10, <1>11, <1>16, <1>21
  <2>2. PICK k : k = y.hrr.cookie
    OBVIOUS
  <2>3. y.ch2 = ClientHello(d, k) /\ h = SentHello(d, k, "expect_sh2")
    BY <1>18, <1>20, <2>2
  <2>4. DOMAIN d = ClientFields /\ d.enc = NoProtection
    BY <1>16
  <2>5. PICK m : m = y.ch2
    OBVIOUS
  <2>6. PICK s : s = y.s2
    OBVIOUS
  <2>7. m = ClientHello(d, k) /\ s = Hash(d.sched, <<m>>)
    BY <2>1, <2>3, <2>5, <2>6
  <2>8. HelloSent(h, d, m, s, "expect_sh2")
    BY <2>1, <2>3, <2>4, <2>7, SentHelloIs
  <2> QED BY <2>5, <2>6, <2>8 DEF HelloSent
<1>23. h.out = <<y.rch2>>
  <2>1. y.id = Identity
    BY <1>1 DEF Flags
  <2>2. y.rch2 = Wire(NoKey, 0, y.ch2, IF y.id = "none" THEN NoMac ELSE Binder(y.s2))
    BY <1>1 DEF Records
  <2>3. Opt(d.ccs /\ d.usingEarly, CcsRec) = <<>>
    BY <1>16 DEF Opt
  <2>4. IsSeq(<<y.rch2>>)
    BY ShortSeq
  <2>5. <<y.rch2>> \o <<>> = <<y.rch2>>
    BY <2>4, CatNone
  <2> QED BY <1>22, <2>1, <2>2, <2>3, <2>5
<1>24. PICK e : e = h.tls
  OBVIOUS
<1>25. /\ e.state = "expect_sh2" /\ e.enc = NoProtection /\ e.dec = NoProtection
       /\ e.pending = NoKey /\ e.sched = y.s2 /\ e.share = y.share2 /\ e.usingEarly = FALSE
       /\ e.certReq = FALSE /\ e.offeredPsk = (y.id # "none") /\ e.done = cl.done
       /\ e.error = "none" /\ e.ccs = (y.compat /\ ~y.asks)
  BY <1>4, <1>10, <1>11, <1>16, <1>22, <1>24
<1>26. ClientAt(y, e, sent.early, sent.client, 0)
  BY <1>6, <1>25 DEF ClientAt, ClientMiddle
<1>27. Always(y, e, sv, sent.early, sent.client)
  BY <1>5, <1>25 DEF Always, ClientStates, ClientMiddle
<1>28. FromServer(y, e, sv, sent.server, al, toClient')
  BY <1>8, <1>25 DEF FromServer
<1>29. Grows(y, cl.state, sent.early, sent.client, e.state, sent.early, sent.client, <<y.rch2>>)
  BY <1>1, <1>6, <1>25, GrowsByRetry
<1>30. cl' = e /\ toServer' = toServer \o <<y.rch2>>
  BY <1>19, <1>23, <1>24 DEF ClientReply
<1>31. GotClient(got'.client, sent.server, 0) /\ got'.server = got.server /\ DOMAIN got' = DOMAIN got
  BY <1>4, <1>9 DEF ClientKnows
<1> QED BY <1>25, <1>26, <1>27, <1>28, <1>29, <1>30, <1>31 DEF ClientMoves

(* The schedule s with the secrets p and d extracted. *)
Extracted(s, p, d) == [s EXCEPT !.psk = p, !.dhe = d]

(* The schedule after the (EC)DHE secret is mixed in. *)
LEMMA ExtractedRecord ==
  \A a, b, th, p, d :
    Extracted([psk |-> a, dhe |-> b, th |-> th], p, d) = [psk |-> p, dhe |-> d, th |-> th]
<1> TAKE a, b, th, p, d
<1>1. [[psk |-> a, dhe |-> b, th |-> th] EXCEPT !.psk = p] = [psk |-> p, dhe |-> b, th |-> th]
  OBVIOUS
<1>2. [[psk |-> p, dhe |-> b, th |-> th] EXCEPT !.dhe = d] = [psk |-> p, dhe |-> d, th |-> th]
  OBVIOUS
<1> QED BY <1>1, <1>2 DEF Extracted

(* What the client extracts from its schedule s on ServerHello: p and d. *)
Extracts(y, s, p, d) ==
    /\ s = IF y.retry THEN y.s2 ELSE y.s1
    /\ p = IF y.id # "none" /\ ~y.found THEN "zero" ELSE s.psk
    /\ d = IF y.share = "none" THEN "zero" ELSE y.share

(* The schedule with ServerHello in it, at the client. *)
LEMMA HelloAgreed ==
  ASSUME NEW y, Hellos(y), y.found => y.id # "none", y.retry \in BOOLEAN,
         NEW s, NEW p, NEW d, Extracts(y, s, p, d)
  PROVE  Hash(Extracted(s, p, d), <<y.sh>>) = y.hs
<1>1. PICK th : th = IF y.retry THEN <<y.hash1, y.hrr, y.ch2>> ELSE <<y.ch1>>
  OBVIOUS
<1>2. s = [psk |-> y.psk1, dhe |-> "unset", th |-> th]
  BY <1>1 DEF Hellos, Extracts
<1>4. Hash(Extracted(s, p, d), <<y.sh>>) = [psk |-> p, dhe |-> d, th |-> th \o <<y.sh>>]
  <2>1. Extracted([psk |-> y.psk1, dhe |-> "unset", th |-> th], p, d) = [psk |-> p, dhe |-> d, th |-> th]
    BY ExtractedRecord
  <2>2. Hash([psk |-> p, dhe |-> d, th |-> th], <<y.sh>>) = [psk |-> p, dhe |-> d, th |-> th \o <<y.sh>>]
    BY HashRecord
  <2> QED BY <1>2, <2>1, <2>2
<1>5. th \o <<y.sh>> = IF y.retry THEN <<y.hash1, y.hrr, y.ch2, y.sh>> ELSE <<y.ch1, y.sh>>
  <2>1. <<y.hash1, y.hrr, y.ch2>> \o <<y.sh>> = <<y.hash1, y.hrr, y.ch2, y.sh>>
    BY CatShort
  <2>2. <<y.ch1>> \o <<y.sh>> = <<y.ch1, y.sh>>
    BY CatShort
  <2>3. CASE y.retry
    BY <1>1, <2>1, <2>3
  <2>4. CASE ~y.retry
    BY <1>1, <2>2, <2>4
  <2> QED BY <2>3, <2>4
<1>6. p = IF y.found THEN y.id ELSE "zero"
  <2>1. s.psk = y.psk1
    BY <1>2
  <2>2. y.psk1 = IF y.id = "none" THEN "zero" ELSE y.id
    BY DEF Hellos
  <2> QED BY <2>1, <2>2 DEF Extracts
<1>7. y.hs = [psk |-> p, dhe |-> d, th |-> th \o <<y.sh>>]
  BY <1>5, <1>6 DEF Hellos, Extracts
<1> QED BY <1>4, <1>7

(* ServerHello. *)
LEMMA ClientReadsHello ==
  ASSUME NEW y, NEW al, NEW w, ClientKnows(y, al, w), ClientReceive,
         (cl.state = "expect_sh" /\ sv.retries # 1) \/ cl.state = "expect_sh2",
         sv.state \notin Unanswered,
         NEW t, t = SCcs(y, sv.state, sent.server) \o al, Starts(toClient, y.rsh, t)
  PROVE  ClientStops \/ ClientMoves(y, al)
<1>1. /\ Flags(y) /\ Hellos(y) /\ Schedules(y) /\ Keys(y) /\ Records(y) /\ cfg \in Config
      /\ sent.early \in Nat /\ sent.client \in Nat /\ sent.server \in Nat
  BY DEF ClientKnows, Story, Counted
<1>2. PICK r : r = y.rsh
  OBVIOUS
<1>3. r.key = NoKey /\ r.msg = y.sh /\ y.sh.type = "sh"
  BY <1>1, <1>2, ServerRecords
<1>4. Always(y, cl, sv, sent.early, sent.client) /\ ClientAt(y, cl, sent.early, sent.client, w)
  BY DEF ClientKnows
<1>5. y.retry \in BOOLEAN /\ y.asks \in BOOLEAN /\ y.found \in BOOLEAN
  BY <1>1, FlagTypes
<1>6. y.retry = (cl.state = "expect_sh2")
  BY <1>4, <1>5 DEF Always, ClientAt
<1>7. /\ cl.enc = (IF Pends(y) THEN Ctx(y.ke, sent.early) ELSE NoProtection)
      /\ cl.dec = NoProtection /\ cl.pending = NoKey /\ w = 0
      /\ cl.sched = (IF y.retry THEN y.s2 ELSE y.s1)
      /\ cl.usingEarly = Pends(y) /\ cl.certReq = FALSE
      /\ cl.ccs = (y.compat /\ ~y.asks) /\ cl.offeredPsk = (y.id # "none")
  BY <1>4, <1>5, <1>6 DEF ClientAt, Pends
<1>8. r.msg.type \in ClientTakes(cl.state) /\ r.msg.type # "ccs"
  BY <1>3 DEF ClientTakes
<1>9. PICK c : ClientMet(c, NoProtection) /\ ClientHandled(c, r, r.msg.type) /\ toClient' = t
  BY <1>2, <1>3, <1>7, <1>8, ClientOpensPlain
<1>10. ClientHandleHello(c, r) /\ got' = got
  BY <1>3, <1>9 DEF ClientHandled
<1>11. /\ DOMAIN c = ClientFields /\ c.enc = cl.enc /\ c.pending = cl.pending
       /\ c.sched = cl.sched /\ c.usingEarly = cl.usingEarly
       /\ c.offeredPsk = cl.offeredPsk /\ c.certReq = cl.certReq
       /\ c.ccs = cl.ccs /\ c.state = cl.state /\ c.done = cl.done /\ c.error = "none"
       /\ c.done \in BOOLEAN
  BY <1>9 DEF ClientMet
<1>12. PICK code : code = ServerHelloError(c, r.msg)
  OBVIOUS
<1>13. CASE code # "none"
  <2>1. ClientFail(c, code) /\ code # "peer_alert"
    BY <1>10, <1>12, <1>13 DEF ClientHandleHello, ServerHelloError
  <2> QED BY <1>1, <1>10, <1>11, <1>13, <2>1, ClientFailStops
<1>14. CASE code = "none"
  <2>1. PICK p : p = SelectedPsk(c, r.msg)
    OBVIOUS
  <2>2. PICK dhe : dhe = IF r.msg.share = "none" THEN "zero" ELSE r.msg.share
    OBVIOUS
  <2>3. Hash([c.sched EXCEPT !.psk = p, !.dhe = dhe], <<r.msg>>) = y.hs
    <3>1. y.sh.share = y.share /\ y.sh.psk = y.found
      BY <1>1 DEF Hellos
    <3>2. PICK s : s = IF y.retry THEN y.s2 ELSE y.s1
      OBVIOUS
    <3>3. p = IF y.id # "none" /\ ~y.found THEN "zero" ELSE s.psk
      BY <1>3, <1>7, <1>11, <2>1, <3>1, <3>2 DEF SelectedPsk
    <3>4. dhe = IF y.share = "none" THEN "zero" ELSE y.share
      BY <1>3, <2>2, <3>1
    <3>5. y.found => y.id # "none"
      BY <1>1 DEF Flags
    <3>6. Hash(Extracted(s, p, dhe), <<y.sh>>) = y.hs
      <4>1. Hellos(y) /\ y.retry \in BOOLEAN
        BY <1>1, <1>5
      <4>2. Extracts(y, s, p, dhe)
        BY <3>2, <3>3, <3>4 DEF Extracts
      <4> QED BY <3>5, <4>1, <4>2, HelloAgreed
    <3> QED BY <1>3, <1>7, <1>11, <3>2, <3>6 DEF Extracted
  <2>4. PICK e : e = IF Pends(y) THEN cl.enc ELSE Ctx(y.kch, 0)
    OBVIOUS
  <2>5. PICK k : k = IF Pends(y) THEN y.kch ELSE NoKey
    OBVIOUS
  <2>6. PICK d : d = [c EXCEPT !.isPsk = y.found, !.sched = y.hs, !.dec = Ctx(y.ksh, 0),
                               !.enc = e, !.pending = k, !.state = "expect_ee"]
    OBVIOUS
  <2>7. ClientReply(d, <<>>)
    <3>1. /\ Protect(Key("s hs", y.hs)) = Ctx(y.ksh, 0) /\ Protect(Key("c hs", y.hs)) = Ctx(y.kch, 0)
          /\ Key("c hs", y.hs) = y.kch
      BY <1>1, CtxUsed DEF Keys
    <3>2. r.msg.psk = y.found
      BY <1>1, <1>3 DEF Hellos
    <3>3. (IF c.usingEarly THEN c.enc ELSE Protect(Key("c hs", y.hs))) = e
      BY <1>7, <1>11, <2>4, <3>1
    <3>4. (IF c.usingEarly THEN Key("c hs", y.hs) ELSE c.pending) = k
      BY <1>7, <1>11, <2>5, <3>1
    <3> QED BY <1>10, <1>12, <1>14, <2>1, <2>2, <2>3, <2>6, <3>1, <3>2, <3>3, <3>4
         DEF ClientHandleHello
  <2>8. /\ d.certReq = c.certReq /\ d.sched = y.hs /\ d.state = "expect_ee" /\ d.dec = Ctx(y.ksh, 0)
        /\ d.enc = e /\ d.pending = k /\ d.offeredPsk = c.offeredPsk
        /\ d.isPsk = y.found /\ d.usingEarly = c.usingEarly /\ d.ccs = c.ccs /\ d.done = c.done
        /\ d.error = "none"
    BY <1>11, <2>6 DEF ClientFields
  <2>9. ClientAt(y, d, sent.early, sent.client, 0)
    BY <1>7, <1>11, <2>4, <2>5, <2>8 DEF ClientAt, ClientMiddle
  <2>10. Always(y, d, sv, sent.early, sent.client)
    BY <1>4, <1>6, <1>11, <2>8 DEF Always, ClientStates, ClientMiddle
  <2>11. FromServer(y, d, sv, sent.server, al, toClient')
    BY <1>9, <2>8 DEF FromServer
  <2> QED BY <1>6, <1>10, <2>7, <2>8, <2>9, <2>10, <2>11, ClientMovesQuietly
<1> QED BY <1>13, <1>14

(* A schedule, as a record. *)
IsSchedule(s) == \E a, b, t : s = [psk |-> a, dhe |-> b, th |-> t] /\ IsSeq(t)

(* Hashing a schedule gives a schedule, and hashing nothing leaves it as it is. *)
LEMMA SchedulesHash ==
  ASSUME NEW s, IsSchedule(s), NEW ms, IsSeq(ms)
  PROVE  IsSchedule(Hash(s, ms)) /\ Hash(s, <<>>) = s
<1>1. PICK a : \E b, t : s = [psk |-> a, dhe |-> b, th |-> t] /\ IsSeq(t)
  BY DEF IsSchedule
<1>2. PICK b : \E t : s = [psk |-> a, dhe |-> b, th |-> t] /\ IsSeq(t)
  BY <1>1
<1>3. PICK t : s = [psk |-> a, dhe |-> b, th |-> t] /\ IsSeq(t)
  BY <1>2
<1>4. Hash([psk |-> a, dhe |-> b, th |-> t], ms) = [psk |-> a, dhe |-> b, th |-> t \o ms]
  BY HashRecord
<1>5. Hash([psk |-> a, dhe |-> b, th |-> t], <<>>) = [psk |-> a, dhe |-> b, th |-> t \o <<>>]
  BY HashRecord
<1>6. IsSeq(t \o ms)
  <2>1. IsSeq(t)
    BY <1>3
  <2> QED BY <2>1, CatSeq
<1>7. t \o <<>> = t
  <2>1. IsSeq(t)
    BY <1>3
  <2> QED BY <2>1, CatNone
<1>8. IsSchedule(Hash(s, ms))
  BY <1>3, <1>4, <1>6 DEF IsSchedule
<1>9. Hash(s, <<>>) = s
  BY <1>3, <1>5, <1>7
<1> QED BY <1>8, <1>9

(* The schedules of the story. *)
LEMMA StorySchedules ==
  ASSUME NEW y, Hellos(y), Schedules(y)
  PROVE  /\ IsSchedule(y.hs) /\ IsSchedule(y.see) /\ IsSchedule(y.scr) /\ IsSchedule(y.scert)
         /\ IsSchedule(y.scv) /\ IsSchedule(y.sfin) /\ IsSchedule(y.sccert)
<1>1. IsSchedule(y.hs)
  <2>1. PICK th : th = IF y.retry THEN <<y.hash1, y.hrr, y.ch2, y.sh>> ELSE <<y.ch1, y.sh>>
    OBVIOUS
  <2>2. IsSeq(th)
    <3>1. <<y.hash1, y.hrr, y.ch2, y.sh>> \in Seq({y.hash1, y.hrr, y.ch2, y.sh})
      OBVIOUS
    <3>2. IsSeq(<<y.hash1, y.hrr, y.ch2, y.sh>>) /\ IsSeq(<<y.ch1, y.sh>>)
      BY <3>1, ShortSeq DEF IsSeq
    <3> QED BY <2>1, <3>2
  <2>3. y.hs = [psk |-> IF y.found THEN y.id ELSE "zero",
                dhe |-> IF y.share = "none" THEN "zero" ELSE y.share, th |-> th]
    BY <2>1 DEF Hellos
  <2> QED BY <2>2, <2>3 DEF IsSchedule
<1>2. \A m : IsSeq(<<m>>)
  BY ShortSeq
<1>3. y.see = Hash(y.hs, <<y.ee>>)
  BY DEF Schedules
<1>4. IsSchedule(y.see)
  BY <1>1, <1>2, <1>3, SchedulesHash
<1>5. y.scr = Hash(y.see, <<Plain("cr")>>) \/ y.scr = y.see
  BY DEF Schedules
<1>6. IsSchedule(y.scr)
  BY <1>2, <1>4, <1>5, SchedulesHash
<1>7. y.scert = Hash(y.scr, <<CertMsg(TRUE)>>)
  BY DEF Schedules
<1>8. IsSchedule(y.scert)
  BY <1>2, <1>6, <1>7, SchedulesHash
<1>9. y.scv = y.see \/ y.scv = Hash(y.scert, <<Plain("cv")>>)
  BY DEF Schedules
<1>10. IsSchedule(y.scv)
  BY <1>2, <1>4, <1>8, <1>9, SchedulesHash
<1>11. y.sfin = Hash(y.scv, <<ServerFinished>>) /\ y.sccert = Hash(y.sfin, <<CertMsg(y.cc)>>)
  BY DEF Schedules
<1>12. IsSchedule(y.sfin)
  BY <1>2, <1>10, <1>11, SchedulesHash
<1>13. IsSchedule(y.sccert)
  BY <1>2, <1>11, <1>12, SchedulesHash
<1> QED BY <1>1, <1>4, <1>6, <1>8, <1>10, <1>12, <1>13

(* The messages of an item that may be missing, and their hash. *)
LEMMA OptMessages ==
  ASSUME NEW b, NEW m, NEW mac
  PROVE  Messages(Opt(b, Item(m, mac))) = Opt(b, m)
BY MessagesOf DEF Opt

(* Hashing a message that may be missing. *)
LEMMA OptHash ==
  ASSUME NEW s, IsSchedule(s), NEW b, NEW m
  PROVE  Hash(s, Opt(b, m)) = IF b THEN Hash(s, <<m>>) ELSE s
<1>1. IsSeq(<<m>>)
  BY ShortSeq
<1>2. Hash(s, <<>>) = s
  BY <1>1, SchedulesHash
<1> QED BY <1>2 DEF Opt

(* The flight of the client, from the keys and flags that the story gives it. *)
FlightOf(y, c, n) ==
    /\ DOMAIN c = ClientFields
    /\ c.enc = (IF Pends(y) THEN Ctx(y.ke, n) ELSE Ctx(y.kch, 0))
    /\ c.pending = (IF Pends(y) THEN y.kch ELSE NoKey)
    /\ c.ccs = (y.compat /\ ~y.asks) /\ c.usingEarly = y.accept /\ c.certReq = y.auth

(* The records under the handshake key. *)
LEMMA FlightSealed ==
  ASSUME NEW y, Keys(y), Records(y), y.auth \in BOOLEAN, y.cc \in BOOLEAN,
         NEW fin, fin = Item(ClientFinished, FinishedMac(y.kch, y.send)),
         NEW cert, cert = Opt(y.auth, Item(CertMsg(y.cc), NoMac)),
         NEW cv, cv = Opt(y.auth /\ y.cc, Item(Plain("cv"), Signature(y.sccert)))
  PROVE  Sealed(y.kch, 0, (cert \o cv) \o <<fin>>, CCert(y, 0))
<1>1. y.kch # NoKey
  BY KeysDiffer
<1>2. \A q : SeqNo(y.kch, q) = q
  BY <1>1 DEF SeqNo
<1>3. PICK mac : mac = FinishedMac(y.kch, y.send)
  OBVIOUS
<1>4. PICK sig : sig = Signature(y.sccert)
  OBVIOUS
<1>5. PICK rfin : rfin = Wire(y.kch, y.nc, ClientFinished, mac)
  OBVIOUS
<1>6. y.rcfin = rfin
  BY <1>3, <1>5 DEF Records
<1>7. CFin(y, 0) = <<rfin>>
  <2>1. Run(y.client, 0, 0) = <<>>
    <3>1. PICK f : f = y.client
      OBVIOUS
    <3>2. PICK a \in Nat : a = 0
      OBVIOUS
    <3>3. Run(f, a, a) = <<>>
      <4>1. a <= a
        BY <3>2
      <4> QED BY <4>1, RunSeq
    <3> QED BY <3>1, <3>2, <3>3
  <2>2. <<rfin>> \o <<>> = <<rfin>>
    BY ShortSeq, CatNone
  <2> QED BY <1>6, <2>1, <2>2 DEF CFin
<1>8. IsSeq(<<rfin>>) /\ IsSeq(<<fin>>)
  BY ShortSeq
<1>9. CASE ~y.auth
  <2>1. y.nc = 0
    BY <1>9 DEF Keys
  <2>2. cert = <<>> /\ cv = <<>>
    BY <1>9 DEF Opt
  <2>3. <<>> \o <<>> = <<>> /\ <<>> \o <<fin>> = <<fin>>
    BY <1>8, ShortSeq, CatNone
  <2>4. Sealed(y.kch, 0, <<Item(ClientFinished, mac)>>, <<Wire(y.kch, SeqNo(y.kch, 0), ClientFinished, mac)>>)
    BY SealedOne
  <2>5. CVerify(y, 0) = CFin(y, 0)
    BY <1>7, <1>8, <1>9, OptNone DEF CVerify
  <2>6. CCert(y, 0) = CFin(y, 0)
    BY <1>7, <1>8, <1>9, <2>5, OptNone DEF CCert
  <2> QED BY <1>2, <1>3, <1>5, <1>7, <2>1, <2>2, <2>3, <2>4, <2>6
<1>10. CASE y.auth /\ ~y.cc
  <2>1. y.nc = 1
    BY <1>10 DEF Keys
  <2>2. PICK x : x = Item(CertMsg(y.cc), NoMac)
    OBVIOUS
  <2>3. cert = <<x>> /\ cv = <<>>
    BY <1>10, <2>2 DEF Opt
  <2>4. <<x>> \o <<>> = <<x>>
    BY ShortSeq, CatNone
  <2>5. Sealed(y.kch, 0 + 1, <<fin>>, <<rfin>>)
    <3>1. Sealed(y.kch, 1, <<Item(ClientFinished, mac)>>, <<Wire(y.kch, SeqNo(y.kch, 1), ClientFinished, mac)>>)
      BY SealedOne
    <3> QED BY <1>2, <1>3, <1>5, <2>1, <3>1
  <2>6. Sealed(y.kch, 0, <<x>> \o <<fin>>, <<Wire(y.kch, SeqNo(y.kch, 0), CertMsg(y.cc), NoMac)>> \o <<rfin>>)
    BY <2>2, <2>5, SealedFirst
  <2>7. Wire(y.kch, SeqNo(y.kch, 0), CertMsg(y.cc), NoMac) = y.rccert
    BY <1>2 DEF Records
  <2>8. CVerify(y, 0) = CFin(y, 0)
    BY <1>7, <1>8, <1>10, OptNone DEF CVerify
  <2>9. CCert(y, 0) = <<y.rccert>> \o <<rfin>>
    BY <1>7, <1>10, <2>8 DEF CCert, Opt
  <2> QED BY <2>3, <2>4, <2>6, <2>7, <2>9
<1>11. CASE y.auth /\ y.cc
  <2>1. y.nc = 2
    BY <1>11 DEF Keys
  <2>2. PICK x : x = Item(CertMsg(y.cc), NoMac)
    OBVIOUS
  <2>3. PICK z : z = Item(Plain("cv"), sig)
    OBVIOUS
  <2>4. cert = <<x>> /\ cv = <<z>>
    BY <1>4, <1>11, <2>2, <2>3 DEF Opt
  <2>5. IsSeq(<<x>>) /\ IsSeq(<<z>>)
    BY ShortSeq
  <2>6. (<<x>> \o <<z>>) \o <<fin>> = <<x>> \o (<<z>> \o <<fin>>)
    BY <1>8, <2>5, CatAssoc
  <2>7. Sealed(y.kch, 1 + 1, <<fin>>, <<rfin>>)
    <3>1. Sealed(y.kch, 2, <<Item(ClientFinished, mac)>>, <<Wire(y.kch, SeqNo(y.kch, 2), ClientFinished, mac)>>)
      BY SealedOne
    <3> QED BY <1>2, <1>3, <1>5, <2>1, <3>1
  <2>8. Sealed(y.kch, 1, <<z>> \o <<fin>>, <<Wire(y.kch, SeqNo(y.kch, 1), Plain("cv"), sig)>> \o <<rfin>>)
    BY <2>3, <2>7, SealedFirst
  <2>9. Wire(y.kch, SeqNo(y.kch, 1), Plain("cv"), sig) = y.rccv
    BY <1>2, <1>4 DEF Records
  <2>10. Sealed(y.kch, 0 + 1, <<z>> \o <<fin>>, <<y.rccv>> \o <<rfin>>)
    BY <2>8, <2>9
  <2>11. Sealed(y.kch, 0, <<x>> \o (<<z>> \o <<fin>>),
                <<Wire(y.kch, SeqNo(y.kch, 0), CertMsg(y.cc), NoMac)>> \o (<<y.rccv>> \o <<rfin>>))
    BY <2>2, <2>10, SealedFirst
  <2>12. Wire(y.kch, SeqNo(y.kch, 0), CertMsg(y.cc), NoMac) = y.rccert
    BY <1>2 DEF Records
  <2>13. CCert(y, 0) = <<y.rccert>> \o (<<y.rccv>> \o <<rfin>>)
    BY <1>7, <1>11 DEF CCert, CVerify, Opt
  <2> QED BY <2>4, <2>6, <2>11, <2>12, <2>13
<1> QED BY <1>9, <1>10, <1>11

(* The outcome f of the flight. *)
FlightIs(y, c, n, f) ==
    /\ f.out = Opt(y.accept, Eoed(y, n)) \o CFlight(y, 0)
    /\ DOMAIN f.tls = ClientFields /\ f.tls.dec = Ctx(y.ksa, 0) /\ f.tls.enc = Ctx(y.kca, 0)
    /\ f.tls.state = "post" /\ f.tls.done = TRUE /\ f.tls.usingEarly = FALSE
    /\ f.tls.offeredPsk = c.offeredPsk /\ f.tls.error = c.error
    /\ DOMAIN f.failed = ClientFields /\ f.failed.state = c.state /\ f.failed.done = c.done
    /\ \E q \in Nat : f.failed.enc = Ctx(y.kch, q)

(* The flight that client_handle_finished sends is the one of the story. *)
LEMMA ClientFlightIs ==
  ASSUME NEW y, Story(y), cfg \in Config, NEW n \in Nat, NEW c, FlightOf(y, c, n),
         NEW f, f = ClientFlight(c, y.sfin)
  PROVE  FlightIs(y, c, n, f)
<1>1. Flags(y) /\ Hellos(y) /\ Schedules(y) /\ Keys(y) /\ Records(y)
  BY DEF Story
<1>2. /\ y.auth \in BOOLEAN /\ y.cc \in BOOLEAN /\ y.compat \in BOOLEAN /\ y.asks \in BOOLEAN
      /\ y.accept \in BOOLEAN /\ y.retry \in BOOLEAN /\ (y.accept => ~y.auth /\ Pends(y))
      /\ y.cc = cfg.clientCert
  <2>1. y.cc = cfg.clientCert
    BY <1>1 DEF Flags
  <2> QED BY <1>1, <2>1, FlagTypes DEF Pends
<1>3. NoKey # y.kch /\ NoKey # y.ke
  BY <1>1, KeysDiffer
<1>4. /\ DOMAIN c = ClientFields
      /\ c.enc = (IF Pends(y) THEN Ctx(y.ke, n) ELSE Ctx(y.kch, 0))
      /\ c.pending = (IF Pends(y) THEN y.kch ELSE NoKey)
      /\ c.ccs = (y.compat /\ ~y.asks) /\ c.usingEarly = y.accept /\ c.certReq = y.auth
  BY DEF FlightOf
<1>5. PICK eoed : eoed = Opt(y.accept, Item(Plain("eoed"), NoMac))
  OBVIOUS
<1>6. eoed = IF c.pending # NoKey /\ c.usingEarly THEN <<Item(Plain("eoed"), NoMac)>> ELSE <<>>
  BY <1>2, <1>3, <1>4, <1>5 DEF Opt
<1>7. PICK s1 : s1 = Hash(y.sfin, Messages(eoed))
  OBVIOUS
<1>8. PICK hs : hs = IF c.pending # NoKey THEN Protect(c.pending) ELSE c.enc
  OBVIOUS
<1>9. hs = Ctx(y.kch, 0) /\ hs.key = y.kch
  <2>1. hs = Ctx(y.kch, 0)
    BY <1>3, <1>4, <1>8, CtxUsed
  <2> QED BY <2>1, CtxFields
<1>10. PICK cert : cert = Opt(y.auth, Item(CertMsg(y.cc), NoMac))
  OBVIOUS
<1>11. cert = IF c.certReq THEN <<Item([type |-> "cert", some |-> cfg.clientCert], NoMac)>> ELSE <<>>
  BY <1>2, <1>4, <1>10 DEF Opt, CertMsg
<1>12. PICK s2 : s2 = Hash(s1, Messages(cert))
  OBVIOUS
<1>13. PICK cv : cv = Opt(y.auth /\ y.cc, Item(Plain("cv"), Signature(s2)))
  OBVIOUS
<1>14. cv = IF c.certReq /\ cfg.clientCert THEN <<Item(Plain("cv"), Signature(s2))>> ELSE <<>>
  BY <1>2, <1>4, <1>13 DEF Opt
<1>15. PICK s3 : s3 = Hash(s2, Messages(cv))
  OBVIOUS
<1>16. PICK fin : fin = Item(ClientFinished, FinishedMac(hs.key, s3))
  OBVIOUS
<1>17. PICK d : d = [c EXCEPT !.dec = Protect(Key("s ap", y.sfin)), !.pending = NoKey,
                              !.usingEarly = FALSE, !.ccs = FALSE, !.certReq = FALSE]
  OBVIOUS
<1>18. PICK tls : tls = [d EXCEPT !.sched = Hash(s3, <<fin.msg>>), !.enc = Protect(Key("c ap", y.sfin)),
                                  !.state = "post", !.done = TRUE]
  OBVIOUS
<1>19. PICK failed : failed = [d EXCEPT !.enc = Used(hs, Len(cert))]
  OBVIOUS
<1>20. PICK out : out = Seal(c.enc, eoed) \o ChangeCipherSpec(c.ccs) \o Seal(hs, cert \o cv \o <<fin>>)
  OBVIOUS
<1>21. f = [tls |-> tls, failed |-> failed, signs |-> cv # <<>>, out |-> out]
  BY ZenonT(60), <1>6, <1>7, <1>8, <1>11, <1>12, <1>14, <1>15, <1>16, <1>17, <1>18, <1>19, <1>20
     DEF ClientFlight, ClientFinished
<1>22. f.tls = tls /\ f.failed = failed /\ f.out = out
  BY <1>21
<1>23. s1 = IF y.accept THEN Hash(y.sfin, <<Plain("eoed")>>) ELSE y.sfin
  <2>1. Messages(eoed) = Opt(y.accept, Plain("eoed"))
    BY <1>5, OptMessages
  <2>2. IsSchedule(y.sfin)
    BY <1>1, StorySchedules
  <2> QED BY <1>7, <2>1, <2>2, OptHash
<1>24. IsSchedule(s1)
  <2>1. IsSchedule(y.sfin) /\ IsSeq(<<Plain("eoed")>>)
    BY <1>1, StorySchedules, ShortSeq
  <2> QED BY <1>23, <2>1, SchedulesHash
<1>25. s2 = IF y.auth THEN y.sccert ELSE s1
  <2>1. Messages(cert) = Opt(y.auth, CertMsg(y.cc))
    BY <1>10, OptMessages
  <2>2. s2 = IF y.auth THEN Hash(s1, <<CertMsg(y.cc)>>) ELSE s1
    BY <1>12, <1>24, <2>1, OptHash
  <2>3. y.sccert = Hash(y.sfin, <<CertMsg(y.cc)>>)
    BY <1>1 DEF Schedules
  <2>4. y.auth => s1 = y.sfin
    BY <1>2, <1>23
  <2> QED BY <2>2, <2>3, <2>4
<1>26. s3 = y.send
  <2>1. Messages(cv) = Opt(y.auth /\ y.cc, Plain("cv"))
    BY <1>13, OptMessages
  <2>2. IsSchedule(s2)
    BY <1>1, <1>24, <1>25, StorySchedules
  <2>3. s3 = IF y.auth /\ y.cc THEN Hash(s2, <<Plain("cv")>>) ELSE s2
    <3>1. PICK b \in BOOLEAN : b = (y.auth /\ y.cc)
      BY <1>2
    <3>2. Hash(s2, Opt(b, Plain("cv"))) = IF b THEN Hash(s2, <<Plain("cv")>>) ELSE s2
      BY <2>2, OptHash
    <3> QED BY <1>15, <2>1, <3>1, <3>2
  <2>4. y.send = IF y.accept THEN Hash(y.sfin, <<Plain("eoed")>>)
                 ELSE IF ~y.auth THEN y.sfin
                 ELSE IF y.cc THEN Hash(y.sccert, <<Plain("cv")>>) ELSE y.sccert
    BY <1>1 DEF Schedules
  <2> QED BY <1>2, <1>23, <1>25, <2>3, <2>4
<1>27. cv = Opt(y.auth /\ y.cc, Item(Plain("cv"), Signature(y.sccert)))
  BY <1>13, <1>25 DEF Opt
<1>28. Seal(hs, (cert \o cv) \o <<fin>>) = CCert(y, 0)
  <2>1. fin = Item(ClientFinished, FinishedMac(y.kch, y.send))
    BY <1>9, <1>16, <1>26
  <2>2. Sealed(y.kch, 0, (cert \o cv) \o <<fin>>, CCert(y, 0))
    BY <1>1, <1>2, <1>10, <1>27, <2>1, FlightSealed
  <2> QED BY <1>9, <2>2 DEF Sealed
<1>29. Seal(c.enc, eoed) = Opt(y.accept, Eoed(y, n))
  <2>1. CASE y.accept
    <3>1. eoed = <<Item(Plain("eoed"), NoMac)>> /\ c.enc = Ctx(y.ke, n)
      BY <1>2, <1>4, <1>5, <2>1 DEF Opt
    <3>2. Seal(Ctx(y.ke, n), <<Item(Plain("eoed"), NoMac)>>) = <<Wire(y.ke, SeqNo(y.ke, n), Plain("eoed"), NoMac)>>
      BY SealSingle
    <3> QED BY <1>3, <2>1, <3>1, <3>2 DEF SeqNo, Opt, Eoed
  <2>2. CASE ~y.accept
    BY <1>5, <2>2, SealNone DEF Opt
  <2> QED BY <2>1, <2>2
<1>30. out = Opt(y.accept, Eoed(y, n)) \o CFlight(y, 0)
  <2>1. ChangeCipherSpec(c.ccs) = Opt(y.compat /\ ~y.asks, CcsRec)
    BY <1>4, CcsSent
  <2>2. IsSeq(Opt(y.accept, Eoed(y, n))) /\ IsSeq(Opt(y.compat /\ ~y.asks, CcsRec))
    BY OptSeq
  <2>3. IsSeq(CCert(y, 0))
    BY ClientStreams
  <2>4. out = (Opt(y.accept, Eoed(y, n)) \o Opt(y.compat /\ ~y.asks, CcsRec)) \o CCert(y, 0)
    BY <1>20, <1>28, <1>29, <2>1
  <2>5. PICK a : a = Opt(y.accept, Eoed(y, n))
    OBVIOUS
  <2>6. PICK b : b = Opt(y.compat /\ ~y.asks, CcsRec)
    OBVIOUS
  <2>7. PICK x : x = CCert(y, 0)
    OBVIOUS
  <2>8. IsSeq(a) /\ IsSeq(b) /\ IsSeq(x)
    BY <2>2, <2>3, <2>5, <2>6, <2>7
  <2>9. (a \o b) \o x = a \o (b \o x)
    BY <2>8, CatAssoc
  <2>10. CFlight(y, 0) = b \o x
    BY <2>6, <2>7 DEF CFlight
  <2> QED BY <2>4, <2>5, <2>6, <2>7, <2>9, <2>10
<1>31. /\ DOMAIN d = ClientFields /\ d.dec = Protect(Key("s ap", y.sfin)) /\ d.usingEarly = FALSE
       /\ d.state = c.state /\ d.done = c.done /\ d.offeredPsk = c.offeredPsk /\ d.error = c.error
  BY <1>4, <1>17 DEF ClientFields
<1>32. /\ DOMAIN tls = ClientFields /\ tls.dec = Ctx(y.ksa, 0) /\ tls.enc = Ctx(y.kca, 0)
       /\ tls.state = "post" /\ tls.done = TRUE /\ tls.usingEarly = FALSE
       /\ tls.offeredPsk = c.offeredPsk /\ tls.error = c.error
  <2>1. /\ Protect(Key("s ap", y.sfin)) = Ctx(y.ksa, 0) /\ Protect(Key("c ap", y.sfin)) = Ctx(y.kca, 0)
    BY <1>1, CtxUsed DEF Keys
  <2>2. PICK g : g = Hash(s3, <<fin.msg>>)
    OBVIOUS
  <2>3. tls = [d EXCEPT !.sched = g, !.enc = Ctx(y.kca, 0), !.state = "post", !.done = TRUE]
    BY <1>18, <2>1, <2>2
  <2> QED BY <1>31, <2>1, <2>3 DEF ClientFields
<1>33. /\ DOMAIN failed = ClientFields /\ failed.state = c.state /\ failed.done = c.done
       /\ \E q \in Nat : failed.enc = Ctx(y.kch, q)
  <2>1. PICK l \in Nat : l = Len(cert)
    <3>1. Len(<<>>) = 0 /\ Len(<<Item(CertMsg(y.cc), NoMac)>>) = 1
      OBVIOUS
    <3> QED BY <1>10, <3>1 DEF Opt
  <2>2. Used(hs, l) = Ctx(y.kch, 0 + l)
    BY <1>3, <1>9, CtxUsed
  <2>3. PICK e : e = Used(hs, l)
    OBVIOUS
  <2>4. failed = [d EXCEPT !.enc = e]
    BY <1>19, <2>1, <2>3
  <2>5. DOMAIN failed = ClientFields /\ failed.state = c.state /\ failed.done = c.done /\ failed.enc = e
    BY <1>31, <2>4 DEF ClientFields
  <2>6. 0 + l \in Nat
    BY <2>1
  <2> QED BY <2>2, <2>3, <2>5, <2>6
<1> QED BY <1>22, <1>30, <1>32, <1>33 DEF FlightIs

(* The server's Finished: the client sends its flight. *)
LEMMA ClientReadsFinished ==
  ASSUME NEW y, NEW al, NEW w, ClientKnows(y, al, w), ClientReceive, cl.state = "expect_fin",
         sv.state \in Flown,
         NEW t, t = Run(y.server, 0, y.tickets + sent.server) \o al, Starts(toClient, y.rfin, t)
  PROVE  ClientStops \/ ClientMoves(y, al)
<1>1. /\ Flags(y) /\ Hellos(y) /\ Schedules(y) /\ Keys(y) /\ Records(y) /\ cfg \in Config /\ Story(y)
      /\ sent.early \in Nat /\ sent.client \in Nat /\ sent.server \in Nat
  BY DEF ClientKnows, Story, Counted
<1>2. PICK r : r = y.rfin
  OBVIOUS
<1>3. /\ r.key = y.ksh /\ r.seq = y.nfin /\ r.msg = ServerFinished
      /\ r.mac = FinishedMac(y.ksh, y.scv) /\ ServerFinished.type = "fin"
  BY <1>1, <1>2, ServerRecords
<1>4. cl.dec = Ctx(y.ksh, y.nfin) /\ cl.sched = y.scv
  BY DEF ClientKnows, ClientAt
<1>5. y.ksh # NoKey
  BY <1>1, KeysDiffer
<1>6. r.msg.type \in ClientTakes(cl.state) /\ r.msg.type # "ccs"
  BY <1>3 DEF ClientTakes
<1>7. PICK c : ClientMet(c, Ctx(y.ksh, y.nfin + 1)) /\ ClientHandled(c, r, r.msg.type) /\ toClient' = t
  BY <1>2, <1>3, <1>4, <1>5, <1>6, ClientOpensSealed
<1>8. ClientHandleFinished(c, r) /\ got' = got
  BY <1>3, <1>7 DEF ClientHandled
<1>9. /\ DOMAIN c = ClientFields /\ c.dec = Ctx(y.ksh, y.nfin + 1) /\ c.enc = cl.enc
      /\ c.pending = cl.pending
      /\ c.sched = cl.sched /\ c.usingEarly = cl.usingEarly /\ c.certReq = cl.certReq
      /\ c.offeredPsk = cl.offeredPsk
      /\ c.ccs = cl.ccs /\ c.state = cl.state /\ c.done = cl.done /\ c.error = "none"
      /\ c.done \in BOOLEAN
  BY <1>7 DEF ClientMet
<1>10. /\ cl.enc = (IF Pends(y) THEN Ctx(y.ke, sent.early) ELSE Ctx(y.kch, 0))
       /\ cl.pending = (IF Pends(y) THEN y.kch ELSE NoKey)
       /\ cl.ccs = (y.compat /\ ~y.asks)
       /\ cl.usingEarly = y.accept /\ cl.offeredPsk = (y.id # "none") /\ w = 0
       /\ cl.certReq = (y.auth /\ cl.state \notin {"expect_ee", "expect_cr_or_cert"})
       /\ Always(y, cl, sv, sent.early, sent.client)
  BY ClientInMiddle DEF ClientMiddle
<1>11. PICK f : f = ClientFlight(c, y.sfin)
  OBVIOUS
<1>12. /\ r.mac = FinishedMac(c.dec.key, c.sched) /\ Hash(c.sched, <<r.msg>>) = y.sfin
  <2>1. c.dec.key = y.ksh
    BY <1>9, CtxFields
  <2>2. Hash(y.scv, <<ServerFinished>>) = y.sfin
    BY <1>1 DEF Schedules
  <2> QED BY <1>3, <1>4, <1>9, <2>1, <2>2
<1>13. IF f.signs /\ cfg.signBad = "client" THEN ClientFail(f.failed, "internal_error")
       ELSE ClientReply(f.tls, f.out)
  BY <1>8, <1>11, <1>12 DEF ClientHandleFinished
<1>14. FlightIs(y, c, sent.early, f)
  <2>1. y.auth \in BOOLEAN
    BY <1>1, FlagTypes
  <2>2. FlightOf(y, c, sent.early)
    BY <1>9, <1>10, <2>1 DEF FlightOf
  <2>3. PICK n \in Nat : n = sent.early
    BY <1>1
  <2> QED BY <1>1, <1>11, <2>2, <2>3, ClientFlightIs
<1>15. CASE f.signs /\ cfg.signBad = "client"
  <2>1. PICK d : d = f.failed
    OBVIOUS
  <2>2. ClientFail(d, "internal_error")
    BY <1>13, <1>15, <2>1
  <2>3. /\ DOMAIN d = ClientFields /\ d.state = cl.state /\ d.done = cl.done /\ d.done \in BOOLEAN
    BY <1>9, <1>14, <2>1 DEF FlightIs
  <2> QED BY <1>8, <2>2, <2>3, ClientFailStops
<1>16. CASE ~(f.signs /\ cfg.signBad = "client")
  <2>1. PICK d : d = f.tls
    OBVIOUS
  <2>2. PICK out : out = Opt(y.accept, Eoed(y, sent.early)) \o CFlight(y, 0)
    OBVIOUS
  <2>3. cl' = d /\ toServer' = toServer \o out
    BY <1>13, <1>14, <1>16, <2>1, <2>2 DEF FlightIs, ClientReply
  <2>4. /\ d.dec = Ctx(y.ksa, 0) /\ d.enc = Ctx(y.kca, 0)
        /\ d.state = "post" /\ d.done = TRUE /\ d.usingEarly = FALSE
        /\ d.offeredPsk = (y.id # "none") /\ d.error = "none"
    BY <1>9, <1>10, <1>14, <2>1 DEF FlightIs
  <2>5. sent.client = 0 /\ y.tickets \in Nat
    BY <1>1, <1>10, FlagTypes DEF Always
  <2>6. ClientAt(y, d, sent.early, sent.client, 0)
    <3>1. 0 \in Nat /\ 0 <= y.tickets
      BY <2>5
    <3> QED BY <2>4, <2>5, <3>1 DEF ClientAt, ClientMiddle
  <2>7. Always(y, d, sv, sent.early, sent.client)
    BY <1>10, <2>4 DEF Always, ClientStates, ClientMiddle
  <2>8. FromServer(y, d, sv, sent.server, al, toClient')
    <3>1. d.dec.seq = 0 /\ 0 <= y.tickets + sent.server
      BY <1>1, <2>4, <2>5, CtxFields
    <3> QED BY <1>7, <2>4, <3>1 DEF FromServer
  <2>9. Grows(y, "expect_fin", sent.early, 0, "post", sent.early, 0, out)
    BY <1>1, <2>2, GrowsByFlight
  <2>10. Grows(y, cl.state, sent.early, sent.client, cl'.state, sent.early, sent.client, out)
    BY <2>3, <2>4, <2>5, <2>9
  <2>11. GotClient(got'.client, sent.server, 0) /\ got'.server = got.server /\ DOMAIN got' = DOMAIN got
    BY <1>8, <1>10 DEF ClientKnows
  <2>12. /\ ClientAt(y, cl', sent.early, sent.client, 0) /\ cl'.error = "none"
         /\ Always(y, cl', sv, sent.early, sent.client)
         /\ FromServer(y, cl', sv, sent.server, al, toClient')
    BY <2>3, <2>4, <2>6, <2>7, <2>8
  <2> QED BY <2>3, <2>10, <2>11, <2>12 DEF ClientMoves
<1> QED BY <1>15, <1>16

(* A step of the client in which its stream stays as it is. *)
LEMMA GrowsSame ==
  ASSUME NEW y, NEW st, st # "start", NEW n \in Nat, NEW m \in Nat
  PROVE  Grows(y, st, n, m, st, n, m, <<>>)
<1>1. IsSeq(<<>>)
  BY ShortSeq
<1>2. /\ IsSeq(CFin(y, m)) /\ IsSeq(CEnd(y, st, n, m)) /\ IsSeq(CRetry(y, st, n, m))
  BY ClientStreams
<1>3. /\ CFin(y, m) = CFin(y, m) \o <<>> /\ CEnd(y, st, n, m) = CEnd(y, st, n, m) \o <<>>
      /\ CRetry(y, st, n, m) = CRetry(y, st, n, m) \o <<>>
  BY <1>2, CatNone
<1>4. ASSUME NEW b \in 0 .. m PROVE Run(y.client, b, m) = Run(y.client, b, m) \o <<>>
  <2>1. b \in Nat /\ b <= m
    OBVIOUS
  <2>2. IsSeq(Run(y.client, b, m))
    BY <2>1, RunSeq, ZenonT(30)
  <2> QED BY <2>2, CatNone
<1>5. m <= m
  OBVIOUS
<1> QED BY <1>1, <1>3, <1>4, <1>5, GrowsBehind

(* A record delivered to an application. *)
LEMMA DeliveredNext ==
  ASSUME NEW tag, NEW n \in Nat
  PROVE  Append(Numbered(tag, n), <<tag, n + 1>>) = Numbered(tag, n + 1)
<1>1. /\ IsSeq(Numbered(tag, n))
      /\ Numbered(tag, n + 1) = Numbered(tag, n) \o <<<<tag, n + 1>>>>
  BY NumberedNext
<1>2. PICK s, x : s = Numbered(tag, n) /\ x = <<tag, n + 1>>
  OBVIOUS
<1>3. PICK S : s \in Seq(S)
  BY <1>1, <1>2 DEF IsSeq
<1>4. s \in Seq(S \cup {x}) /\ x \in S \cup {x}
  BY <1>3, SeqMonotonic
<1>5. Append(s, x) = s \o <<x>>
  BY <1>4, AppendIsConcat
<1> QED BY <1>1, <1>2, <1>5

(* The server's records after its Finished: r is the one number q. *)
SeriesIs(y, q, r) ==
    /\ r.key = y.ksa /\ r.seq = q
    /\ q < y.tickets => r.msg.type = "nst"
    /\ ~(q < y.tickets) => /\ r.msg.type = "data" /\ r.msg.tag = "server"
                           /\ r.msg.n = (q - y.tickets) + 1

(* They are tickets and then data. *)
LEMMA SeriesRecord ==
  ASSUME NEW y, Series(y), NEW q \in Nat
  PROVE  SeriesIs(y, q, y.server[q])
<1> DEFINE r == y.server[q]
<1>1. r = IF q < y.tickets THEN Wire(y.ksa, q, Plain("nst"), [key |-> y.res, th |-> <<>>])
          ELSE Wire(y.ksa, q, DataMsg("server", (q - y.tickets) + 1), NoMac)
  BY DEF Series
<1>2. CASE q < y.tickets
  BY <1>1, <1>2, WireFields DEF Plain, SeriesIs
<1>3. CASE ~(q < y.tickets)
  BY <1>1, <1>3, WireFields DEF DataMsg, SeriesIs
<1> QED BY <1>2, <1>3

(* A ticket or a record of application data. *)
LEMMA ClientReadsSeries ==
  ASSUME NEW y, NEW al, NEW w, ClientKnows(y, al, w), ClientReceive, cl.state = "post",
         cl.dec.seq < y.tickets + sent.server,
         NEW t, t = Run(y.server, cl.dec.seq + 1, y.tickets + sent.server) \o al,
         Starts(toClient, y.server[cl.dec.seq], t)
  PROVE  ClientMoves(y, al)
<1>1. /\ Flags(y) /\ Keys(y) /\ Series(y) /\ cfg \in Config
      /\ sent.early \in Nat /\ sent.client \in Nat /\ sent.server \in Nat
      /\ DOMAIN got = {"client", "server"}
  BY DEF ClientKnows, Story, Counted
<1>2. /\ ClientAt(y, cl, sent.early, sent.client, w) /\ GotClient(got.client, sent.server, w)
      /\ Always(y, cl, sv, sent.early, sent.client)
  BY DEF ClientKnows
<1>3. y.tickets \in Nat
  BY <1>1, FlagTypes
<1>4. /\ cl.usingEarly = FALSE /\ cl.enc = Ctx(y.kca, sent.client)
      /\ cl.offeredPsk = (y.id # "none")
  BY <1>2 DEF ClientAt
<1>5. PICK q \in Nat : cl.dec = Ctx(y.ksa, q) /\ w = IF q <= y.tickets THEN 0 ELSE q - y.tickets
  BY <1>2 DEF ClientAt
<1>6. cl.dec.seq = q
  BY <1>5, CtxFields
<1>7. PICK r : r = y.server[q]
  OBVIOUS
<1>8. /\ r.key = y.ksa /\ r.seq = q
      /\ q < y.tickets => r.msg.type = "nst"
      /\ ~(q < y.tickets) => /\ r.msg.type = "data" /\ r.msg.tag = "server"
                             /\ r.msg.n = (q - y.tickets) + 1
  <2>1. SeriesIs(y, q, r)
    BY <1>1, <1>7, SeriesRecord
  <2> QED BY <2>1 DEF SeriesIs
<1>9. y.ksa # NoKey
  BY <1>1, KeysDiffer
<1>10. r.msg.type \in ClientTakes(cl.state) /\ r.msg.type # "ccs"
  BY <1>8 DEF ClientTakes
<1>11. PICK c : ClientMet(c, Ctx(y.ksa, q + 1)) /\ ClientHandled(c, r, r.msg.type) /\ toClient' = t
  BY <1>5, <1>6, <1>7, <1>8, <1>9, <1>10, ClientOpensSealed
<1>12. /\ c.dec = Ctx(y.ksa, q + 1) /\ c.enc = cl.enc /\ c.usingEarly = cl.usingEarly
       /\ c.offeredPsk = cl.offeredPsk /\ c.state = "post" /\ c.done = cl.done /\ c.error = "none"
  BY <1>11 DEF ClientMet
<1>13. ClientReply(c, <<>>)
  <2>1. CASE q < y.tickets
    BY <1>8, <1>11, <2>1 DEF ClientHandled, ClientHandleNewSessionTicket
  <2>2. CASE ~(q < y.tickets)
    BY <1>8, <1>11, <2>2 DEF ClientHandled, ClientDeliver
  <2> QED BY <2>1, <2>2
<1>14. cl' = c /\ toServer' = toServer \o <<>>
  BY <1>13 DEF ClientReply
<1>15. PICK v : v = IF q + 1 <= y.tickets THEN 0 ELSE (q + 1) - y.tickets
  OBVIOUS
<1>16. /\ GotClient(got'.client, sent.server, v) /\ got'.server = got.server
       /\ DOMAIN got' = DOMAIN got
  <2>1. got.client = Numbered("server", w)
    BY <1>2 DEF GotClient
  <2>2. CASE q < y.tickets
    <3>1. got' = got
      BY <1>8, <1>11, <2>2 DEF ClientHandled
    <3>2. v = w
      BY <1>3, <1>5, <1>15, <2>2
    <3> QED BY <1>2, <3>1, <3>2
  <2>3. CASE ~(q < y.tickets)
    <3>1. w \in Nat /\ v = w + 1 /\ r.msg.n = w + 1 /\ v \in 0 .. sent.server
      BY SMTT(30), <1>1, <1>3, <1>5, <1>6, <1>8, <1>15, <2>3
    <3>2. ClientDeliver(c, r)
      BY <1>8, <1>11, <2>3 DEF ClientHandled
    <3>3. PICK x : x = Append(got.client, <<r.msg.tag, r.msg.n>>)
      OBVIOUS
    <3>4. got' = [got EXCEPT !.client = x]
      BY <3>2, <3>3 DEF ClientDeliver
    <3>5. got'.client = x /\ got'.server = got.server /\ DOMAIN got' = DOMAIN got
      BY <1>1, <3>4
    <3>6. x = Numbered("server", w + 1)
      <4>1. <<r.msg.tag, r.msg.n>> = <<"server", w + 1>>
        BY <1>8, <2>3, <3>1
      <4> QED BY <2>1, <3>1, <3>3, <4>1, DeliveredNext
    <3> QED BY <3>1, <3>5, <3>6 DEF GotClient
  <2> QED BY <2>2, <2>3
<1>17. ClientAt(y, c, sent.early, sent.client, v)
  <2>1. q + 1 \in Nat
    OBVIOUS
  <2> QED BY <1>4, <1>12, <1>15, <2>1 DEF ClientAt, ClientMiddle
<1>18. Always(y, c, sv, sent.early, sent.client)
  BY <1>2, <1>12 DEF Always, ClientStates, ClientMiddle
<1>19. FromServer(y, c, sv, sent.server, al, toClient')
  <2>1. c.dec.seq = q + 1 /\ q + 1 <= y.tickets + sent.server
    BY <1>1, <1>3, <1>6, <1>12, CtxFields
  <2>2. toClient' = Run(y.server, q + 1, y.tickets + sent.server) \o al
    BY <1>6, <1>11
  <2> QED BY <1>12, <2>1, <2>2 DEF FromServer
<1>20. Grows(y, "post", sent.early, sent.client, "post", sent.early, sent.client, <<>>)
  BY <1>1, GrowsSame
<1>21. Grows(y, cl.state, sent.early, sent.client, cl'.state, sent.early, sent.client, <<>>)
  BY <1>12, <1>14, <1>20
<1>22. /\ ClientAt(y, cl', sent.early, sent.client, v) /\ cl'.error = "none"
       /\ Always(y, cl', sv, sent.early, sent.client)
       /\ FromServer(y, cl', sv, sent.server, al, toClient')
  BY <1>12, <1>14, <1>17, <1>18, <1>19
<1> QED BY <1>14, <1>16, <1>21, <1>22 DEF ClientMoves

(* Whatever record comes next, the client stops or goes on with the story. *)
LEMMA ClientReceiveMoves ==
  ASSUME NEW y, NEW al, NEW w, ClientKnows(y, al, w), ClientReceive,
         FromServer(y, cl, sv, sent.server, al, toClient)
  PROVE  ClientStops \/ ClientMoves(y, al)
<1>1. /\ Flags(y) /\ cfg \in Config /\ IsSeq(al) /\ sent.server \in Nat
      /\ ClientAt(y, cl, sent.early, sent.client, w)
      /\ Always(y, cl, sv, sent.early, sent.client)
  BY DEF ClientKnows, Story, Counted
<1>2. toClient # <<>>
  BY ClientTakesOff
<1>3. cl.state \in ClientStates /\ (cl.state = "expect_fin" => sv.state \in Flown)
  BY <1>1 DEF Always
<1>4. /\ cl.state \in {"expect_cr_or_cert", "expect_cert", "expect_cv"} => ~y.found
      /\ cl.state = "expect_cert" => y.auth
      /\ cl.state = "post" => cl.dec.seq \in Nat
  BY <1>1, CtxFields DEF ClientAt
<1>5. ClientReads(y, cl, sv, sent.server, al, toClient)
  BY <1>1, <1>2, <1>3, <1>4, ClientReadsNext
<1>6. CASE al # <<>> /\ toClient = al
  BY <1>6, ClientReadsAlert
<1>7. CASE /\ cl.state = "expect_sh" /\ sv.retries = 1
           /\ Starts(toClient, y.rhrr, SRetryCcs(y, sv.state, sent.server) \o al)
  BY <1>7, ClientReadsRetry
<1>8. CASE /\ cl.state = "expect_sh" /\ sv.retries # 1 /\ sv.state \notin Unanswered
           /\ Starts(toClient, y.rsh, SCcs(y, sv.state, sent.server) \o al)
  BY <1>8, ClientReadsHello
<1>9. CASE /\ cl.state = "expect_sh2"
           /\ Starts(toClient, CcsRec, SHello(y, sv.state, sent.server) \o al)
  BY <1>9, ClientReadsCcs
<1>10. CASE /\ cl.state = "expect_sh2" /\ sv.state \notin Unanswered
            /\ Starts(toClient, y.rsh, SCcs(y, sv.state, sent.server) \o al)
  BY <1>10, ClientReadsHello
<1>11. CASE cl.state = "expect_ee" /\ Starts(toClient, CcsRec, SExt(y, sv.state, sent.server) \o al)
  BY <1>11, ClientReadsCcs
<1>12. CASE cl.state = "expect_ee" /\ Starts(toClient, y.ree, SRequest(y, sv.state, sent.server) \o al)
  BY <1>12, ClientReadsExtensions
<1>13. CASE /\ cl.state = "expect_cr_or_cert" /\ y.auth
            /\ Starts(toClient, y.rcr, SCert(y, sv.state, sent.server) \o al)
  BY <1>13, ClientReadsRequest
<1>14. CASE /\ cl.state = "expect_cert" \/ (cl.state = "expect_cr_or_cert" /\ ~y.auth)
            /\ Starts(toClient, y.rcert, SVerify(y, sv.state, sent.server) \o al)
  BY <1>14, ClientReadsCertificate
<1>15. CASE /\ cl.state = "expect_cv" /\ sv.state \in Flown
            /\ Starts(toClient, y.rcv, SFin(y, sv.state, sent.server) \o al)
  BY <1>15, ClientReadsVerify
<1>16. CASE /\ cl.state = "expect_fin" /\ sv.state \in Flown
            /\ Starts(toClient, y.rfin, Run(y.server, 0, y.tickets + sent.server) \o al)
  BY <1>16, ClientReadsFinished
<1>17. CASE /\ cl.state = "post" /\ cl.dec.seq < y.tickets + sent.server
            /\ Starts(toClient, y.server[cl.dec.seq],
                      Run(y.server, cl.dec.seq + 1, y.tickets + sent.server) \o al)
  BY <1>17, ClientReadsSeries
<1> QED BY <1>5, <1>6, <1>7, <1>8, <1>9, <1>10, <1>11, <1>12, <1>13, <1>14, <1>15, <1>16, <1>17
        DEF ClientReads

-----------------------------------------------------------------------------
(* A step of the client, and what the server will read. *)

(* The server's side when the client goes on. *)
LEMMA ServerSideMoves ==
  ASSUME NEW y, NEW c, NEW d, NEW s, NEW n \in Nat, NEW m \in Nat, NEW n2 \in Nat, NEW m2 \in Nat,
         NEW ms, NEW g, NEW wire, NEW out, c.error = "none", d.error = "none", c.state # "start",
         Always(y, c, s, n, m), Grows(y, c.state, n, m, d.state, n2, m2, out),
         c.state = "post" => n2 = n, ServerSide(y, c, s, n, m, ms, g, wire)
  PROVE  ServerSide(y, d, s, n2, m2, ms, g, wire \o out)
<1>1. PICK a, b : /\ GotServer(y, c, s, g, n, m, a, b)
                  /\ s.error = "none" =>
                       /\ ServerAt(y, s, n, ms, a, b)
                       /\ \E al : ClientAlert(c, al) /\ FromClient(y, s, c.state, n, m, a, b, al, wire)
  BY DEF ServerSide
<1>2. n <= n2 /\ m <= m2 /\ (c.state = "post" => d.state = "post")
  BY DEF Grows
<1>3. GotServer(y, d, s, g, n2, m2, a, b)
  BY <1>1, <1>2 DEF GotServer
<1>4. ASSUME s.error = "none"
      PROVE  /\ ServerAt(y, s, n2, ms, a, b)
             /\ \E al : ClientAlert(d, al) /\ FromClient(y, s, d.state, n2, m2, a, b, al, wire \o out)
  <2>1. ServerAt(y, s, n, ms, a, b)
    BY <1>1, <1>4
  <2>2. /\ s.state \notin Unanswered /\ y.retry => c.state # "expect_sh"
        /\ s.state \in {"expect_cv", "post"} => c.state = "post"
        /\ s.state = "expect_fin" /\ (y.accept \/ y.auth) => c.state = "post"
    BY DEF Always
  <2>3. s.state \in {"expect_fin", "post"} /\ y.accept => n2 = n
    BY <2>2
  <2>4. ServerAt(y, s, n2, ms, a, b)
    BY <2>1, <2>3 DEF ServerAt
  <2>5. PICK al : ClientAlert(c, al) /\ FromClient(y, s, c.state, n, m, a, b, al, wire)
    BY <1>1, <1>4
  <2>6. al = <<>>
    BY <2>5 DEF ClientAlert
  <2>7. FromClient(y, s, c.state, n, m, a, b, <<>>, wire)
    BY <2>5, <2>6
  <2>8. /\ s.state = "post" => b \in 0 .. m
        /\ s.state = "expect_eoed" => a \in 0 .. n
    BY <1>1 DEF GotServer
  <2>9. FromClient(y, s, d.state, n2, m2, a, b, <<>>, wire \o out)
    BY <2>2, <2>7, <2>8, ClientGrows
  <2>10. ClientAlert(d, <<>>)
    BY DEF ClientAlert
  <2> QED BY <2>4, <2>9, <2>10
<1> QED BY <1>3, <1>4 DEF ServerSide

(* The server's side when the client fails. *)
LEMMA ServerSideStops ==
  ASSUME NEW y, NEW c, NEW d, NEW s, NEW n \in Nat, NEW m \in Nat, NEW ms, NEW g, NEW wire, NEW out,
         c.error = "none", c.state # "start", d.state = c.state, IsSeq(out),
         s.error = "none" => ClientAlert(d, out), ServerSide(y, c, s, n, m, ms, g, wire)
  PROVE  ServerSide(y, d, s, n, m, ms, g, wire \o out)
<1>1. PICK a, b : /\ GotServer(y, c, s, g, n, m, a, b)
                  /\ s.error = "none" =>
                       /\ ServerAt(y, s, n, ms, a, b)
                       /\ \E al : ClientAlert(c, al) /\ FromClient(y, s, c.state, n, m, a, b, al, wire)
  BY DEF ServerSide
<1>2. GotServer(y, d, s, g, n, m, a, b)
  BY <1>1 DEF GotServer
<1>3. ASSUME s.error = "none"
      PROVE  \E al : ClientAlert(d, al) /\ FromClient(y, s, d.state, n, m, a, b, al, wire \o out)
  <2>1. PICK al : ClientAlert(c, al) /\ FromClient(y, s, c.state, n, m, a, b, al, wire)
    BY <1>1, <1>3
  <2>2. al = <<>>
    BY <2>1 DEF ClientAlert
  <2>3. FromClient(y, s, c.state, n, m, a, b, <<>>, wire)
    BY <2>1, <2>2
  <2>4. /\ s.state = "post" => b \in 0 .. m
        /\ s.state = "expect_eoed" => a \in 0 .. n
    BY <1>1 DEF GotServer
  <2>5. FromClient(y, s, c.state, n, m, a, b, out, wire \o out)
    BY <2>3, <2>4, ClientAppends
  <2> QED BY <1>3, <2>5
<1> QED BY <1>1, <1>2, <1>3 DEF ServerSide

(* The invariant after a step that leaves the configuration alone, by its parts. *)
SyncNext(y) ==
    /\ Always(y, cl', sv', sent'.early, sent'.client)
    /\ ClientSide(y, cl', sv', sent'.early, sent'.client, sent'.server, got'.client, toClient')
    /\ ServerSide(y, cl', sv', sent'.early, sent'.client, sent'.server, got'.server, toServer')
    /\ cfg' = cfg
    /\ sent'.early \in Nat /\ sent'.client \in Nat /\ sent'.server \in Nat
    /\ DOMAIN sent' = {"early", "client", "server"} /\ DOMAIN got' = {"client", "server"}

(* Those parts make up the invariant. *)
LEMMA SyncNextHolds ==
  ASSUME NEW y, SyncAt(y), SyncNext(y)
  PROVE  Counted' /\ SyncAt(y)'
<1>1. Story(y)'
  BY StoryStays DEF SyncAt, SyncNext
<1> QED BY <1>1 DEF SyncNext, SyncAt, Counted

(* What the invariant says of a client that has not failed. *)
LEMMA ClientIsKnown ==
  ASSUME SyncInv, NEW y, SyncAt(y), cl.error = "none", cl.state # "start"
  PROVE  \E al, w : ClientKnows(y, al, w) /\ FromServer(y, cl, sv, sent.server, al, toClient)
<1>1. /\ Story(y) /\ Always(y, cl, sv, sent.early, sent.client) /\ Counted
      /\ ClientSide(y, cl, sv, sent.early, sent.client, sent.server, got.client, toClient)
  BY DEF SyncAt, SyncInv
<1>2. cfg \in Config /\ Shape(cl, ClientFields)
  BY HandshakeAssumption DEF SyncInv, HandshakeInv, ClientOK
<1>3. PICK w : /\ GotClient(got.client, sent.server, w)
               /\ ClientAt(y, cl, sent.early, sent.client, w)
               /\ \E al : ServerAlert(sv, al) /\ FromServer(y, cl, sv, sent.server, al, toClient)
  BY <1>1 DEF ClientSide
<1>4. PICK al : ServerAlert(sv, al) /\ FromServer(y, cl, sv, sent.server, al, toClient)
  BY <1>3
<1>5. IsSeq(al)
  BY <1>4, ShortSeq DEF ServerAlert
<1>6. ClientKnows(y, al, w)
  BY <1>1, <1>2, <1>3, <1>4, <1>5 DEF ClientKnows
<1> QED BY <1>4, <1>6

(* The client reads a record. *)
LEMMA ClientReceiveSync ==
  ASSUME SyncInv, NEW y, SyncAt(y), ClientReceive
  PROVE  SyncNext(y)
<1>1. cl.error = "none" /\ cl.state # "start" /\ cfg' = cfg /\ sv' = sv /\ sent' = sent
  BY ClientTakesOff DEF ClientReceive
<1>2. PICK al, w : ClientKnows(y, al, w) /\ FromServer(y, cl, sv, sent.server, al, toClient)
  BY <1>1, ClientIsKnown
<1>3. ClientStops \/ ClientMoves(y, al)
  BY <1>2, ClientReceiveMoves
<1>4. /\ sent.early \in Nat /\ sent.client \in Nat /\ sent.server \in Nat
      /\ DOMAIN sent = {"early", "client", "server"} /\ DOMAIN got = {"client", "server"}
  BY <1>2 DEF ClientKnows, Counted
<1>5. /\ Always(y, cl, sv, sent.early, sent.client) /\ GotClient(got.client, sent.server, w)
      /\ ServerAlert(sv, al)
  BY <1>2 DEF ClientKnows
<1>6. ServerSide(y, cl, sv, sent.early, sent.client, sent.server, got.server, toServer)
  BY DEF SyncAt
<1>7. CASE ClientStops
  <2>1. /\ cl'.state = cl.state /\ cl'.done = cl.done /\ cl'.error # "none" /\ got' = got
    BY <1>7 DEF ClientStops
  <2>2. PICK o : toServer' = toServer \o o /\ IsSeq(o) /\ (sv.error = "none" => ClientAlert(cl', o))
    BY <1>7 DEF ClientStops
  <2>3. Always(y, cl', sv, sent.early, sent.client)
    BY <1>1, <1>5, <2>1 DEF Always
  <2>4. ClientSide(y, cl', sv, sent.early, sent.client, sent.server, got.client, toClient')
    BY <1>5, <2>1 DEF ClientSide
  <2>5. ServerSide(y, cl', sv, sent.early, sent.client, sent.server, got.server, toServer')
    BY <1>1, <1>4, <1>6, <2>1, <2>2, ServerSideStops
  <2> QED BY <1>1, <1>4, <2>1, <2>3, <2>4, <2>5 DEF SyncNext
<1>8. CASE ClientMoves(y, al)
  <2>1. /\ cl'.error = "none" /\ Always(y, cl', sv, sent.early, sent.client)
        /\ FromServer(y, cl', sv, sent.server, al, toClient')
    BY <1>8 DEF ClientMoves
  <2>2. PICK v : /\ ClientAt(y, cl', sent.early, sent.client, v)
                 /\ GotClient(got'.client, sent.server, v) /\ got'.server = got.server
                 /\ DOMAIN got' = DOMAIN got
    BY <1>8 DEF ClientMoves
  <2>3. PICK out : /\ toServer' = toServer \o out
                   /\ Grows(y, cl.state, sent.early, sent.client,
                            cl'.state, sent.early, sent.client, out)
    BY <1>8 DEF ClientMoves
  <2>4. ClientSide(y, cl', sv, sent.early, sent.client, sent.server, got'.client, toClient')
    BY <1>5, <2>1, <2>2 DEF ClientSide
  <2>5. PICK c, d : c = cl /\ d = cl'
    OBVIOUS
  <2>6. ServerSide(y, d, sv, sent.early, sent.client, sent.server, got.server, toServer')
    BY <1>1, <1>4, <1>5, <1>6, <2>1, <2>3, <2>5, ServerSideMoves
  <2> QED BY <1>1, <1>4, <2>1, <2>2, <2>4, <2>5, <2>6 DEF SyncNext
<1> QED BY <1>3, <1>7, <1>8

(* Application data of the client. *)
LEMMA ClientSendSync ==
  ASSUME SyncInv, NEW y, SyncAt(y), NEW tag \in {"early", "client"}, ClientSend(tag)
  PROVE  SyncNext(y)
<1>1. /\ cl.error = "none" /\ cfg' = cfg /\ sv' = sv /\ toClient' = toClient /\ got' = got
      /\ toServer' = toServer \o Seal(cl.enc, <<Data(tag)>>)
      /\ cl' = [cl EXCEPT !.enc = Used(@, 1)] /\ sent' = [sent EXCEPT ![tag] = @ + 1]
  BY DEF ClientSend
<1>2. /\ sent.early \in Nat /\ sent.client \in Nat /\ sent.server \in Nat
      /\ DOMAIN sent = {"early", "client", "server"} /\ DOMAIN got = {"client", "server"}
      /\ Flags(y) /\ Keys(y) /\ Series(y)
      /\ Always(y, cl, sv, sent.early, sent.client)
      /\ ServerSide(y, cl, sv, sent.early, sent.client, sent.server, got.server, toServer)
  BY DEF SyncInv, Counted, SyncAt, Story
<1>3. PICK w : /\ GotClient(got.client, sent.server, w)
               /\ ClientAt(y, cl, sent.early, sent.client, w)
               /\ \E al : ServerAlert(sv, al) /\ FromServer(y, cl, sv, sent.server, al, toClient)
  BY <1>1 DEF SyncAt, ClientSide
<1>4. PICK al : ServerAlert(sv, al) /\ FromServer(y, cl, sv, sent.server, al, toClient)
  BY <1>3
<1>5. DOMAIN cl = ClientFields
  BY DEF SyncInv, HandshakeInv, ClientOK, Shape
<1>6. /\ y.ke.label = "c e" /\ y.kch.label = "c hs" /\ NoKey.label = "none" /\ y.ke # NoKey
      /\ y.kca # NoKey
  BY <1>2, KeyLabels, KeysDiffer
<1>7. PICK n, m : n = sent.early /\ m = sent.client
  OBVIOUS
<1>8. PICK d : d = cl'
  OBVIOUS
<1>9. ASSUME NEW k, NEW q \in Nat, k # NoKey, cl.enc = Ctx(k, q)
      PROVE  /\ toServer' = toServer \o <<Wire(k, q, DataMsg(tag, sent[tag] + 1), NoMac)>>
             /\ d.enc = Ctx(k, q + 1) /\ d.dec = cl.dec /\ d.pending = cl.pending
             /\ d.sched = cl.sched /\ d.share = cl.share /\ d.usingEarly = cl.usingEarly
             /\ d.offeredPsk = cl.offeredPsk /\ d.isPsk = cl.isPsk /\ d.certReq = cl.certReq
             /\ d.ccs = cl.ccs /\ d.state = cl.state /\ d.done = cl.done /\ d.error = cl.error
  <2>1. PICK e : e = Used(cl.enc, 1)
    OBVIOUS
  <2>2. e = Ctx(k, q + 1)
    BY <1>9, <2>1, CtxUsed
  <2>3. d = [cl EXCEPT !.enc = e]
    BY <1>1, <1>8, <2>1
  <2>4. Data(tag) = Item(DataMsg(tag, sent[tag] + 1), NoMac)
    BY DEF Data, DataMsg
  <2>5. Seal(Ctx(k, q), <<Item(DataMsg(tag, sent[tag] + 1), NoMac)>>)
          = <<Wire(k, SeqNo(k, q), DataMsg(tag, sent[tag] + 1), NoMac)>>
    BY SealSingle
  <2>6. SeqNo(k, q) = q
    BY <1>9 DEF SeqNo
  <2>7. toServer' = toServer \o <<Wire(k, q, DataMsg(tag, sent[tag] + 1), NoMac)>>
    BY <1>1, <1>9, <2>4, <2>5, <2>6
  <2>8. /\ d.enc = e /\ d.dec = cl.dec /\ d.pending = cl.pending
        /\ d.sched = cl.sched /\ d.share = cl.share /\ d.usingEarly = cl.usingEarly
        /\ d.offeredPsk = cl.offeredPsk /\ d.isPsk = cl.isPsk /\ d.certReq = cl.certReq
        /\ d.ccs = cl.ccs /\ d.state = cl.state /\ d.done = cl.done /\ d.error = cl.error
    BY <1>5, <2>3 DEF ClientFields
  <2> QED BY <2>2, <2>7, <2>8
<1>10. ASSUME NEW n2 \in Nat, NEW m2 \in Nat, NEW out, cl.state # "start",
              sent'.early = n2, sent'.client = m2, sent'.server = sent.server,
              DOMAIN sent' = {"early", "client", "server"},
              toServer' = toServer \o out, Always(y, d, sv, n2, m2),
              ClientAt(y, d, n2, m2, w), d.state = cl.state, d.dec = cl.dec, d.error = "none",
              Grows(y, cl.state, n, m, d.state, n2, m2, out), cl.state = "post" => n2 = n
       PROVE  SyncNext(y)
  <2>1. FromServer(y, d, sv, sent.server, al, toClient)
    BY <1>4, <1>10 DEF FromServer
  <2>2. ClientSide(y, d, sv, n2, m2, sent.server, got.client, toClient)
    BY <1>3, <1>4, <1>10, <2>1 DEF ClientSide
  <2>3. PICK c : c = cl
    OBVIOUS
  <2>4. ServerSide(y, d, sv, n2, m2, sent.server, got.server, toServer \o out)
    BY <1>1, <1>2, <1>7, <1>10, <2>3, ServerSideMoves
  <2> QED BY <1>1, <1>2, <1>8, <1>10, <2>2, <2>4 DEF SyncNext
<1>11. CASE tag = "early"
  <2>1. cl.usingEarly /\ cl.enc.key.label = "c e"
    BY <1>11 DEF ClientSend
  <2>2. /\ cl.state \notin {"start", "post"} /\ cl.enc = Ctx(y.ke, n) /\ y.asks
        /\ y.retry => cl.state = "expect_sh"
    <3>1. cl.state \notin {"start", "expect_sh2", "post"}
      BY <1>3, <2>1 DEF ClientAt
    <3>2. CASE cl.state = "expect_sh"
      BY <1>3, <1>7, <2>1, <3>2 DEF ClientAt
    <3>3. CASE cl.state \in ClientMiddle
      <4>1. cl.enc = (IF Pends(y) THEN Ctx(y.ke, n) ELSE Ctx(y.kch, 0))
        BY <1>3, <1>7, <3>3 DEF ClientAt
      <4>2. Ctx(y.kch, 0).key = y.kch
        BY CtxFields
      <4>3. Pends(y)
        BY <1>6, <2>1, <4>1, <4>2
      <4> QED BY <3>1, <4>1, <4>3 DEF Pends
    <3> QED BY <1>2, <3>1, <3>2, <3>3 DEF Always, ClientStates, ClientMiddle
  <2>3. n \in Nat /\ m \in Nat /\ n + 1 \in Nat
    BY <1>2, <1>7
  <2>4. /\ toServer' = toServer \o <<Wire(y.ke, n, DataMsg("early", n + 1), NoMac)>>
        /\ d.enc = Ctx(y.ke, n + 1) /\ d.dec = cl.dec /\ d.pending = cl.pending
        /\ d.sched = cl.sched /\ d.share = cl.share /\ d.usingEarly = cl.usingEarly
        /\ d.offeredPsk = cl.offeredPsk /\ d.isPsk = cl.isPsk /\ d.certReq = cl.certReq
        /\ d.ccs = cl.ccs /\ d.state = cl.state /\ d.done = cl.done /\ d.error = cl.error
    BY <1>6, <1>7, <1>9, <1>11, <2>2, <2>3
  <2>5. sent'.early = n + 1 /\ sent'.client = m /\ sent'.server = sent.server
        /\ DOMAIN sent' = {"early", "client", "server"}
    BY <1>1, <1>2, <1>7, <1>11
  <2>6. y.early[n] = Wire(y.ke, n, DataMsg("early", n + 1), NoMac)
    BY <1>2, <2>3 DEF Series
  <2>7. Grows(y, cl.state, n, m, d.state, n + 1, m, <<y.early[n]>>)
    BY <2>2, <2>3, <2>4, GrowsByEarly
  <2>8. ClientAt(y, d, n + 1, m, w)
    <3>1. ClientAt(y, cl, n, m, w)
      BY <1>3, <1>7
    <3>2. cl.state \in ClientMiddle => Pends(y)
      <4>1. Ctx(y.kch, 0).key = y.kch
        BY CtxFields
      <4> QED BY <1>6, <2>1, <3>1, <4>1 DEF ClientAt
    <3> QED BY ZenonT(60), <2>2, <2>4, <3>1, <3>2 DEF ClientAt, ClientMiddle
  <2>9. Always(y, d, sv, n + 1, m)
    BY <1>1, <1>2, <1>7, <2>2, <2>4 DEF Always
  <2> QED BY <1>1, <1>10, <2>2, <2>3, <2>4, <2>5, <2>6, <2>7, <2>8, <2>9
<1>12. CASE tag = "client"
  <2>1. cl.state = "post"
    BY <1>2, <1>12 DEF ClientSend, Always
  <2>2. cl.enc = Ctx(y.kca, m) /\ n \in Nat /\ m \in Nat /\ m + 1 \in Nat
    BY <1>2, <1>3, <1>7, <2>1 DEF ClientAt
  <2>4. /\ toServer' = toServer \o <<Wire(y.kca, m, DataMsg("client", m + 1), NoMac)>>
        /\ d.enc = Ctx(y.kca, m + 1) /\ d.dec = cl.dec /\ d.usingEarly = cl.usingEarly
        /\ d.offeredPsk = cl.offeredPsk
        /\ d.state = cl.state /\ d.done = cl.done /\ d.error = cl.error
    BY <1>6, <1>7, <1>9, <1>12, <2>2
  <2>5. sent'.early = n /\ sent'.client = m + 1 /\ sent'.server = sent.server
        /\ DOMAIN sent' = {"early", "client", "server"}
    BY <1>1, <1>2, <1>7, <1>12
  <2>6. y.client[m] = Wire(y.kca, m, DataMsg("client", m + 1), NoMac)
    BY <1>2, <2>2 DEF Series
  <2>7. Grows(y, cl.state, n, m, d.state, n, m + 1, <<y.client[m]>>)
    BY <2>1, <2>2, <2>4, GrowsByData
  <2>8. ClientAt(y, d, n, m + 1, w)
    <3>1. ClientAt(y, cl, n, m, w)
      BY <1>3, <1>7
    <3> QED BY <2>1, <2>4, <3>1 DEF ClientAt, ClientMiddle
  <2>9. Always(y, d, sv, n, m + 1)
    BY <1>1, <1>2, <1>7, <2>1, <2>4 DEF Always
  <2> QED BY <1>1, <1>10, <2>1, <2>2, <2>4, <2>5, <2>6, <2>7, <2>8, <2>9
<1> QED BY <1>11, <1>12

(* The first ClientHello, as a stream. *)
LEMMA HelloStream ==
  ASSUME NEW y
  PROVE  CHello(y, "expect_sh", 0, 0) \o <<>> = <<y.rch1>> \o Opt(y.compat /\ y.asks, CcsRec)
<1>1. 0 \in Nat /\ 0 <= 0
  OBVIOUS
<1>2. Run(y.early, 0, 0) = <<>>
  BY <1>1, RunSeq, ZenonT(30)
<1>3. CEnd(y, "expect_sh", 0, 0) = <<>>
  BY DEF CEnd
<1>4. CRetry(y, "expect_sh", 0, 0) = <<>> \o <<>>
  BY <1>3 DEF CRetry, Opt
<1>5. IsSeq(<<>>) /\ IsSeq(<<y.rch1>>) /\ IsSeq(Opt(y.compat /\ y.asks, CcsRec))
  BY ShortSeq, OptSeq
<1>6. <<>> \o <<>> = <<>>
  BY <1>5, CatNone
<1>7. CEarly(y, 0, "expect_sh", 0, 0) = <<>>
  BY <1>2, <1>4, <1>6 DEF CEarly
<1>8. CCcs(y, "expect_sh", 0, 0) = Opt(y.compat /\ y.asks, CcsRec)
  BY <1>5, <1>7, CatNone DEF CCcs
<1>9. IsSeq(CHello(y, "expect_sh", 0, 0))
  BY <1>1, ClientStreams
<1> QED BY <1>8, <1>9, CatNone DEF CHello

(* The client starts. *)
LEMMA ClientStartSync ==
  ASSUME SyncInv, NEW y, SyncAt(y), ClientStart
  PROVE  SyncNext(y)
<1>1. /\ cl.state = "start" /\ cfg' = cfg /\ sv' = sv /\ toClient' = toClient /\ got' = got
      /\ sent' = sent
  BY DEF ClientStart
<1>2. /\ sent.early \in Nat /\ sent.client \in Nat /\ sent.server \in Nat
      /\ DOMAIN sent = {"early", "client", "server"} /\ DOMAIN got = {"client", "server"}
      /\ Flags(y) /\ Hellos(y) /\ Keys(y) /\ Records(y) /\ cfg \in Config
      /\ Always(y, cl, sv, sent.early, sent.client)
      /\ ServerSide(y, cl, sv, sent.early, sent.client, sent.server, got.server, toServer)
  BY HandshakeAssumption DEF SyncInv, HandshakeInv, Counted, SyncAt, Story
<1>3. /\ cl.error = "none" /\ sv.error = "none" /\ sent.client = 0 /\ cl.done = FALSE
      /\ sv.state \in Unanswered /\ sv.retries = 0
  BY <1>1, <1>2 DEF Always
<1>4. PICK w : /\ GotClient(got.client, sent.server, w)
               /\ ClientAt(y, cl, sent.early, sent.client, w)
               /\ \E al : ServerAlert(sv, al) /\ FromServer(y, cl, sv, sent.server, al, toClient)
  BY <1>3 DEF SyncAt, ClientSide
<1>5. /\ cl.enc = NoProtection /\ cl.dec = NoProtection /\ cl.pending = NoKey
      /\ cl.sched = EmptySchedule /\ cl.usingEarly = FALSE /\ cl.certReq = FALSE
      /\ cl.ccs = y.compat /\ sent.early = 0 /\ toClient = <<>> /\ w = 0
  BY <1>1, <1>4 DEF ClientAt, FromServer
<1>6. DOMAIN cl = ClientFields
  BY DEF SyncInv, HandshakeInv, ClientOK, Shape
<1>7. y.compat \in BOOLEAN /\ y.asks \in BOOLEAN
  BY <1>2, FlagTypes
<1>8. /\ y.id = Identity /\ y.asks = (cfg.early /\ Identity # "none")
      /\ y.share1 = IF Identity = "ticket" THEN cfg.ticketGroup
                    ELSE IF cfg.negotiateFirst THEN "none" ELSE "g1"
      /\ y.psk1 = IF Identity = "none" THEN "zero" ELSE Identity
  BY <1>2 DEF Flags, Hellos
<1>9. PICK c : c = [cl EXCEPT !.offeredPsk = Identity # "none",
                           !.usingEarly = cfg.early /\ Identity # "none",
                           !.share = IF Identity = "ticket" THEN cfg.ticketGroup
                                     ELSE IF cfg.negotiateFirst THEN "none" ELSE "g1",
                           !.sched.psk = IF Identity = "none" THEN "zero" ELSE Identity]
  OBVIOUS
<1>10. PICK h : h = SentHello(c, <<>>, "expect_sh")
  OBVIOUS
<1>11. cl' = h.tls /\ toServer' = toServer \o h.out
  BY <1>9, <1>10 DEF ClientStart
<1>12. PICK sc : sc = [psk |-> y.psk1, dhe |-> "unset", th |-> <<>>]
  OBVIOUS
<1>13. [EmptySchedule EXCEPT !.psk = y.psk1] = sc
  BY <1>12 DEF EmptySchedule
<1>14. PICK o \in BOOLEAN : o = (Identity # "none")
  OBVIOUS
<1>15. c = [cl EXCEPT !.offeredPsk = o, !.usingEarly = y.asks, !.share = y.share1, !.sched = sc]
  <2>1. [cl.sched EXCEPT !.psk = y.psk1] = sc
    BY <1>5, <1>13
  <2> QED BY <1>6, <1>8, <1>9, <1>14, <2>1 DEF ClientFields
<1>16. /\ DOMAIN c = ClientFields /\ c.offeredPsk = o /\ c.usingEarly = y.asks /\ c.share = y.share1
       /\ c.sched = sc /\ c.enc = NoProtection /\ c.dec = NoProtection /\ c.pending = NoKey
       /\ c.certReq = FALSE /\ c.ccs = y.compat /\ c.done = FALSE /\ c.error = "none"
  BY <1>3, <1>5, <1>6, <1>15 DEF ClientFields
<1>17. ClientHello(c, <<>>) = y.ch1
  BY <1>2, <1>8, <1>16 DEF ClientHello, Hellos
<1>18. Hash(sc, <<y.ch1>>) = y.s1
  <2>1. Hash([psk |-> y.psk1, dhe |-> "unset", th |-> <<>>], <<y.ch1>>)
           = [psk |-> y.psk1, dhe |-> "unset", th |-> <<>> \o <<y.ch1>>]
    BY HashRecord
  <2>2. <<>> \o <<y.ch1>> = <<y.ch1>>
    BY ShortSeq, CatNone
  <2>3. y.s1 = [psk |-> y.psk1, dhe |-> "unset", th |-> <<y.ch1>>]
    BY <1>2 DEF Hellos
  <2> QED BY <1>12, <2>1, <2>2, <2>3
<1>19. PICK m, s, ck, st : m = y.ch1 /\ s = y.s1 /\ ck = <<>> /\ st = "expect_sh"
  OBVIOUS
<1>20. HelloSent(h, c, m, s, st)
  BY <1>7, <1>10, <1>16, <1>17, <1>18, <1>19, SentHelloIs
<1>21. PICK d : d = cl'
  OBVIOUS
<1>22. /\ d.sched = y.s1 /\ d.state = "expect_sh"
       /\ d.enc = (IF y.asks THEN Ctx(y.ke, 0) ELSE NoProtection)
       /\ d.ccs = (y.compat /\ ~y.asks) /\ d.dec = NoProtection /\ d.pending = NoKey
       /\ d.share = y.share1 /\ d.usingEarly = y.asks /\ d.offeredPsk = o /\ d.certReq = FALSE
       /\ d.done = FALSE /\ d.error = "none"
  <2>1. Key("c e", y.s1) = y.ke
    BY <1>2 DEF Keys
  <2> QED BY <1>11, <1>16, <1>19, <1>20, <1>21, <2>1 DEF HelloSent
<1>23. h.out = <<y.rch1>> \o Opt(y.compat /\ y.asks, CcsRec)
  <2>1. Wire(NoKey, 0, y.ch1, IF Identity = "none" THEN NoMac ELSE Binder(y.s1)) = y.rch1
    BY <1>2, <1>8 DEF Records
  <2>2. h.out = <<Wire(NoKey, 0, m, IF Identity = "none" THEN NoMac ELSE Binder(s))>>
                \o Opt(c.ccs /\ c.usingEarly, CcsRec)
    BY <1>20 DEF HelloSent
  <2> QED BY <1>16, <1>19, <2>1, <2>2
<1>24. ClientAt(y, d, sent.early, sent.client, 0)
  BY <1>3, <1>5, <1>8, <1>14, <1>22 DEF ClientAt, ClientMiddle
<1>25. Always(y, d, sv, sent.early, sent.client)
  BY <1>2, <1>3, <1>5, <1>22 DEF Always, ClientStates, ClientMiddle
<1>26. ClientSide(y, d, sv, sent.early, sent.client, sent.server, got.client, toClient)
  <2>1. SRetry(y, sv.state, sv.retries, sent.server) = <<>>
    BY <1>3 DEF SRetry, SHello
  <2>2. <<>> \o <<>> = <<>>
    BY ShortSeq, CatNone
  <2>3. FromServer(y, d, sv, sent.server, <<>>, toClient)
    BY <1>5, <1>22, <2>1, <2>2 DEF FromServer
  <2>4. ServerAlert(sv, <<>>)
    BY <1>3 DEF ServerAlert
  <2> QED BY <1>4, <1>5, <1>24, <2>3, <2>4 DEF ClientSide
<1>27. ServerSide(y, d, sv, sent.early, sent.client, sent.server, got.server, toServer')
  <2>1. PICK a, b : /\ GotServer(y, cl, sv, got.server, sent.early, sent.client, a, b)
                    /\ ServerAt(y, sv, sent.early, sent.server, a, b)
                    /\ \E al : /\ ClientAlert(cl, al)
                               /\ FromClient(y, sv, cl.state, sent.early, sent.client, a, b, al, toServer)
    BY <1>2, <1>3 DEF ServerSide
  <2>2. GotServer(y, d, sv, got.server, sent.early, sent.client, a, b)
    BY <1>3, <2>1 DEF GotServer
  <2>3. toServer = <<>>
    BY <1>1, <1>3, <2>1 DEF FromClient
  <2>4. IsSeq(<<y.rch1>>) /\ IsSeq(Opt(y.compat /\ y.asks, CcsRec))
    BY ShortSeq, OptSeq
  <2>5. toServer' = CHello(y, "expect_sh", 0, 0) \o <<>>
    <3>1. IsSeq(<<y.rch1>> \o Opt(y.compat /\ y.asks, CcsRec))
      BY <2>4, CatSeq
    <3>2. <<>> \o (<<y.rch1>> \o Opt(y.compat /\ y.asks, CcsRec))
             = <<y.rch1>> \o Opt(y.compat /\ y.asks, CcsRec)
      BY <3>1, CatNone
    <3>3. CHello(y, "expect_sh", 0, 0) \o <<>> = <<y.rch1>> \o Opt(y.compat /\ y.asks, CcsRec)
      BY HelloStream
    <3> QED BY <1>11, <1>23, <2>3, <3>2, <3>3
  <2>6. FromClient(y, sv, d.state, sent.early, sent.client, a, b, <<>>, toServer')
    <3>1. ~Waits(y, sv)
      BY <1>3 DEF Waits, Unanswered
    <3> QED BY <1>3, <1>5, <1>22, <2>5, <3>1 DEF FromClient, Unanswered
  <2>7. ClientAlert(d, <<>>)
    BY <1>22 DEF ClientAlert
  <2> QED BY <2>1, <2>2, <2>6, <2>7 DEF ServerSide
<1> QED BY <1>1, <1>2, <1>21, <1>25, <1>26, <1>27 DEF SyncNext

-----------------------------------------------------------------------------
(* A step of the server, and what the client will read. *)

(* The client's side when the server goes on. *)
LEMMA ClientSideMoves ==
  ASSUME NEW y, y.tickets \in Nat, NEW c, c.state # "start", NEW s, s.error = "none", NEW t,
         t.error = "none", NEW n, NEW m, NEW ms \in Nat, NEW ms2 \in Nat, ms <= ms2, NEW g, NEW wire,
         NEW out, c.error = "none" => Grown(y, c, s, ms, t, ms2, out),
         ClientSide(y, c, s, n, m, ms, g, wire)
  PROVE  ClientSide(y, c, t, n, m, ms2, g, wire \o out)
<1>1. PICK w : /\ GotClient(g, ms, w)
               /\ c.error = "none" =>
                    /\ ClientAt(y, c, n, m, w)
                    /\ \E al : ServerAlert(s, al) /\ FromServer(y, c, s, ms, al, wire)
  BY DEF ClientSide
<1>2. GotClient(g, ms2, w)
  BY <1>1 DEF GotClient
<1>3. ASSUME c.error = "none"
      PROVE  \E al : ServerAlert(t, al) /\ FromServer(y, c, t, ms2, al, wire \o out)
  <2>1. PICK al : ServerAlert(s, al) /\ FromServer(y, c, s, ms, al, wire)
    BY <1>1, <1>3
  <2>2. al = <<>>
    BY <2>1 DEF ServerAlert
  <2>3. c.state = "post" => c.dec.seq \in Nat
    BY <1>1, <1>3, CtxFields DEF ClientAt
  <2>4. FromServer(y, c, s, ms, <<>>, wire) /\ Grown(y, c, s, ms, t, ms2, out)
    BY <1>3, <2>1, <2>2
  <2>5. FromServer(y, c, t, ms2, <<>>, wire \o out)
    BY <2>3, <2>4, ServerGrows
  <2>6. ServerAlert(t, <<>>)
    BY DEF ServerAlert
  <2> QED BY <2>5, <2>6
<1> QED BY <1>1, <1>2, <1>3 DEF ClientSide

(* The client's side when the server sends nothing, or fails. *)
LEMMA ClientSideStays ==
  ASSUME NEW y, y.tickets \in Nat, NEW c, c.state # "start", NEW s, s.error = "none", NEW t,
         SameStage(s, t), NEW n, NEW m, NEW ms \in Nat, NEW g, NEW wire, NEW out, IsSeq(out),
         c.error = "none" => ServerAlert(t, out), ClientSide(y, c, s, n, m, ms, g, wire)
  PROVE  ClientSide(y, c, t, n, m, ms, g, wire \o out)
<1>1. PICK w : /\ GotClient(g, ms, w)
               /\ c.error = "none" =>
                    /\ ClientAt(y, c, n, m, w)
                    /\ \E al : ServerAlert(s, al) /\ FromServer(y, c, s, ms, al, wire)
  BY DEF ClientSide
<1>2. ASSUME c.error = "none"
      PROVE  FromServer(y, c, t, ms, out, wire \o out)
  <2>1. PICK al : ServerAlert(s, al) /\ FromServer(y, c, s, ms, al, wire)
    BY <1>1, <1>2
  <2>2. al = <<>>
    BY <2>1 DEF ServerAlert
  <2>3. c.state = "post" => c.dec.seq \in Nat
    BY <1>1, <1>2, CtxFields DEF ClientAt
  <2>4. FromServer(y, c, s, ms, <<>>, wire)
    BY <2>1, <2>2
  <2> QED BY <2>3, <2>4, ServerAppends
<1> QED BY <1>1, <1>2 DEF ClientSide

-----------------------------------------------------------------------------
(* The server reads a record. *)

(* What is known of a server that has not failed; al is the alert on its way to it, *)
(* a and b the data delivered.                                                      *)
ServerKnows(y, a, b, al) ==
    /\ Story(y) /\ cfg \in Config /\ Counted
    /\ Shape(sv, ServerFields) /\ sv.error = "none" /\ cl.state # "start"
    /\ Always(y, cl, sv, sent.early, sent.client)
    /\ ServerAt(y, sv, sent.early, sent.server, a, b)
    /\ GotServer(y, cl, sv, got.server, sent.early, sent.client, a, b)
    /\ ClientAlert(cl, al) /\ IsSeq(al)

(* The server fails: the client gets an alert unless it has failed itself. *)
ServerStops ==
    /\ sv'.state = sv.state /\ sv'.retries = sv.retries /\ sv'.accepted = sv.accepted
    /\ sv'.error # "none" /\ got' = got
    /\ \E o : toClient' = toClient \o o /\ IsSeq(o) /\ (cl.error = "none" => ServerAlert(sv', o))

(* The stream of the server s after which it is t. *)
Sends(y, s, t, out) ==
    \/ SameStage(s, t) /\ out = <<>>
    \/ cl.error = "none" => Grown(y, cl, s, sent.server, t, sent.server, out)

(* The server goes on with the story. *)
ServerHas(y, a, b) ==
    /\ ServerAt(y, sv', sent.early, sent.server, a, b)
    /\ GotServer(y, cl, sv', got'.server, sent.early, sent.client, a, b)
    /\ \E al : /\ ClientAlert(cl, al)
               /\ FromClient(y, sv', cl.state, sent.early, sent.client, a, b, al, toServer')

ServerMoves(y) ==
    /\ sv'.error = "none" /\ Always(y, cl, sv', sent.early, sent.client)
    /\ \E a, b : ServerHas(y, a, b)
    /\ got'.client = got.client /\ DOMAIN got' = DOMAIN got
    /\ \E out : toClient' = toClient \o out /\ Sends(y, sv, sv', out)

(* The server's context is one of some key. *)
SealsWith(s) == \E k : \E q \in Nat : s.enc = Ctx(k, q)

(* It always is, while the server has not failed. *)
LEMMA ServerSeals ==
  ASSUME NEW y, y.tickets \in Nat, NEW s, s.state \in ServerStates, NEW n, NEW m \in Nat, NEW a, NEW b,
         Keys(y), ServerAt(y, s, n, m, a, b)
  PROVE  SealsWith(s) /\ s.done \in BOOLEAN
<1>1. NoProtection = Ctx(NoKey, 0) /\ 0 \in Nat /\ y.tickets + m \in Nat
  BY CtxUsed
<1>2. y.ncr + 1 \in Nat
  <2>1. y.ncr = IF y.auth THEN 2 ELSE 1
    BY DEF Keys
  <2> QED BY <2>1
<1>3. CASE s.state \in Unanswered
  <2>1. s.enc = NoProtection /\ s.done = FALSE
    BY <1>3 DEF ServerAt
  <2> QED BY <1>1, <2>1 DEF SealsWith
<1>4. CASE s.state = "generating_cv"
  <2>1. s.enc = Ctx(y.ksh, y.ncr + 1) /\ s.done = FALSE
    BY <1>4 DEF ServerAt
  <2> QED BY <1>2, <2>1 DEF SealsWith
<1>5. CASE s.state \in Flown
  <2>1. s.enc = Ctx(y.ksa, y.tickets + m) /\ s.done = (~y.auth \/ s.state = "post")
    BY <1>5 DEF ServerAt
  <2>2. s.done \in BOOLEAN
    BY <2>1
  <2> QED BY <1>1, <2>1, <2>2 DEF SealsWith
<1> QED BY <1>3, <1>4, <1>5 DEF ServerStates, Unanswered, Flown

(* A handler of the server that fails. *)
LEMMA ServerFailStops ==
  ASSUME NEW s, DOMAIN s = ServerFields, s.state = sv.state, s.retries = sv.retries,
         s.accepted = sv.accepted, s.done \in BOOLEAN, SealsWith(s),
         NEW code, code # "none", ServerFail(s, code), code = "peer_alert" => cl.error # "none",
         got' = got
  PROVE  ServerStops
<1>1. PICK k : \E q \in Nat : s.enc = Ctx(k, q)
  BY DEF SealsWith
<1>2. PICK q \in Nat : s.enc = Ctx(k, q)
  BY <1>1
<1>3. PICK silent \in BOOLEAN : silent <=> (s.done \/ code = "peer_alert")
  OBVIOUS
<1>4. PICK e : e = IF silent THEN s.enc ELSE Used(s.enc, 1)
  OBVIOUS
<1>5. PICK d : d = [s EXCEPT !.error = code, !.enc = e]
  OBVIOUS
<1>6. PICK out : out = IF silent THEN <<>> ELSE Seal(s.enc, <<Alert(code)>>)
  OBVIOUS
<1>7. sv' = d /\ toClient' = toClient \o out
  BY <1>3, <1>4, <1>5, <1>6 DEF ServerFail
<1>8. /\ d.state = s.state /\ d.done = s.done /\ d.error = code /\ d.retries = s.retries
      /\ d.accepted = s.accepted
  BY <1>5 DEF ServerFields
<1>9. CASE silent
  <2>1. out = <<>> /\ IsSeq(out)
    BY <1>6, <1>9, ShortSeq
  <2>2. cl.error = "none" => ServerAlert(d, out)
    BY <1>3, <1>8, <1>9, <2>1 DEF ServerAlert
  <2> QED BY <1>7, <1>8, <2>1, <2>2 DEF ServerStops
<1>10. CASE ~silent
  <2>2. PICK r : r = Wire(k, SeqNo(k, q), [type |-> "alert", code |-> code], NoMac)
    OBVIOUS
  <2>3. out = <<r>>
    BY <1>2, <1>6, <1>10, <2>2, SealSingle DEF Alert
  <2>4. r.msg.type = "alert"
    BY <2>2 DEF Wire
  <2>5. IsSeq(out)
    BY <2>3, ShortSeq
  <2>6. ServerAlert(d, out)
    BY <1>8, <2>3, <2>4 DEF ServerAlert
  <2> QED BY <1>7, <1>8, <2>5, <2>6 DEF ServerStops
<1> QED BY <1>9, <1>10

(* The handlers a record can go to. *)
LEMMA ServerDispatch ==
  ASSUME ServerReceive, NEW r, r = Head(toServer), NEW s, s = [sv EXCEPT !.dec = Read(@, r)]
  PROVE  /\ cfg' = cfg /\ cl' = cl /\ sent' = sent
         /\ \/ (ServerIgnoreCcs(r) \/ ServerSkipEarlyData(r) \/ ServerRefuse(r)) /\ got' = got
            \/ /\ r.msg.type # "ccs" /\ Opens(sv.dec, r) /\ got' = got
               /\ \/ ServerHandleHello(s, r)
                  \/ ServerHandleCertificate(s, r)
                  \/ ServerHandleCertificateVerify(s, r)
                  \/ ServerHandleEndOfEarlyData(s, r)
                  \/ ServerHandleFinished(s, r)
                  \/ ServerHandleAlert(s, r)
            \/ r.msg.type # "ccs" /\ Opens(sv.dec, r) /\ ServerDeliver(s, r)
BY DEF ServerReceive

(* The handler that a record goes to, by its type. *)
ServerHandled(s, r, t) ==
    /\ t # "data" => got' = got
    /\ t = "ch" => ServerHandleHello(s, r)
    /\ t = "cert" => ServerHandleCertificate(s, r)
    /\ t = "cv" => ServerHandleCertificateVerify(s, r)
    /\ t = "eoed" => ServerHandleEndOfEarlyData(s, r)
    /\ t = "fin" => ServerHandleFinished(s, r)
    /\ t = "alert" => ServerHandleAlert(s, r)
    /\ t = "data" => ServerDeliver(s, r)

(* The handler of a record that the server expects. *)
LEMMA ServerHandles ==
  ASSUME ServerReceive, NEW r, r = Head(toServer), NEW s, s = [sv EXCEPT !.dec = Read(@, r)],
         Opens(sv.dec, r), r.msg.type \in ServerTakes(sv.state) \cup {"alert"}, r.msg.type # "ccs"
  PROVE  ServerHandled(s, r, r.msg.type)
<1>1. ~ServerRefuse(r) /\ ~ServerIgnoreCcs(r) /\ ~ServerSkipEarlyData(r)
  BY DEF ServerRefuse, ServerIgnoreCcs, ServerSkipEarlyData, Skips
<1>2. /\ ServerHandleHello(s, r) => r.msg.type = "ch"
      /\ ServerHandleCertificate(s, r) => r.msg.type = "cert"
      /\ ServerHandleCertificateVerify(s, r) => r.msg.type = "cv"
      /\ ServerHandleEndOfEarlyData(s, r) => r.msg.type = "eoed"
      /\ ServerHandleFinished(s, r) => r.msg.type = "fin"
      /\ ServerHandleAlert(s, r) => r.msg.type = "alert"
      /\ ServerDeliver(s, r) => r.msg.type = "data"
  BY DEF ServerHandleHello, ServerHandleCertificate, ServerHandleCertificateVerify,
         ServerHandleEndOfEarlyData, ServerHandleFinished, ServerHandleAlert, ServerDeliver
<1> QED BY <1>1, <1>2, ServerDispatch DEF ServerHandled

(* The server s that a handler finds: the record is open, p its context for reading. *)
ServerMet(s, p) ==
    /\ DOMAIN s = ServerFields /\ s.dec = p /\ s.enc = sv.enc /\ s.pending = sv.pending
    /\ s.pendingAp = sv.pendingAp /\ s.sched = sv.sched /\ s.isPsk = sv.isPsk
    /\ s.skipped = sv.skipped /\ s.accepted = sv.accepted /\ s.retries = sv.retries
    /\ s.ccs = sv.ccs /\ s.state = sv.state /\ s.done = sv.done /\ s.error = "none"
    /\ SealsWith(s) /\ s.done \in BOOLEAN

(* The server as a handler finds it. *)
LEMMA ServerOpened ==
  ASSUME NEW y, NEW a, NEW b, NEW al, ServerKnows(y, a, b, al), NEW p,
         NEW s, s = [sv EXCEPT !.dec = p]
  PROVE  ServerMet(s, p)
<1>1. DOMAIN sv = ServerFields /\ sv.error = "none"
  BY DEF ServerKnows, Shape
<1>2. SealsWith(sv) /\ sv.done \in BOOLEAN
  <2>1. /\ Flags(y) /\ cfg \in Config /\ Keys(y) /\ sent.server \in Nat
        /\ ServerAt(y, sv, sent.early, sent.server, a, b) /\ sv.state \in ServerStates
    BY DEF ServerKnows, Story, Counted, Always
  <2>2. y.tickets \in Nat
    BY <2>1, FlagTypes
  <2> QED BY <2>1, <2>2, ServerSeals
<1>3. /\ DOMAIN s = ServerFields /\ s.dec = p /\ s.enc = sv.enc /\ s.pending = sv.pending
      /\ s.pendingAp = sv.pendingAp /\ s.sched = sv.sched /\ s.isPsk = sv.isPsk
      /\ s.skipped = sv.skipped /\ s.accepted = sv.accepted /\ s.retries = sv.retries
      /\ s.ccs = sv.ccs /\ s.state = sv.state /\ s.done = sv.done /\ s.error = sv.error
  BY <1>1 DEF ServerFields
<1> QED BY <1>1, <1>2, <1>3 DEF ServerMet, SealsWith

(* A record that the server's context opens. *)
LEMMA ServerOpensNext ==
  ASSUME NEW y, NEW a, NEW b, NEW al, ServerKnows(y, a, b, al), ServerReceive, NEW r, NEW t,
         Starts(toServer, r, t), NEW k, NEW q, sv.dec = Ctx(k, q), r.key = k, k # NoKey => r.seq = q,
         r.msg.type \in ServerTakes(sv.state), r.msg.type # "ccs"
  PROVE  \E s : /\ ServerMet(s, IF k = NoKey THEN Ctx(k, q) ELSE Ctx(k, q + 1))
                /\ ServerHandled(s, r, r.msg.type) /\ toServer' = t
<1>1. toServer' = Tail(toServer)
  BY ServerTakesOff
<1>2. r = Head(toServer) /\ Tail(toServer) = t
  BY DEF Starts
<1>3. Opens(sv.dec, r) /\ Read(sv.dec, r) = IF k = NoKey THEN Ctx(k, q) ELSE Ctx(k, q + 1)
  BY CtxOpens
<1>4. PICK p : p = Read(sv.dec, r)
  OBVIOUS
<1>5. PICK s : s = [sv EXCEPT !.dec = p]
  OBVIOUS
<1>6. s = [sv EXCEPT !.dec = Read(@, r)]
  BY <1>4, <1>5
<1>7. ServerMet(s, p)
  BY <1>5, ServerOpened
<1>8. ServerHandled(s, r, r.msg.type)
  BY <1>2, <1>3, <1>6, ServerHandles
<1> QED BY <1>1, <1>2, <1>3, <1>4, <1>7, <1>8

(* A record in the clear. *)
LEMMA ServerOpensPlain ==
  ASSUME NEW y, NEW a, NEW b, NEW al, ServerKnows(y, a, b, al), ServerReceive, NEW r, NEW t,
         Starts(toServer, r, t), sv.dec = NoProtection, r.key = NoKey,
         r.msg.type \in ServerTakes(sv.state), r.msg.type # "ccs"
  PROVE  \E s : ServerMet(s, NoProtection) /\ ServerHandled(s, r, r.msg.type) /\ toServer' = t
<1>1. sv.dec = Ctx(NoKey, 0) /\ NoProtection = Ctx(NoKey, 0)
  BY CtxUsed
<1> QED BY <1>1, ServerOpensNext

(* A record under a key. *)
LEMMA ServerOpensSealed ==
  ASSUME NEW y, NEW a, NEW b, NEW al, ServerKnows(y, a, b, al), ServerReceive, NEW r, NEW t,
         Starts(toServer, r, t), NEW k, NEW q, sv.dec = Ctx(k, q), r.key = k, r.seq = q, k # NoKey,
         r.msg.type \in ServerTakes(sv.state), r.msg.type # "ccs"
  PROVE  \E s : ServerMet(s, Ctx(k, q + 1)) /\ ServerHandled(s, r, r.msg.type) /\ toServer' = t
BY ServerOpensNext

(* A stream that ends with its only record. *)
LEMMA CatSelf ==
  ASSUME NEW x, IsSeq(x), NEW r, x \o <<r>> = <<r>>
  PROVE  x \o <<>> = <<>>
<1>1. PICK t : t = <<r>>
  OBVIOUS
<1>2. IsSeq(t) /\ Len(t) = 1
  BY <1>1, ShortSeq
<1>3. Joins(x, t, t)
  BY <1>1 DEF Joins
<1>4. Len(x) \in Nat
  <2>1. PICK S : x \in Seq(S)
    BY DEF IsSeq
  <2> QED BY <2>1, LenProperties
<1>5. Len(t) = Len(x) + Len(t)
  BY <1>2, <1>3, JoinElem
<1>6. Len(x) = 0
  BY <1>2, <1>4, <1>5
<1>7. x = <<>>
  <2>1. PICK S : x \in Seq(S)
    BY DEF IsSeq
  <2> QED BY <1>6, <2>1, EmptySeq
<1> QED BY <1>7, ShortSeq, CatNone

(* A step of the server that sends nothing. *)
LEMMA ServerMovesQuietly ==
  ASSUME NEW y, NEW d, ServerReply(d, <<>>), d.error = "none", SameStage(sv, d),
         Always(y, cl, d, sent.early, sent.client),
         NEW a, NEW b, ServerAt(y, d, sent.early, sent.server, a, b),
         GotServer(y, cl, d, got'.server, sent.early, sent.client, a, b),
         NEW al, ClientAlert(cl, al),
         FromClient(y, d, cl.state, sent.early, sent.client, a, b, al, toServer'),
         got'.client = got.client, DOMAIN got' = DOMAIN got
  PROVE  ServerMoves(y)
<1>1. sv' = d /\ toClient' = toClient \o <<>>
  BY DEF ServerReply
<1>2. ServerHas(y, a, b)
  BY <1>1 DEF ServerHas
<1>3. Sends(y, sv, sv', <<>>)
  BY <1>1 DEF Sends
<1> QED BY <1>1, <1>2, <1>3 DEF ServerMoves

(* ChangeCipherSpec is ignored. *)
LEMMA ServerReadsCcs ==
  ASSUME NEW y, NEW a, NEW b, NEW al, ServerKnows(y, a, b, al), ServerReceive, sv.state # "post",
         NEW t, Starts(toServer, CcsRec, t),
         FromClient(y, sv, cl.state, sent.early, sent.client, a, b, al, t)
  PROVE  ServerMoves(y)
<1>1. toServer' = t /\ CcsRec = Head(toServer)
  BY ServerTakesOff DEF Starts
<1>2. CcsRec.msg.type = "ccs"
  BY DEF CcsRec, Wire, Plain
<1>3. PICK s : s = [sv EXCEPT !.dec = Read(@, CcsRec)]
  OBVIOUS
<1>4. ServerIgnoreCcs(CcsRec) /\ got' = got
  BY <1>1, <1>2, <1>3, ServerDispatch DEF ServerRefuse, ServerSkipEarlyData
<1>5. ServerReply(sv, <<>>)
  BY <1>4 DEF ServerIgnoreCcs
<1>6. /\ Always(y, cl, sv, sent.early, sent.client) /\ sv.error = "none"
      /\ ServerAt(y, sv, sent.early, sent.server, a, b)
      /\ GotServer(y, cl, sv, got.server, sent.early, sent.client, a, b) /\ ClientAlert(cl, al)
  BY DEF ServerKnows
<1>7. SameStage(sv, sv)
  BY DEF SameStage
<1> QED BY <1>1, <1>4, <1>5, <1>6, <1>7, ServerMovesQuietly

(* A record that the server skips, or fails at. *)
LEMMA ServerSkips ==
  ASSUME NEW y, NEW a, NEW b, NEW al, ServerKnows(y, a, b, al), ServerReceive, NEW r, NEW t,
         Starts(toServer, r, t), ~Opens(sv.dec, r), r.key # NoKey, r.msg.type # "ccs",
         sv.skipped \in Nat,
         NEW al2, ClientAlert(cl, al2),
         FromClient(y, sv, cl.state, sent.early, sent.client, a, b, al2, t)
  PROVE  ServerStops \/ ServerMoves(y)
<1>1. toServer' = t /\ r = Head(toServer)
  BY ServerTakesOff DEF Starts
<1>2. PICK s0 : s0 = [sv EXCEPT !.dec = Read(@, r)]
  OBVIOUS
<1>3. Skips(r)
  BY DEF Skips
<1>4. ServerSkipEarlyData(r) /\ got' = got
  BY <1>1, <1>2, <1>3, ServerDispatch DEF ServerRefuse, ServerIgnoreCcs
<1>5. PICK q : q = sv.skipped + 1
  OBVIOUS
<1>6. PICK s : s = [sv EXCEPT !.skipped = q]
  OBVIOUS
<1>7. s.skipped = q /\ IF s.skipped > MaxSkip THEN ServerFail(s, "handshake_failure") ELSE ServerReply(s, <<>>)
  <2>1. DOMAIN sv = ServerFields
    BY DEF ServerKnows, Shape
  <2>2. s.skipped = q
    BY <1>6, <2>1 DEF ServerFields
  <2> QED BY <1>4, <1>5, <1>6, <2>2 DEF ServerSkipEarlyData
<1>8. DOMAIN sv = ServerFields /\ sv.error = "none"
  BY DEF ServerKnows, Shape
<1>9. SealsWith(sv) /\ sv.done \in BOOLEAN
  <2>1. PICK z : z = [sv EXCEPT !.dec = sv.dec]
    OBVIOUS
  <2>2. ServerMet(z, sv.dec)
    BY <2>1, ServerOpened
  <2> QED BY <2>2 DEF ServerMet, SealsWith
<1>10. /\ DOMAIN s = ServerFields /\ s.dec = sv.dec /\ s.enc = sv.enc /\ s.pending = sv.pending
       /\ s.pendingAp = sv.pendingAp /\ s.sched = sv.sched /\ s.isPsk = sv.isPsk
       /\ s.skipped = q /\ s.accepted = sv.accepted /\ s.retries = sv.retries
       /\ s.ccs = sv.ccs /\ s.state = sv.state /\ s.done = sv.done /\ s.error = "none"
  BY <1>6, <1>8 DEF ServerFields
<1>11. CASE s.skipped > MaxSkip
  <2>1. SealsWith(s)
    BY <1>9, <1>10 DEF SealsWith
  <2> QED BY <1>4, <1>7, <1>9, <1>10, <1>11, <2>1, ServerFailStops
<1>12. CASE ~(s.skipped > MaxSkip)
  <2>1. ServerReply(s, <<>>)
    BY <1>7, <1>12
  <2>2. /\ Always(y, cl, sv, sent.early, sent.client)
        /\ ServerAt(y, sv, sent.early, sent.server, a, b)
        /\ GotServer(y, cl, sv, got.server, sent.early, sent.client, a, b)
    BY DEF ServerKnows
  <2>3. Always(y, cl, s, sent.early, sent.client)
    BY <1>10, <2>2 DEF Always, ServerKnows
  <2>4. ServerAt(y, s, sent.early, sent.server, a, b)
    <3>1. q \in Nat /\ sv.skipped # -1
      BY <1>5
    <3> QED BY <1>10, <2>2, <3>1 DEF ServerAt
  <2>5. GotServer(y, cl, s, got.server, sent.early, sent.client, a, b)
    BY <1>10, <2>2 DEF GotServer
  <2>6. FromClient(y, s, cl.state, sent.early, sent.client, a, b, al2, t)
    BY <1>10 DEF FromClient, Waits
  <2>7. SameStage(sv, s)
    BY <1>10 DEF SameStage
  <2> QED BY <1>1, <1>4, <1>10, <2>1, <2>3, <2>4, <2>5, <2>6, <2>7, ServerMovesQuietly
<1> QED BY <1>11, <1>12

(* A record that the server can neither open nor skip. *)
LEMMA ServerRefuses ==
  ASSUME NEW y, NEW a, NEW b, NEW al, ServerKnows(y, a, b, al), ServerReceive, NEW r, NEW t,
         Starts(toServer, r, t), ~Opens(sv.dec, r), r.msg.type # "ccs", sv.skipped = -1
  PROVE  ServerStops
<1>1. r = Head(toServer)
  BY DEF Starts
<1>2. PICK s0 : s0 = [sv EXCEPT !.dec = Read(@, r)]
  OBVIOUS
<1>3. ~Skips(r)
  BY DEF Skips
<1>4. ServerRefuse(r) /\ got' = got
  BY <1>1, <1>2, <1>3, ServerDispatch DEF ServerSkipEarlyData, ServerIgnoreCcs
<1>5. ServerFail(sv, Unreadable(sv.dec, r))
  BY <1>4 DEF ServerRefuse
<1>6. PICK code : code = Unreadable(sv.dec, r)
  OBVIOUS
<1>7. code # "none" /\ code # "peer_alert"
  BY <1>6 DEF Unreadable
<1>8. DOMAIN sv = ServerFields
  BY DEF ServerKnows, Shape
<1>9. SealsWith(sv) /\ sv.done \in BOOLEAN
  <2>1. PICK z : z = [sv EXCEPT !.dec = sv.dec]
    OBVIOUS
  <2>2. ServerMet(z, sv.dec)
    BY <2>1, ServerOpened
  <2> QED BY <2>2 DEF ServerMet, SealsWith
<1> QED BY <1>4, <1>5, <1>6, <1>7, <1>8, <1>9, ServerFailStops

(* What a server skips, and who is heard. *)
LEMMA SkipsWhat ==
  ASSUME NEW y, NEW a, NEW b, NEW al, ServerKnows(y, a, b, al)
  PROVE  /\ sv.skipped \in Nat \/ sv.skipped = -1
         /\ sv.skipped \in Nat => y.asks /\ ~y.accept
<1>1. /\ ServerAt(y, sv, sent.early, sent.server, a, b)
      /\ Always(y, cl, sv, sent.early, sent.client) /\ Flags(y) /\ cfg \in Config
  BY DEF ServerKnows, Story
<1>2. -1 \notin Nat
  OBVIOUS
<1>3. /\ y.accept => y.found /\ y.asks /\ ~y.retry
      /\ y.skips <=> (y.asks /\ ~y.accept /\ ~(y.retry /\ y.cookie))
  BY <1>1, FlagTypes
<1>4. CASE sv.state \in Unanswered
  <2>1. /\ IF sv.retries = 1 /\ ~y.cookie THEN sv.state = "expect_ch2" /\ sv.sched = y.sr
           ELSE sv.state = "expect_ch" /\ sv.sched = EmptySchedule
        /\ IF sv.state = "expect_ch2" /\ y.asks THEN sv.skipped \in Nat ELSE sv.skipped = -1
    BY <1>1, <1>4 DEF ServerAt
  <2>2. sv.retries = 1 => y.retry
    BY <1>1 DEF Always
  <2> QED BY <1>2, <1>3, <2>1, <2>2
<1>5. CASE sv.state \notin Unanswered
  <2>1. IF y.skips THEN sv.skipped \in Nat ELSE sv.skipped = -1
    BY <1>1, <1>5 DEF ServerAt
  <2> QED BY <1>2, <1>3, <2>1
<1> QED BY <1>4, <1>5

(* The client's alert, which is in the clear: the server fails, also while it skips 0-RTT data. *)
LEMMA ServerReadsAlert ==
  ASSUME NEW y, NEW a, NEW b, NEW al, ServerKnows(y, a, b, al), ServerReceive, al # <<>>, toServer = al
  PROVE  ServerStops
<1>1. PICK r : al = <<r>> /\ r.msg.type = "alert" /\ r.key = NoKey /\ cl.error # "none"
  BY DEF ServerKnows, ClientAlert
<1>2. r = Head(toServer)
  BY <1>1
<1>3. Opens(sv.dec, r)
  BY <1>1 DEF Opens
<1>4. PICK p : p = Read(sv.dec, r)
  OBVIOUS
<1>5. PICK s : s = [sv EXCEPT !.dec = p]
  OBVIOUS
<1>6. ServerMet(s, p)
  BY <1>5, ServerOpened
<1>7. s = [sv EXCEPT !.dec = Read(@, r)]
  BY <1>4, <1>5
<1>8. ServerHandled(s, r, r.msg.type)
  BY <1>1, <1>2, <1>3, <1>7, ServerHandles
<1>9. got' = got /\ ServerFail(s, "peer_alert")
  BY <1>1, <1>8 DEF ServerHandled, ServerHandleAlert
<1>10. /\ DOMAIN s = ServerFields /\ s.state = sv.state /\ s.retries = sv.retries
       /\ s.accepted = sv.accepted /\ s.done \in BOOLEAN /\ SealsWith(s)
  BY <1>6 DEF ServerMet
<1> QED BY <1>1, <1>9, <1>10, ServerFailStops

(* 0-RTT data that the server has not accepted. *)
LEMMA ServerReadsRejected ==
  ASSUME NEW y, NEW a, NEW b, NEW al, ServerKnows(y, a, b, al), ServerReceive,
         (sv.state \in Unanswered /\ sv.retries = 1) \/ (Waits(y, sv) /\ ~y.retry),
         NEW k \in 0 .. sent.early, NEW t, Starts(toServer, y.early[k], t),
         FromClient(y, sv, cl.state, sent.early, sent.client, a, b, al, t)
  PROVE  ServerStops \/ ServerMoves(y)
<1>1. /\ ServerAt(y, sv, sent.early, sent.server, a, b) /\ Keys(y) /\ Series(y)
      /\ sent.early \in Nat /\ ClientAlert(cl, al)
  BY DEF ServerKnows, Story, Counted
<1>2. k \in Nat
  BY <1>1
<1>3. PICK r : r = y.early[k]
  OBVIOUS
<1>4. r.key = y.ke /\ r.msg.type = "data"
  <2>1. r = Wire(y.ke, k, DataMsg("early", k + 1), NoMac)
    BY <1>1, <1>2, <1>3 DEF Series
  <2> QED BY <2>1, WireFields DEF DataMsg
<1>5. y.ke # NoKey /\ y.ke # y.kch
  BY <1>1, KeysDiffer
<1>6. sv.state # "generating_cv"
  BY DEF ServerReceive, ServerReceives
<1>7. sv.dec.key \in {NoKey, y.kch}
  <2>1. CASE sv.state \in Unanswered
    <3>1. sv.dec = Ctx(NoKey, 0)
      BY <1>1, <2>1, CtxUsed DEF ServerAt
    <3> QED BY <3>1, CtxFields
  <2>2. CASE Waits(y, sv)
    <3>1. sv.dec = Ctx(y.kch, 0) \/ sv.dec = Ctx(y.kch, y.nc)
      BY <1>1, <1>6, <2>2 DEF ServerAt, Waits
    <3> QED BY <3>1, CtxFields
  <2> QED BY <2>1, <2>2
<1>8. ~Opens(sv.dec, r)
  BY <1>4, <1>5, <1>7 DEF Opens
<1>9. r.key # NoKey /\ r.msg.type # "ccs"
  BY <1>4, <1>5
<1>10. CASE sv.skipped \in Nat
  BY <1>1, <1>3, <1>8, <1>9, <1>10, ServerSkips
<1>11. CASE sv.skipped = -1
  BY <1>3, <1>8, <1>9, <1>11, ServerRefuses
<1> QED BY <1>10, <1>11, SkipsWhat

(* The records of the client, by field. *)
LEMMA ClientRecords ==
  ASSUME NEW y, Records(y), Hellos(y), NEW n
  PROVE  /\ y.rch1.key = NoKey /\ y.rch1.msg = y.ch1 /\ y.ch1.type = "ch"
         /\ y.rch1.mac = (IF y.id = "none" THEN NoMac ELSE Binder(y.s1))
         /\ y.rch2.key = NoKey /\ y.rch2.msg = y.ch2 /\ y.ch2.type = "ch"
         /\ y.rch2.mac = (IF y.id = "none" THEN NoMac ELSE Binder(y.s2))
         /\ y.rccert.key = y.kch /\ y.rccert.seq = 0 /\ y.rccert.msg = CertMsg(y.cc)
         /\ CertMsg(y.cc).type = "cert" /\ CertMsg(y.cc).some = y.cc
         /\ y.rccv.key = y.kch /\ y.rccv.seq = 1 /\ y.rccv.msg = Plain("cv")
         /\ y.rccv.mac = Signature(y.sccert) /\ Plain("cv").type = "cv"
         /\ y.rcfin.key = y.kch /\ y.rcfin.seq = y.nc /\ y.rcfin.msg = ClientFinished
         /\ y.rcfin.mac = FinishedMac(y.kch, y.send) /\ ClientFinished.type = "fin"
         /\ Eoed(y, n).key = y.ke /\ Eoed(y, n).seq = n /\ Eoed(y, n).msg = Plain("eoed")
         /\ Plain("eoed").type = "eoed"
<1>1. /\ y.ch1.type = "ch" /\ y.ch2.type = "ch"
  BY DEF Hellos
<1>3. /\ Plain("eoed").type = "eoed" /\ Plain("cv").type = "cv" /\ ClientFinished.type = "fin"
      /\ CertMsg(y.cc).type = "cert" /\ CertMsg(y.cc).some = y.cc
  BY DEF Plain, ClientFinished, CertMsg
<1>4. /\ y.rch1.key = NoKey /\ y.rch1.msg = y.ch1
      /\ y.rch1.mac = (IF y.id = "none" THEN NoMac ELSE Binder(y.s1))
  <2>1. y.rch1 = Wire(NoKey, 0, y.ch1, IF y.id = "none" THEN NoMac ELSE Binder(y.s1))
    BY DEF Records
  <2> QED BY <2>1 DEF Wire
<1>5. /\ y.rch2.key = NoKey /\ y.rch2.msg = y.ch2
      /\ y.rch2.mac = (IF y.id = "none" THEN NoMac ELSE Binder(y.s2))
  <2>1. y.rch2 = Wire(NoKey, 0, y.ch2, IF y.id = "none" THEN NoMac ELSE Binder(y.s2))
    BY DEF Records
  <2> QED BY <2>1 DEF Wire
<1>6. y.rccert.key = y.kch /\ y.rccert.seq = 0 /\ y.rccert.msg = CertMsg(y.cc)
  <2>1. y.rccert = Wire(y.kch, 0, CertMsg(y.cc), NoMac)
    BY DEF Records
  <2> QED BY <2>1 DEF Wire
<1>7. /\ y.rccv.key = y.kch /\ y.rccv.seq = 1 /\ y.rccv.msg = Plain("cv")
      /\ y.rccv.mac = Signature(y.sccert)
  <2>1. y.rccv = Wire(y.kch, 1, Plain("cv"), Signature(y.sccert))
    BY DEF Records
  <2> QED BY <2>1 DEF Wire
<1>8. /\ y.rcfin.key = y.kch /\ y.rcfin.seq = y.nc /\ y.rcfin.msg = ClientFinished
      /\ y.rcfin.mac = FinishedMac(y.kch, y.send)
  <2>1. y.rcfin = Wire(y.kch, y.nc, ClientFinished, FinishedMac(y.kch, y.send))
    BY DEF Records
  <2> QED BY <2>1 DEF Wire
<1>9. Eoed(y, n).key = y.ke /\ Eoed(y, n).seq = n /\ Eoed(y, n).msg = Plain("eoed")
  BY WireFields DEF Eoed
<1> QED BY <1>1, <1>3, <1>4, <1>5, <1>6, <1>7, <1>8, <1>9

(* 0-RTT data that the server has accepted. *)
LEMMA ServerReadsEarly ==
  ASSUME NEW y, NEW a, NEW b, NEW al, ServerKnows(y, a, b, al), ServerReceive,
         sv.state = "expect_eoed", a \in 0 .. sent.early, a # sent.early,
         NEW t, t = CEarly(y, a + 1, cl.state, sent.early, sent.client) \o al,
         Starts(toServer, y.early[a], t)
  PROVE  ServerMoves(y)
<1>1. /\ ServerAt(y, sv, sent.early, sent.server, a, b) /\ Keys(y) /\ Series(y)
      /\ sent.early \in Nat /\ sent.client \in Nat /\ ClientAlert(cl, al)
      /\ Always(y, cl, sv, sent.early, sent.client)
      /\ GotServer(y, cl, sv, got.server, sent.early, sent.client, a, b)
      /\ DOMAIN got = {"client", "server"}
  BY DEF ServerKnows, Story, Counted
<1>2. a \in Nat /\ a + 1 \in 0 .. sent.early /\ a + 1 <= sent.early
  BY <1>1
<1>3. PICK r : r = y.early[a]
  OBVIOUS
<1>4. r.key = y.ke /\ r.seq = a /\ r.msg.type = "data" /\ r.msg.tag = "early" /\ r.msg.n = a + 1
  <2>1. r = Wire(y.ke, a, DataMsg("early", a + 1), NoMac)
    BY <1>1, <1>2, <1>3 DEF Series
  <2> QED BY <2>1, WireFields DEF DataMsg
<1>5. y.ke # NoKey
  BY <1>1, KeysDiffer
<1>6. /\ y.accept /\ sv.dec = Ctx(y.ke, a) /\ sv.pending = y.kch /\ sv.sched = y.sfin
      /\ sv.enc = Ctx(y.ksa, y.tickets + sent.server) /\ sv.pendingAp = y.kca /\ b = 0
      /\ sv.done = (~y.auth \/ sv.state = "post") /\ sv.accepted = (sv.state \notin Unanswered /\ y.accept)
      /\ sv.isPsk = y.found
      /\ IF y.skips THEN sv.skipped \in Nat ELSE sv.skipped = -1
  BY <1>1 DEF ServerAt, Flown, Unanswered
<1>7. r.msg.type \in ServerTakes(sv.state) /\ r.msg.type # "ccs"
  BY <1>4 DEF ServerTakes
<1>8. PICK s : ServerMet(s, Ctx(y.ke, a + 1)) /\ ServerHandled(s, r, r.msg.type) /\ toServer' = t
  BY <1>3, <1>4, <1>5, <1>6, <1>7, ServerOpensSealed
<1>9. ServerReply(s, <<>>) /\ got' = [got EXCEPT !.server = Append(@, <<r.msg.tag, r.msg.n>>)]
  BY <1>4, <1>8 DEF ServerHandled, ServerDeliver
<1>10. /\ s.dec = Ctx(y.ke, a + 1) /\ s.enc = sv.enc /\ s.pending = sv.pending
       /\ s.pendingAp = sv.pendingAp /\ s.sched = sv.sched /\ s.isPsk = sv.isPsk
       /\ s.skipped = sv.skipped /\ s.accepted = sv.accepted /\ s.retries = sv.retries
       /\ s.state = sv.state /\ s.done = sv.done /\ s.error = "none"
  BY <1>8 DEF ServerMet
<1>11. PICK x : x = Append(got.server, <<r.msg.tag, r.msg.n>>)
  OBVIOUS
<1>12. got'.server = x /\ got'.client = got.client /\ DOMAIN got' = DOMAIN got
  <2>1. got' = [got EXCEPT !.server = x]
    BY <1>9, <1>11
  <2> QED BY <1>1, <2>1
<1>13. x = Numbered("early", a + 1) \o Numbered("client", 0)
  <2>1. /\ IsSeq(Numbered("early", a)) /\ IsSeq(Numbered("early", a + 1))
    <3>1. PICK k \in Nat : k = a + 1
      BY <1>2
    <3>2. IsSeq(Numbered("early", k))
      BY NumberedNext
    <3>3. IsSeq(Numbered("early", a))
      BY <1>2, NumberedNext
    <3> QED BY <3>1, <3>2, <3>3
  <2>2. Numbered("client", 0) = <<>>
    BY <1>1, NumberedNext
  <2>3. got.server = Numbered("early", a) \o <<>>
    BY <1>1, <1>6, <2>2 DEF GotServer
  <2>4. got.server = Numbered("early", a)
    BY <2>1, <2>3, CatNone
  <2>5. <<r.msg.tag, r.msg.n>> = <<"early", a + 1>>
    BY <1>4
  <2>6. Append(Numbered("early", a), <<"early", a + 1>>) = Numbered("early", a + 1)
    BY <1>2, DeliveredNext
  <2>7. Numbered("early", a + 1) \o <<>> = Numbered("early", a + 1)
    BY <2>1, CatNone
  <2> QED BY <1>11, <2>2, <2>4, <2>5, <2>6, <2>7
<1>14. GotServer(y, cl, s, got'.server, sent.early, sent.client, a + 1, 0)
  <2>1. s.accepted
    BY <1>6, <1>10 DEF Unanswered
  <2> QED BY <1>1, <1>2, <1>12, <1>13, <2>1 DEF GotServer
<1>15. ServerAt(y, s, sent.early, sent.server, a + 1, 0)
  BY <1>6, <1>10 DEF ServerAt, Unanswered, Flown
<1>16. Always(y, cl, s, sent.early, sent.client)
  BY <1>1, <1>10 DEF Always, ServerKnows
<1>17. FromClient(y, s, cl.state, sent.early, sent.client, a + 1, 0, al, toServer')
  <2>1. EarlyForm(y, cl.state, sent.early, sent.client, a + 1, al, toServer')
    BY <1>2, <1>8 DEF EarlyForm
  <2> QED BY <1>10, <2>1 DEF FromClient, Waits, Unanswered
<1>18. SameStage(sv, s)
  BY <1>10 DEF SameStage
<1> QED BY <1>1, <1>9, <1>10, <1>12, <1>14, <1>15, <1>16, <1>17, <1>18, ServerMovesQuietly

(* Application data of the client. *)
LEMMA ServerReadsData ==
  ASSUME NEW y, NEW a, NEW b, NEW al, ServerKnows(y, a, b, al), ServerReceive,
         sv.state = "post", b < sent.client,
         NEW t, t = Run(y.client, b + 1, sent.client) \o al, Starts(toServer, y.client[b], t)
  PROVE  ServerMoves(y)
<1>1. /\ ServerAt(y, sv, sent.early, sent.server, a, b) /\ Keys(y) /\ Series(y)
      /\ sent.early \in Nat /\ sent.client \in Nat /\ ClientAlert(cl, al)
      /\ Always(y, cl, sv, sent.early, sent.client)
      /\ GotServer(y, cl, sv, got.server, sent.early, sent.client, a, b)
      /\ DOMAIN got = {"client", "server"}
  BY DEF ServerKnows, Story, Counted
<1>2. a \in Nat /\ a \in 0 .. sent.early /\ b \in Nat /\ b + 1 \in 0 .. sent.client
      /\ b + 1 <= sent.client /\ b + 1 \in Nat
  BY <1>1 DEF GotServer
<1>3. PICK r : r = y.client[b]
  OBVIOUS
<1>4. r.key = y.kca /\ r.seq = b /\ r.msg.type = "data" /\ r.msg.tag = "client" /\ r.msg.n = b + 1
  <2>1. r = Wire(y.kca, b, DataMsg("client", b + 1), NoMac)
    BY <1>1, <1>2, <1>3 DEF Series
  <2> QED BY <2>1, WireFields DEF DataMsg
<1>5. y.kca # NoKey
  BY <1>1, KeysDiffer
<1>6. /\ sv.dec = Ctx(y.kca, b) /\ a = (IF y.accept THEN sent.early ELSE 0)
      /\ sv.enc = Ctx(y.ksa, y.tickets + sent.server)
      /\ sv.done = (~y.auth \/ sv.state = "post") /\ sv.accepted = (sv.state \notin Unanswered /\ y.accept)
      /\ sv.isPsk = y.found
      /\ IF y.skips THEN sv.skipped \in Nat ELSE sv.skipped = -1
  BY <1>1 DEF ServerAt, Flown, Unanswered
<1>7. r.msg.type \in ServerTakes(sv.state) /\ r.msg.type # "ccs"
  BY <1>4 DEF ServerTakes
<1>8. PICK s : ServerMet(s, Ctx(y.kca, b + 1)) /\ ServerHandled(s, r, r.msg.type) /\ toServer' = t
  BY <1>3, <1>4, <1>5, <1>6, <1>7, ServerOpensSealed
<1>9. ServerReply(s, <<>>) /\ got' = [got EXCEPT !.server = Append(@, <<r.msg.tag, r.msg.n>>)]
  BY <1>4, <1>8 DEF ServerHandled, ServerDeliver
<1>10. /\ s.dec = Ctx(y.kca, b + 1) /\ s.enc = sv.enc /\ s.isPsk = sv.isPsk
       /\ s.skipped = sv.skipped /\ s.accepted = sv.accepted /\ s.retries = sv.retries
       /\ s.state = sv.state /\ s.done = sv.done /\ s.error = "none"
  BY <1>8 DEF ServerMet
<1>11. PICK x : x = Append(got.server, <<r.msg.tag, r.msg.n>>)
  OBVIOUS
<1>12. got'.server = x /\ got'.client = got.client /\ DOMAIN got' = DOMAIN got
  <2>1. got' = [got EXCEPT !.server = x]
    BY <1>9, <1>11
  <2> QED BY <1>1, <2>1
<1>13. x = Numbered("early", a) \o Numbered("client", b + 1)
  <2>1. PICK u, v, e : u = Numbered("early", a) /\ v = Numbered("client", b) /\ e = <<"client", b + 1>>
    OBVIOUS
  <2>2. IsSeq(u) /\ IsSeq(v) /\ Numbered("client", b + 1) = v \o <<e>>
    BY <1>2, <2>1, NumberedNext
  <2>3. x = Append(u \o v, e)
    BY <1>1, <1>4, <1>11, <2>1 DEF GotServer
  <2>4. IsSeq(u \o v)
    BY <2>2, CatSeq
  <2>5. PICK z : z = u \o v
    OBVIOUS
  <2>6. PICK S : z \in Seq(S)
    BY <2>4, <2>5 DEF IsSeq
  <2>7. z \in Seq(S \cup {e}) /\ e \in S \cup {e}
    BY <2>6, SeqMonotonic
  <2>8. Append(z, e) = z \o <<e>>
    BY <2>7, AppendIsConcat
  <2>9. PICK w : w = <<e>>
    OBVIOUS
  <2>10. IsSeq(w)
    BY <2>9, ShortSeq
  <2>11. (u \o v) \o w = u \o (v \o w)
    BY <2>2, <2>10, CatAssoc
  <2> QED BY <2>1, <2>2, <2>3, <2>5, <2>8, <2>9, <2>11
<1>14. GotServer(y, cl, s, got'.server, sent.early, sent.client, a, b + 1)
  <2>1. cl.state = "post"
    BY <1>1 DEF Always
  <2>2. s.accepted => y.accept
    <3>1. sv.accepted = (sv.state \notin Unanswered /\ y.accept)
      BY <1>6
    <3> QED BY <1>10, <3>1, Zenon
  <2>3. ~s.accepted => a = 0
    BY <1>1, <1>10 DEF GotServer
  <2> QED BY <1>2, <1>6, <1>12, <1>13, <2>1, <2>2, <2>3 DEF GotServer
<1>15. ServerAt(y, s, sent.early, sent.server, a, b + 1)
  BY <1>6, <1>10 DEF ServerAt, Unanswered, Flown
<1>16. Always(y, cl, s, sent.early, sent.client)
  BY <1>1, <1>10 DEF Always, ServerKnows
<1>17. FromClient(y, s, cl.state, sent.early, sent.client, a, b + 1, al, toServer')
  BY <1>2, <1>8, <1>10 DEF FromClient, Waits, Unanswered
<1>18. SameStage(sv, s)
  BY <1>10 DEF SameStage
<1> QED BY <1>1, <1>9, <1>10, <1>12, <1>14, <1>15, <1>16, <1>17, <1>18, ServerMovesQuietly

(* A step of the server that delivers nothing. *)
LEMMA ServerGotSame ==
  ASSUME NEW y, NEW a, NEW b, NEW al, ServerKnows(y, a, b, al), NEW s, s.accepted = sv.accepted,
         got' = got
  PROVE  /\ GotServer(y, cl, s, got'.server, sent.early, sent.client, a, b)
         /\ got'.client = got.client /\ DOMAIN got' = DOMAIN got
<1>1. GotServer(y, cl, sv, got.server, sent.early, sent.client, a, b)
  BY DEF ServerKnows
<1> QED BY <1>1 DEF GotServer

(* EndOfEarlyData: the client's handshake key comes into use. *)
LEMMA ServerReadsEnd ==
  ASSUME NEW y, NEW a, NEW b, NEW al, ServerKnows(y, a, b, al), ServerReceive,
         sv.state = "expect_eoed", a = sent.early, cl.state = "post",
         NEW t, t = CFin(y, sent.client) \o al, Starts(toServer, Eoed(y, sent.early), t)
  PROVE  ServerMoves(y)
<1>1. /\ ServerAt(y, sv, sent.early, sent.server, a, b) /\ Keys(y) /\ Flags(y) /\ Hellos(y)
      /\ Records(y) /\ Schedules(y) /\ cfg \in Config
      /\ sent.early \in Nat /\ sent.client \in Nat /\ ClientAlert(cl, al)
      /\ Always(y, cl, sv, sent.early, sent.client)
  BY DEF ServerKnows, Story, Counted
<1>2. PICK r : r = Eoed(y, sent.early)
  OBVIOUS
<1>3. r.key = y.ke /\ r.seq = a /\ r.msg = Plain("eoed") /\ r.msg.type = "eoed"
  <2>1. Eoed(y, a).key = y.ke /\ Eoed(y, a).seq = a /\ Eoed(y, a).msg = Plain("eoed")
        /\ Plain("eoed").type = "eoed"
    BY <1>1, ClientRecords
  <2> QED BY <1>2, <2>1
<1>4. y.ke # NoKey
  BY <1>1, KeysDiffer
<1>5. /\ y.accept /\ sv.dec = Ctx(y.ke, a) /\ sv.pending = y.kch /\ sv.sched = y.sfin
      /\ sv.enc = Ctx(y.ksa, y.tickets + sent.server) /\ sv.pendingAp = y.kca /\ b = 0
      /\ sv.done = (~y.auth \/ sv.state = "post") /\ sv.isPsk = y.found
      /\ sv.accepted = (sv.state \notin Unanswered /\ y.accept)
      /\ IF y.skips THEN sv.skipped \in Nat ELSE sv.skipped = -1
  BY <1>1 DEF ServerAt, Flown, Unanswered
<1>6. r.msg.type \in ServerTakes(sv.state) /\ r.msg.type # "ccs"
  BY <1>3 DEF ServerTakes
<1>7. PICK s : ServerMet(s, Ctx(y.ke, a + 1)) /\ ServerHandled(s, r, r.msg.type) /\ toServer' = t
  BY <1>2, <1>3, <1>4, <1>5, <1>6, ServerOpensSealed
<1>8. PICK p, h : p = Protect(s.pending) /\ h = Hash(s.sched, <<r.msg>>)
  OBVIOUS
<1>9. PICK d : d = [s EXCEPT !.dec = p, !.pending = NoKey, !.sched = h, !.state = "expect_fin"]
  OBVIOUS
<1>10. ServerReply(d, <<>>) /\ got' = got
  BY <1>3, <1>7, <1>8, <1>9 DEF ServerHandled, ServerHandleEndOfEarlyData
<1>11. /\ DOMAIN s = ServerFields /\ s.enc = sv.enc /\ s.pending = sv.pending
       /\ s.pendingAp = sv.pendingAp /\ s.sched = sv.sched /\ s.isPsk = sv.isPsk
       /\ s.skipped = sv.skipped /\ s.accepted = sv.accepted /\ s.retries = sv.retries
       /\ s.state = sv.state /\ s.done = sv.done /\ s.error = "none"
  BY <1>7 DEF ServerMet
<1>12. /\ d.dec = p /\ d.sched = h /\ d.state = "expect_fin" /\ d.enc = sv.enc
       /\ d.pendingAp = sv.pendingAp /\ d.isPsk = sv.isPsk /\ d.skipped = sv.skipped
       /\ d.accepted = sv.accepted /\ d.retries = sv.retries /\ d.done = sv.done /\ d.error = "none"
  BY <1>9, <1>11 DEF ServerFields
<1>13. y.found /\ y.asks /\ ~y.retry /\ ~y.auth
  BY <1>1, <1>5, FlagTypes
<1>14. d.dec = Ctx(y.kch, y.nc) /\ d.sched = y.send
  <2>1. y.nc = 0
    BY <1>1, <1>13 DEF Keys
  <2>2. p = Ctx(y.kch, 0)
    BY <1>5, <1>8, <1>11 DEF Protect, Ctx
  <2>3. y.send = Hash(y.sfin, <<Plain("eoed")>>)
    BY <1>1, <1>5 DEF Schedules
  <2> QED BY <1>3, <1>5, <1>8, <1>11, <1>12, <2>1, <2>2, <2>3
<1>15. Always(y, cl, d, sent.early, sent.client)
  BY <1>1, <1>12, <1>13 DEF Always, ServerStates, Unanswered, Flown
<1>16. ServerAt(y, d, sent.early, sent.server, a, b)
  BY <1>5, <1>12, <1>14 DEF ServerAt, Unanswered, Flown
<1>17. ~Waits(y, d)
  BY <1>5, <1>12 DEF Waits
<1>18. FromClient(y, d, cl.state, sent.early, sent.client, a, b, al, toServer')
  BY <1>7, <1>12, <1>17 DEF FromClient, Unanswered
<1>19. SameStage(sv, d)
  BY <1>12 DEF SameStage, Flown, Unanswered
<1>20. /\ GotServer(y, cl, d, got'.server, sent.early, sent.client, a, b)
       /\ got'.client = got.client /\ DOMAIN got' = DOMAIN got
  BY <1>10, <1>12, ServerGotSame
<1> QED BY <1>1, <1>10, <1>12, <1>15, <1>16, <1>18, <1>19, <1>20, ServerMovesQuietly

(* The client's Certificate: it is refused, or its CertificateVerify or its Finished *)
(* is next.                                                                          *)
LEMMA ServerReadsCertificate ==
  ASSUME NEW y, NEW a, NEW b, NEW al, ServerKnows(y, a, b, al), ServerReceive,
         sv.state = "expect_cert", cl.state = "post",
         NEW t, t = CVerify(y, sent.client) \o al, Starts(toServer, y.rccert, t)
  PROVE  ServerStops \/ ServerMoves(y)
<1>1. /\ ServerAt(y, sv, sent.early, sent.server, a, b) /\ Keys(y) /\ Flags(y) /\ Hellos(y)
      /\ Records(y) /\ Schedules(y) /\ cfg \in Config
      /\ sent.early \in Nat /\ sent.client \in Nat /\ ClientAlert(cl, al)
      /\ Always(y, cl, sv, sent.early, sent.client)
  BY DEF ServerKnows, Story, Counted
<1>2. PICK r : r = y.rccert
  OBVIOUS
<1>3. r.key = y.kch /\ r.seq = 0 /\ r.msg = CertMsg(y.cc) /\ r.msg.type = "cert" /\ r.msg.some = y.cc
  <2>1. /\ y.rccert.key = y.kch /\ y.rccert.seq = 0 /\ y.rccert.msg = CertMsg(y.cc)
        /\ CertMsg(y.cc).type = "cert" /\ CertMsg(y.cc).some = y.cc
    BY <1>1, ClientRecords
  <2> QED BY <1>2, <2>1
<1>4. y.kch # NoKey
  BY <1>1, KeysDiffer
<1>5. /\ y.auth /\ sv.dec = Ctx(y.kch, 0) /\ sv.sched = y.sfin /\ a = 0
      /\ sv.enc = Ctx(y.ksa, y.tickets + sent.server) /\ sv.pendingAp = y.kca /\ b = 0
      /\ sv.done = (~y.auth \/ sv.state = "post") /\ sv.isPsk = y.found
      /\ sv.accepted = (sv.state \notin Unanswered /\ y.accept)
      /\ IF y.skips THEN sv.skipped \in Nat ELSE sv.skipped = -1
  BY <1>1 DEF ServerAt, Flown, Unanswered
<1>6. r.msg.type \in ServerTakes(sv.state) /\ r.msg.type # "ccs"
  BY <1>3 DEF ServerTakes
<1>7. PICK s : ServerMet(s, Ctx(y.kch, 0 + 1)) /\ ServerHandled(s, r, r.msg.type) /\ toServer' = t
  BY <1>2, <1>3, <1>4, <1>5, <1>6, ServerOpensSealed
<1>8. PICK h, n : n = AfterCertificate(r.msg) /\ h = Hash(s.sched, <<r.msg>>)
  OBVIOUS
<1>9. PICK d : d = [s EXCEPT !.sched = h, !.state = n]
  OBVIOUS
<1>10. got' = got /\ IF n = "refused" THEN ServerFail(s, "certificate_required")
                     ELSE ServerReply(d, <<>>)
  BY <1>3, <1>7, <1>8, <1>9 DEF ServerHandled, ServerHandleCertificate
<1>11. /\ DOMAIN s = ServerFields /\ s.dec = Ctx(y.kch, 1) /\ s.enc = sv.enc
       /\ s.pendingAp = sv.pendingAp /\ s.sched = sv.sched /\ s.isPsk = sv.isPsk
       /\ s.skipped = sv.skipped /\ s.accepted = sv.accepted /\ s.retries = sv.retries
       /\ s.state = sv.state /\ s.done = sv.done /\ s.error = "none"
       /\ SealsWith(s) /\ s.done \in BOOLEAN
  BY <1>7 DEF ServerMet
<1>12. CASE n = "refused"
  <2>1. ServerFail(s, "certificate_required")
    BY <1>10, <1>12
  <2>2. "certificate_required" # "none" /\ "certificate_required" # "peer_alert"
    OBVIOUS
  <2> QED BY <1>10, <1>11, <2>1, <2>2, ServerFailStops
<1>13. CASE n # "refused"
  <2>1. ServerReply(d, <<>>)
    BY <1>10, <1>13
  <2>2. /\ d.dec = Ctx(y.kch, 1) /\ d.sched = h /\ d.state = n /\ d.enc = sv.enc
        /\ d.pendingAp = sv.pendingAp /\ d.isPsk = sv.isPsk /\ d.skipped = sv.skipped
        /\ d.accepted = sv.accepted /\ d.retries = sv.retries /\ d.done = sv.done /\ d.error = "none"
    BY <1>9, <1>11 DEF ServerFields
  <2>3. ~y.found /\ ~y.accept /\ y.cc \in BOOLEAN
    BY <1>1, <1>5, FlagTypes
  <2>4. IF y.cc THEN n = "expect_cv" ELSE n = "expect_fin"
    BY <1>3, <1>8, <1>13, <2>3 DEF AfterCertificate
  <2>5. h = y.sccert
    BY <1>1, <1>3, <1>5, <1>8, <1>11 DEF Schedules
  <2>6. ~y.cc => y.send = y.sccert /\ y.nc = 1
    <3>1. y.send = IF y.accept THEN Hash(y.sfin, <<Plain("eoed")>>)
                   ELSE IF ~y.auth THEN y.sfin
                   ELSE IF y.cc THEN Hash(y.sccert, <<Plain("cv")>>) ELSE y.sccert
      BY <1>1 DEF Schedules
    <3>2. y.nc = IF ~y.auth THEN 0 ELSE IF y.cc THEN 2 ELSE 1
      BY <1>1 DEF Keys
    <3> QED BY <1>5, <2>3, <3>1, <3>2
  <2>7. Always(y, cl, d, sent.early, sent.client)
    BY <1>1, <2>2, <2>4 DEF Always, ServerStates, Unanswered, Flown
  <2>8. ServerAt(y, d, sent.early, sent.server, a, b)
    BY <1>5, <2>2, <2>3, <2>4, <2>5, <2>6 DEF ServerAt, Unanswered, Flown
  <2>9. ~Waits(y, d)
    BY <1>5, <2>2, <2>4 DEF Waits
  <2>10. ~y.cc => CVerify(y, sent.client) = CFin(y, sent.client)
    <3>1. IsSeq(CFin(y, sent.client))
      BY <1>1, ClientStreams
    <3> QED BY <3>1, OptNone DEF CVerify
  <2>11. FromClient(y, d, cl.state, sent.early, sent.client, a, b, al, toServer')
    BY <1>7, <2>2, <2>4, <2>9, <2>10 DEF FromClient, Unanswered
  <2>12. SameStage(sv, d)
    BY <2>2, <2>4 DEF SameStage, Flown, Unanswered
  <2>13. /\ GotServer(y, cl, d, got'.server, sent.early, sent.client, a, b)
         /\ got'.client = got.client /\ DOMAIN got' = DOMAIN got
    BY <1>10, <2>2, ServerGotSame
  <2>14. ServerMoves(y)
    BY <1>1, <2>1, <2>2, <2>7, <2>8, <2>11, <2>12, <2>13, ServerMovesQuietly
  <2> QED BY <2>14
<1> QED BY <1>12, <1>13

(* The client's CertificateVerify. *)
LEMMA ServerReadsVerify ==
  ASSUME NEW y, NEW a, NEW b, NEW al, ServerKnows(y, a, b, al), ServerReceive,
         sv.state = "expect_cv",
         NEW t, t = CFin(y, sent.client) \o al, Starts(toServer, y.rccv, t)
  PROVE  ServerMoves(y)
<1>1. /\ ServerAt(y, sv, sent.early, sent.server, a, b) /\ Keys(y) /\ Flags(y) /\ Hellos(y)
      /\ Records(y) /\ Schedules(y) /\ cfg \in Config
      /\ sent.early \in Nat /\ sent.client \in Nat /\ ClientAlert(cl, al)
      /\ Always(y, cl, sv, sent.early, sent.client)
  BY DEF ServerKnows, Story, Counted
<1>2. PICK r : r = y.rccv
  OBVIOUS
<1>3. /\ r.key = y.kch /\ r.seq = 1 /\ r.msg = Plain("cv") /\ r.msg.type = "cv"
      /\ r.mac = Signature(y.sccert)
  <2>1. /\ y.rccv.key = y.kch /\ y.rccv.seq = 1 /\ y.rccv.msg = Plain("cv")
        /\ y.rccv.mac = Signature(y.sccert) /\ Plain("cv").type = "cv"
    BY <1>1, ClientRecords
  <2> QED BY <1>2, <2>1
<1>4. y.kch # NoKey
  BY <1>1, KeysDiffer
<1>5. /\ y.auth /\ y.cc /\ sv.dec = Ctx(y.kch, 1) /\ sv.sched = y.sccert /\ a = 0
      /\ sv.enc = Ctx(y.ksa, y.tickets + sent.server) /\ sv.pendingAp = y.kca /\ b = 0
      /\ sv.done = (~y.auth \/ sv.state = "post") /\ sv.isPsk = y.found
      /\ sv.accepted = (sv.state \notin Unanswered /\ y.accept)
      /\ IF y.skips THEN sv.skipped \in Nat ELSE sv.skipped = -1
  BY <1>1 DEF ServerAt, Flown, Unanswered
<1>6. r.msg.type \in ServerTakes(sv.state) /\ r.msg.type # "ccs"
  BY <1>3 DEF ServerTakes
<1>7. PICK s : ServerMet(s, Ctx(y.kch, 1 + 1)) /\ ServerHandled(s, r, r.msg.type) /\ toServer' = t
  BY <1>2, <1>3, <1>4, <1>5, <1>6, ServerOpensSealed
<1>8. PICK h : h = Hash(s.sched, <<r.msg>>)
  OBVIOUS
<1>9. PICK d : d = [s EXCEPT !.sched = h, !.verified = TRUE, !.state = "expect_fin"]
  OBVIOUS
<1>10. /\ DOMAIN s = ServerFields /\ s.dec = Ctx(y.kch, 2) /\ s.enc = sv.enc
       /\ s.pendingAp = sv.pendingAp /\ s.sched = sv.sched /\ s.isPsk = sv.isPsk
       /\ s.skipped = sv.skipped /\ s.accepted = sv.accepted /\ s.retries = sv.retries
       /\ s.state = sv.state /\ s.done = sv.done /\ s.error = "none"
  BY <1>7 DEF ServerMet
<1>11. ServerReply(d, <<>>) /\ got' = got
  <2>1. r.mac = Signature(s.sched)
    BY <1>3, <1>5, <1>10
  <2>2. ServerHandleCertificateVerify(s, r) /\ got' = got
    BY <1>3, <1>7 DEF ServerHandled
  <2> QED BY <1>8, <1>9, <2>1, <2>2 DEF ServerHandleCertificateVerify
<1>12. /\ d.dec = Ctx(y.kch, 2) /\ d.sched = h /\ d.state = "expect_fin" /\ d.enc = sv.enc
       /\ d.pendingAp = sv.pendingAp /\ d.isPsk = sv.isPsk /\ d.skipped = sv.skipped
       /\ d.accepted = sv.accepted /\ d.retries = sv.retries /\ d.done = sv.done /\ d.error = "none"
  BY <1>9, <1>10 DEF ServerFields
<1>13. ~y.found /\ ~y.accept
  BY <1>1, <1>5, FlagTypes
<1>14. h = y.send /\ y.nc = 2
  <2>1. y.send = IF y.accept THEN Hash(y.sfin, <<Plain("eoed")>>)
                 ELSE IF ~y.auth THEN y.sfin
                 ELSE IF y.cc THEN Hash(y.sccert, <<Plain("cv")>>) ELSE y.sccert
    BY <1>1 DEF Schedules
  <2>2. y.nc = IF ~y.auth THEN 0 ELSE IF y.cc THEN 2 ELSE 1
    BY <1>1 DEF Keys
  <2> QED BY <1>3, <1>5, <1>8, <1>10, <1>13, <2>1, <2>2
<1>15. Always(y, cl, d, sent.early, sent.client)
  BY <1>1, <1>12 DEF Always, ServerStates, Unanswered, Flown
<1>16. ServerAt(y, d, sent.early, sent.server, a, b)
  BY <1>5, <1>12, <1>13, <1>14 DEF ServerAt, Unanswered, Flown
<1>17. ~Waits(y, d)
  BY <1>5, <1>12 DEF Waits
<1>18. FromClient(y, d, cl.state, sent.early, sent.client, a, b, al, toServer')
  BY <1>7, <1>12, <1>17 DEF FromClient, Unanswered
<1>19. SameStage(sv, d)
  BY <1>12 DEF SameStage, Flown, Unanswered
<1>20. /\ GotServer(y, cl, d, got'.server, sent.early, sent.client, a, b)
       /\ got'.client = got.client /\ DOMAIN got' = DOMAIN got
  BY <1>11, <1>12, ServerGotSame
<1> QED BY <1>1, <1>11, <1>12, <1>15, <1>16, <1>18, <1>19, <1>20, ServerMovesQuietly

(* The client's Finished: its application key comes into use. *)
LEMMA ServerReadsFinished ==
  ASSUME NEW y, NEW a, NEW b, NEW al, ServerKnows(y, a, b, al), ServerReceive,
         sv.state = "expect_fin", cl.state = "post",
         NEW t, t = Run(y.client, 0, sent.client) \o al, Starts(toServer, y.rcfin, t)
  PROVE  ServerMoves(y)
<1>1. /\ ServerAt(y, sv, sent.early, sent.server, a, b) /\ Keys(y) /\ Flags(y) /\ Hellos(y)
      /\ Records(y) /\ Schedules(y) /\ cfg \in Config
      /\ sent.early \in Nat /\ sent.client \in Nat /\ ClientAlert(cl, al)
      /\ Always(y, cl, sv, sent.early, sent.client)
  BY DEF ServerKnows, Story, Counted
<1>2. PICK r : r = y.rcfin
  OBVIOUS
<1>3. /\ r.key = y.kch /\ r.seq = y.nc /\ r.msg.type = "fin" /\ r.mac = FinishedMac(y.kch, y.send)
  <2>1. /\ y.rcfin.key = y.kch /\ y.rcfin.seq = y.nc /\ y.rcfin.msg = ClientFinished
        /\ y.rcfin.mac = FinishedMac(y.kch, y.send) /\ ClientFinished.type = "fin"
    BY <1>1, ClientRecords
  <2> QED BY <1>2, <2>1
<1>4. y.kch # NoKey
  BY <1>1, KeysDiffer
<1>5. /\ sv.dec = Ctx(y.kch, y.nc) /\ sv.sched = y.send /\ a = (IF y.accept THEN sent.early ELSE 0)
      /\ sv.enc = Ctx(y.ksa, y.tickets + sent.server) /\ sv.pendingAp = y.kca /\ b = 0
      /\ sv.done = (~y.auth \/ sv.state = "post") /\ sv.isPsk = y.found
      /\ sv.accepted = (sv.state \notin Unanswered /\ y.accept)
      /\ IF y.skips THEN sv.skipped \in Nat ELSE sv.skipped = -1
  BY <1>1 DEF ServerAt, Flown, Unanswered
<1>6. r.msg.type \in ServerTakes(sv.state) /\ r.msg.type # "ccs"
  BY <1>3 DEF ServerTakes
<1>7. PICK s : ServerMet(s, Ctx(y.kch, y.nc + 1)) /\ ServerHandled(s, r, r.msg.type) /\ toServer' = t
  BY <1>2, <1>3, <1>4, <1>5, <1>6, ServerOpensSealed
<1>8. /\ DOMAIN s = ServerFields /\ s.dec = Ctx(y.kch, y.nc + 1) /\ s.enc = sv.enc
      /\ s.pendingAp = sv.pendingAp /\ s.sched = sv.sched /\ s.isPsk = sv.isPsk
      /\ s.skipped = sv.skipped /\ s.accepted = sv.accepted /\ s.retries = sv.retries
      /\ s.state = sv.state /\ s.done = sv.done /\ s.error = "none"
  BY <1>7 DEF ServerMet
<1>9. PICK p, h : p = Protect(s.pendingAp) /\ h = Hash(WithTrafficKey(s).sched, <<r.msg>>)
  OBVIOUS
<1>10. PICK e : e = [s EXCEPT !.dec = p, !.pendingAp = NoKey]
  OBVIOUS
<1>11. PICK d : d = [e EXCEPT !.sched = h, !.state = "post", !.done = TRUE]
  OBVIOUS
<1>12. ServerReply(d, <<>>) /\ got' = got
  <2>1. s.dec.key = y.kch
    BY <1>8, CtxFields
  <2>2. r.mac = FinishedMac(s.dec.key, s.sched)
    BY <1>3, <1>5, <1>8, <2>1
  <2>3. ServerHandleFinished(s, r) /\ got' = got
    BY <1>3, <1>7 DEF ServerHandled
  <2>4. WithTrafficKey(s) = e
    BY <1>9, <1>10 DEF WithTrafficKey
  <2>5. h = Hash(e.sched, <<r.msg>>)
    BY <1>9, <2>4
  <2> QED BY <1>11, <2>2, <2>3, <2>4, <2>5 DEF ServerHandleFinished
<1>13. /\ DOMAIN e = ServerFields /\ e.dec = p /\ e.enc = sv.enc /\ e.isPsk = sv.isPsk
       /\ e.skipped = sv.skipped /\ e.accepted = sv.accepted /\ e.retries = sv.retries
       /\ e.error = "none"
  BY <1>8, <1>10 DEF ServerFields
<1>14. /\ d.dec = p /\ d.state = "post" /\ d.done = TRUE /\ d.enc = sv.enc /\ d.isPsk = sv.isPsk
       /\ d.skipped = sv.skipped /\ d.accepted = sv.accepted /\ d.retries = sv.retries
       /\ d.error = "none"
  BY <1>11, <1>13 DEF ServerFields
<1>15. p = Ctx(y.kca, b)
  BY <1>5, <1>8, <1>9 DEF Protect, Ctx
<1>16. Always(y, cl, d, sent.early, sent.client)
  BY <1>1, <1>14 DEF Always, ServerStates, Unanswered, Flown
<1>17. ServerAt(y, d, sent.early, sent.server, a, b)
  BY <1>5, <1>14, <1>15 DEF ServerAt, Unanswered, Flown
<1>18. FromClient(y, d, cl.state, sent.early, sent.client, a, b, al, toServer')
  BY <1>1, <1>5, <1>7, <1>14 DEF FromClient, Unanswered, Waits
<1>19. SameStage(sv, d)
  BY <1>14 DEF SameStage, Flown, Unanswered
<1>20. /\ GotServer(y, cl, d, got'.server, sent.early, sent.client, a, b)
       /\ got'.client = got.client /\ DOMAIN got' = DOMAIN got
  BY <1>12, <1>14, ServerGotSame
<1> QED BY <1>1, <1>12, <1>14, <1>16, <1>17, <1>18, <1>19, <1>20, ServerMovesQuietly

-----------------------------------------------------------------------------
(* The server reads a ClientHello. *)

(* The two hellos of the client, by field. *)
LEMMA HelloFields ==
  ASSUME NEW y, Flags(y), Hellos(y)
  PROVE  /\ y.ch1.share = y.share1 /\ y.ch1.psk = y.id /\ y.ch1.early = y.asks /\ y.ch1.cookie = <<>>
         /\ y.ch2.share = y.share2 /\ y.ch2.psk = y.id /\ y.ch2.early = FALSE
         /\ y.ch2.cookie = y.hrr.cookie
         /\ y.hrr.cookie = IF y.cookie
                           THEN <<[of |-> <<y.ch1>>, sent |-> ~y.has1, signed |-> y.group]>>
                           ELSE <<>>
<1>1. y.ch1 = [type |-> "ch", share |-> y.share1, psk |-> y.id, early |-> y.asks, cookie |-> <<>>]
  BY DEF Hellos
<1>2. y.ch2 = [type |-> "ch", share |-> y.share2, psk |-> y.id, early |-> FALSE, cookie |-> y.hrr.cookie]
  BY DEF Hellos
<1>3. PICK g, c : /\ g = (IF y.has1 THEN "none" ELSE y.group)
                  /\ c = IF y.cookie THEN <<[of |-> <<y.ch1>>, sent |-> ~y.has1, signed |-> y.group]>>
                         ELSE <<>>
  OBVIOUS
<1>4. y.hrr = [type |-> "hrr", group |-> g, cookie |-> c]
  BY <1>3 DEF Hellos
<1> QED BY <1>1, <1>2, <1>3, <1>4

(* What the flags say of the configuration. *)
LEMMA FlagWords ==
  ASSUME NEW y, Flags(y)
  PROVE  /\ y.id = Identity /\ y.ext = External("server") /\ y.group = RetryGroup
         /\ y.auth = cfg.auth /\ y.compat = cfg.compat /\ y.cookie = cfg.cookie
         /\ y.tickets = cfg.tickets
         /\ y.has1 = (y.share1 \in cfg.groups)
         /\ y.share2 = (IF y.has1 THEN y.share1 ELSE y.group)
         /\ y.retry = (~y.has1 \/ cfg.enforceRetry)
BY DEF Flags

(* ByCookie is false of a first hello, and the retry that it calls for. *)
LEMMA FirstHelloRetries ==
  ASSUME NEW y, Flags(y), Hellos(y), cfg \in Config, NEW s, s.state = "expect_ch"
  PROVE  ~ByCookie(s, y.ch1) /\ (MustRetry(s, y.ch1) <=> y.retry)
<1>1. y.ch1.cookie = <<>> /\ y.ch1.share = y.share1
  BY HelloFields
<1>2. ~ByCookie(s, y.ch1)
  BY <1>1 DEF ByCookie
<1>3. MayRetry(s, y.ch1)
  BY <1>2 DEF MayRetry
<1>4. y.has1 = (y.share1 \in cfg.groups) /\ y.retry = (~y.has1 \/ cfg.enforceRetry)
  BY FlagWords
<1>5. cfg.enforceRetry \in BOOLEAN
  BY DEF Config
<1>6. y.has1 <=> y.share1 \in cfg.groups
  BY <1>4
<1>7. y.retry <=> (~y.has1 \/ cfg.enforceRetry)
  BY <1>4
<1> QED BY <1>1, <1>2, <1>3, <1>6, <1>7 DEF MustRetry

(* The server that a retry leaves, and the HelloRetryRequest that it sends. *)
LEMMA RetrySent ==
  ASSUME NEW y, Flags(y), Hellos(y), Records(y), cfg \in Config, NEW s, s.sched = EmptySchedule,
         NEW hrr, hrr = HelloRetryRequest(s, y.ch1)
  PROVE  /\ hrr = y.hrr
         /\ [Hash(HashCH1(Hash(s.sched, <<y.ch1>>)), <<hrr>>) EXCEPT !.psk = RetriedPsk] = y.sr
<1>1. y.ch1.share = y.share1
  BY HelloFields
<1>2. /\ y.ext = External("server") /\ y.group = RetryGroup /\ y.cookie = cfg.cookie
      /\ y.has1 = (y.share1 \in cfg.groups)
  BY FlagWords
<1>3. Hash(s.sched, <<y.ch1>>) = [psk |-> "unset", dhe |-> "unset", th |-> <<y.ch1>>]
  <2>1. Hash([psk |-> "unset", dhe |-> "unset", th |-> <<>>], <<y.ch1>>)
           = [psk |-> "unset", dhe |-> "unset", th |-> <<>> \o <<y.ch1>>]
    BY HashRecord
  <2>2. <<>> \o <<y.ch1>> = <<y.ch1>>
    BY ShortSeq, CatNone
  <2> QED BY <2>1, <2>2 DEF EmptySchedule
<1>4. PICK h : h = Hash(s.sched, <<y.ch1>>)
  OBVIOUS
<1>5. h.th = <<y.ch1>> /\ h = [psk |-> "unset", dhe |-> "unset", th |-> <<y.ch1>>]
  BY <1>3, <1>4
<1>6. PICK n : n = (y.ch1.share \notin cfg.groups)
  OBVIOUS
<1>7. n = ~y.has1
  BY <1>1, <1>2, <1>6
<1>8. Cookie(s, y.ch1) = [of |-> <<y.ch1>>, sent |-> ~y.has1, signed |-> y.group]
  <2>1. Cookie(s, y.ch1) = [of |-> h.th, sent |-> n, signed |-> RetryGroup]
    BY <1>4, <1>6 DEF Cookie
  <2> QED BY <1>2, <1>5, <1>7, <2>1
<1>9. hrr = y.hrr
  <2>1. PICK ck : ck = Cookie(s, y.ch1)
    OBVIOUS
  <2>2. PICK g : g = IF y.has1 THEN "none" ELSE y.group
    OBVIOUS
  <2>3. PICK c : c = IF y.cookie THEN <<ck>> ELSE <<>>
    OBVIOUS
  <2>4. hrr = [type |-> "hrr", group |-> g, cookie |-> c]
    BY <1>1, <1>2, <2>1, <2>2, <2>3 DEF HelloRetryRequest
  <2>5. y.hrr = [type |-> "hrr", group |-> g, cookie |-> c]
    BY <1>8, <2>1, <2>2, <2>3 DEF Hellos
  <2> QED BY <2>4, <2>5
<1>10. HashCH1(h) = [psk |-> "unset", dhe |-> "unset", th |-> <<y.hash1>>]
  <2>1. y.hash1 = [type |-> "message_hash", of |-> <<y.ch1>>]
    BY DEF Hellos
  <2>2. PICK z : z = <<y.hash1>>
    OBVIOUS
  <2>3. HashCH1(h) = [h EXCEPT !.th = z]
    BY <1>5, <2>1, <2>2 DEF HashCH1
  <2>4. [[psk |-> "unset", dhe |-> "unset", th |-> <<y.ch1>>] EXCEPT !.th = z]
           = [psk |-> "unset", dhe |-> "unset", th |-> z]
    OBVIOUS
  <2> QED BY <1>5, <2>2, <2>3, <2>4
<1>11. Hash(HashCH1(h), <<y.hrr>>) = [psk |-> "unset", dhe |-> "unset", th |-> <<y.hash1, y.hrr>>]
  <2>1. Hash([psk |-> "unset", dhe |-> "unset", th |-> <<y.hash1>>], <<y.hrr>>)
           = [psk |-> "unset", dhe |-> "unset", th |-> <<y.hash1>> \o <<y.hrr>>]
    BY HashRecord
  <2>2. <<y.hash1>> \o <<y.hrr>> = <<y.hash1, y.hrr>>
    BY CatShort
  <2> QED BY <1>10, <2>1, <2>2
<1>12. PICK p, z : p = RetriedPsk /\ z = <<y.hash1, y.hrr>>
  OBVIOUS
<1>13. [[psk |-> "unset", dhe |-> "unset", th |-> z] EXCEPT !.psk = p]
          = [psk |-> p, dhe |-> "unset", th |-> z]
  OBVIOUS
<1>14. p = IF y.ext THEN "external" ELSE "zero"
  BY <1>2, <1>12 DEF RetriedPsk
<1>15. y.sr = [psk |-> p, dhe |-> "unset", th |-> z]
  BY <1>12, <1>14 DEF Hellos
<1> QED BY <1>4, <1>9, <1>11, <1>12, <1>13, <1>15

(* What a server finds of itself when a ClientHello arrives. *)
AtHello(y, s, a, b) ==
    /\ DOMAIN s = ServerFields /\ s.dec = Ctx(NoKey, 0) /\ s.enc = Ctx(NoKey, 0)
    /\ s.pending = NoKey /\ s.ccs = y.compat /\ s.done = FALSE /\ s.error = "none"
    /\ s.accepted = FALSE /\ s.retries = sv.retries /\ s.state = sv.state
    /\ a = 0 /\ b = 0 /\ sent.server = 0 /\ sv.accepted = FALSE
    /\ IF s.retries = 1 /\ ~y.cookie THEN s.state = "expect_ch2" /\ s.sched = y.sr
       ELSE s.state = "expect_ch" /\ s.sched = EmptySchedule
    /\ IF s.state = "expect_ch2" /\ y.asks THEN s.skipped \in Nat ELSE s.skipped = -1

(* A server that waits for a ClientHello has nothing installed yet. *)
LEMMA ServerAtHello ==
  ASSUME NEW y, NEW a, NEW b, NEW al, ServerKnows(y, a, b, al), sv.state \in Unanswered,
         NEW s, ServerMet(s, NoProtection)
  PROVE  AtHello(y, s, a, b)
<1>1. ServerAt(y, sv, sent.early, sent.server, a, b)
  BY DEF ServerKnows
<1>2. sv.state \notin Flown
  BY DEF Unanswered, Flown
<1>3. /\ sv.enc = NoProtection /\ sv.dec = NoProtection /\ sv.pending = NoKey
      /\ sv.ccs = y.compat /\ sv.done = FALSE /\ a = 0 /\ b = 0 /\ sent.server = 0
      /\ IF sv.retries = 1 /\ ~y.cookie THEN sv.state = "expect_ch2" /\ sv.sched = y.sr
         ELSE sv.state = "expect_ch" /\ sv.sched = EmptySchedule
      /\ IF sv.state = "expect_ch2" /\ y.asks THEN sv.skipped \in Nat ELSE sv.skipped = -1
  BY <1>1, <1>2 DEF ServerAt
<1>4. sv.accepted = FALSE
  <2>1. sv.accepted = (sv.state \notin Unanswered /\ y.accept)
    BY <1>1 DEF ServerAt
  <2> QED BY <2>1
<1>5. /\ DOMAIN s = ServerFields /\ s.dec = NoProtection /\ s.enc = sv.enc
      /\ s.pending = sv.pending /\ s.ccs = sv.ccs /\ s.done = sv.done /\ s.error = "none"
      /\ s.accepted = sv.accepted /\ s.retries = sv.retries /\ s.state = sv.state
      /\ s.sched = sv.sched /\ s.skipped = sv.skipped
  BY DEF ServerMet
<1>6. NoProtection = Ctx(NoKey, 0)
  BY CtxUsed
<1> QED BY <1>3, <1>4, <1>5, <1>6 DEF AtHello

(* The HelloRetryRequest in answer to the first hello. *)
LEMMA ServerRetriesSync ==
  ASSUME NEW y, NEW a, NEW b, NEW al, ServerKnows(y, a, b, al), sv.state \in Unanswered,
         sv.retries = 0, y.retry, y.group # "none", NEW s, ServerMet(s, NoProtection), got' = got,
         NEW r, r.msg = y.ch1, ServerSendRetry(s, r),
         NEW t, t = CCcs(y, cl.state, sent.early, sent.client) \o al, toServer' = t
  PROVE  ServerMoves(y)
<1>1. /\ Flags(y) /\ Hellos(y) /\ Records(y) /\ cfg \in Config /\ ClientAlert(cl, al)
      /\ Always(y, cl, sv, sent.early, sent.client) /\ cl.state # "start"
      /\ sent.server \in Nat
      /\ GotServer(y, cl, sv, got.server, sent.early, sent.client, a, b)
  BY DEF ServerKnows, Story, Counted
<1>2. /\ DOMAIN s = ServerFields /\ s.dec = Ctx(NoKey, 0) /\ s.enc = Ctx(NoKey, 0)
      /\ s.pending = NoKey /\ s.ccs = y.compat /\ s.done = FALSE /\ s.error = "none"
      /\ s.accepted = FALSE /\ s.retries = 0 /\ s.state = "expect_ch"
      /\ s.sched = EmptySchedule /\ s.skipped = -1 /\ sv.state = "expect_ch"
      /\ a = 0 /\ b = 0 /\ sent.server = 0
  <2>1. AtHello(y, s, a, b)
    BY ServerAtHello
  <2> QED BY <2>1 DEF AtHello
<1>3. PICK hrr : hrr = HelloRetryRequest(s, y.ch1)
  OBVIOUS
<1>4. PICK s1 : s1 = [Hash(HashCH1(Hash(s.sched, <<y.ch1>>)), <<hrr>>) EXCEPT !.psk = RetriedPsk]
  OBVIOUS
<1>5. hrr = y.hrr /\ s1 = y.sr
  BY <1>1, <1>2, <1>3, <1>4, RetrySent
<1>6. PICK out : out = Seal(s.enc, <<Item(hrr, NoMac)>>)
  OBVIOUS
<1>7. out = <<y.rhrr>>
  <2>1. Seal(Ctx(NoKey, 0), <<Item(y.hrr, NoMac)>>) = <<Wire(NoKey, SeqNo(NoKey, 0), y.hrr, NoMac)>>
    BY SealSingle
  <2>2. Wire(NoKey, SeqNo(NoKey, 0), y.hrr, NoMac) = y.rhrr
    BY <1>1 DEF Records, SeqNo
  <2> QED BY <1>2, <1>5, <1>6, <2>1, <2>2
<1>8. /\ y.ch1.early = y.asks /\ y.compat = cfg.compat /\ y.cookie = cfg.cookie
      /\ y.asks \in BOOLEAN /\ y.cookie \in BOOLEAN
  BY <1>1, HelloFields, FlagWords, FlagTypes
<1>9. PICK d1 : d1 = [NewServer EXCEPT !.retries = s.retries + 1]
  OBVIOUS
<1>10. PICK k : k = IF y.asks THEN 0 ELSE s.skipped
  OBVIOUS
<1>11. PICK q : q = s.retries + 1
  OBVIOUS
<1>12. PICK d2 : d2 = [s EXCEPT !.sched = s1, !.state = "expect_ch2", !.retries = q, !.skipped = k]
  OBVIOUS
<1>13. IF y.cookie THEN ServerReply(d1, out \o ChangeCipherSpec(s.ccs)) ELSE ServerReply(d2, out)
  BY <1>3, <1>4, <1>6, <1>8, <1>9, <1>10, <1>11, <1>12 DEF ServerSendRetry
<1>14. PICK d : d = IF y.cookie THEN d1 ELSE d2
  OBVIOUS
<1>15. PICK o : o = <<y.rhrr>> \o Opt(y.compat /\ y.cookie, CcsRec)
  OBVIOUS
<1>16. ServerReply(d, o)
  <2>1. CASE y.cookie
    <3>1. ChangeCipherSpec(s.ccs) = Opt(y.compat, CcsRec)
      BY <1>2, CcsSent
    <3>2. Opt(y.compat, CcsRec) = Opt(y.compat /\ y.cookie, CcsRec)
      BY <2>1 DEF Opt
    <3> QED BY <1>7, <1>13, <1>14, <1>15, <2>1, <3>1, <3>2
  <2>2. CASE ~y.cookie
    <3>1. Opt(y.compat /\ y.cookie, CcsRec) = <<>>
      BY <2>2 DEF Opt
    <3>2. <<y.rhrr>> \o <<>> = <<y.rhrr>>
      BY ShortSeq, CatNone
    <3> QED BY <1>7, <1>13, <1>14, <1>15, <2>2, <3>1, <3>2
  <2> QED BY <2>1, <2>2
<1>17. /\ d1.state = "expect_ch" /\ d1.enc = NoProtection /\ d1.dec = NoProtection
       /\ d1.pending = NoKey /\ d1.sched = EmptySchedule /\ d1.skipped = -1 /\ d1.accepted = FALSE
       /\ d1.retries = 1 /\ d1.ccs = y.compat /\ d1.done = FALSE /\ d1.error = "none"
  BY <1>2, <1>8, <1>9 DEF NewServer
<1>18. /\ d2.state = "expect_ch2" /\ d2.enc = NoProtection /\ d2.dec = NoProtection
       /\ d2.pending = NoKey /\ d2.sched = y.sr /\ d2.accepted = FALSE /\ d2.skipped = k
       /\ d2.retries = 1 /\ d2.ccs = y.compat /\ d2.done = FALSE /\ d2.error = "none"
  <2>1. q = 1
    BY <1>2, <1>11
  <2>2. NoProtection = Ctx(NoKey, 0)
    BY CtxUsed
  <2> QED BY <1>2, <1>5, <1>12, <2>1, <2>2 DEF ServerFields
<1>19. /\ d.state \in Unanswered /\ d.enc = NoProtection /\ d.dec = NoProtection
       /\ d.pending = NoKey /\ d.accepted = FALSE /\ d.retries = 1 /\ d.ccs = y.compat
       /\ d.done = FALSE /\ d.error = "none"
       /\ IF d.retries = 1 /\ ~y.cookie THEN d.state = "expect_ch2" /\ d.sched = y.sr
          ELSE d.state = "expect_ch" /\ d.sched = EmptySchedule
       /\ IF d.state = "expect_ch2" /\ y.asks THEN d.skipped \in Nat ELSE d.skipped = -1
  <2>1. CASE y.cookie
    BY <1>14, <1>17, <2>1 DEF Unanswered
  <2>2. CASE ~y.cookie
    BY <1>2, <1>10, <1>14, <1>18, <2>2 DEF Unanswered
  <2> QED BY <2>1, <2>2
<1>20. ServerAt(y, d, sent.early, sent.server, a, b)
  <2>1. d.accepted = (d.state \notin Unanswered /\ y.accept)
    BY <1>19
  <2>2. d.state \notin Flown /\ d.state # "generating_cv"
    BY <1>19 DEF Unanswered, Flown
  <2>3. d.state \notin {"expect_eoed", "expect_cert", "expect_cv", "expect_fin", "post"}
    BY <1>19 DEF Unanswered
  <2> QED BY <1>2, <1>19, <2>1, <2>2, <2>3 DEF ServerAt
<1>21. GotServer(y, cl, d, got'.server, sent.early, sent.client, a, b)
  BY <1>1, <1>2, <1>19 DEF GotServer
<1>22. cl.state = "expect_sh"
  BY <1>1, <1>2 DEF Always
<1>23. Always(y, cl, d, sent.early, sent.client)
  BY <1>1, <1>19, <1>22 DEF Always, ServerStates, Unanswered, Flown, ClientMiddle
<1>24. FromClient(y, d, cl.state, sent.early, sent.client, a, b, al, toServer')
  <2>1. ~Waits(y, d) /\ d.state \notin {"expect_eoed", "expect_cv", "expect_fin", "post"}
    BY <1>19 DEF Waits, Unanswered
  <2>2. RetryForm(y, cl.state, sent.early, sent.client, al, toServer')
    BY DEF RetryForm
  <2> QED BY <1>19, <2>1, <2>2 DEF FromClient
<1>25. sv' = d /\ toClient' = toClient \o o
  BY <1>16 DEF ServerReply
<1>26. ServerHas(y, a, b)
  BY <1>1, <1>20, <1>21, <1>24, <1>25 DEF ServerHas
<1>27. Sends(y, sv, d, o)
  <2>1. Grown(y, cl, sv, sent.server, d, sent.server, o)
    BY <1>1, <1>15, <1>19, <1>22, GrownByRetry
  <2> QED BY <2>1 DEF Sends
<1> QED BY <1>19, <1>23, <1>25, <1>26, <1>27 DEF ServerMoves

(* A schedule before the key exchange, and the messages it takes up. *)
HashesOn(p, d, t, ms) ==
    Hash([psk |-> p, dhe |-> d, th |-> t], ms) = [psk |-> p, dhe |-> d, th |-> t \o ms]

(* Hashing appends to the transcript and leaves the rest. *)
LEMMA HashOn == \A p, d, t, ms : HashesOn(p, d, t, ms)
BY HashRecord DEF HashesOn

(* The schedule with the ClientHello that is answered. *)
HelloOf(y) ==
    [psk |-> IF y.found THEN y.id ELSE "zero", dhe |-> "unset",
     th |-> IF y.retry THEN <<y.hash1, y.hrr, y.ch2>> ELSE <<y.ch1>>]

(* A server that takes the hello m decides what the story says. *)
HelloTaken(y, s, m) ==
    /\ PskFound(s, m) = y.found /\ AcceptsEarly(s, m) = y.accept
    /\ (IF PskOnly(s, m) THEN "none" ELSE m.share) = y.share
    /\ HelloSchedule(s, m) = HelloOf(y)
    /\ \E k : /\ k = (IF m.early /\ ~y.accept THEN 0 ELSE s.skipped)
              /\ IF y.skips THEN k \in Nat ELSE k = -1

(* The first hello, when no retry is called for. *)
LEMMA FirstHelloTaken ==
  ASSUME NEW y, Flags(y), Hellos(y), cfg \in Config, ~y.retry,
         NEW s, s.state = "expect_ch", s.sched = EmptySchedule, s.skipped = -1
  PROVE  HelloTaken(y, s, y.ch1)
<1>1. PICK m : m = y.ch1
  OBVIOUS
<1>2. m.share = y.share1 /\ m.psk = y.id /\ m.early = y.asks /\ ~ByCookie(s, m)
  BY <1>1, HelloFields, FirstHelloRetries
<1>3. /\ y.ext = External("server") /\ y.auth = cfg.auth
      /\ y.found \in BOOLEAN /\ y.accept \in BOOLEAN /\ y.asks \in BOOLEAN /\ y.ext \in BOOLEAN
      /\ y.skips \in BOOLEAN
      /\ y.skips <=> (y.asks /\ ~y.accept /\ ~(y.retry /\ y.cookie))
  BY FlagWords, FlagTypes
<1>4. y.found <=> /\ y.id # "none" /\ ~y.auth
                  /\ IF y.ext THEN y.id = "external"
                     ELSE /\ ~y.retry /\ y.id = "ticket" /\ cfg.psk = "ticket"
                          /\ cfg.ticketGroup \in cfg.groups
  BY Zenon DEF Flags
<1>5. PskFound(s, m) <=> y.found
  BY <1>2, <1>3, <1>4 DEF PskFound
<1>6. PskFound(s, m) \in BOOLEAN
  BY Zenon DEF PskFound
<1>7. PskFound(s, m) = y.found
  BY <1>3, <1>5, <1>6
<1>8. AcceptsEarly(s, m) = y.accept
  <2>1. y.accept <=> (y.found /\ y.asks /\ ~y.retry /\ cfg.acceptEarly)
    BY Zenon DEF Flags
  <2>2. AcceptsEarly(s, m) <=> y.accept
    BY <1>2, <1>5, <2>1 DEF AcceptsEarly
  <2>3. AcceptsEarly(s, m) \in BOOLEAN
    BY Zenon DEF AcceptsEarly
  <2> QED BY <1>3, <2>2, <2>3
<1>9. (IF PskOnly(s, m) THEN "none" ELSE m.share) = y.share
  <2>1. y.share = IF y.found /\ ~cfg.dheOnPsk THEN "none"
                  ELSE IF y.retry THEN y.share2 ELSE y.share1
    BY DEF Flags
  <2> QED BY <1>2, <1>5, <2>1 DEF PskOnly
<1>10. HelloSchedule(s, m) = HelloOf(y)
  <2>1. PICK p : p = IF y.found THEN y.id ELSE "zero"
    OBVIOUS
  <2>2. [s.sched EXCEPT !.psk = IF PskFound(s, m) THEN m.psk ELSE "zero"]
           = [psk |-> p, dhe |-> "unset", th |-> <<>>]
    <3>1. p = IF PskFound(s, m) THEN m.psk ELSE "zero"
      BY <1>2, <1>5, <2>1
    <3>2. [EmptySchedule EXCEPT !.psk = p] = [psk |-> p, dhe |-> "unset", th |-> <<>>]
      BY DEF EmptySchedule
    <3> QED BY <3>1, <3>2
  <2>3. HelloSchedule(s, m) = Hash([psk |-> p, dhe |-> "unset", th |-> <<>>], <<m>>)
    BY <1>2, <2>2 DEF HelloSchedule
  <2>4. Hash([psk |-> p, dhe |-> "unset", th |-> <<>>], <<m>>)
           = [psk |-> p, dhe |-> "unset", th |-> <<>> \o <<m>>]
    <3>1. HashesOn(p, "unset", <<>>, <<m>>)
      BY HashOn
    <3> QED BY <3>1 DEF HashesOn
  <2>5. <<>> \o <<m>> = <<m>>
    BY ShortSeq, CatNone
  <2> QED BY <1>1, <2>1, <2>3, <2>4, <2>5 DEF HelloOf
<1>11. \E k : /\ k = (IF m.early /\ ~y.accept THEN 0 ELSE s.skipped)
              /\ IF y.skips THEN k \in Nat ELSE k = -1
  BY <1>2, <1>3
<1> QED BY <1>1, <1>7, <1>8, <1>9, <1>10, <1>11 DEF HelloTaken

(* The second hello: its share is one of the server's groups. *)
LEMMA SecondShare ==
  ASSUME NEW y, Flags(y), cfg \in Config, y.group # "none"
  PROVE  y.share2 \in cfg.groups /\ (~y.has1 => y.share2 = y.group)
<1>1. /\ y.group = RetryGroup /\ y.has1 = (y.share1 \in cfg.groups)
      /\ y.share2 = (IF y.has1 THEN y.share1 ELSE y.group)
  BY FlagWords
<1>2. RetryGroup # "none" => RetryGroup \in cfg.groups
  BY DEF RetryGroup
<1>3. y.has1 <=> y.share1 \in cfg.groups
  BY <1>1
<1> QED BY <1>1, <1>2, <1>3

(* The schedule that the server kept, or rebuilds from the cookie. *)
LEMMA RetriedSchedule ==
  ASSUME NEW y, Flags(y), Hellos(y), cfg \in Config, y.group # "none", y.cookie
  PROVE  CookieSchedule(y.ch2) = y.sr
<1>1. /\ y.ch2.share = y.share2 /\ y.ch2.cookie = y.hrr.cookie
      /\ y.hrr.cookie = <<[of |-> <<y.ch1>>, sent |-> ~y.has1, signed |-> y.group]>>
  BY HelloFields
<1>2. PICK m : m = y.ch2
  OBVIOUS
<1>3. PICK ck : ck = m.cookie[1]
  OBVIOUS
<1>4. ck.of = <<y.ch1>> /\ ck.sent = ~y.has1
  BY <1>1, <1>2, <1>3
<1>5. y.has1 \in BOOLEAN /\ y.ext = External("server")
  BY FlagTypes, FlagWords
<1>6. PICK g : g = IF ck.sent THEN m.share ELSE "none"
  OBVIOUS
<1>7. g = IF y.has1 THEN "none" ELSE y.group
  BY <1>1, <1>2, <1>4, <1>5, <1>6, SecondShare
<1>8. PICK h : h = [type |-> "hrr", group |-> g, cookie |-> m.cookie]
  OBVIOUS
<1>9. h = y.hrr
  <2>1. PICK c : c = IF y.cookie THEN <<[of |-> <<y.ch1>>, sent |-> ~y.has1, signed |-> y.group]>>
                     ELSE <<>>
    OBVIOUS
  <2>2. y.hrr = [type |-> "hrr", group |-> g, cookie |-> c]
    BY <1>7, <2>1 DEF Hellos
  <2>3. m.cookie = c
    BY <1>1, <1>2, <2>1
  <2> QED BY <1>8, <2>2, <2>3
<1>10. [type |-> "message_hash", of |-> ck.of] = y.hash1
  BY <1>4 DEF Hellos
<1>11. PICK x, p : x = [type |-> "message_hash", of |-> ck.of] /\ p = RetriedPsk
  OBVIOUS
<1>12. CookieSchedule(m) = [psk |-> p, dhe |-> "unset", th |-> <<x, h>>]
  BY <1>3, <1>6, <1>8, <1>11 DEF CookieSchedule
<1>13. p = IF y.ext THEN "external" ELSE "zero"
  BY <1>5, <1>11 DEF RetriedPsk
<1>14. y.sr = [psk |-> p, dhe |-> "unset", th |-> <<y.hash1, y.hrr>>]
  BY <1>13 DEF Hellos
<1> QED BY <1>2, <1>9, <1>10, <1>11, <1>12, <1>14

(* The second hello. *)
LEMMA SecondHelloTaken ==
  ASSUME NEW y, Flags(y), Hellos(y), cfg \in Config, y.retry, y.group # "none",
         NEW s, IF ~y.cookie THEN s.state = "expect_ch2" /\ s.sched = y.sr
                ELSE s.state = "expect_ch" /\ s.sched = EmptySchedule,
         IF s.state = "expect_ch2" /\ y.asks THEN s.skipped \in Nat ELSE s.skipped = -1,
         NEW r, r.msg = y.ch2
  PROVE  ~MustRetry(s, y.ch2) /\ (HelloError(s, r) = "none" => HelloTaken(y, s, y.ch2))
<1>1. PICK m : m = y.ch2
  OBVIOUS
<1>2. m.share = y.share2 /\ m.psk = y.id /\ m.early = FALSE /\ m.cookie = y.hrr.cookie
      /\ y.hrr.cookie = IF y.cookie
                           THEN <<[of |-> <<y.ch1>>, sent |-> ~y.has1, signed |-> y.group]>>
                           ELSE <<>>
  BY <1>1, HelloFields
<1>3. /\ y.ext = External("server") /\ y.auth = cfg.auth
      /\ y.found \in BOOLEAN /\ y.accept \in BOOLEAN /\ y.asks \in BOOLEAN /\ y.ext \in BOOLEAN
      /\ y.skips \in BOOLEAN /\ y.cookie \in BOOLEAN
      /\ y.skips <=> (y.asks /\ ~y.accept /\ ~(y.retry /\ y.cookie))
      /\ ~y.accept
  BY FlagWords, FlagTypes
<1>4. ByCookie(s, m) <=> y.cookie
  <2>1. \A x : <<x>> # <<>>
    OBVIOUS
  <2>2. y.share2 \in cfg.groups
    BY SecondShare
  <2> QED BY <1>2, <2>1, <2>2 DEF ByCookie
<1>5. s.state = "expect_ch2" \/ ByCookie(s, m)
  BY <1>4
<1>6. ~MayRetry(s, m)
  BY <1>5 DEF MayRetry
<1>7. y.found <=> /\ y.id # "none" /\ ~y.auth
                  /\ IF y.ext THEN y.id = "external"
                     ELSE /\ ~y.retry /\ y.id = "ticket" /\ cfg.psk = "ticket"
                          /\ cfg.ticketGroup \in cfg.groups
  BY Zenon DEF Flags
<1>8. PskFound(s, m) <=> y.found
  BY <1>2, <1>3, <1>5, <1>7 DEF PskFound
<1>9. PskFound(s, m) \in BOOLEAN
  BY Zenon DEF PskFound
<1>10. PskFound(s, m) = y.found
  BY <1>3, <1>8, <1>9
<1>11. AcceptsEarly(s, m) = y.accept
  <2>1. ~AcceptsEarly(s, m)
    BY <1>2 DEF AcceptsEarly
  <2>2. AcceptsEarly(s, m) \in BOOLEAN
    BY Zenon DEF AcceptsEarly
  <2> QED BY <1>3, <2>1, <2>2
<1>12. (IF PskOnly(s, m) THEN "none" ELSE m.share) = y.share
  <2>1. y.share = IF y.found /\ ~cfg.dheOnPsk THEN "none"
                  ELSE IF y.retry THEN y.share2 ELSE y.share1
    BY DEF Flags
  <2> QED BY <1>2, <1>8, <2>1 DEF PskOnly
<1>13. HelloError(s, r) = "none" => ~y.ext \/ y.found
  <2>1. ~MustRetry(s, m)
    BY <1>6 DEF MustRetry
  <2> QED BY <1>1, <1>3, <1>8, <2>1 DEF HelloError
<1>14. ASSUME HelloError(s, r) = "none" PROVE HelloSchedule(s, m) = HelloOf(y)
  <2>1. (IF ByCookie(s, m) THEN CookieSchedule(m) ELSE s.sched) = y.sr
    BY <1>1, <1>4, RetriedSchedule
  <2>2. HelloSchedule(s, m) = Hash(y.sr, <<m>>)
    BY <1>5, <2>1 DEF HelloSchedule
  <2>3. PICK p : p = IF y.ext THEN "external" ELSE "zero"
    OBVIOUS
  <2>4. y.sr = [psk |-> p, dhe |-> "unset", th |-> <<y.hash1, y.hrr>>]
    BY <2>3 DEF Hellos
  <2>5. Hash([psk |-> p, dhe |-> "unset", th |-> <<y.hash1, y.hrr>>], <<m>>)
           = [psk |-> p, dhe |-> "unset", th |-> <<y.hash1, y.hrr>> \o <<m>>]
    <3>1. HashesOn(p, "unset", <<y.hash1, y.hrr>>, <<m>>)
      BY HashOn
    <3> QED BY <3>1 DEF HashesOn
  <2>6. <<y.hash1, y.hrr>> \o <<m>> = <<y.hash1, y.hrr, m>>
    BY CatShort
  <2>7. p = IF y.found THEN y.id ELSE "zero"
    BY <1>3, <1>7, <1>13, <1>14, <2>3
  <2> QED BY <1>1, <2>2, <2>4, <2>5, <2>6, <2>7 DEF HelloOf
<1>15. \E k : /\ k = (IF m.early /\ ~y.accept THEN 0 ELSE s.skipped)
              /\ IF y.skips THEN k \in Nat ELSE k = -1
  BY <1>2, <1>3
<1>16. ~MustRetry(s, y.ch2)
  BY <1>1, <1>6 DEF MustRetry
<1> QED BY <1>1, <1>10, <1>11, <1>12, <1>14, <1>15, <1>16 DEF HelloTaken

(* What ServerHello leaves. *)
HelloStateIs(y, s, h) ==
    /\ h.out = <<y.rsh>> \o Opt(y.compat, CcsRec)
    /\ DOMAIN h.tls = ServerFields /\ h.tls.isPsk = y.found /\ h.tls.accepted = y.accept
    /\ h.tls.sched = y.hs /\ h.tls.enc = Ctx(y.ksh, 0)
    /\ h.tls.dec = Ctx(IF y.accept THEN y.ke ELSE y.kch, 0)
    /\ h.tls.pending = (IF y.accept THEN y.kch ELSE NoKey)
    /\ IF y.skips THEN h.tls.skipped \in Nat ELSE h.tls.skipped = -1
    /\ h.tls.retries = s.retries /\ h.tls.state = s.state /\ h.tls.done = s.done
    /\ h.tls.error = s.error

(* The schedule that ServerHello reaches. *)
LEMMA HelloReaches ==
  ASSUME NEW y, Flags(y), Hellos(y), cfg \in Config, NEW d,
         d = (IF y.share = "none" THEN "zero" ELSE y.share)
  PROVE  /\ Hash([HelloOf(y) EXCEPT !.dhe = d], <<y.sh>>) = y.hs
         /\ y.accept => HelloOf(y) = y.s1
<1>1. PICK p, t : /\ p = (IF y.found THEN y.id ELSE "zero")
                  /\ t = IF y.retry THEN <<y.hash1, y.hrr, y.ch2>> ELSE <<y.ch1>>
  OBVIOUS
<1>2. HelloOf(y) = [psk |-> p, dhe |-> "unset", th |-> t]
  BY <1>1 DEF HelloOf
<1>3. [[psk |-> p, dhe |-> "unset", th |-> t] EXCEPT !.dhe = d] = [psk |-> p, dhe |-> d, th |-> t]
  OBVIOUS
<1>4. Hash([psk |-> p, dhe |-> d, th |-> t], <<y.sh>>) = [psk |-> p, dhe |-> d, th |-> t \o <<y.sh>>]
  <2>1. HashesOn(p, d, t, <<y.sh>>)
    BY HashOn
  <2> QED BY <2>1 DEF HashesOn
<1>5. t \o <<y.sh>> = IF y.retry THEN <<y.hash1, y.hrr, y.ch2, y.sh>> ELSE <<y.ch1, y.sh>>
  BY <1>1, CatShort
<1>6. PICK u : u = IF y.retry THEN <<y.hash1, y.hrr, y.ch2, y.sh>> ELSE <<y.ch1, y.sh>>
  OBVIOUS
<1>7. y.hs = [psk |-> p, dhe |-> d, th |-> u]
  BY <1>1, <1>6 DEF Hellos
<1>8. Hash([HelloOf(y) EXCEPT !.dhe = d], <<y.sh>>) = y.hs
  BY <1>2, <1>3, <1>4, <1>5, <1>6, <1>7
<1>9. ASSUME y.accept PROVE HelloOf(y) = y.s1
  <2>1. y.found /\ ~y.retry
    BY <1>9, FlagTypes
  <2>2. y.id # "none"
    <3>1. y.found <=> /\ y.id # "none" /\ ~y.auth
                      /\ IF y.ext THEN y.id = "external"
                         ELSE /\ ~y.retry /\ y.id = "ticket" /\ cfg.psk = "ticket"
                              /\ cfg.ticketGroup \in cfg.groups
      BY Zenon DEF Flags
    <3> QED BY <2>1, <3>1
  <2>3. p = y.psk1 /\ t = <<y.ch1>>
    BY <1>1, <2>1, <2>2 DEF Hellos
  <2>4. y.s1 = [psk |-> y.psk1, dhe |-> "unset", th |-> <<y.ch1>>]
    BY DEF Hellos
  <2> QED BY <1>2, <2>3, <2>4
<1> QED BY <1>8, <1>9

(* ServerHello. *)
LEMMA HelloStateHolds ==
  ASSUME NEW y, Story(y), cfg \in Config, NEW s, DOMAIN s = ServerFields, s.enc = Ctx(NoKey, 0),
         s.ccs = y.compat, NEW m, HelloTaken(y, s, m), NEW h, h = ServerHelloState(s, m)
  PROVE  HelloStateIs(y, s, h)
<1>1. Flags(y) /\ Hellos(y) /\ Keys(y) /\ Records(y)
  BY DEF Story
<1>2. /\ PskFound(s, m) = y.found /\ AcceptsEarly(s, m) = y.accept
      /\ (IF PskOnly(s, m) THEN "none" ELSE m.share) = y.share
      /\ HelloSchedule(s, m) = HelloOf(y)
  BY DEF HelloTaken
<1>3. PICK k : /\ k = (IF m.early /\ ~y.accept THEN 0 ELSE s.skipped)
               /\ IF y.skips THEN k \in Nat ELSE k = -1
  BY DEF HelloTaken
<1>4. y.sh = [type |-> "sh", share |-> y.share, psk |-> y.found]
  BY <1>1 DEF Hellos
<1>5. PICK d : d = IF y.share = "none" THEN "zero" ELSE y.share
  OBVIOUS
<1>6. PICK hs : hs = Hash([HelloOf(y) EXCEPT !.dhe = d], <<y.sh>>)
  OBVIOUS
<1>7. hs = y.hs /\ (y.accept => HelloOf(y) = y.s1)
  BY <1>1, <1>5, <1>6, HelloReaches
<1>8. PICK e, pd : /\ e = Protect(IF y.accept THEN Key("c e", HelloOf(y)) ELSE Key("c hs", hs))
                   /\ pd = IF y.accept THEN Key("c hs", hs) ELSE NoKey
  OBVIOUS
<1>9. PICK en : en = Protect(Key("s hs", hs))
  OBVIOUS
<1>10. PICK tls : tls = [s EXCEPT !.isPsk = y.found, !.accepted = y.accept, !.sched = hs, !.ccs = FALSE,
                                  !.enc = en, !.dec = e, !.pending = pd, !.skipped = k]
  OBVIOUS
<1>11. PICK out : out = Seal(s.enc, <<Item(y.sh, NoMac)>>) \o ChangeCipherSpec(s.ccs)
  OBVIOUS
<1>12. h = [tls |-> tls, out |-> out]
  <2>1. PICK share, f, ch, early :
           /\ share = (IF PskOnly(s, m) THEN "none" ELSE m.share) /\ f = PskFound(s, m)
           /\ ch = HelloSchedule(s, m) /\ early = AcceptsEarly(s, m)
    OBVIOUS
  <2>2. share = y.share /\ f = y.found /\ ch = HelloOf(y) /\ early = y.accept
    BY <1>2, <2>1
  <2>3. PICK sh, x : /\ sh = [type |-> "sh", share |-> share, psk |-> f]
                     /\ x = Hash([ch EXCEPT !.dhe = IF share = "none" THEN "zero" ELSE share], <<sh>>)
    OBVIOUS
  <2>4. sh = y.sh /\ x = hs
    BY <1>4, <1>5, <1>6, <2>2, <2>3
  <2>5. PICK z1, z2, z3, z4 :
           /\ z1 = Protect(Key("s hs", x))
           /\ z2 = Protect(IF early THEN Key("c e", ch) ELSE Key("c hs", x))
           /\ z3 = (IF early THEN Key("c hs", x) ELSE NoKey)
           /\ z4 = IF m.early /\ ~early THEN 0 ELSE s.skipped
    OBVIOUS
  <2>6. z1 = en /\ z2 = e /\ z3 = pd /\ z4 = k
    BY <1>3, <1>8, <1>9, <2>2, <2>4, <2>5
  <2>7. h = [tls |-> [s EXCEPT !.isPsk = f, !.accepted = early, !.sched = x, !.ccs = FALSE,
                               !.enc = z1, !.dec = z2, !.pending = z3, !.skipped = z4],
             out |-> Seal(s.enc, <<Item(sh, NoMac)>>) \o ChangeCipherSpec(s.ccs)]
    BY <2>1, <2>3, <2>5 DEF ServerHelloState
  <2> QED BY <1>10, <1>11, <2>2, <2>4, <2>6, <2>7
<1>13. h.tls = tls /\ h.out = out
  BY <1>12
<1>14. out = <<y.rsh>> \o Opt(y.compat, CcsRec)
  <2>1. Seal(Ctx(NoKey, 0), <<Item(y.sh, NoMac)>>) = <<Wire(NoKey, SeqNo(NoKey, 0), y.sh, NoMac)>>
    BY SealSingle
  <2>2. Wire(NoKey, SeqNo(NoKey, 0), y.sh, NoMac) = y.rsh
    BY <1>1 DEF Records, SeqNo
  <2>3. ChangeCipherSpec(s.ccs) = Opt(y.compat, CcsRec)
    BY CcsSent
  <2> QED BY <1>11, <2>1, <2>2, <2>3
<1>15. en = Ctx(y.ksh, 0) /\ e = Ctx(IF y.accept THEN y.ke ELSE y.kch, 0)
       /\ pd = IF y.accept THEN y.kch ELSE NoKey
  <2>1. Key("s hs", y.hs) = y.ksh /\ Key("c hs", y.hs) = y.kch /\ Key("c e", y.s1) = y.ke
    BY <1>1 DEF Keys
  <2> QED BY <1>7, <1>8, <1>9, <2>1, CtxUsed
<1>16. /\ DOMAIN tls = ServerFields /\ tls.isPsk = y.found /\ tls.accepted = y.accept
       /\ tls.sched = hs /\ tls.enc = en /\ tls.dec = e /\ tls.pending = pd /\ tls.skipped = k
       /\ tls.retries = s.retries /\ tls.state = s.state /\ tls.done = s.done
       /\ tls.error = s.error
  BY <1>10 DEF ServerFields
<1> QED BY <1>3, <1>7, <1>13, <1>14, <1>15, <1>16 DEF HelloStateIs

(* The messages of a few items. *)
LEMMA MessagesFew ==
  ASSUME NEW a, NEW b, NEW x, NEW z
  PROVE  Messages(<<Item(a, x), Item(b, z)>>) = <<a, b>>
<1>1. Item(a, x).msg = a /\ Item(b, z).msg = b
  BY DEF Item
<1>2. PICK i, j : i = Item(a, x) /\ j = Item(b, z)
  OBVIOUS
<1>3. Messages(<<i, j>>) = <<i.msg, j.msg>>
  BY DEF Messages
<1> QED BY <1>1, <1>2, <1>3

(* Messages hashed one after the other, or together. *)
LEMMA HashTwice ==
  ASSUME NEW s, IsSchedule(s), NEW u, IsSeq(u), NEW v, IsSeq(v)
  PROVE  Hash(Hash(s, u), v) = Hash(s, u \o v)
<1>1. PICK a : \E b, t : s = [psk |-> a, dhe |-> b, th |-> t] /\ IsSeq(t)
  BY DEF IsSchedule
<1>2. PICK b : \E t : s = [psk |-> a, dhe |-> b, th |-> t] /\ IsSeq(t)
  BY <1>1
<1>3. PICK t : s = [psk |-> a, dhe |-> b, th |-> t] /\ IsSeq(t)
  BY <1>2
<1>4. HashesOn(a, b, t, u) /\ HashesOn(a, b, t \o u, v) /\ HashesOn(a, b, t, u \o v)
  BY HashOn
<1>5. (t \o u) \o v = t \o (u \o v)
  BY <1>3, CatAssoc
<1>6. PICK w1, w2 : w1 = t \o u /\ w2 = u \o v
  OBVIOUS
<1>7. Hash(s, u) = [psk |-> a, dhe |-> b, th |-> w1]
  BY <1>3, <1>4, <1>6 DEF HashesOn
<1>8. Hash([psk |-> a, dhe |-> b, th |-> w1], v) = [psk |-> a, dhe |-> b, th |-> w1 \o v]
  BY <1>4, <1>6 DEF HashesOn
<1>9. Hash(s, w2) = [psk |-> a, dhe |-> b, th |-> t \o w2]
  BY <1>3, <1>4, <1>6 DEF HashesOn
<1> QED BY <1>5, <1>6, <1>7, <1>8, <1>9

(* Three items, as an equation a prover can use. *)
MessagesAre(items, ms) == Messages(items) = ms

(* The messages of three items. *)
LEMMA MessagesThree ==
  \A a, b, c, x : MessagesAre(<<Item(a, x), Item(b, x), Item(c, x)>>, <<a, b, c>>)
<1> TAKE a, b, c, x
<1>1. Item(a, x).msg = a /\ Item(b, x).msg = b /\ Item(c, x).msg = c
  BY DEF Item
<1>2. PICK i, j, k : i = Item(a, x) /\ j = Item(b, x) /\ k = Item(c, x)
  OBVIOUS
<1>3. Messages(<<i, j, k>>) = <<i.msg, j.msg, k.msg>>
  BY DEF Messages
<1> QED BY <1>1, <1>2, <1>3 DEF MessagesAre

(* The records from EncryptedExtensions to Certificate, their hash and their number. *)
ExtensionsOf(y) == <<y.ree>> \o (Opt(y.auth, y.rcr) \o Opt(~y.found, y.rcert))
ExtensionsAre(y, items) ==
    /\ Sealed(y.ksh, 0, items, ExtensionsOf(y))
    /\ Hash(y.hs, Messages(items)) = (IF y.found THEN y.see ELSE y.scert)
    /\ Len(items) = (IF y.found THEN 1 ELSE y.ncr + 1)

(* The server's messages from EncryptedExtensions to Certificate are those of the story. *)
LEMMA ExtensionsHold ==
  ASSUME NEW y, Story(y), cfg \in Config, NEW c, c.isPsk = y.found,
         c.pending = (IF y.accept THEN y.kch ELSE NoKey), NEW items, items = ServerExtensions(c)
  PROVE  ExtensionsAre(y, items)
<1>1. Flags(y) /\ Hellos(y) /\ Keys(y) /\ Records(y) /\ Schedules(y)
  BY DEF Story
<1>2. /\ y.auth \in BOOLEAN /\ y.found \in BOOLEAN /\ y.accept \in BOOLEAN /\ (y.found => ~y.auth)
      /\ y.auth = cfg.auth
  BY <1>1, FlagTypes, FlagWords
<1>3. y.ksh # NoKey /\ y.kch # NoKey
  BY <1>1, KeysDiffer
<1>4. \A q : SeqNo(y.ksh, q) = q
  BY <1>3 DEF SeqNo
<1>5. PICK i1, i2, i3 : i1 = Item(y.ee, NoMac) /\ i2 = Item(Plain("cr"), NoMac)
                        /\ i3 = Item(CertMsg(TRUE), NoMac)
  OBVIOUS
<1>6. items = <<i1>> \o (IF ~y.found /\ y.auth THEN <<i2>> ELSE <<>>)
                     \o (IF ~y.found THEN <<i3>> ELSE <<>>)
  <2>1. PICK z \in BOOLEAN : z = (c.pending # NoKey)
    OBVIOUS
  <2>2. z = y.accept
    BY <1>2, <1>3, <2>1
  <2>3. y.ee = [type |-> "ee", early |-> z]
    BY <1>1, <2>2 DEF Schedules
  <2>4. i1 = Item([type |-> "ee", early |-> c.pending # NoKey], NoMac)
    BY <1>5, <2>1, <2>3
  <2>5. i3 = Item([type |-> "cert", some |-> TRUE], NoMac)
    BY <1>5 DEF CertMsg
  <2> QED BY <1>2, <1>5, <2>4, <2>5 DEF ServerExtensions
<1>7. /\ y.ree = Wire(y.ksh, 0, y.ee, NoMac) /\ y.rcr = Wire(y.ksh, 1, Plain("cr"), NoMac)
      /\ y.rcert = Wire(y.ksh, y.ncr, CertMsg(TRUE), NoMac)
  BY <1>1 DEF Records
<1>8. y.ncr = IF y.auth THEN 2 ELSE 1
  BY <1>1 DEF Keys
<1>9. /\ y.see = Hash(y.hs, <<y.ee>>)
      /\ y.scr = (IF y.auth THEN Hash(y.see, <<Plain("cr")>>) ELSE y.see)
      /\ y.scert = Hash(y.scr, <<CertMsg(TRUE)>>)
  BY <1>1 DEF Schedules
<1>10. /\ IsSeq(<<i1>>) /\ IsSeq(<<i2>>) /\ IsSeq(<<i3>>) /\ IsSeq(<<y.ee>>) /\ IsSeq(<<Plain("cr")>>)
       /\ IsSeq(<<CertMsg(TRUE)>>) /\ IsSeq(<<y.ree>>) /\ IsSeq(<<y.rcr>>) /\ IsSeq(<<y.rcert>>)
       /\ IsSeq(<<>>)
  BY ShortSeq
<1>11. IsSchedule(y.hs) /\ IsSchedule(y.see)
  BY <1>1, StorySchedules
<1>12. CASE y.found
  <2>1. items = <<i1>>
    <3>1. items = (<<i1>> \o <<>>) \o <<>>
      BY <1>6, <1>12
    <3> QED BY <1>10, <3>1, CatNone
  <2>2. ExtensionsOf(y) = <<y.ree>>
    <3>1. ExtensionsOf(y) = <<y.ree>> \o (<<>> \o <<>>)
      BY <1>2, <1>12 DEF ExtensionsOf, Opt
    <3>2. <<>> \o <<>> = <<>> /\ <<y.ree>> \o <<>> = <<y.ree>>
      BY <1>10, CatNone
    <3> QED BY <3>1, <3>2
  <2>3. Sealed(y.ksh, 0, <<i1>>, <<Wire(y.ksh, SeqNo(y.ksh, 0), y.ee, NoMac)>>)
    BY <1>5, SealedOne
  <2>4. Messages(items) = <<y.ee>>
    BY <1>5, <2>1, MessagesOf
  <2>5. Len(items) = 1
    BY <2>1
  <2> QED BY <1>4, <1>7, <1>9, <1>12, <2>1, <2>2, <2>3, <2>4, <2>5 DEF ExtensionsAre
<1>13. CASE ~y.found /\ ~y.auth
  <2>1. items = <<i1>> \o <<i3>>
    <3>1. items = (<<i1>> \o <<>>) \o <<i3>>
      BY <1>6, <1>13
    <3> QED BY <1>10, <3>1, CatNone
  <2>2. ExtensionsOf(y) = <<y.ree>> \o <<y.rcert>>
    <3>1. ExtensionsOf(y) = <<y.ree>> \o (<<>> \o <<y.rcert>>)
      BY <1>2, <1>13 DEF ExtensionsOf, Opt
    <3>2. <<>> \o <<y.rcert>> = <<y.rcert>>
      BY <1>10, CatNone
    <3> QED BY <3>1, <3>2
  <2>3. Sealed(y.ksh, 0 + 1, <<i3>>, <<y.rcert>>)
    <3>1. Sealed(y.ksh, 1, <<i3>>, <<Wire(y.ksh, SeqNo(y.ksh, 1), CertMsg(TRUE), NoMac)>>)
      BY <1>5, SealedOne
    <3>2. SeqNo(y.ksh, 1) = 1
      BY <1>4
    <3>3. y.ncr = 1 /\ 0 + 1 = 1
      BY <1>8, <1>13
    <3>4. y.rcert = Wire(y.ksh, SeqNo(y.ksh, 1), CertMsg(TRUE), NoMac)
      BY <1>7, <3>2, <3>3
    <3> QED BY <3>1, <3>3, <3>4
  <2>4. Sealed(y.ksh, 0, <<i1>> \o <<i3>>, <<Wire(y.ksh, SeqNo(y.ksh, 0), y.ee, NoMac)>> \o <<y.rcert>>)
    BY <1>5, <2>3, SealedFirst
  <2>5. items = <<i1, i3>>
    BY <2>1, CatShort
  <2>6. Messages(items) = <<y.ee, CertMsg(TRUE)>>
    <3>1. PICK e, p, x : e = y.ee /\ p = CertMsg(TRUE) /\ x = NoMac
      OBVIOUS
    <3>2. Messages(<<Item(e, x), Item(p, x)>>) = <<e, p>>
      BY MessagesFew
    <3> QED BY <1>5, <2>5, <3>1, <3>2
  <2>7. <<y.ee>> \o <<CertMsg(TRUE)>> = <<y.ee, CertMsg(TRUE)>>
    BY CatShort
  <2>8. Hash(Hash(y.hs, <<y.ee>>), <<CertMsg(TRUE)>>) = Hash(y.hs, <<y.ee>> \o <<CertMsg(TRUE)>>)
    BY <1>10, <1>11, HashTwice
  <2>9. Hash(y.hs, Messages(items)) = y.scert
    BY <1>9, <1>13, <2>6, <2>7, <2>8
  <2>10. Len(items) = 2
    BY <2>5
  <2>11. y.ree = Wire(y.ksh, SeqNo(y.ksh, 0), y.ee, NoMac)
    BY <1>4, <1>7
  <2>12. Sealed(y.ksh, 0, items, ExtensionsOf(y))
    BY <2>1, <2>2, <2>4, <2>11
  <2>13. Len(items) = (IF y.found THEN 1 ELSE y.ncr + 1)
    BY <1>8, <1>13, <2>10
  <2> QED BY <1>13, <2>9, <2>12, <2>13 DEF ExtensionsAre
<1>14. CASE ~y.found /\ y.auth
  <2>1. items = <<i1>> \o (<<i2>> \o <<i3>>)
    <3>1. items = (<<i1>> \o <<i2>>) \o <<i3>>
      BY <1>6, <1>14
    <3>2. (<<i1>> \o <<i2>>) \o <<i3>> = <<i1>> \o (<<i2>> \o <<i3>>)
      BY <1>10, CatAssoc
    <3> QED BY <3>1, <3>2
  <2>2. ExtensionsOf(y) = <<y.ree>> \o (<<y.rcr>> \o <<y.rcert>>)
    BY <1>2, <1>14 DEF ExtensionsOf, Opt
  <2>3. Sealed(y.ksh, 1 + 1, <<i3>>, <<y.rcert>>)
    <3>1. Sealed(y.ksh, 2, <<i3>>, <<Wire(y.ksh, SeqNo(y.ksh, 2), CertMsg(TRUE), NoMac)>>)
      BY <1>5, SealedOne
    <3>2. SeqNo(y.ksh, 2) = 2
      BY <1>4
    <3>3. y.ncr = 2 /\ 1 + 1 = 2
      BY <1>8, <1>14
    <3>4. y.rcert = Wire(y.ksh, SeqNo(y.ksh, 2), CertMsg(TRUE), NoMac)
      BY <1>7, <3>2, <3>3
    <3> QED BY <3>1, <3>3, <3>4
  <2>4. Sealed(y.ksh, 1, <<i2>> \o <<i3>>, <<Wire(y.ksh, SeqNo(y.ksh, 1), Plain("cr"), NoMac)>> \o <<y.rcert>>)
    BY <1>5, <2>3, SealedFirst
  <2>5. Sealed(y.ksh, 0 + 1, <<i2>> \o <<i3>>, <<y.rcr>> \o <<y.rcert>>)
    BY <1>4, <1>7, <2>4
  <2>6. Sealed(y.ksh, 0, <<i1>> \o (<<i2>> \o <<i3>>),
               <<Wire(y.ksh, SeqNo(y.ksh, 0), y.ee, NoMac)>> \o (<<y.rcr>> \o <<y.rcert>>))
    BY <1>5, <2>5, SealedFirst
  <2>7. items = <<i1, i2, i3>>
    <3>1. items = (<<i1>> \o <<i2>>) \o <<i3>>
      BY <1>6, <1>14
    <3>2. <<i1>> \o <<i2>> = <<i1, i2>>
      BY CatShort
    <3>3. <<i1, i2>> \o <<i3>> = <<i1, i2, i3>>
      BY CatShort
    <3> QED BY <3>1, <3>2, <3>3
  <2>8. Messages(items) = <<y.ee, Plain("cr"), CertMsg(TRUE)>>
    <3>1. PICK e, q, p, x : e = y.ee /\ q = Plain("cr") /\ p = CertMsg(TRUE) /\ x = NoMac
      OBVIOUS
    <3>2. MessagesAre(<<Item(e, x), Item(q, x), Item(p, x)>>, <<e, q, p>>)
      BY MessagesThree
    <3>3. Messages(<<Item(e, x), Item(q, x), Item(p, x)>>) = <<e, q, p>>
      BY <3>2 DEF MessagesAre
    <3> QED BY <3>3, <1>5, <2>7, <3>1, <3>2
  <2>9. PICK e1, e2, e3 : e1 = <<y.ee>> /\ e2 = <<Plain("cr")>> /\ e3 = <<CertMsg(TRUE)>>
    OBVIOUS
  <2>10. (e1 \o e2) \o e3 = <<y.ee, Plain("cr"), CertMsg(TRUE)>>
    <3>1. PICK e, q, p : e = y.ee /\ q = Plain("cr") /\ p = CertMsg(TRUE)
      OBVIOUS
    <3>2. <<e>> \o <<q>> = <<e, q>>
      BY CatShort
    <3>3. <<e, q>> \o <<p>> = <<e, q, p>>
      BY CatShort
    <3> QED BY <2>9, <3>1, <3>2, <3>3
  <2>11. IsSeq(e1) /\ IsSeq(e2) /\ IsSeq(e3) /\ IsSeq(e1 \o e2)
    BY <1>10, <2>9, CatSeq
  <2>12. Hash(Hash(y.hs, e1), e2) = Hash(y.hs, e1 \o e2)
    BY <1>11, <2>11, HashTwice
  <2>13. Hash(Hash(y.hs, e1 \o e2), e3) = Hash(y.hs, (e1 \o e2) \o e3)
    BY <1>11, <2>11, HashTwice
  <2>14. Hash(y.hs, Messages(items)) = y.scert
    BY <1>9, <1>14, <2>8, <2>9, <2>10, <2>12, <2>13
  <2>15. Len(items) = 3
    BY <2>7
  <2>16. y.ree = Wire(y.ksh, SeqNo(y.ksh, 0), y.ee, NoMac)
    BY <1>4, <1>7
  <2>17. Sealed(y.ksh, 0, items, ExtensionsOf(y))
    BY <2>1, <2>2, <2>6, <2>16
  <2>18. Len(items) = (IF y.found THEN 1 ELSE y.ncr + 1)
    BY <1>8, <1>14, <2>15
  <2> QED BY <1>14, <2>14, <2>17, <2>18 DEF ExtensionsAre
<1> QED BY <1>2, <1>12, <1>13, <1>14

(* The session tickets, sealed with the application key of the server. *)
LEMMA TicketsSealed ==
  ASSUME NEW y, Keys(y), Series(y), y.tickets \in Nat,
         NEW x, x = Item(Plain("nst"), [key |-> y.res, th |-> <<>>]),
         NEW items, items = [i \in 1 .. y.tickets |-> x]
  PROVE  Seal(Ctx(y.ksa, 0), items) = Run(y.server, 0, y.tickets)
<1>1. y.ksa # NoKey
  BY KeysDiffer
<1>2. PICK n \in Nat : n = y.tickets
  OBVIOUS
<1>3. DOMAIN items = 1 .. n /\ items = [i \in 1 .. n |-> items[i]] /\ \A i \in 1 .. n : items[i] = x
  BY <1>2
<1>4. IsSeq(items) /\ Len(items) = n
  BY <1>3, FunSeq
<1>5. PICK p : p = Ctx(y.ksa, 0)
  OBVIOUS
<1>6. p.key = y.ksa /\ p.seq = 0 /\ p.key # NoKey
  BY <1>1, <1>5, CtxFields
<1>7. PICK f : f = Seal(p, items)
  OBVIOUS
<1>8. x.msg = Plain("nst") /\ x.mac = [key |-> y.res, th |-> <<>>]
  BY DEF Item
<1>9. f = [i \in 1 .. n |-> [key |-> p.key, seq |-> IF p.key = NoKey THEN 0 ELSE p.seq + i - 1,
                             msg |-> items[i].msg, mac |-> items[i].mac]]
  BY <1>4, <1>7 DEF Seal
<1>10. ASSUME NEW i \in 1 .. n
       PROVE  f[i] = Wire(y.ksa, i - 1, Plain("nst"), [key |-> y.res, th |-> <<>>])
  <2>1. 0 + i - 1 = i - 1
    OBVIOUS
  <2>2. f[i] = [key |-> y.ksa, seq |-> 0 + i - 1, msg |-> x.msg, mac |-> x.mac]
    BY <1>3, <1>6, <1>9
  <2> QED BY <1>8, <2>1, <2>2 DEF Wire
<1>11. DOMAIN f = 1 .. n /\ f = [i \in 1 .. n |-> f[i]]
  BY <1>9
<1>12. IsSeq(f) /\ Len(f) = n
  BY <1>11, FunSeq
<1>13. PICK g : g = y.server
  OBVIOUS
<1>14. PICK z \in Nat : z = 0
  OBVIOUS
<1>15. IsSeq(Run(g, z, n)) /\ Len(Run(g, z, n)) = n - z /\ \A i \in 1 .. n - z : Run(g, z, n)[i] = g[z + i - 1]
  <2>1. z <= n
    BY <1>14
  <2> QED BY <2>1, RunSeq
<1>16. PICK u : u = Run(g, z, n)
  OBVIOUS
<1>17. IsSeq(u) /\ Len(u) = n
  BY <1>14, <1>15, <1>16
<1>18. ASSUME NEW i \in 1 .. n PROVE f[i] = u[i]
  <2>1. u[i] = g[z + i - 1]
    BY <1>14, <1>15, <1>16
  <2>2. PICK q \in Nat : q = i - 1
    OBVIOUS
  <2>3. q < y.tickets /\ z + i - 1 = q
    BY <1>2, <1>14, <2>2
  <2>4. y.server[q] = Wire(y.ksa, q, Plain("nst"), [key |-> y.res, th |-> <<>>])
    BY <2>3 DEF Series
  <2> QED BY <1>10, <1>13, <2>1, <2>2, <2>3, <2>4
<1>19. f = u
  BY <1>12, <1>17, <1>18, SameSeq
<1> QED BY <1>2, <1>5, <1>7, <1>13, <1>14, <1>16, <1>19

(* The end of the server's flight: what is sent, and what the server is then. *)
FinishFrom(y, d) ==
    /\ DOMAIN d = ServerFields /\ d.isPsk = y.found
    /\ d.sched = (IF y.found THEN y.see ELSE y.scert)
    /\ d.enc = Ctx(y.ksh, IF y.found THEN 1 ELSE y.ncr + 1)
    /\ d.pending = (IF y.accept THEN y.kch ELSE NoKey)

FinishIs(y, d, f) ==
    /\ f.tls.state \in Flown /\ f.out = SVerify(y, f.tls.state, 0)
    /\ DOMAIN f.tls = ServerFields /\ f.tls.sched = y.sfin /\ f.tls.pendingAp = y.kca
    /\ f.tls.enc = Ctx(y.ksa, y.tickets)
    /\ f.tls.state = (IF y.accept THEN "expect_eoed" ELSE IF y.auth THEN "expect_cert" ELSE "expect_fin")
    /\ f.tls.done = ~y.auth /\ f.tls.isPsk = y.found /\ f.tls.pending = d.pending
    /\ f.tls.dec = d.dec /\ f.tls.skipped = d.skipped /\ f.tls.accepted = d.accepted
    /\ f.tls.retries = d.retries /\ f.tls.error = d.error

(* CertificateVerify and Finished under the handshake key. *)
LEMMA FinishSealed ==
  ASSUME NEW y, Keys(y), Records(y), y.auth \in BOOLEAN, y.found \in BOOLEAN,
         NEW fin, fin = Item(ServerFinished, FinishedMac(y.ksh, y.scv)),
         NEW cv, cv = Opt(~y.found, Item(Plain("cv"), Signature(y.scert))),
         NEW n, n = (IF y.found THEN 1 ELSE y.ncr + 1)
  PROVE  Sealed(y.ksh, n, cv \o <<fin>>, Opt(~y.found, y.rcv) \o <<y.rfin>>)
<1>1. y.ksh # NoKey
  BY KeysDiffer
<1>2. \A q : SeqNo(y.ksh, q) = q
  BY <1>1 DEF SeqNo
<1>3. PICK mac, sig, mf, mc, k : /\ mac = FinishedMac(y.ksh, y.scv) /\ sig = Signature(y.scert)
                                 /\ mf = ServerFinished /\ mc = Plain("cv") /\ k = y.ksh
  OBVIOUS
<1>4. y.rfin = Wire(k, y.nfin, mf, mac) /\ y.rcv = Wire(k, y.ncr + 1, mc, sig)
  BY <1>3 DEF Records
<1>5. IsSeq(<<fin>>) /\ IsSeq(<<y.rfin>>)
  BY ShortSeq
<1>6. y.ncr = (IF y.auth THEN 2 ELSE 1) /\ y.nfin = (IF y.found THEN 1 ELSE y.ncr + 2)
  BY DEF Keys
<1>7. CASE y.found
  <2>1. cv = <<>> /\ Opt(~y.found, y.rcv) = <<>> /\ n = 1 /\ y.nfin = 1
    BY <1>6, <1>7 DEF Opt
  <2>2. <<>> \o <<fin>> = <<fin>> /\ <<>> \o <<y.rfin>> = <<y.rfin>>
    BY <1>5, CatNone
  <2>3. Sealed(k, 1, <<Item(mf, mac)>>, <<Wire(k, SeqNo(k, 1), mf, mac)>>)
    BY SealedOne
  <2>4. Wire(k, SeqNo(k, 1), mf, mac) = y.rfin
    BY <1>2, <1>3, <1>4, <2>1
  <2> QED BY <1>3, <2>1, <2>2, <2>3, <2>4
<1>8. CASE ~y.found
  <2>1. PICK x : x = Item(mc, sig)
    OBVIOUS
  <2>2. cv = <<x>> /\ Opt(~y.found, y.rcv) = <<y.rcv>>
    BY <1>3, <1>8, <2>1 DEF Opt
  <2>3. n \in Nat /\ n = y.ncr + 1 /\ n + 1 \in Nat /\ y.nfin = n + 1
    BY <1>6, <1>8
  <2>4. Sealed(k, n + 1, <<Item(mf, mac)>>, <<Wire(k, SeqNo(k, n + 1), mf, mac)>>)
    BY <2>3, SealedOne
  <2>5. Wire(k, SeqNo(k, n + 1), mf, mac) = y.rfin
    BY <1>2, <1>3, <1>4, <2>3
  <2>6. Sealed(k, n + 1, <<fin>>, <<y.rfin>>)
    BY <1>3, <2>4, <2>5
  <2>7. Sealed(k, n, <<Item(mc, sig)>> \o <<fin>>, <<Wire(k, SeqNo(k, n), mc, sig)>> \o <<y.rfin>>)
    BY <2>3, <2>6, SealedFirst
  <2>8. Wire(k, SeqNo(k, n), mc, sig) = y.rcv
    BY <1>2, <1>3, <1>4, <2>3
  <2> QED BY <1>3, <2>1, <2>2, <2>7, <2>8
<1> QED BY <1>7, <1>8

(* server_finish_handshake follows the story. *)
LEMMA ServerFinishHolds ==
  ASSUME NEW y, Story(y), cfg \in Config, NEW d, FinishFrom(y, d), NEW f, f = ServerFinish(d)
  PROVE  FinishIs(y, d, f)
<1>1. Flags(y) /\ Hellos(y) /\ Schedules(y) /\ Keys(y) /\ Records(y) /\ Series(y)
  BY DEF Story
<1>2. /\ y.auth \in BOOLEAN /\ y.found \in BOOLEAN /\ y.accept \in BOOLEAN /\ y.tickets \in Nat
      /\ y.auth = cfg.auth /\ y.tickets = cfg.tickets
  BY <1>1, FlagTypes, FlagWords
<1>3. /\ DOMAIN d = ServerFields /\ d.isPsk = y.found
      /\ d.sched = (IF y.found THEN y.see ELSE y.scert)
      /\ d.enc = Ctx(y.ksh, IF y.found THEN 1 ELSE y.ncr + 1)
      /\ d.pending = (IF y.accept THEN y.kch ELSE NoKey)
  BY DEF FinishFrom
<1>4. y.ksa # NoKey /\ y.kch # NoKey
  BY <1>1, KeysDiffer
<1> DEFINE cv == IF d.isPsk THEN <<>> ELSE <<Item(Plain("cv"), Signature(d.sched))>>
           s1 == Hash(d.sched, Messages(cv))
           fin == Item([type |-> "fin", key |-> "s hs"], FinishedMac(d.enc.key, s1))
           s2 == Hash(s1, <<fin.msg>>)
           ap == Protect(Key("s ap", s2))
           kc == Key("c ap", s2)
           en == Used(ap, cfg.tickets)
           st == AfterServerFinished(d)
           dn == ~cfg.auth
           e == [d EXCEPT !.sched = s2, !.pendingAp = kc, !.enc = en, !.state = st, !.done = dn]
           x == Item(Plain("nst"), [key |-> Key("res", TicketTranscript(e)), th |-> <<>>])
           items == [i \in 1 .. cfg.tickets |-> x]
<1>5. cv = IF d.isPsk THEN <<>> ELSE <<Item(Plain("cv"), Signature(d.sched))>>
  OBVIOUS
<1>14. f = [tls |-> e, out |-> Seal(d.enc, cv \o <<fin>>) \o Seal(ap, items)]
  BY DEF ServerFinish
<1> HIDE DEF items
<1>13. items = [i \in 1 .. cfg.tickets |-> x]
  BY DEF items
<1> HIDE DEF x
<1>12. x = Item(Plain("nst"), [key |-> Key("res", TicketTranscript(e)), th |-> <<>>])
  BY DEF x
<1> HIDE DEF e
<1>11. e = [d EXCEPT !.sched = s2, !.pendingAp = kc, !.enc = en, !.state = st, !.done = dn]
  BY DEF e
<1> HIDE DEF en, st, dn
<1>10. en = Used(ap, cfg.tickets) /\ st = AfterServerFinished(d) /\ dn = ~cfg.auth
  BY DEF en, st, dn
<1> HIDE DEF ap, kc
<1>9. ap = Protect(Key("s ap", s2)) /\ kc = Key("c ap", s2)
  BY DEF ap, kc
<1> HIDE DEF s2
<1>8. s2 = Hash(s1, <<fin.msg>>)
  BY DEF s2
<1> HIDE DEF fin
<1>7. fin = Item([type |-> "fin", key |-> "s hs"], FinishedMac(d.enc.key, s1))
  BY DEF fin
<1> HIDE DEF s1
<1>6. s1 = Hash(d.sched, Messages(cv))
  BY DEF s1
<1> HIDE DEF cv
<1>15. cv = Opt(~y.found, Item(Plain("cv"), Signature(y.scert)))
  BY <1>2, <1>3, <1>5 DEF Opt
<1>16. IsSchedule(y.scert) /\ IsSchedule(y.see) /\ IsSchedule(y.sfin)
  BY <1>1, StorySchedules
<1>17. s1 = y.scv
  <2>1. PICK m, sig, b : m = Plain("cv") /\ sig = Signature(y.scert) /\ b = ~y.found
    OBVIOUS
  <2>2. Messages(Opt(b, Item(m, sig))) = Opt(b, m)
    BY OptMessages
  <2>3. Messages(cv) = Opt(b, m)
    BY <1>15, <2>1, <2>2
  <2>4. y.scv = IF y.found THEN y.see ELSE Hash(y.scert, <<Plain("cv")>>)
    BY <1>1 DEF Schedules
  <2>5. CASE y.found
    <3>1. Messages(cv) = <<>>
      BY <2>1, <2>3, <2>5 DEF Opt
    <3>2. Hash(y.see, <<>>) = y.see
      BY <1>16, ShortSeq, SchedulesHash
    <3> QED BY <1>3, <1>6, <2>4, <2>5, <3>1, <3>2
  <2>6. CASE ~y.found
    <3>1. Messages(cv) = <<m>>
      BY <2>1, <2>3, <2>6 DEF Opt
    <3> QED BY <1>3, <1>6, <2>1, <2>4, <2>6, <3>1
  <2> QED BY <2>5, <2>6
<1>18. d.enc.key = y.ksh
  BY <1>3, CtxFields
<1>19. fin = Item(ServerFinished, FinishedMac(y.ksh, y.scv))
  BY <1>7, <1>17, <1>18 DEF ServerFinished
<1>20. fin.msg = ServerFinished
  BY <1>19 DEF Item
<1>21. s2 = y.sfin
  BY <1>1, <1>8, <1>17, <1>20 DEF Schedules
<1>22. ap = Ctx(y.ksa, 0) /\ kc = y.kca
  <2>1. Key("s ap", y.sfin) = y.ksa /\ Key("c ap", y.sfin) = y.kca
    BY <1>1 DEF Keys
  <2> QED BY <1>9, <1>21, <2>1, CtxUsed
<1>23. en = Ctx(y.ksa, y.tickets)
  <2>1. Used(Ctx(y.ksa, 0), y.tickets) = Ctx(y.ksa, 0 + y.tickets)
    BY <1>4, CtxUsed
  <2>2. 0 + y.tickets = y.tickets
    BY <1>2
  <2> QED BY <1>2, <1>10, <1>22, <2>1, <2>2
<1>24. st = (IF y.accept THEN "expect_eoed" ELSE IF y.auth THEN "expect_cert" ELSE "expect_fin")
  BY <1>2, <1>3, <1>4, <1>10 DEF AfterServerFinished
<1>25. dn = ~y.auth
  BY <1>2, <1>10
<1>26. /\ DOMAIN e = ServerFields /\ e.sched = s2 /\ e.pendingAp = kc /\ e.enc = en /\ e.state = st
       /\ e.done = dn /\ e.isPsk = d.isPsk /\ e.pending = d.pending /\ e.dec = d.dec
       /\ e.skipped = d.skipped /\ e.accepted = d.accepted /\ e.retries = d.retries
       /\ e.error = d.error
  BY <1>3, <1>11 DEF ServerFields
<1>27. Key("res", TicketTranscript(e)) = y.res
  <2>1. PICK ms : ms = (IF y.accept THEN <<Plain("eoed")>> ELSE <<>>) \o <<ClientFinished>>
    OBVIOUS
  <2>2. y.res = Key("res", Hash(y.sfin, ms))
    BY <1>1, <2>1 DEF Schedules
  <2>3. TicketTranscript(e) = Hash(e.sched, ms)
    BY <1>3, <1>4, <1>26, <2>1 DEF TicketTranscript, ClientFinished
  <2> QED BY <1>21, <1>26, <2>2, <2>3
<1>28. x = Item(Plain("nst"), [key |-> y.res, th |-> <<>>])
  BY <1>12, <1>27
<1>29. items = [i \in 1 .. y.tickets |-> x]
  BY <1>2, <1>13
<1>30. Seal(ap, items) = Run(y.server, 0, y.tickets)
  BY <1>1, <1>2, <1>22, <1>28, <1>29, TicketsSealed
<1>31. PICK n : n = IF y.found THEN 1 ELSE y.ncr + 1
  OBVIOUS
<1>32. Sealed(y.ksh, n, cv \o <<fin>>, Opt(~y.found, y.rcv) \o <<y.rfin>>)
  BY <1>1, <1>2, <1>15, <1>19, <1>31, FinishSealed
<1>33. Seal(d.enc, cv \o <<fin>>) = Opt(~y.found, y.rcv) \o <<y.rfin>>
  BY <1>3, <1>31, <1>32 DEF Sealed
<1>34. st \in Flown
  BY <1>24 DEF Flown
<1>35. SVerify(y, st, 0) = Opt(~y.found, y.rcv) \o (<<y.rfin>> \o Run(y.server, 0, y.tickets))
  <2>1. y.tickets + 0 = y.tickets
    BY <1>2
  <2>2. SFin(y, st, 0) = <<y.rfin>> \o Run(y.server, 0, y.tickets)
    BY <1>34, <2>1 DEF SFin
  <2>3. Opt(~y.found /\ st \in Flown, y.rcv) = Opt(~y.found, y.rcv)
    BY <1>34 DEF Opt
  <2> QED BY <2>2, <2>3 DEF SVerify
<1>36. PICK o1, o2, o3 : o1 = Opt(~y.found, y.rcv) /\ o2 = <<y.rfin>> /\ o3 = Run(y.server, 0, y.tickets)
  OBVIOUS
<1>37. IsSeq(o1) /\ IsSeq(o2) /\ IsSeq(o3)
  <2>1. PICK g, z : g = y.server /\ z = 0
    OBVIOUS
  <2>2. z \in Nat /\ z <= y.tickets
    BY <1>2, <2>1
  <2>3. IsSeq(Run(g, z, y.tickets))
    BY <1>2, <2>2, RunSeq
  <2> QED BY <1>36, <2>1, <2>3, OptSeq, ShortSeq
<1>38. (o1 \o o2) \o o3 = o1 \o (o2 \o o3)
  BY SMTT(30), <1>37, CatAssoc
<1>39. f.tls = e /\ f.out = SVerify(y, st, 0)
  <2>1. PICK w1, w2 : w1 = Seal(d.enc, cv \o <<fin>>) /\ w2 = Seal(ap, items)
    OBVIOUS
  <2>2. f.tls = e /\ f.out = w1 \o w2
    BY <1>14, <2>1
  <2>3. w1 = o1 \o o2 /\ w2 = o3
    BY <1>30, <1>33, <1>36, <2>1
  <2>4. SVerify(y, st, 0) = o1 \o (o2 \o o3)
    BY <1>35, <1>36
  <2> QED BY <1>38, <2>2, <2>3, <2>4
<1> QED BY <1>3, <1>21, <1>22, <1>23, <1>24, <1>25, <1>26, <1>34, <1>39 DEF FinishIs

(* A server that has sent ServerHello, up to Certificate or up to its tickets. *)
AnsweredBefore(y, d) ==
    /\ d.state = "generating_cv" /\ ~y.found /\ d.enc = Ctx(y.ksh, y.ncr + 1)
    /\ d.dec = Ctx(y.kch, 0) /\ d.pending = NoKey /\ d.sched = y.scert /\ d.done = FALSE

AnsweredAll(y, d) ==
    /\ d.state = (IF y.accept THEN "expect_eoed" ELSE IF y.auth THEN "expect_cert" ELSE "expect_fin")
    /\ d.enc = Ctx(y.ksa, y.tickets) /\ d.dec = Ctx(IF y.accept THEN y.ke ELSE y.kch, 0)
    /\ d.pending = (IF y.accept THEN y.kch ELSE NoKey) /\ d.pendingAp = y.kca
    /\ d.sched = y.sfin /\ d.done = ~y.auth

Answered(y, d) ==
    /\ d.error = "none" /\ d.isPsk = y.found /\ d.accepted = y.accept /\ d.retries = sv.retries
    /\ IF y.skips THEN d.skipped \in Nat ELSE d.skipped = -1
    /\ AnsweredBefore(y, d) \/ AnsweredAll(y, d)

(* Such a server is where the story has it, with nothing delivered. *)
LEMMA AnsweredAt ==
  ASSUME NEW y, Flags(y), Keys(y), Schedules(y), cfg \in Config, NEW d, Answered(y, d), NEW n
  PROVE  /\ ServerAt(y, d, n, 0, 0, 0) /\ d.state \in {"generating_cv"} \cup Flown
         /\ d.state \notin {"expect_cv", "post"}
         /\ d.state = "expect_fin" => ~y.accept /\ ~y.auth
         /\ d.state = "generating_cv" => ~y.found
         /\ IF y.accept THEN d.state = "expect_eoed" ELSE Waits(y, d)
<1>1. /\ y.auth \in BOOLEAN /\ y.found \in BOOLEAN /\ y.accept \in BOOLEAN /\ y.tickets \in Nat
      /\ (y.found => ~y.auth) /\ (y.accept => y.found /\ y.asks /\ ~y.retry)
  BY FlagTypes
<1>2. /\ d.isPsk = y.found /\ d.accepted = y.accept
      /\ IF y.skips THEN d.skipped \in Nat ELSE d.skipped = -1
  BY DEF Answered
<1>3. CASE AnsweredBefore(y, d)
  <2>1. /\ d.state = "generating_cv" /\ ~y.found /\ d.enc = Ctx(y.ksh, y.ncr + 1)
        /\ d.dec = Ctx(y.kch, 0) /\ d.pending = NoKey /\ d.sched = y.scert /\ d.done = FALSE
    BY <1>3 DEF AnsweredBefore
  <2>2. ServerAt(y, d, n, 0, 0, 0)
    BY <1>1, <1>2, <2>1 DEF ServerAt, Unanswered, Flown
  <2>3. Waits(y, d) /\ ~y.accept
    BY <1>1, <2>1 DEF Waits
  <2> QED BY <2>1, <2>2, <2>3
<1>4. CASE AnsweredAll(y, d)
  <2>1. /\ d.state = (IF y.accept THEN "expect_eoed" ELSE IF y.auth THEN "expect_cert" ELSE "expect_fin")
        /\ d.enc = Ctx(y.ksa, y.tickets) /\ d.dec = Ctx(IF y.accept THEN y.ke ELSE y.kch, 0)
        /\ d.pending = (IF y.accept THEN y.kch ELSE NoKey) /\ d.pendingAp = y.kca
        /\ d.sched = y.sfin /\ d.done = ~y.auth
    BY <1>4 DEF AnsweredAll
  <2>2. y.tickets + 0 = y.tickets
    BY <1>1
  <2>3. ~y.accept /\ ~y.auth => y.send = y.sfin /\ y.nc = 0
    BY DEF Schedules, Keys
  <2>4. ServerAt(y, d, n, 0, 0, 0)
    <3>1. CASE y.accept
      BY <1>1, <1>2, <2>1, <2>2, <3>1 DEF ServerAt, Unanswered, Flown
    <3>2. CASE ~y.accept /\ y.auth
      BY <1>1, <1>2, <2>1, <2>2, <3>2 DEF ServerAt, Unanswered, Flown
    <3>3. CASE ~y.accept /\ ~y.auth
      BY <1>1, <1>2, <2>1, <2>2, <2>3, <3>3 DEF ServerAt, Unanswered, Flown
    <3> QED BY <1>1, <3>1, <3>2, <3>3
  <2>5. IF y.accept THEN d.state = "expect_eoed" ELSE Waits(y, d)
    BY <1>1, <2>1 DEF Waits
  <2> QED BY <1>1, <2>1, <2>4, <2>5 DEF Flown
<1> QED BY <1>3, <1>4 DEF Answered

(* The answer is a step of the story. *)
LEMMA AnsweredSync ==
  ASSUME NEW y, NEW al, ServerKnows(y, 0, 0, al), sv.state \in Unanswered, sent.server = 0,
         got' = got, sv.retries = 1 <=> y.retry, y.retry => cl.state # "expect_sh",
         NEW d, Answered(y, d), ServerReply(d, <<y.rsh>> \o SCcs(y, d.state, 0)),
         NEW t, t = IF y.retry THEN CEnd(y, cl.state, sent.early, sent.client) \o al
                    ELSE CCcs(y, cl.state, sent.early, sent.client) \o al,
         toServer' = t
  PROVE  ServerMoves(y)
<1>1. /\ Flags(y) /\ Keys(y) /\ Schedules(y) /\ cfg \in Config /\ ClientAlert(cl, al)
      /\ Always(y, cl, sv, sent.early, sent.client) /\ cl.state # "start" /\ sent.early \in Nat
      /\ GotServer(y, cl, sv, got.server, sent.early, sent.client, 0, 0)
  BY DEF ServerKnows, Story, Counted
<1>2. /\ y.auth \in BOOLEAN /\ y.found \in BOOLEAN /\ y.accept \in BOOLEAN /\ y.tickets \in Nat
      /\ y.retry \in BOOLEAN /\ (y.found => ~y.auth) /\ (y.accept => y.found /\ y.asks /\ ~y.retry)
  BY <1>1, FlagTypes
<1>3. /\ ServerAt(y, d, sent.early, 0, 0, 0) /\ d.state \in {"generating_cv"} \cup Flown
      /\ d.state \notin {"expect_cv", "post"}
      /\ d.state = "expect_fin" => ~y.accept /\ ~y.auth
      /\ d.state = "generating_cv" => ~y.found
      /\ IF y.accept THEN d.state = "expect_eoed" ELSE Waits(y, d)
  BY <1>1, AnsweredAt
<1>4. d.error = "none" /\ d.retries = sv.retries
  BY DEF Answered
<1>5. cl.state \in {"expect_sh", "expect_sh2"}
  BY <1>1 DEF Always, ClientStates, ClientMiddle
<1>6. d.state \in ServerStates /\ d.state \notin Unanswered
  BY <1>3 DEF ServerStates, Flown, Unanswered
<1>7. Always(y, cl, d, sent.early, sent.client)
  <2>1. /\ cl.state \in ClientStates /\ sv.retries \in {0, 1} /\ (~y.asks => sent.early = 0)
        /\ (cl.state # "post" => sent.client = 0) /\ cl.done = (cl.state = "post")
        /\ (sv.retries = 1 => y.retry /\ y.group # "none" /\ cl.state # "start")
    BY <1>1 DEF Always
  <2>2. cl.state \notin ClientMiddle \cup {"post"} /\ cl.state \notin {"expect_fin", "post"}
    BY <1>5 DEF ClientMiddle
  <2> QED BY <1>3, <1>4, <1>5, <1>6, <2>1, <2>2 DEF Always
<1>8. GotServer(y, cl, d, got'.server, sent.early, sent.client, 0, 0)
  BY <1>1 DEF GotServer
<1>9. FromClient(y, d, cl.state, sent.early, sent.client, 0, 0, al, t)
  <2>1. CASE y.accept
    <3>1. d.state = "expect_eoed" /\ ~Waits(y, d)
      BY <1>3, <2>1 DEF Waits
    <3>2. EarlyForm(y, cl.state, sent.early, sent.client, 0, al, t)
      BY <1>2, <2>1 DEF EarlyForm
    <3> QED BY <1>6, <3>1, <3>2 DEF FromClient
  <2>2. CASE ~y.accept
    <3>1. Waits(y, d)
      BY <1>3, <2>2
    <3>2. WaitForm(y, cl.state, sent.early, sent.client, al, t)
      BY <1>2 DEF WaitForm, RetryForm
    <3>3. d.state # "expect_eoed" /\ d.state # "post"
      BY <3>1 DEF Waits
    <3> QED BY <1>3, <1>6, <3>1, <3>2, <3>3 DEF FromClient
  <2> QED BY <1>2, <2>1, <2>2
<1>10. sv' = d /\ toClient' = toClient \o (<<y.rsh>> \o SCcs(y, d.state, 0))
  BY DEF ServerReply
<1>11. ServerHas(y, 0, 0)
  BY <1>1, <1>3, <1>8, <1>9, <1>10 DEF ServerHas
<1>12. Sends(y, sv, d, <<y.rsh>> \o SCcs(y, d.state, 0))
  <2>1. Grown(y, cl, sv, 0, d, 0, <<y.rsh>> \o SCcs(y, d.state, 0))
    BY <1>2, <1>4, <1>5, <1>6, GrownByAnswer
  <2> QED BY <2>1 DEF Sends
<1>13. got'.client = got.client /\ DOMAIN got' = DOMAIN got
  OBVIOUS
<1>14. \E a, b : ServerHas(y, a, b)
  BY <1>11
<1>15. \E out : toClient' = toClient \o out /\ Sends(y, sv, sv', out)
  BY <1>10, <1>12
<1> QED BY <1>4, <1>7, <1>10, <1>13, <1>14, <1>15 DEF ServerMoves

(* Concatenation is associative, as a fact about three sequences. *)
Associates(s, t, u) == (s \o t) \o u = s \o (t \o u)

(* It holds for sequences. *)
LEMMA AssocOf ==
  ASSUME NEW s, NEW t, NEW u, IsSeq(s), IsSeq(t), IsSeq(u)
  PROVE  Associates(s, t, u)
BY SMTT(30), CatAssoc DEF Associates

(* The records of the answer, put together. *)
LEMMA AnswerStream ==
  ASSUME NEW y, y.tickets \in Nat, NEW st, NEW v, v = SVerify(y, st, 0), NEW w,
         w = (<<y.rsh>> \o Opt(y.compat, CcsRec)) \o ExtensionsOf(y)
  PROVE  w \o v = <<y.rsh>> \o SCcs(y, st, 0) /\ IsSeq(w)
<1>1. PICK p1, p2, p3, p4, p5 :
         /\ p1 = <<y.rsh>> /\ p2 = Opt(y.compat, CcsRec) /\ p3 = <<y.ree>>
         /\ p4 = Opt(y.auth, y.rcr) /\ p5 = Opt(~y.found, y.rcert)
  OBVIOUS
<1>2. IsSeq(p1) /\ IsSeq(p2) /\ IsSeq(p3) /\ IsSeq(p4) /\ IsSeq(p5)
  BY <1>1, ShortSeq, OptSeq
<1>3. IsSeq(v)
  BY ServerStreams
<1>4. PICK q1, q2 : q1 = p4 \o p5 /\ q2 = p3 \o q1
  OBVIOUS
<1>5. IsSeq(q1)
  BY <1>2, <1>4, CatSeq
<1>6. IsSeq(q2)
  BY <1>2, <1>4, <1>5, CatSeq
<1>7. PICK u : u = p1 \o p2
  OBVIOUS
<1>8. IsSeq(u)
  BY <1>2, <1>7, CatSeq
<1>9. w = u \o q2
  BY <1>1, <1>4, <1>7 DEF ExtensionsOf
<1>10. IsSeq(w)
  BY <1>6, <1>8, <1>9, CatSeq
<1>11. PICK v1, v2, v3, v4 : v1 = p5 \o v /\ v2 = p4 \o v1 /\ v3 = p3 \o v2 /\ v4 = p2 \o v3
  OBVIOUS
<1>12. IsSeq(v1)
  BY <1>2, <1>3, <1>11, CatSeq
<1>13. IsSeq(v2)
  BY <1>2, <1>11, <1>12, CatSeq
<1>14. IsSeq(v3)
  BY <1>2, <1>11, <1>13, CatSeq
<1>15. q1 \o v = v2
  <2>1. Associates(p4, p5, v)
    BY <1>2, <1>3, AssocOf
  <2> QED BY <1>4, <1>11, <2>1 DEF Associates
<1>16. q2 \o v = v3
  <2>1. Associates(p3, q1, v)
    BY <1>2, <1>3, <1>5, AssocOf
  <2> QED BY <1>4, <1>11, <1>15, <2>1 DEF Associates
<1>17. w \o v = u \o v3
  <2>1. Associates(u, q2, v)
    BY <1>3, <1>6, <1>8, AssocOf
  <2> QED BY <1>9, <1>16, <2>1 DEF Associates
<1>18. u \o v3 = p1 \o v4
  <2>1. Associates(p1, p2, v3)
    BY <1>2, <1>14, AssocOf
  <2> QED BY <1>7, <1>11, <2>1 DEF Associates
<1>19. SCcs(y, st, 0) = v4
  BY <1>1, <1>11 DEF SCcs, SExt, SRequest, SCert
<1> QED BY <1>1, <1>10, <1>17, <1>18, <1>19

(* server_handle_hello after the hello: the rest of the server's flight. *)
LEMMA ServerAnswers ==
  ASSUME NEW y, NEW al, ServerKnows(y, 0, 0, al), sv.state \in Unanswered, got' = got,
         sv.retries = 1 <=> y.retry, y.retry => cl.state # "expect_sh",
         NEW s, AtHello(y, s, 0, 0), NEW r, HelloTaken(y, s, r.msg), ServerSendFlight(s, r),
         NEW t, t = IF y.retry THEN CEnd(y, cl.state, sent.early, sent.client) \o al
                    ELSE CCcs(y, cl.state, sent.early, sent.client) \o al,
         toServer' = t
  PROVE  ServerStops \/ ServerMoves(y)
<1>1. /\ Flags(y) /\ Keys(y) /\ Schedules(y) /\ cfg \in Config /\ Story(y)
  BY DEF ServerKnows, Story
<1>2. /\ y.auth \in BOOLEAN /\ y.found \in BOOLEAN /\ y.accept \in BOOLEAN /\ y.tickets \in Nat
      /\ (y.found => ~y.auth) /\ (y.accept => y.found /\ y.asks /\ ~y.retry)
  BY <1>1, FlagTypes
<1>3. /\ DOMAIN s = ServerFields /\ s.enc = Ctx(NoKey, 0) /\ s.ccs = y.compat /\ s.done = FALSE
      /\ s.error = "none" /\ s.retries = sv.retries /\ s.state = sv.state /\ sent.server = 0
      /\ sv.accepted = FALSE
  BY DEF AtHello
<1>4. PICK m : m = r.msg
  OBVIOUS
<1>5. PICK h : h = ServerHelloState(s, m)
  OBVIOUS
<1>6. HelloStateIs(y, s, h)
  <2>1. HelloTaken(y, s, m)
    BY <1>4
  <2> QED BY <1>1, <1>3, <1>5, <2>1, HelloStateHolds
<1>7. /\ h.out = <<y.rsh>> \o Opt(y.compat, CcsRec)
      /\ DOMAIN h.tls = ServerFields /\ h.tls.isPsk = y.found /\ h.tls.accepted = y.accept
      /\ h.tls.sched = y.hs /\ h.tls.enc = Ctx(y.ksh, 0)
      /\ h.tls.dec = Ctx(IF y.accept THEN y.ke ELSE y.kch, 0)
      /\ h.tls.pending = (IF y.accept THEN y.kch ELSE NoKey)
      /\ IF y.skips THEN h.tls.skipped \in Nat ELSE h.tls.skipped = -1
      /\ h.tls.retries = s.retries /\ h.tls.state = s.state /\ h.tls.done = s.done
      /\ h.tls.error = s.error
  BY <1>6 DEF HelloStateIs
<1>8. PICK c : c = h.tls
  OBVIOUS
<1>9. PICK items : items = ServerExtensions(c)
  OBVIOUS
<1>10. ExtensionsAre(y, items)
  <2>1. c.isPsk = y.found /\ c.pending = (IF y.accept THEN y.kch ELSE NoKey)
    BY <1>7, <1>8
  <2> QED BY <1>1, <1>9, <2>1, ExtensionsHold
<1>11. PICK z1, z2 : z1 = Hash(c.sched, Messages(items)) /\ z2 = Used(c.enc, Len(items))
  OBVIOUS
<1>12. PICK d : d = [c EXCEPT !.sched = z1, !.enc = z2]
  OBVIOUS
<1>13. PICK w : w = h.out \o Seal(c.enc, items)
  OBVIOUS
<1>14. PICK f : f = ServerFinish(d)
  OBVIOUS
<1>15. IF ~d.isPsk /\ cfg.async THEN ServerReply([d EXCEPT !.state = "generating_cv"], w)
       ELSE IF ~d.isPsk /\ cfg.signBad = "server" THEN ServerFail(d, "internal_error")
       ELSE ServerReply(f.tls, w \o f.out)
  BY <1>4, <1>5, <1>8, <1>9, <1>11, <1>12, <1>13, <1>14 DEF ServerSendFlight
<1>16. /\ DOMAIN d = ServerFields /\ d.sched = z1 /\ d.enc = z2 /\ d.isPsk = c.isPsk
       /\ d.accepted = c.accepted /\ d.dec = c.dec /\ d.pending = c.pending
       /\ d.skipped = c.skipped /\ d.retries = c.retries /\ d.state = c.state /\ d.done = c.done
       /\ d.error = c.error
  BY <1>7, <1>8, <1>12 DEF ServerFields
<1>17. PICK n : n = IF y.found THEN 1 ELSE y.ncr + 1
  OBVIOUS
<1>18. /\ z1 = (IF y.found THEN y.see ELSE y.scert) /\ z2 = Ctx(y.ksh, n) /\ n \in Nat
       /\ w = (<<y.rsh>> \o Opt(y.compat, CcsRec)) \o ExtensionsOf(y)
  <2>1. /\ Sealed(y.ksh, 0, items, ExtensionsOf(y))
        /\ Hash(y.hs, Messages(items)) = (IF y.found THEN y.see ELSE y.scert)
        /\ Len(items) = n
    BY <1>10, <1>17 DEF ExtensionsAre
  <2>2. c.sched = y.hs /\ c.enc = Ctx(y.ksh, 0)
    BY <1>7, <1>8
  <2>3. y.ncr = IF y.auth THEN 2 ELSE 1
    BY <1>1 DEF Keys
  <2>4. n \in Nat /\ 0 + n = n
    BY <1>17, <2>3
  <2>5. y.ksh # NoKey
    BY <1>1, KeysDiffer
  <2>6. Used(Ctx(y.ksh, 0), n) = Ctx(y.ksh, 0 + n)
    BY <2>5, CtxUsed
  <2>7. z2 = Ctx(y.ksh, n)
    BY <1>11, <2>1, <2>2, <2>4, <2>6
  <2>8. Seal(c.enc, items) = ExtensionsOf(y)
    BY <2>1, <2>2 DEF Sealed
  <2>9. z1 = (IF y.found THEN y.see ELSE y.scert)
    BY <1>11, <2>1, <2>2
  <2>10. w = (<<y.rsh>> \o Opt(y.compat, CcsRec)) \o ExtensionsOf(y)
    BY <1>7, <1>13, <2>8
  <2> QED BY <2>4, <2>7, <2>9, <2>10
<1>19. CASE ~y.found /\ cfg.async
  <2>1. PICK e : e = [d EXCEPT !.state = "generating_cv"]
    OBVIOUS
  <2>2. ServerReply(e, w)
    BY <1>7, <1>8, <1>15, <1>16, <1>19, <2>1
  <2>3. /\ e.state = "generating_cv" /\ e.sched = d.sched /\ e.enc = d.enc /\ e.isPsk = d.isPsk
        /\ e.accepted = d.accepted /\ e.dec = d.dec /\ e.pending = d.pending
        /\ e.skipped = d.skipped /\ e.retries = d.retries /\ e.done = d.done /\ e.error = d.error
    BY <1>16, <2>1 DEF ServerFields
  <2>4. AnsweredBefore(y, e)
    BY <1>2, <1>3, <1>7, <1>8, <1>16, <1>17, <1>18, <1>19, <2>3 DEF AnsweredBefore
  <2>5. Answered(y, e)
    BY <1>3, <1>7, <1>8, <1>16, <2>3, <2>4 DEF Answered
  <2>6. w = <<y.rsh>> \o SCcs(y, e.state, 0)
    <3>1. PICK v : v = SVerify(y, e.state, 0)
      OBVIOUS
    <3>2. v = <<>> \o <<>>
      BY <2>3, <3>1 DEF SVerify, SFin, Opt, Flown
    <3>3. v = <<>>
      BY <3>2, ShortSeq, CatNone
    <3>4. w \o v = <<y.rsh>> \o SCcs(y, e.state, 0) /\ IsSeq(w)
      BY <1>2, <1>18, <3>1, AnswerStream
    <3>5. w \o <<>> = w
      BY <3>4, CatNone
    <3> QED BY <3>3, <3>4, <3>5
  <2>7. ServerReply(e, <<y.rsh>> \o SCcs(y, e.state, 0))
    BY <2>2, <2>6
  <2> QED BY <1>3, <2>5, <2>7, AnsweredSync
<1>20. CASE ~y.found /\ ~cfg.async /\ cfg.signBad = "server"
  <2>1. ServerFail(d, "internal_error")
    BY <1>7, <1>8, <1>15, <1>16, <1>20
  <2>2. d.state = sv.state /\ d.retries = sv.retries /\ d.accepted = sv.accepted /\ d.done \in BOOLEAN
    BY <1>2, <1>3, <1>7, <1>8, <1>16, <1>20
  <2>3. SealsWith(d)
    BY <1>16, <1>18 DEF SealsWith
  <2>4. ServerStops
    BY <1>16, <2>1, <2>2, <2>3, ServerFailStops
  <2> QED BY <2>4
<1>21. CASE y.found \/ (~cfg.async /\ cfg.signBad # "server")
  <2>1. ServerReply(f.tls, w \o f.out)
    BY <1>7, <1>8, <1>15, <1>16, <1>21
  <2>2. FinishFrom(y, d)
    BY <1>7, <1>8, <1>16, <1>17, <1>18 DEF FinishFrom
  <2>3. FinishIs(y, d, f)
    BY <1>1, <1>14, <2>2, ServerFinishHolds
  <2>4. PICK e, st : e = f.tls /\ st = e.state
    OBVIOUS
  <2>5. /\ f.out = SVerify(y, st, 0) /\ e.sched = y.sfin /\ e.pendingAp = y.kca
        /\ e.enc = Ctx(y.ksa, y.tickets)
        /\ e.state = (IF y.accept THEN "expect_eoed" ELSE IF y.auth THEN "expect_cert" ELSE "expect_fin")
        /\ e.done = ~y.auth /\ e.isPsk = y.found /\ e.pending = d.pending
        /\ e.dec = d.dec /\ e.skipped = d.skipped /\ e.accepted = d.accepted
        /\ e.retries = d.retries /\ e.error = d.error
    BY <2>3, <2>4 DEF FinishIs
  <2>6. AnsweredAll(y, e)
    BY <1>7, <1>8, <1>16, <2>5 DEF AnsweredAll
  <2>7. Answered(y, e)
    BY <1>3, <1>7, <1>8, <1>16, <2>5, <2>6 DEF Answered
  <2>8. w \o f.out = <<y.rsh>> \o SCcs(y, st, 0)
    <3>1. PICK v : v = SVerify(y, st, 0)
      OBVIOUS
    <3>2. w \o v = <<y.rsh>> \o SCcs(y, st, 0) /\ IsSeq(w)
      BY <1>2, <1>18, <3>1, AnswerStream
    <3> QED BY <2>5, <3>1, <3>2
  <2>9. ServerReply(e, <<y.rsh>> \o SCcs(y, e.state, 0))
    BY <2>1, <2>4, <2>8
  <2> QED BY <1>3, <2>7, <2>9, AnsweredSync
<1> QED BY <1>2, <1>19, <1>20, <1>21

(* The hellos in the clear, and their handler. *)
LEMMA ServerOpensHello ==
  ASSUME NEW y, NEW a, NEW b, NEW al, ServerKnows(y, a, b, al), ServerReceive,
         sv.state \in Unanswered, NEW r, r.key = NoKey, r.msg.type = "ch",
         NEW t, Starts(toServer, r, t)
  PROVE  \E s : /\ ServerMet(s, NoProtection) /\ AtHello(y, s, a, b) /\ ServerHandleHello(s, r)
                /\ got' = got /\ toServer' = t
<1>1. ServerAt(y, sv, sent.early, sent.server, a, b)
  BY DEF ServerKnows
<1>2. sv.dec = NoProtection
  BY <1>1 DEF ServerAt
<1>3. r.msg.type \in ServerTakes(sv.state) /\ r.msg.type # "ccs"
  BY DEF ServerTakes, Unanswered
<1>4. PICK s : ServerMet(s, NoProtection) /\ ServerHandled(s, r, r.msg.type) /\ toServer' = t
  BY <1>2, <1>3, ServerOpensPlain
<1>5. AtHello(y, s, a, b)
  BY <1>4, ServerAtHello
<1>6. ServerHandleHello(s, r) /\ got' = got
  BY <1>4 DEF ServerHandled
<1> QED BY <1>4, <1>5, <1>6

(* The codes of a refused hello. *)
LEMMA HelloErrors ==
  ASSUME NEW s, NEW r
  PROVE  HelloError(s, r) # "peer_alert"
<1>1. HelloError(s, r) \in {"decode_error", "handshake_failure", "none", "decrypt_error",
                            "unknown_psk_identity"}
  BY DEF HelloError
<1> QED BY <1>1

(* A refused hello. *)
LEMMA HelloRefused ==
  ASSUME NEW s, ServerMet(s, NoProtection), NEW r, ServerHandleHello(s, r), HelloError(s, r) # "none",
         got' = got
  PROVE  ServerStops
<1>1. PICK code : code = HelloError(s, r)
  OBVIOUS
<1>2. ServerFail(s, code) /\ code # "none" /\ code # "peer_alert"
  BY <1>1, HelloErrors DEF ServerHandleHello
<1>3. /\ DOMAIN s = ServerFields /\ s.state = sv.state /\ s.retries = sv.retries
      /\ s.accepted = sv.accepted /\ s.done \in BOOLEAN /\ SealsWith(s)
  BY DEF ServerMet
<1> QED BY <1>2, <1>3, ServerFailStops

(* The first hello is refused, answered with a HelloRetryRequest or with the flight. *)
LEMMA ServerReadsHello1 ==
  ASSUME NEW y, NEW a, NEW b, NEW al, ServerKnows(y, a, b, al), ServerReceive,
         sv.state \in Unanswered, sv.retries = 0,
         NEW t, t = CCcs(y, cl.state, sent.early, sent.client) \o al, Starts(toServer, y.rch1, t)
  PROVE  ServerStops \/ ServerMoves(y)
<1>1. /\ Flags(y) /\ Hellos(y) /\ Records(y) /\ cfg \in Config
  BY DEF ServerKnows, Story
<1>2. PICK r : r = y.rch1
  OBVIOUS
<1>3. r.key = NoKey /\ r.msg = y.ch1 /\ r.msg.type = "ch"
  <2>1. PICK mac : mac = IF y.id = "none" THEN NoMac ELSE Binder(y.s1)
    OBVIOUS
  <2>2. r = Wire(NoKey, 0, y.ch1, mac)
    BY <1>1, <1>2, <2>1 DEF Records
  <2>3. y.ch1.type = "ch"
    <3>1. y.ch1 = [type |-> "ch", share |-> y.share1, psk |-> y.id, early |-> y.asks, cookie |-> <<>>]
      BY <1>1 DEF Hellos
    <3> QED BY <3>1
  <2> QED BY <2>2, <2>3, WireFields
<1>4. PICK s : /\ ServerMet(s, NoProtection) /\ AtHello(y, s, a, b) /\ ServerHandleHello(s, r)
               /\ got' = got /\ toServer' = t
  BY <1>2, <1>3, ServerOpensHello
<1>5. /\ a = 0 /\ b = 0 /\ s.retries = 0 /\ s.state = "expect_ch" /\ s.sched = EmptySchedule
      /\ s.skipped = -1
  BY <1>4 DEF AtHello
<1>6. ~ByCookie(s, y.ch1) /\ (MustRetry(s, y.ch1) <=> y.retry)
  BY <1>1, <1>5, FirstHelloRetries
<1>7. CASE HelloError(s, r) # "none"
  BY <1>4, <1>7, HelloRefused
<1>8. CASE HelloError(s, r) = "none" /\ y.retry
  <2>1. ServerSendRetry(s, r)
    BY <1>3, <1>4, <1>6, <1>8 DEF ServerHandleHello
  <2>2. y.group # "none"
    <3>1. RetryGroup # "none"
      BY <1>3, <1>5, <1>6, <1>8 DEF HelloError
    <3> QED BY <1>1, <3>1, FlagWords
  <2>3. ServerMoves(y)
    BY <1>3, <1>4, <1>8, <2>1, <2>2, ServerRetriesSync
  <2> QED BY <2>3
<1>9. CASE HelloError(s, r) = "none" /\ ~y.retry
  <2>1. ServerSendFlight(s, r)
    BY <1>3, <1>4, <1>6, <1>9 DEF ServerHandleHello
  <2>2. HelloTaken(y, s, r.msg)
    BY <1>1, <1>3, <1>5, <1>9, FirstHelloTaken
  <2>3. ServerKnows(y, 0, 0, al) /\ AtHello(y, s, 0, 0)
    BY <1>4, <1>5
  <2>4. t = IF y.retry THEN CEnd(y, cl.state, sent.early, sent.client) \o al
            ELSE CCcs(y, cl.state, sent.early, sent.client) \o al
    BY <1>9
  <2>5. sv.retries = 1 <=> y.retry
    BY <1>9
  <2> QED BY <1>4, <1>9, <2>1, <2>2, <2>3, <2>4, <2>5, ServerAnswers
<1> QED BY <1>7, <1>8, <1>9

(* The second hello is refused or answered. *)
LEMMA ServerReadsHello2 ==
  ASSUME NEW y, NEW a, NEW b, NEW al, ServerKnows(y, a, b, al), ServerReceive,
         sv.state \in Unanswered, sv.retries = 1, cl.state # "expect_sh",
         NEW t, t = CEnd(y, cl.state, sent.early, sent.client) \o al, Starts(toServer, y.rch2, t)
  PROVE  ServerStops \/ ServerMoves(y)
<1>1. /\ Flags(y) /\ Hellos(y) /\ Records(y) /\ cfg \in Config
      /\ Always(y, cl, sv, sent.early, sent.client)
  BY DEF ServerKnows, Story
<1>2. PICK r : r = y.rch2
  OBVIOUS
<1>3. r.key = NoKey /\ r.msg = y.ch2 /\ r.msg.type = "ch"
  <2>1. PICK mac : mac = IF y.id = "none" THEN NoMac ELSE Binder(y.s2)
    OBVIOUS
  <2>2. r = Wire(NoKey, 0, y.ch2, mac)
    BY <1>1, <1>2, <2>1 DEF Records
  <2>3. y.ch2.type = "ch"
    <3>1. y.ch2 = [type |-> "ch", share |-> y.share2, psk |-> y.id, early |-> FALSE,
                   cookie |-> y.hrr.cookie]
      BY <1>1 DEF Hellos
    <3> QED BY <3>1
  <2> QED BY <2>2, <2>3, WireFields
<1>4. PICK s : /\ ServerMet(s, NoProtection) /\ AtHello(y, s, a, b) /\ ServerHandleHello(s, r)
               /\ got' = got /\ toServer' = t
  BY <1>2, <1>3, ServerOpensHello
<1>5. y.retry /\ y.group # "none"
  BY <1>1 DEF Always
<1>6. /\ a = 0 /\ b = 0 /\ s.retries = 1
      /\ IF ~y.cookie THEN s.state = "expect_ch2" /\ s.sched = y.sr
         ELSE s.state = "expect_ch" /\ s.sched = EmptySchedule
      /\ IF s.state = "expect_ch2" /\ y.asks THEN s.skipped \in Nat ELSE s.skipped = -1
  BY <1>4 DEF AtHello
<1>7. ~MustRetry(s, y.ch2) /\ (HelloError(s, r) = "none" => HelloTaken(y, s, y.ch2))
  BY <1>1, <1>3, <1>5, <1>6, SecondHelloTaken
<1>8. CASE HelloError(s, r) # "none"
  BY <1>4, <1>8, HelloRefused
<1>9. CASE HelloError(s, r) = "none"
  <2>1. ServerSendFlight(s, r)
    BY <1>3, <1>4, <1>7, <1>9 DEF ServerHandleHello
  <2>2. HelloTaken(y, s, r.msg)
    BY <1>3, <1>7, <1>9
  <2>3. ServerKnows(y, 0, 0, al) /\ AtHello(y, s, 0, 0)
    BY <1>4, <1>6
  <2>4. t = IF y.retry THEN CEnd(y, cl.state, sent.early, sent.client) \o al
            ELSE CCcs(y, cl.state, sent.early, sent.client) \o al
    BY <1>5
  <2>5. sv.retries = 1 <=> y.retry
    BY <1>5
  <2> QED BY <1>4, <2>1, <2>2, <2>3, <2>4, <2>5, ServerAnswers
<1> QED BY <1>8, <1>9

(* Whatever record comes next, the server stops or goes on with the story. *)
LEMMA ServerReceiveMoves ==
  ASSUME NEW y, NEW a, NEW b, NEW al, ServerKnows(y, a, b, al), ServerReceive,
         FromClient(y, sv, cl.state, sent.early, sent.client, a, b, al, toServer)
  PROVE  ServerStops \/ ServerMoves(y)
<1>1. /\ Flags(y) /\ cfg \in Config /\ IsSeq(al) /\ sent.early \in Nat /\ sent.client \in Nat
      /\ ServerAt(y, sv, sent.early, sent.server, a, b)
      /\ Always(y, cl, sv, sent.early, sent.client)
      /\ GotServer(y, cl, sv, got.server, sent.early, sent.client, a, b)
  BY DEF ServerKnows, Story, Counted
<1>2. toServer # <<>> /\ sv.state # "generating_cv"
  BY DEF ServerReceive, ServerReceives
<1>3. /\ sv.state \in ServerStates /\ sv.retries \in {0, 1} /\ (sv.retries = 1 => y.retry)
      /\ sv.state = "expect_fin" /\ (y.accept \/ y.auth) => cl.state = "post"
  BY <1>1 DEF Always
<1>4. y.accept => y.asks /\ ~y.auth /\ ~y.retry
  BY <1>1, FlagTypes
<1>5. a \in 0 .. sent.early /\ b \in Nat
  BY <1>1 DEF GotServer
<1>6. /\ sv.state = "expect_eoed" => y.accept
      /\ sv.state = "expect_cert" => y.auth
      /\ sv.state = "expect_cv" => y.auth /\ y.cc
  BY <1>1 DEF ServerAt
<1>7. ServerReads(y, sv, cl.state, sent.early, sent.client, a, b, al, toServer)
  BY <1>1, <1>2, <1>3, <1>4, <1>5, <1>6, ServerReadsNext
<1>8. CASE al # <<>> /\ toServer = al
  BY <1>8, ServerReadsAlert
<1>9. CASE /\ sv.state \in Unanswered /\ sv.retries = 0 /\ cl.state # "start"
           /\ Starts(toServer, y.rch1, CCcs(y, cl.state, sent.early, sent.client) \o al)
  BY <1>9, ServerReadsHello1
<1>10. CASE /\ sv.state # "post"
            /\ \E t : /\ Starts(toServer, CcsRec, t)
                      /\ FromClient(y, sv, cl.state, sent.early, sent.client, a, b, al, t)
  BY <1>10, ServerReadsCcs
<1>11. CASE /\ (sv.state \in Unanswered /\ sv.retries = 1) \/ (Waits(y, sv) /\ ~y.retry)
            /\ \E k \in 0 .. sent.early : \E t :
                  /\ k # sent.early /\ Starts(toServer, y.early[k], t)
                  /\ FromClient(y, sv, cl.state, sent.early, sent.client, a, b, al, t)
  <2>1. PICK k \in 0 .. sent.early : \E t :
                  /\ k # sent.early /\ Starts(toServer, y.early[k], t)
                  /\ FromClient(y, sv, cl.state, sent.early, sent.client, a, b, al, t)
    BY <1>11
  <2>2. PICK t : /\ Starts(toServer, y.early[k], t)
                 /\ FromClient(y, sv, cl.state, sent.early, sent.client, a, b, al, t)
    BY <2>1
  <2> QED BY <1>11, <2>2, ServerReadsRejected
<1>12. CASE /\ sv.state = "expect_eoed" /\ a \in 0 .. sent.early /\ a # sent.early
            /\ Starts(toServer, y.early[a],
                      CEarly(y, a + 1, cl.state, sent.early, sent.client) \o al)
  BY <1>12, ServerReadsEarly
<1>13. CASE /\ sv.state \in Unanswered /\ sv.retries = 1 /\ cl.state # "expect_sh"
            /\ Starts(toServer, y.rch2, CEnd(y, cl.state, sent.early, sent.client) \o al)
  BY <1>13, ServerReadsHello2
<1>14. CASE /\ sv.state = "expect_eoed" /\ a = sent.early /\ cl.state = "post"
            /\ Starts(toServer, Eoed(y, sent.early), CFin(y, sent.client) \o al)
  BY <1>14, ServerReadsEnd
<1>15. CASE /\ sv.state = "expect_cert" /\ cl.state = "post"
            /\ Starts(toServer, y.rccert, CVerify(y, sent.client) \o al)
  BY <1>15, ServerReadsCertificate
<1>16. CASE sv.state = "expect_cv" /\ Starts(toServer, y.rccv, CFin(y, sent.client) \o al)
  BY <1>16, ServerReadsVerify
<1>17. CASE /\ sv.state = "expect_fin" /\ cl.state = "post"
            /\ Starts(toServer, y.rcfin, Run(y.client, 0, sent.client) \o al)
  BY <1>17, ServerReadsFinished
<1>18. CASE /\ sv.state = "post" /\ b < sent.client
            /\ Starts(toServer, y.client[b], Run(y.client, b + 1, sent.client) \o al)
  BY <1>18, ServerReadsData
<1> QED BY <1>7, <1>8, <1>9, <1>10, <1>11, <1>12, <1>13, <1>14, <1>15, <1>16, <1>17, <1>18
        DEF ServerReads

-----------------------------------------------------------------------------
(* A step of the server, and what the client will read. *)

(* What the invariant says of a server that has not failed and can read, sign or send. *)
LEMMA ServerIsKnown ==
  ASSUME SyncInv, NEW y, SyncAt(y), sv.error = "none",
         sv.state \notin Unanswered \/ toServer # <<>>
  PROVE  \E a, b : \E al : /\ ServerKnows(y, a, b, al)
                           /\ FromClient(y, sv, cl.state, sent.early, sent.client, a, b, al, toServer)
<1>1. /\ Story(y) /\ Always(y, cl, sv, sent.early, sent.client) /\ Counted
      /\ ServerSide(y, cl, sv, sent.early, sent.client, sent.server, got.server, toServer)
  BY DEF SyncAt, SyncInv
<1>2. cfg \in Config /\ Shape(sv, ServerFields)
  BY HandshakeAssumption DEF SyncInv, HandshakeInv, ServerOK
<1>3. PICK a, b : /\ GotServer(y, cl, sv, got.server, sent.early, sent.client, a, b)
                  /\ ServerAt(y, sv, sent.early, sent.server, a, b)
                  /\ \E al : /\ ClientAlert(cl, al)
                             /\ FromClient(y, sv, cl.state, sent.early, sent.client, a, b, al, toServer)
  BY <1>1 DEF ServerSide
<1>4. PICK al : /\ ClientAlert(cl, al)
                /\ FromClient(y, sv, cl.state, sent.early, sent.client, a, b, al, toServer)
  BY <1>3
<1>5. IsSeq(al)
  BY <1>4, ShortSeq DEF ClientAlert
<1>6. cl.state # "start"
  <2>1. /\ sv.state \notin Unanswered => cl.state # "start"
        /\ sv.retries \in {0, 1} /\ (sv.retries = 1 => cl.state # "start")
    BY <1>1 DEF Always
  <2> QED BY <1>4, <2>1 DEF FromClient
<1>7. ServerKnows(y, a, b, al)
  BY <1>1, <1>2, <1>3, <1>4, <1>5, <1>6 DEF ServerKnows
<1> QED BY <1>4, <1>7

(* A server that goes on, or fails, leaves the invariant as it was. *)
LEMMA ServerStepSync ==
  ASSUME SyncInv, NEW y, SyncAt(y), NEW a, NEW b, NEW al, ServerKnows(y, a, b, al),
         ServerStops \/ ServerMoves(y), cfg' = cfg, cl' = cl, sent' = sent
  PROVE  SyncNext(y)
<1>1. /\ sent.early \in Nat /\ sent.client \in Nat /\ sent.server \in Nat
      /\ DOMAIN sent = {"early", "client", "server"} /\ DOMAIN got = {"client", "server"}
      /\ Always(y, cl, sv, sent.early, sent.client) /\ cl.state # "start" /\ sv.error = "none"
      /\ GotServer(y, cl, sv, got.server, sent.early, sent.client, a, b)
      /\ Flags(y) /\ cfg \in Config
  BY DEF ServerKnows, Counted, Story
<1>2. y.tickets \in Nat
  BY <1>1, FlagTypes
<1>3. ClientSide(y, cl, sv, sent.early, sent.client, sent.server, got.client, toClient)
  BY DEF SyncAt
<1>4. PICK s, t : s = sv /\ t = sv'
  OBVIOUS
<1>5. CASE ServerStops
  <2>1. /\ t.state = s.state /\ t.retries = s.retries /\ t.accepted = s.accepted
        /\ t.error # "none" /\ got' = got
    BY <1>4, <1>5 DEF ServerStops
  <2>2. PICK o : toClient' = toClient \o o /\ IsSeq(o) /\ (cl.error = "none" => ServerAlert(t, o))
    BY <1>4, <1>5 DEF ServerStops
  <2>3. Always(y, cl, t, sent.early, sent.client)
    BY <1>1, <1>4, <2>1 DEF Always
  <2>4. SameStage(s, t)
    BY <2>1 DEF SameStage
  <2>5. ClientSide(y, cl, t, sent.early, sent.client, sent.server, got.client, toClient')
    BY <1>1, <1>2, <1>3, <1>4, <2>2, <2>4, ClientSideStays
  <2>6. GotServer(y, cl, t, got.server, sent.early, sent.client, a, b)
    BY <1>1, <1>4, <2>1 DEF GotServer
  <2>7. ServerSide(y, cl, t, sent.early, sent.client, sent.server, got.server, toServer')
    BY <2>1, <2>6 DEF ServerSide
  <2> QED BY <1>1, <1>4, <2>1, <2>3, <2>5, <2>7 DEF SyncNext
<1>6. CASE ServerMoves(y)
  <2>1. /\ t.error = "none" /\ Always(y, cl, t, sent.early, sent.client)
        /\ got'.client = got.client /\ DOMAIN got' = DOMAIN got
    BY <1>4, <1>6 DEF ServerMoves
  <2>2. PICK a2, b2 : ServerHas(y, a2, b2)
    BY <1>6 DEF ServerMoves
  <2>3. PICK out : toClient' = toClient \o out /\ Sends(y, s, t, out)
    BY <1>4, <1>6 DEF ServerMoves
  <2>4. /\ ServerAt(y, t, sent.early, sent.server, a2, b2)
        /\ GotServer(y, cl, t, got'.server, sent.early, sent.client, a2, b2)
        /\ \E l : /\ ClientAlert(cl, l)
                  /\ FromClient(y, t, cl.state, sent.early, sent.client, a2, b2, l, toServer')
    BY <1>4, <2>2 DEF ServerHas
  <2>5. ServerSide(y, cl, t, sent.early, sent.client, sent.server, got'.server, toServer')
    BY <2>4 DEF ServerSide
  <2>6. ClientSide(y, cl, t, sent.early, sent.client, sent.server, got.client, toClient')
    <3>1. CASE SameStage(s, t) /\ out = <<>>
      <4>1. IsSeq(out) /\ ServerAlert(t, out)
        BY <2>1, <3>1, ShortSeq DEF ServerAlert
      <4> QED BY <1>1, <1>2, <1>3, <1>4, <2>3, <3>1, <4>1, ClientSideStays
    <3>2. CASE cl.error = "none" => Grown(y, cl, s, sent.server, t, sent.server, out)
      <4>1. sent.server <= sent.server
        BY <1>1
      <4> QED BY <1>1, <1>2, <1>3, <1>4, <2>1, <2>3, <3>2, <4>1, ClientSideMoves
    <3> QED BY <2>3, <3>1, <3>2 DEF Sends
  <2> QED BY <1>1, <1>4, <2>1, <2>5, <2>6 DEF SyncNext
<1> QED BY <1>5, <1>6

(* The server reads a record. *)
LEMMA ServerReceiveSync ==
  ASSUME SyncInv, NEW y, SyncAt(y), ServerReceive
  PROVE  SyncNext(y)
<1>1. cfg' = cfg /\ cl' = cl /\ sent' = sent /\ sv.error = "none" /\ toServer # <<>>
  BY DEF ServerReceive, ServerReceives
<1>2. PICK a, b : \E al :
         /\ ServerKnows(y, a, b, al)
         /\ FromClient(y, sv, cl.state, sent.early, sent.client, a, b, al, toServer)
  BY <1>1, ServerIsKnown
<1>3. PICK al : /\ ServerKnows(y, a, b, al)
                /\ FromClient(y, sv, cl.state, sent.early, sent.client, a, b, al, toServer)
  BY <1>2
<1>4. ServerStops \/ ServerMoves(y)
  BY <1>3, ServerReceiveMoves
<1> QED BY <1>1, <1>3, <1>4, ServerStepSync

(* The server's signature is there: CertificateVerify, Finished and the tickets go out, *)
(* or it fails without a word.                                                          *)
LEMMA ServerSignDoneSync ==
  ASSUME SyncInv, NEW y, SyncAt(y), ServerSignDone
  PROVE  SyncNext(y)
<1>1. /\ sv.state = "generating_cv" /\ sv.error = "none" /\ cfg' = cfg /\ cl' = cl
      /\ toServer' = toServer /\ sent' = sent /\ got' = got
  BY DEF ServerSignDone
<1>2. sv.state \notin Unanswered /\ sv.state \notin Flown /\ Waits(y, sv)
  BY <1>1 DEF Unanswered, Flown, Waits
<1>3. PICK a, b : \E al :
         /\ ServerKnows(y, a, b, al)
         /\ FromClient(y, sv, cl.state, sent.early, sent.client, a, b, al, toServer)
  BY <1>1, <1>2, ServerIsKnown
<1>4. PICK al : /\ ServerKnows(y, a, b, al)
                /\ FromClient(y, sv, cl.state, sent.early, sent.client, a, b, al, toServer)
  BY <1>3
<1>5. /\ Story(y) /\ Flags(y) /\ Keys(y) /\ Schedules(y) /\ cfg \in Config /\ cl.state # "start"
      /\ DOMAIN sv = ServerFields /\ ClientAlert(cl, al)
      /\ Always(y, cl, sv, sent.early, sent.client)
      /\ ServerAt(y, sv, sent.early, sent.server, a, b)
      /\ GotServer(y, cl, sv, got.server, sent.early, sent.client, a, b)
  BY <1>4 DEF ServerKnows, Shape, Story
<1>6. /\ y.auth \in BOOLEAN /\ y.found \in BOOLEAN /\ y.accept \in BOOLEAN /\ y.tickets \in Nat
      /\ (y.accept => y.found)
  BY <1>5, FlagTypes
<1>7. /\ ~y.found /\ sv.enc = Ctx(y.ksh, y.ncr + 1) /\ sv.dec = Ctx(y.kch, 0) /\ sv.isPsk = y.found
      /\ sv.pending = NoKey /\ sv.sched = y.scert /\ a = 0 /\ b = 0 /\ sent.server = 0
      /\ sv.accepted = (sv.state \notin Unanswered /\ y.accept)
      /\ IF y.skips THEN sv.skipped \in Nat ELSE sv.skipped = -1
  BY <1>1, <1>2, <1>5 DEF ServerAt
<1>8. CASE cfg.signBad = "server"
  <2>1. sv' = [sv EXCEPT !.error = "internal_error"] /\ toClient' = toClient
    BY <1>8 DEF ServerSignDone
  <2>2. PICK t : t = sv'
    OBVIOUS
  <2>3. /\ t.state = sv.state /\ t.retries = sv.retries /\ t.accepted = sv.accepted
        /\ t.error = "internal_error"
    BY <1>5, <2>1, <2>2 DEF ServerFields
  <2>4. IsSeq(toClient) /\ IsSeq(<<>>)
    BY ShortSeq DEF SyncInv, HandshakeInv
  <2>5. toClient' = toClient \o <<>>
    BY <2>1, <2>4, CatNone
  <2>6. ServerAlert(t, <<>>)
    BY <1>1, <2>3 DEF ServerAlert
  <2>7. ServerStops
    BY <1>1, <2>2, <2>3, <2>4, <2>5, <2>6 DEF ServerStops
  <2> QED BY <1>1, <1>4, <2>7, ServerStepSync
<1>9. CASE cfg.signBad # "server"
  <2>1. PICK f : f = ServerFinish(sv)
    OBVIOUS
  <2>2. PICK d, out : d = f.tls /\ out = f.out
    OBVIOUS
  <2>3. sv' = d /\ toClient' = toClient \o out
    BY <1>9, <2>1, <2>2 DEF ServerSignDone
  <2>4. FinishFrom(y, sv)
    BY <1>5, <1>6, <1>7 DEF FinishFrom
  <2>5. FinishIs(y, sv, f)
    BY <1>5, <2>1, <2>4, ServerFinishHolds
  <2>6. /\ d.state \in Flown /\ out = SVerify(y, d.state, 0) /\ d.retries = sv.retries
        /\ d.error = "none"
    BY <1>1, <2>2, <2>5 DEF FinishIs
  <2>7. Answered(y, d)
    <3>1. AnsweredAll(y, d)
      BY <1>6, <1>7, <2>2, <2>5 DEF FinishIs, AnsweredAll
    <3>2. d.isPsk = y.found /\ d.skipped = sv.skipped /\ d.accepted = sv.accepted
      BY <2>2, <2>5 DEF FinishIs
    <3>3. sv.accepted = y.accept
      BY <1>2, <1>6, <1>7
    <3> QED BY <1>7, <2>6, <3>1, <3>2, <3>3 DEF Answered
  <2>8. /\ ServerAt(y, d, sent.early, 0, 0, 0)
        /\ d.state \notin {"expect_cv", "post"}
        /\ d.state = "expect_fin" => ~y.accept /\ ~y.auth
        /\ IF y.accept THEN d.state = "expect_eoed" ELSE Waits(y, d)
    BY <1>5, <2>7, AnsweredAt
  <2>9. Waits(y, d) /\ d.state \notin Unanswered /\ d.state \in ServerStates
        /\ d.state \notin {"generating_cv", "expect_eoed"}
    BY <1>6, <1>7, <2>6, <2>8 DEF Waits, Flown, Unanswered, ServerStates
  <2>10. WaitForm(y, cl.state, sent.early, sent.client, al, toServer)
    BY <1>2, <1>4 DEF FromClient
  <2>11. FromClient(y, d, cl.state, sent.early, sent.client, 0, 0, al, toServer)
    BY <2>8, <2>9, <2>10 DEF FromClient
  <2>12. GotServer(y, cl, d, got.server, sent.early, sent.client, 0, 0)
    <3>1. d.accepted = sv.accepted
      BY <2>2, <2>5 DEF FinishIs
    <3> QED BY <1>5, <1>7, <3>1 DEF GotServer
  <2>13. ServerHas(y, 0, 0)
    BY <1>1, <1>5, <1>7, <2>3, <2>8, <2>11, <2>12 DEF ServerHas
  <2>14. Always(y, cl, d, sent.early, sent.client)
    BY <1>1, <1>2, <1>5, <2>6, <2>8, <2>9 DEF Always
  <2>15. cl.state \notin {"start", "expect_fin", "post"}
    BY <1>2, <1>5 DEF Always
  <2>16. Grown(y, cl, sv, 0, d, 0, out)
    BY <1>1, <1>6, <2>6, <2>15, GrownBySignature
  <2>17. Sends(y, sv, d, out)
    BY <1>7, <2>16 DEF Sends
  <2>18. \E u, v : ServerHas(y, u, v)
    BY <2>13
  <2>19. \E o : toClient' = toClient \o o /\ Sends(y, sv, sv', o)
    BY <2>3, <2>17
  <2>20. ServerMoves(y)
    BY <1>1, <2>3, <2>6, <2>14, <2>18, <2>19 DEF ServerMoves
  <2> QED BY <1>1, <1>4, <2>20, ServerStepSync
<1> QED BY <1>8, <1>9

(* Application data of the server. *)
LEMMA ServerSendSync ==
  ASSUME SyncInv, NEW y, SyncAt(y), ServerSend
  PROVE  SyncNext(y)
<1>1. /\ sv.error = "none" /\ sv.done /\ cfg' = cfg /\ cl' = cl /\ toServer' = toServer /\ got' = got
      /\ toClient' = toClient \o Seal(sv.enc, <<Data("server")>>)
      /\ sv' = [sv EXCEPT !.enc = Used(@, 1)] /\ sent' = [sent EXCEPT !.server = @ + 1]
  BY DEF ServerSend
<1>2. /\ sent.early \in Nat /\ sent.client \in Nat /\ sent.server \in Nat
      /\ DOMAIN sent = {"early", "client", "server"} /\ DOMAIN got = {"client", "server"}
      /\ Flags(y) /\ Keys(y) /\ Series(y)
      /\ Always(y, cl, sv, sent.early, sent.client)
      /\ ClientSide(y, cl, sv, sent.early, sent.client, sent.server, got.client, toClient)
      /\ ServerSide(y, cl, sv, sent.early, sent.client, sent.server, got.server, toServer)
  BY DEF SyncInv, Counted, SyncAt, Story
<1>3. cfg \in Config /\ DOMAIN sv = ServerFields
  BY HandshakeAssumption DEF SyncInv, HandshakeInv, ServerOK, Shape
<1>4. y.tickets \in Nat
  BY <1>2, <1>3, FlagTypes
<1>5. PICK a, b : /\ GotServer(y, cl, sv, got.server, sent.early, sent.client, a, b)
                  /\ ServerAt(y, sv, sent.early, sent.server, a, b)
                  /\ \E al : /\ ClientAlert(cl, al)
                             /\ FromClient(y, sv, cl.state, sent.early, sent.client, a, b, al, toServer)
  BY <1>1, <1>2 DEF ServerSide
<1>6. PICK al : /\ ClientAlert(cl, al)
                /\ FromClient(y, sv, cl.state, sent.early, sent.client, a, b, al, toServer)
  BY <1>5
<1>7. sv.state \in Flown
  <2>1. sv.state \notin Unanswered /\ sv.state # "generating_cv"
    BY <1>1, <1>5 DEF ServerAt
  <2>2. sv.state \in ServerStates
    BY <1>2 DEF Always
  <2> QED BY <2>1, <2>2 DEF ServerStates, Unanswered, Flown
<1>8. sv.state \notin Unanswered /\ sv.state # "generating_cv"
  BY <1>7 DEF Flown, Unanswered
<1>9. cl.state # "start"
  BY <1>2, <1>8 DEF Always
<1>10. PICK n, m, q : n = sent.early /\ m = sent.server /\ q = y.tickets + m
  OBVIOUS
<1>11. n \in Nat /\ m \in Nat /\ q \in Nat /\ m + 1 \in Nat /\ q + 1 = y.tickets + (m + 1)
       /\ (q - y.tickets) + 1 = m + 1 /\ ~(q < y.tickets) /\ m <= m + 1
  BY <1>2, <1>4, <1>10
<1>12. sv.enc = Ctx(y.ksa, q) /\ y.ksa # NoKey
  <2>1. sv.enc = Ctx(y.ksa, y.tickets + sent.server)
    BY <1>5, <1>7 DEF ServerAt
  <2>2. y.ksa # NoKey
    BY <1>2, KeysDiffer
  <2> QED BY <1>10, <2>1, <2>2
<1>13. PICK s, t : s = sv /\ t = sv'
  OBVIOUS
<1>14. PICK e : e = Used(sv.enc, 1)
  OBVIOUS
<1>15. e = Ctx(y.ksa, q + 1)
  BY <1>12, <1>14, CtxUsed
<1>16. t = [s EXCEPT !.enc = e]
  BY <1>1, <1>13, <1>14
<1>17. /\ t.enc = e /\ t.dec = s.dec /\ t.pending = s.pending /\ t.pendingAp = s.pendingAp
       /\ t.sched = s.sched /\ t.isPsk = s.isPsk /\ t.skipped = s.skipped
       /\ t.accepted = s.accepted /\ t.retries = s.retries /\ t.state = s.state
       /\ t.done = s.done /\ t.error = s.error
  BY <1>3, <1>13, <1>16 DEF ServerFields
<1>18. toClient' = toClient \o <<y.server[q]>>
  <2>1. Data("server") = Item(DataMsg("server", m + 1), NoMac)
    BY <1>10 DEF Data, DataMsg
  <2>2. Seal(Ctx(y.ksa, q), <<Item(DataMsg("server", m + 1), NoMac)>>)
          = <<Wire(y.ksa, SeqNo(y.ksa, q), DataMsg("server", m + 1), NoMac)>>
    BY <1>11, SealSingle
  <2>3. SeqNo(y.ksa, q) = q
    BY <1>12 DEF SeqNo
  <2>4. y.server[q] = Wire(y.ksa, q, DataMsg("server", (q - y.tickets) + 1), NoMac)
    BY <1>2, <1>11 DEF Series
  <2>5. y.server[q] = Wire(y.ksa, q, DataMsg("server", m + 1), NoMac)
    BY <1>11, <2>4
  <2> QED BY <1>1, <1>12, <2>1, <2>2, <2>3, <2>5
<1>19. Grown(y, cl, s, m, t, m + 1, <<y.server[q]>>)
  BY <1>4, <1>7, <1>9, <1>10, <1>11, <1>13, <1>17, GrownByData
<1>20. ClientSide(y, cl, t, sent.early, sent.client, m + 1, got.client, toClient')
  <2>1. PICK out, wire : out = <<y.server[q]>> /\ wire = toClient
    OBVIOUS
  <2>2. ClientSide(y, cl, s, sent.early, sent.client, m, got.client, wire)
    BY <1>2, <1>10, <1>13, <2>1
  <2>3. s.error = "none" /\ t.error = "none"
    BY <1>1, <1>13, <1>17
  <2>4. Grown(y, cl, s, m, t, m + 1, out)
    BY <1>19, <2>1
  <2>5. ClientSide(y, cl, t, sent.early, sent.client, m + 1, got.client, wire \o out)
    BY <1>4, <1>9, <1>11, <2>2, <2>3, <2>4, ClientSideMoves
  <2> QED BY <1>18, <2>1, <2>5
<1>21. ServerAt(y, t, n, m + 1, a, b)
  <2>1. ServerAt(y, s, n, m, a, b) /\ s.state \in Flown
    BY <1>5, <1>7, <1>10, <1>13
  <2>2. t.enc = Ctx(y.ksa, y.tickets + (m + 1))
    BY <1>11, <1>15, <1>17
  <2>3. s.state \notin Unanswered /\ s.state # "generating_cv"
    BY <1>8, <1>13
  <2> QED BY <1>17, <2>1, <2>2, <2>3 DEF ServerAt
<1>22. FromClient(y, t, cl.state, sent.early, sent.client, a, b, al, toServer)
  <2>1. Waits(y, t) <=> Waits(y, sv)
    BY <1>13, <1>17 DEF Waits
  <2>2. t.state = sv.state /\ t.retries = sv.retries
    BY <1>13, <1>17
  <2> QED BY <1>6, <2>1, <2>2 DEF FromClient
<1>23. GotServer(y, cl, t, got.server, sent.early, sent.client, a, b)
  BY <1>5, <1>13, <1>17 DEF GotServer
<1>24. ServerSide(y, cl, t, sent.early, sent.client, m + 1, got.server, toServer')
  BY <1>1, <1>6, <1>10, <1>21, <1>22, <1>23 DEF ServerSide
<1>25. Always(y, cl, t, sent.early, sent.client)
  BY <1>2, <1>13, <1>17 DEF Always
<1>26. /\ sent'.early = sent.early /\ sent'.client = sent.client /\ sent'.server = m + 1
       /\ DOMAIN sent' = {"early", "client", "server"}
  BY <1>1, <1>2, <1>10
<1> QED BY <1>1, <1>2, <1>11, <1>13, <1>20, <1>24, <1>25, <1>26 DEF SyncNext

(* Every configuration has a story. *)
LEMMA StoryExists == \E y : Story(y)
<1>1. PICK id_ : id_ = (Identity)
  OBVIOUS
<1>2. PICK ext_ : ext_ = (External("server"))
  OBVIOUS
<1>3. PICK group_ : group_ = (RetryGroup)
  OBVIOUS
<1>4. PICK auth_ : auth_ = (cfg.auth)
  OBVIOUS
<1>5. PICK cc_ : cc_ = (cfg.clientCert)
  OBVIOUS
<1>6. PICK compat_ : compat_ = (cfg.compat)
  OBVIOUS
<1>7. PICK cookie_ : cookie_ = (cfg.cookie)
  OBVIOUS
<1>8. PICK tickets_ : tickets_ = (cfg.tickets)
  OBVIOUS
<1>10. PICK share1_ : share1_ = (IF id_ = "ticket" THEN cfg.ticketGroup ELSE IF cfg.negotiateFirst THEN "none" ELSE
          "g1")
  OBVIOUS
<1>11. PICK has1_ : has1_ = (share1_ \in cfg.groups)
  OBVIOUS
<1>12. PICK share2_ : share2_ = (IF has1_ THEN share1_ ELSE group_)
  OBVIOUS
<1>13. PICK asks_ : asks_ = (cfg.early /\ id_ # "none")
  OBVIOUS
<1>14. PICK retry_ : retry_ = (~has1_ \/ cfg.enforceRetry)
  OBVIOUS
<1>15. PICK found_ : found_ = (id_ # "none" /\ ~auth_ /\ IF ext_ THEN id_ = "external" ELSE ~retry_ /\ id_ =
          "ticket" /\ cfg.psk = "ticket" /\ cfg.ticketGroup \in cfg.groups)
  OBVIOUS
<1>16. PICK share_ : share_ = (IF found_ /\ ~cfg.dheOnPsk THEN "none" ELSE IF retry_ THEN share2_ ELSE share1_)
  OBVIOUS
<1>17. PICK accept_ : accept_ = (found_ /\ asks_ /\ ~retry_ /\ cfg.acceptEarly)
  OBVIOUS
<1>18. PICK skips_ : skips_ = (asks_ /\ ~accept_ /\ ~(retry_ /\ cookie_))
  OBVIOUS
<1>19. PICK ch1_ : ch1_ = ([type |-> "ch", share |-> share1_, psk |-> id_, early |-> asks_, cookie |-> <<>>])
  OBVIOUS
<1>20. PICK hash1_ : hash1_ = ([type |-> "message_hash", of |-> <<ch1_>>])
  OBVIOUS
<1>21. PICK hrr_ : hrr_ = ([type |-> "hrr", group |-> IF has1_ THEN "none" ELSE group_, cookie |-> IF cookie_
          THEN <<[of |-> <<ch1_>>, sent |-> ~has1_, signed |-> group_]>> ELSE <<>>])
  OBVIOUS
<1>22. PICK ch2_ : ch2_ = ([type |-> "ch", share |-> share2_, psk |-> id_, early |-> FALSE,
          cookie |-> hrr_.cookie])
  OBVIOUS
<1>23. PICK sh_ : sh_ = ([type |-> "sh", share |-> share_, psk |-> found_])
  OBVIOUS
<1>24. PICK psk1_ : psk1_ = (IF id_ = "none" THEN "zero" ELSE id_)
  OBVIOUS
<1>25. PICK s1_ : s1_ = ([psk |-> psk1_, dhe |-> "unset", th |-> <<ch1_>>])
  OBVIOUS
<1>26. PICK s2_ : s2_ = ([psk |-> psk1_, dhe |-> "unset", th |-> <<hash1_, hrr_, ch2_>>])
  OBVIOUS
<1>27. PICK sr_ : sr_ = ([psk |-> IF ext_ THEN "external" ELSE "zero", dhe |-> "unset", th |-> <<hash1_,
          hrr_>>])
  OBVIOUS
<1>28. PICK hs_ : hs_ = ([psk |-> IF found_ THEN id_ ELSE "zero", dhe |-> IF share_ = "none" THEN "zero" ELSE
          share_, th |-> IF retry_ THEN <<hash1_, hrr_, ch2_, sh_>> ELSE <<ch1_, sh_>>])
  OBVIOUS
<1>29. PICK ee_ : ee_ = ([type |-> "ee", early |-> accept_])
  OBVIOUS
<1>30. PICK see_ : see_ = (Hash(hs_, <<ee_>>))
  OBVIOUS
<1>31. PICK scr_ : scr_ = (IF auth_ THEN Hash(see_, <<Plain("cr")>>) ELSE see_)
  OBVIOUS
<1>32. PICK scert_ : scert_ = (Hash(scr_, <<CertMsg(TRUE)>>))
  OBVIOUS
<1>33. PICK scv_ : scv_ = (IF found_ THEN see_ ELSE Hash(scert_, <<Plain("cv")>>))
  OBVIOUS
<1>34. PICK sfin_ : sfin_ = (Hash(scv_, <<ServerFinished>>))
  OBVIOUS
<1>35. PICK sccert_ : sccert_ = (Hash(sfin_, <<CertMsg(cc_)>>))
  OBVIOUS
<1>36. PICK send_ : send_ = (IF accept_ THEN Hash(sfin_, <<Plain("eoed")>>) ELSE IF ~auth_ THEN sfin_ ELSE IF cc_
          THEN Hash(sccert_, <<Plain("cv")>>) ELSE sccert_)
  OBVIOUS
<1>37. PICK res_ : res_ = (Key("res", Hash(sfin_, (IF accept_ THEN <<Plain("eoed")>> ELSE <<>>) \o
          <<ClientFinished>>)))
  OBVIOUS
<1>38. PICK ke_ : ke_ = (Key("c e", s1_))
  OBVIOUS
<1>39. PICK ksh_ : ksh_ = (Key("s hs", hs_))
  OBVIOUS
<1>40. PICK kch_ : kch_ = (Key("c hs", hs_))
  OBVIOUS
<1>41. PICK ksa_ : ksa_ = (Key("s ap", sfin_))
  OBVIOUS
<1>42. PICK kca_ : kca_ = (Key("c ap", sfin_))
  OBVIOUS
<1>43. PICK ncr_ : ncr_ = (IF auth_ THEN 2 ELSE 1)
  OBVIOUS
<1>44. PICK nfin_ : nfin_ = (IF found_ THEN 1 ELSE ncr_ + 2)
  OBVIOUS
<1>45. PICK nc_ : nc_ = (IF ~auth_ THEN 0 ELSE IF cc_ THEN 2 ELSE 1)
  OBVIOUS
<1>46. PICK rch1_ : rch1_ = (Wire(NoKey, 0, ch1_, IF id_ = "none" THEN NoMac ELSE Binder(s1_)))
  OBVIOUS
<1>47. PICK rch2_ : rch2_ = (Wire(NoKey, 0, ch2_, IF id_ = "none" THEN NoMac ELSE Binder(s2_)))
  OBVIOUS
<1>48. PICK rhrr_ : rhrr_ = (Wire(NoKey, 0, hrr_, NoMac))
  OBVIOUS
<1>49. PICK rsh_ : rsh_ = (Wire(NoKey, 0, sh_, NoMac))
  OBVIOUS
<1>50. PICK ree_ : ree_ = (Wire(ksh_, 0, ee_, NoMac))
  OBVIOUS
<1>51. PICK rcr_ : rcr_ = (Wire(ksh_, 1, Plain("cr"), NoMac))
  OBVIOUS
<1>52. PICK rcert_ : rcert_ = (Wire(ksh_, ncr_, CertMsg(TRUE), NoMac))
  OBVIOUS
<1>53. PICK rcv_ : rcv_ = (Wire(ksh_, ncr_ + 1, Plain("cv"), Signature(scert_)))
  OBVIOUS
<1>54. PICK rfin_ : rfin_ = (Wire(ksh_, nfin_, ServerFinished, FinishedMac(ksh_, scv_)))
  OBVIOUS
<1>55. PICK rccert_ : rccert_ = (Wire(kch_, 0, CertMsg(cc_), NoMac))
  OBVIOUS
<1>56. PICK rccv_ : rccv_ = (Wire(kch_, 1, Plain("cv"), Signature(sccert_)))
  OBVIOUS
<1>57. PICK rcfin_ : rcfin_ = (Wire(kch_, nc_, ClientFinished, FinishedMac(kch_, send_)))
  OBVIOUS
<1>58. PICK early_ : early_ = ([q \in Nat |-> Wire(ke_, q, DataMsg("early", q + 1), NoMac)])
  OBVIOUS
<1>59. PICK client_ : client_ = ([q \in Nat |-> Wire(kca_, q, DataMsg("client", q + 1), NoMac)])
  OBVIOUS
<1>60. PICK server_ : server_ = ([q \in Nat |-> IF q < tickets_ THEN Wire(ksa_, q, Plain("nst"), [key |-> res_,
          th |-> <<>>]) ELSE Wire(ksa_, q, DataMsg("server", (q - tickets_) + 1), NoMac)])
  OBVIOUS
<1>61. PICK y : y = [id |-> id_, ext |-> ext_, group |-> group_, auth |-> auth_, cc |-> cc_,
                compat |-> compat_, cookie |-> cookie_, tickets |-> tickets_,
                share1 |-> share1_, has1 |-> has1_, share2 |-> share2_, asks |-> asks_,
                retry |-> retry_, found |-> found_, share |-> share_, accept |-> accept_,
                skips |-> skips_, ch1 |-> ch1_, hash1 |-> hash1_, hrr |-> hrr_, ch2 |-> ch2_,
                sh |-> sh_, psk1 |-> psk1_, s1 |-> s1_, s2 |-> s2_, sr |-> sr_, hs |-> hs_,
                ee |-> ee_, see |-> see_, scr |-> scr_, scert |-> scert_, scv |-> scv_,
                sfin |-> sfin_, sccert |-> sccert_, send |-> send_, res |-> res_, ke |-> ke_,
                ksh |-> ksh_, kch |-> kch_, ksa |-> ksa_, kca |-> kca_, ncr |-> ncr_,
                nfin |-> nfin_, nc |-> nc_, rch1 |-> rch1_, rch2 |-> rch2_, rhrr |-> rhrr_,
                rsh |-> rsh_, ree |-> ree_, rcr |-> rcr_, rcert |-> rcert_, rcv |-> rcv_,
                rfin |-> rfin_, rccert |-> rccert_, rccv |-> rccv_, rcfin |-> rcfin_,
                early |-> early_, client |-> client_, server |-> server_]
  OBVIOUS
<1>62. y.id = id_ /\ y.ext = ext_ /\ y.group = group_ /\ y.auth = auth_ /\ y.cc = cc_
       /\ y.compat = compat_ /\ y.cookie = cookie_ /\ y.tickets = tickets_
       /\ y.share1 = share1_ /\ y.has1 = has1_ /\ y.share2 = share2_
  BY <1>61
<1>63. y.asks = asks_ /\ y.retry = retry_ /\ y.found = found_ /\ y.share = share_
       /\ y.accept = accept_ /\ y.skips = skips_ /\ y.ch1 = ch1_ /\ y.hash1 = hash1_
       /\ y.hrr = hrr_ /\ y.ch2 = ch2_ /\ y.sh = sh_ /\ y.psk1 = psk1_
  BY <1>61
<1>64. y.s1 = s1_ /\ y.s2 = s2_ /\ y.sr = sr_ /\ y.hs = hs_ /\ y.ee = ee_ /\ y.see = see_
       /\ y.scr = scr_ /\ y.scert = scert_ /\ y.scv = scv_ /\ y.sfin = sfin_
       /\ y.sccert = sccert_ /\ y.send = send_
  BY <1>61
<1>65. y.res = res_ /\ y.ke = ke_ /\ y.ksh = ksh_ /\ y.kch = kch_ /\ y.ksa = ksa_
       /\ y.kca = kca_ /\ y.ncr = ncr_ /\ y.nfin = nfin_ /\ y.nc = nc_ /\ y.rch1 = rch1_
       /\ y.rch2 = rch2_ /\ y.rhrr = rhrr_
  BY <1>61
<1>66. y.rsh = rsh_ /\ y.ree = ree_ /\ y.rcr = rcr_ /\ y.rcert = rcert_ /\ y.rcv = rcv_
       /\ y.rfin = rfin_ /\ y.rccert = rccert_ /\ y.rccv = rccv_ /\ y.rcfin = rcfin_
       /\ y.early = early_ /\ y.client = client_ /\ y.server = server_
  BY <1>61
<1>67. Flags(y)
  BY <1>1, <1>2, <1>3, <1>4, <1>5, <1>6, <1>7, <1>8, <1>10, <1>11, <1>12, <1>13, <1>14,
     <1>15, <1>16, <1>17, <1>18, <1>62, <1>63, <1>64, <1>65, <1>66 DEF Flags
<1>68. Hellos(y)
  BY <1>19, <1>20, <1>21, <1>22, <1>23, <1>24, <1>25, <1>26, <1>27, <1>28, <1>62, <1>63,
     <1>64, <1>65, <1>66 DEF Hellos
<1>69. Schedules(y)
  BY <1>29, <1>30, <1>31, <1>32, <1>33, <1>34, <1>35, <1>36, <1>37, <1>62, <1>63, <1>64,
     <1>65, <1>66 DEF Schedules
<1>70. Keys(y)
  BY <1>38, <1>39, <1>40, <1>41, <1>42, <1>43, <1>44, <1>45, <1>62, <1>63, <1>64, <1>65, <1>66 DEF Keys
<1>71. Records(y)
  BY <1>46, <1>47, <1>48, <1>49, <1>50, <1>51, <1>52, <1>53, <1>54, <1>55, <1>56, <1>57,
     <1>62, <1>63, <1>64, <1>65, <1>66 DEF Records
<1>72. Series(y)
  BY <1>58, <1>59, <1>60, <1>62, <1>63, <1>64, <1>65, <1>66 DEF Series
<1> QED BY <1>67, <1>68, <1>69, <1>70, <1>71, <1>72 DEF Story

-----------------------------------------------------------------------------
(* The invariant. *)

(* It holds at first. *)
LEMMA SyncInit == Init => SyncInv
<1> SUFFICES ASSUME Init PROVE SyncInv
  OBVIOUS
<1>1. PICK y : Story(y)
  BY StoryExists
<1>2. cfg \in Config /\ HandshakeInv
  BY HandshakeInit, HandshakeAssumption DEF Init
<1>3. /\ cl.state = "start" /\ cl.enc = NoProtection /\ cl.dec = NoProtection /\ cl.pending = NoKey
      /\ cl.sched = EmptySchedule /\ cl.usingEarly = FALSE /\ cl.offeredPsk = FALSE
      /\ cl.certReq = FALSE /\ cl.ccs = cfg.compat /\ cl.done = FALSE /\ cl.error = "none"
  BY DEF Init, NewClient
<1>4. /\ sv.state = "expect_ch" /\ sv.enc = NoProtection /\ sv.dec = NoProtection
      /\ sv.pending = NoKey /\ sv.sched = EmptySchedule /\ sv.skipped = -1 /\ sv.accepted = FALSE
      /\ sv.retries = 0 /\ sv.ccs = cfg.compat /\ sv.done = FALSE /\ sv.error = "none"
  BY DEF Init, NewServer
<1>5. /\ sent.early = 0 /\ sent.client = 0 /\ sent.server = 0
      /\ DOMAIN sent = {"early", "client", "server"}
      /\ got.client = <<>> /\ got.server = <<>> /\ DOMAIN got = {"client", "server"}
      /\ toServer = <<>> /\ toClient = <<>>
  BY DEF Init
<1>6. y.compat = cfg.compat
  BY <1>1 DEF Story, Flags
<1>7. sv.state \in Unanswered /\ sv.state \notin Flown /\ sv.state # "generating_cv" /\ ~Waits(y, sv)
  BY <1>4 DEF Unanswered, Flown, Waits
<1>8. /\ IsSeq(<<>>) /\ Numbered("server", 0) = <<>> /\ Numbered("early", 0) = <<>>
      /\ Numbered("client", 0) = <<>> /\ <<>> \o <<>> = <<>>
  <2>1. 0 \in Nat /\ IsSeq(<<>>)
    BY ShortSeq
  <2> QED BY <2>1, NumberedNext, CatNone
<1>9. Always(y, cl, sv, 0, 0)
  <2>1. cl.done = (cl.state = "post")
    BY <1>3
  <2>2. cl.state \in ClientStates /\ sv.state \in ServerStates /\ cl.state \notin ClientMiddle
    BY <1>3, <1>4 DEF ClientStates, ServerStates, ClientMiddle
  <2>3. sv.state \notin {"expect_cv", "post", "expect_fin"} /\ sv.retries = 0
    BY <1>4
  <2> QED BY <1>3, <1>4, <1>7, <2>1, <2>2, <2>3 DEF Always
<1>10. ClientSide(y, cl, sv, 0, 0, 0, <<>>, <<>>)
  <2>1. GotClient(<<>>, 0, 0)
    BY <1>8 DEF GotClient
  <2>2. ClientAt(y, cl, 0, 0, 0)
    BY <1>3, <1>6 DEF ClientAt, ClientMiddle
  <2>3. ServerAlert(sv, <<>>) /\ FromServer(y, cl, sv, 0, <<>>, <<>>)
    BY <1>3, <1>4 DEF ServerAlert, FromServer
  <2> QED BY <2>1, <2>2, <2>3 DEF ClientSide
<1>11. ServerSide(y, cl, sv, 0, 0, 0, <<>>, <<>>)
  <2>1. GotServer(y, cl, sv, <<>>, 0, 0, 0, 0)
    BY <1>8 DEF GotServer
  <2>2. ServerAt(y, sv, 0, 0, 0, 0)
    <3>1. sv.accepted = (sv.state \notin Unanswered /\ y.accept)
      BY <1>4, <1>7
    <3>2. sv.state \notin {"expect_ch2", "expect_eoed", "expect_cert", "expect_cv", "expect_fin", "post"}
      BY <1>4
    <3> QED BY <1>4, <1>6, <1>7, <3>1, <3>2 DEF ServerAt
  <2>3. ClientAlert(cl, <<>>) /\ FromClient(y, sv, cl.state, 0, 0, 0, 0, <<>>, <<>>)
    BY <1>3, <1>4, <1>7 DEF ClientAlert, FromClient
  <2> QED BY <2>1, <2>2, <2>3 DEF ServerSide
<1>12. SyncAt(y)
  BY <1>1, <1>5, <1>9, <1>10, <1>11 DEF SyncAt
<1> QED BY <1>2, <1>5, <1>12 DEF SyncInv, Counted

(* Every step keeps it. *)
LEMMA SyncStep == SyncInv /\ [Next]_vars => SyncInv'
<1> SUFFICES ASSUME SyncInv, [Next]_vars PROVE SyncInv'
  OBVIOUS
<1>1. HandshakeInv'
  BY HandshakeStep DEF SyncInv
<1>2. PICK y : SyncAt(y)
  BY DEF SyncInv
<1>3. SyncNext(y)
  <2>1. CASE ClientStart
    BY <1>2, <2>1, ClientStartSync
  <2>2. CASE ClientReceive
    BY <1>2, <2>2, ClientReceiveSync
  <2>3. CASE ServerReceive
    BY <1>2, <2>3, ServerReceiveSync
  <2>4. CASE ServerSignDone
    BY <1>2, <2>4, ServerSignDoneSync
  <2>5. CASE \E tag \in {"early", "client"} : ClientSend(tag)
    BY <1>2, <2>5, ClientSendSync
  <2>6. CASE ServerSend
    BY <1>2, <2>6, ServerSendSync
  <2>7. CASE UNCHANGED vars
    <3>1. /\ cfg' = cfg /\ cl' = cl /\ sv' = sv /\ toServer' = toServer /\ toClient' = toClient
          /\ sent' = sent /\ got' = got
      BY <2>7 DEF vars
    <3>2. Counted
      BY DEF SyncInv
    <3> QED BY <1>2, <3>1, <3>2 DEF Counted, SyncAt, SyncNext
  <2> QED BY <2>1, <2>2, <2>3, <2>4, <2>5, <2>6, <2>7 DEF Next
<1>4. Counted' /\ SyncAt(y)'
  BY <1>2, <1>3, SyncNextHolds
<1>5. \E z : SyncAt(z)'
  BY <1>4
<1> QED BY <1>1, <1>4, <1>5 DEF SyncInv

(* So it holds in every state of every handshake. *)
LEMMA SyncInvariant == Spec => []SyncInv
<1>1. Init => SyncInv
  BY SyncInit
<1>2. SyncInv /\ [Next]_vars => SyncInv'
  BY SyncStep
<1> QED BY <1>1, <1>2, PTL DEF Spec

-----------------------------------------------------------------------------
(* What an empty stream tells. *)

(* A record that is not there. *)
LEMMA OptMissing ==
  ASSUME NEW b, NEW r, NEW s, IsSeq(s), Opt(b, r) \o s = <<>>
  PROVE  ~b /\ s = <<>>
<1>1. IsSeq(Opt(b, r))
  BY OptSeq
<1>2. Opt(b, r) = <<>> /\ s = <<>>
  BY <1>1, CatEmpty
<1>3. <<r>> # <<>>
  OBVIOUS
<1> QED BY <1>2, <1>3 DEF Opt

(* A series of no records. *)
LEMMA RunMissing ==
  ASSUME NEW f, NEW a \in Nat, NEW b \in Nat, a <= b, Run(f, a, b) = <<>>
  PROVE  a = b
<1>1. Len(Run(f, a, b)) = b - a
  BY RunSeq, ZenonT(30)
<1>2. Len(<<>>) = 0
  OBVIOUS
<1>3. b - a = 0
  BY <1>1, <1>2
<1> QED BY <1>3

(* What the server has left to send when a part of its stream is empty. *)
LEMMA ServerStreamEnds ==
  ASSUME NEW y, y.tickets \in Nat, NEW st, NEW ret, NEW m \in Nat
  PROVE  /\ SFin(y, st, m) = <<>> => st \notin Flown
         /\ SVerify(y, st, m) = <<>> => st \notin Flown
         /\ SCert(y, st, m) = <<>> => y.found
         /\ SRequest(y, st, m) = <<>> => y.found
         /\ SExt(y, st, m) # <<>> /\ SCcs(y, st, m) # <<>>
         /\ SHello(y, st, m) = <<>> => st \in Unanswered
         /\ SRetryCcs(y, st, m) = <<>> => st \in Unanswered
         /\ SRetry(y, st, ret, m) = <<>> => ret # 1 /\ st \in Unanswered
<1>1. /\ IsSeq(SFin(y, st, m)) /\ IsSeq(SVerify(y, st, m)) /\ IsSeq(SCert(y, st, m))
      /\ IsSeq(SRequest(y, st, m)) /\ IsSeq(SExt(y, st, m)) /\ IsSeq(SCcs(y, st, m))
      /\ IsSeq(SHello(y, st, m)) /\ IsSeq(SRetryCcs(y, st, m))
  BY ServerStreams
<1>2. IsSeq(Run(y.server, 0, y.tickets + m))
  <2>1. 0 \in Nat /\ y.tickets + m \in Nat /\ 0 <= y.tickets + m
    OBVIOUS
  <2> QED BY <2>1, RunSeq, ZenonT(30)
<1>3. SFin(y, st, m) = <<>> => st \notin Flown
  BY <1>2, Peel DEF SFin
<1>4. SVerify(y, st, m) = <<>> => st \notin Flown
  BY <1>1, <1>3, OptMissing DEF SVerify
<1>5. SCert(y, st, m) = <<>> => y.found
  BY <1>1, OptMissing DEF SCert
<1>6. SRequest(y, st, m) = <<>> => y.found
  BY <1>1, <1>5, OptMissing DEF SRequest
<1>7. SExt(y, st, m) # <<>>
  BY <1>1, Peel DEF SExt
<1>8. SCcs(y, st, m) # <<>>
  BY <1>1, <1>7, OptMissing DEF SCcs
<1>9. SHello(y, st, m) = <<>> => st \in Unanswered
  BY <1>1, Peel DEF SHello
<1>10. SRetryCcs(y, st, m) = <<>> => st \in Unanswered
  BY <1>1, <1>9, OptMissing DEF SRetryCcs
<1>11. SRetry(y, st, ret, m) = <<>> => ret # 1 /\ st \in Unanswered
  BY <1>1, <1>9, Peel DEF SRetry
<1> QED BY <1>3, <1>4, <1>5, <1>6, <1>7, <1>8, <1>9, <1>10, <1>11

(* The same of the client. *)
LEMMA ClientStreamEnds ==
  ASSUME NEW y, NEW st, NEW n \in Nat, NEW m \in Nat
  PROVE  /\ CFin(y, m) # <<>> /\ CVerify(y, m) # <<>> /\ CCert(y, m) # <<>>
         /\ CEnd(y, st, n, m) = <<>> => st # "post"
         /\ CRetry(y, st, n, m) = <<>> => st # "post" /\ ~(y.retry /\ st # "expect_sh")
         /\ \A k \in 0 .. n : CEarly(y, k, st, n, m) = <<>> =>
               k = n /\ st # "post" /\ ~(y.retry /\ st # "expect_sh")
         /\ CCcs(y, st, n, m) = <<>> => n = 0 /\ st # "post" /\ ~(y.retry /\ st # "expect_sh")
         /\ CHello(y, st, n, m) # <<>>
<1>1. /\ IsSeq(CFin(y, m)) /\ IsSeq(CVerify(y, m)) /\ IsSeq(CCert(y, m)) /\ IsSeq(CFlight(y, m))
      /\ IsSeq(CEnd(y, st, n, m)) /\ IsSeq(CRetry(y, st, n, m))
      /\ \A k \in 0 .. n : IsSeq(CEarly(y, k, st, n, m))
      /\ IsSeq(CCcs(y, st, n, m)) /\ IsSeq(CHello(y, st, n, m))
  BY ClientStreams
<1>2. IsSeq(Run(y.client, 0, m))
  <2>1. 0 \in Nat /\ 0 <= m
    OBVIOUS
  <2> QED BY <2>1, RunSeq, ZenonT(30)
<1>3. CFin(y, m) # <<>>
  BY <1>2, Peel DEF CFin
<1>4. CVerify(y, m) # <<>>
  BY <1>1, <1>3, OptMissing DEF CVerify
<1>5. CCert(y, m) # <<>>
  BY <1>1, <1>4, OptMissing DEF CCert
<1>6. CFlight(y, m) # <<>>
  BY <1>1, <1>5, OptMissing DEF CFlight
<1>7. CEnd(y, st, n, m) = <<>> => st # "post"
  BY <1>1, <1>6, OptMissing DEF CEnd
<1>8. CRetry(y, st, n, m) = <<>> => st # "post" /\ ~(y.retry /\ st # "expect_sh")
  BY <1>1, <1>7, OptMissing DEF CRetry
<1>9. ASSUME NEW k \in 0 .. n, CEarly(y, k, st, n, m) = <<>>
      PROVE  k = n /\ CRetry(y, st, n, m) = <<>>
  <2>1. k \in Nat /\ k <= n
    OBVIOUS
  <2>2. IsSeq(Run(y.early, k, n))
    BY <2>1, RunSeq, ZenonT(30)
  <2>3. Run(y.early, k, n) = <<>> /\ CRetry(y, st, n, m) = <<>>
    BY <1>1, <1>9, <2>2, CatEmpty DEF CEarly
  <2> QED BY <2>1, <2>3, RunMissing
<1>10. CCcs(y, st, n, m) = <<>> => CEarly(y, 0, st, n, m) = <<>>
  <2>1. IsSeq(CEarly(y, 0, st, n, m))
    BY <1>1
  <2> QED BY <2>1, OptMissing DEF CCcs
<1>11. 0 \in 0 .. n
  OBVIOUS
<1>12. CHello(y, st, n, m) # <<>>
  BY <1>1, Peel DEF CHello
<1> QED BY <1>3, <1>4, <1>5, <1>7, <1>8, <1>9, <1>10, <1>11, <1>12

(* Nothing in flight to a client: no alert either. *)
LEMMA NoServerAlert ==
  ASSUME NEW y, y.tickets \in Nat, NEW c, c.state \in ClientStates, c.state # "start", NEW s,
         NEW m \in Nat, NEW al, IsSeq(al), FromServer(y, c, s, m, al, <<>>),
         c.state = "post" => c.dec.seq \in Nat
  PROVE  al = <<>>
<1>1. /\ IsSeq(SFin(y, s.state, m)) /\ IsSeq(SVerify(y, s.state, m)) /\ IsSeq(SCert(y, s.state, m))
      /\ IsSeq(SRequest(y, s.state, m)) /\ IsSeq(SExt(y, s.state, m)) /\ IsSeq(SCcs(y, s.state, m))
      /\ IsSeq(SHello(y, s.state, m)) /\ IsSeq(SRetryCcs(y, s.state, m))
      /\ IsSeq(SRetry(y, s.state, s.retries, m))
  BY ServerStreams
<1>2. CASE c.state = "post"
  <2>1. PICK q, e : q = c.dec.seq /\ e = y.tickets + m
    OBVIOUS
  <2>2. q \in Nat /\ e \in Nat /\ q <= e /\ Run(y.server, q, e) \o al = <<>>
    <3>1. c.dec.seq <= y.tickets + m /\ <<>> = Run(y.server, c.dec.seq, y.tickets + m) \o al
      BY <1>2 DEF FromServer
    <3>2. e \in Nat /\ q \in Nat
      BY <1>2, <2>1
    <3> QED BY <2>1, <3>1, <3>2
  <2>3. IsSeq(Run(y.server, q, e))
    BY <2>2, RunSeq, ZenonT(30)
  <2> QED BY <2>2, <2>3, CatEmpty
<1>3. CASE c.state # "post"
  <2>1. \E s1 : IsSeq(s1) /\ s1 \o al = <<>>
    BY <1>1, <1>3 DEF FromServer, ClientStates
  <2> QED BY <2>1, CatEmpty
<1> QED BY <1>2, <1>3

(* Nothing in flight to a server: no alert either, unless the client has not begun. *)
LEMMA NoClientAlert ==
  ASSUME NEW y, NEW s, s.state \in ServerStates, s.retries \in {0, 1}, NEW st, st # "start",
         NEW n \in Nat, NEW m \in Nat, NEW a, NEW b, NEW al, IsSeq(al),
         FromClient(y, s, st, n, m, a, b, al, <<>>),
         s.state = "expect_eoed" => a \in 0 .. n, s.state = "post" => b \in 0 .. m
  PROVE  al = <<>>
<1>1. /\ IsSeq(CFin(y, m)) /\ IsSeq(CVerify(y, m)) /\ IsSeq(CCert(y, m))
      /\ IsSeq(CEnd(y, st, n, m)) /\ IsSeq(CCcs(y, st, n, m)) /\ IsSeq(CHello(y, st, n, m))
      /\ \A k \in 0 .. n : IsSeq(CEarly(y, k, st, n, m))
  BY ClientStreams
<1>2. RetryForm(y, st, n, m, al, <<>>) => al = <<>>
  BY <1>1, CatEmpty DEF RetryForm
<1>3. WaitForm(y, st, n, m, al, <<>>) => al = <<>>
  BY <1>1, <1>2, CatEmpty DEF WaitForm
<1>4. CASE s.state \in Unanswered
  <2>1. IF s.retries = 0 THEN CHello(y, st, n, m) \o al = <<>> ELSE RetryForm(y, st, n, m, al, <<>>)
    BY <1>4 DEF FromClient
  <2> QED BY <1>1, <1>2, <2>1, CatEmpty
<1>5. CASE s.state = "expect_eoed"
  <2>1. EarlyForm(y, st, n, m, a, al, <<>>) /\ IsSeq(CEarly(y, a, st, n, m))
    BY <1>1, <1>5 DEF FromClient
  <2> QED BY <1>1, <2>1, CatEmpty DEF EarlyForm
<1>6. CASE Waits(y, s)
  BY <1>3, <1>6 DEF FromClient
<1>7. CASE s.state = "expect_cv"
  <2>1. CVerify(y, m) \o al = <<>>
    BY <1>7 DEF FromClient
  <2> QED BY <1>1, <2>1, CatEmpty
<1>8. CASE s.state = "expect_fin" /\ ~Waits(y, s)
  <2>1. CFin(y, m) \o al = <<>>
    BY <1>8 DEF FromClient
  <2> QED BY <1>1, <2>1, CatEmpty
<1>9. CASE s.state = "post"
  <2>1. b \in Nat /\ b <= m /\ Run(y.client, b, m) \o al = <<>>
    <3>1. b <= m /\ <<>> = Run(y.client, b, m) \o al
      BY <1>9 DEF FromClient
    <3>2. b \in Nat
      BY <1>9
    <3> QED BY <3>1, <3>2
  <2>2. IsSeq(Run(y.client, b, m))
    BY <2>1, RunSeq, ZenonT(30)
  <2> QED BY <2>1, <2>2, CatEmpty
<1>10. s.state \in Unanswered \cup {"generating_cv", "expect_cert", "expect_cv", "expect_eoed", "expect_fin", "post"}
  BY DEF ServerStates, Unanswered
<1>11. s.state \in {"generating_cv", "expect_cert"} => Waits(y, s)
  BY DEF Waits
<1> QED BY <1>4, <1>5, <1>6, <1>7, <1>8, <1>9, <1>10, <1>11

(* Where the two ends are when a client that has not failed has read everything. *)
ClientDrained(y, c, s, m) ==
    \/ /\ c.state \in {"start", "expect_sh", "expect_sh2"} /\ s.state \in Unanswered
       /\ c.state = "expect_sh" => s.retries # 1
    \/ c.state = "expect_cv" /\ s.state = "generating_cv"
    \/ c.state = "post" /\ s.state \in Flown /\ c.dec = Ctx(y.ksa, y.tickets + m)

(* It is in one of these places, its key is the server's and all data is delivered. *)
LEMMA ClientDrains ==
  ASSUME NEW y, Flags(y), Keys(y), cfg \in Config, NEW c, c.error = "none", NEW s, s.error = "none",
         NEW n, NEW m, NEW ms \in Nat, NEW g, Always(y, c, s, n, m), NEW a, NEW b, ServerAt(y, s, n, ms, a, b),
         ClientSide(y, c, s, n, m, ms, g, <<>>)
  PROVE  /\ ClientDrained(y, c, s, ms) /\ c.dec = s.enc /\ g = Numbered("server", ms)
         /\ \E w : ClientAt(y, c, n, m, w)
<1>1. PICK w : /\ GotClient(g, ms, w) /\ ClientAt(y, c, n, m, w)
               /\ \E al : ServerAlert(s, al) /\ FromServer(y, c, s, ms, al, <<>>)
  BY DEF ClientSide
<1>2. ServerAt(y, s, n, ms, a, b)
  OBVIOUS
<1>3. y.tickets \in Nat
  BY FlagTypes
<1>4. FromServer(y, c, s, ms, <<>>, <<>>)
  BY <1>1 DEF ServerAlert
<1>5. /\ c.state \in ClientStates /\ s.state \in ServerStates
      /\ s.state \notin Unanswered => c.state # "start"
      /\ c.state \in ClientMiddle \cup {"post"} => s.state \notin Unanswered
      /\ c.state \in {"expect_fin", "post"} => s.state \in Flown
  BY DEF Always
<1>6. /\ IsSeq(SFin(y, s.state, ms)) /\ IsSeq(SVerify(y, s.state, ms)) /\ IsSeq(SCert(y, s.state, ms))
      /\ IsSeq(SRequest(y, s.state, ms)) /\ IsSeq(SExt(y, s.state, ms)) /\ IsSeq(SCcs(y, s.state, ms))
      /\ IsSeq(SHello(y, s.state, ms)) /\ IsSeq(SRetryCcs(y, s.state, ms))
      /\ IsSeq(SRetry(y, s.state, s.retries, ms))
  BY <1>3, ServerStreams
<1>7. /\ SFin(y, s.state, ms) = <<>> => s.state \notin Flown
      /\ SVerify(y, s.state, ms) = <<>> => s.state \notin Flown
      /\ SCert(y, s.state, ms) = <<>> => y.found
      /\ SRequest(y, s.state, ms) = <<>> => y.found
      /\ SExt(y, s.state, ms) # <<>> /\ SCcs(y, s.state, ms) # <<>>
      /\ SHello(y, s.state, ms) = <<>> => s.state \in Unanswered
      /\ SRetryCcs(y, s.state, ms) = <<>> => s.state \in Unanswered
      /\ SRetry(y, s.state, s.retries, ms) = <<>> => s.retries # 1 /\ s.state \in Unanswered
  BY <1>3, ServerStreamEnds
<1>8. w \in 0 .. ms /\ g = Numbered("server", w)
  BY <1>1 DEF GotClient
<1>9. s.state \notin Flown => ms = 0
  BY <1>2 DEF ServerAt
<1>10. ASSUME s.state \in Unanswered, c.state \in {"start", "expect_sh", "expect_sh2"}
       PROVE  c.dec = s.enc /\ w = ms
  <2>1. c.dec = NoProtection
    BY <1>1, <1>10 DEF ClientAt
  <2>2. s.enc = NoProtection
    BY <1>2, <1>10 DEF ServerAt
  <2>3. s.state \notin Flown
    BY <1>10 DEF Unanswered, Flown
  <2> QED BY <1>8, <1>9, <2>1, <2>2, <2>3
<1>11. CASE c.state = "start"
  <2>1. s.state \in Unanswered
    BY <1>5, <1>11
  <2> QED BY <1>1, <1>8, <1>10, <1>11, <2>1 DEF ClientDrained
<1>12. CASE c.state = "expect_sh"
  <2>1. SRetry(y, s.state, s.retries, ms) \o <<>> = <<>>
    BY <1>4, <1>12 DEF FromServer
  <2>2. s.retries # 1 /\ s.state \in Unanswered
    BY <1>6, <1>7, <2>1, CatNone
  <2> QED BY <1>1, <1>8, <1>10, <1>12, <2>2 DEF ClientDrained
<1>13. CASE c.state = "expect_sh2"
  <2>1. SRetryCcs(y, s.state, ms) \o <<>> = <<>> \/ SHello(y, s.state, ms) \o <<>> = <<>>
    BY <1>4, <1>13 DEF FromServer
  <2>2. s.state \in Unanswered
    BY <1>6, <1>7, <2>1, CatNone
  <2> QED BY <1>1, <1>8, <1>10, <1>13, <2>2 DEF ClientDrained
<1>14. CASE c.state = "expect_ee"
  <2>1. SCcs(y, s.state, ms) \o <<>> = <<>> \/ SExt(y, s.state, ms) \o <<>> = <<>>
    BY <1>4, <1>14 DEF FromServer
  <2> QED BY <1>6, <1>7, <2>1, CatNone
<1>15. CASE c.state \in {"expect_cr_or_cert", "expect_cert"}
  <2>1. SRequest(y, s.state, ms) \o <<>> = <<>> \/ SCert(y, s.state, ms) \o <<>> = <<>>
    BY <1>4, <1>15 DEF FromServer
  <2>2. ~y.found
    BY <1>1, <1>15 DEF ClientAt
  <2> QED BY <1>6, <1>7, <2>1, <2>2, CatNone
<1>16. CASE c.state = "expect_cv"
  <2>1. SVerify(y, s.state, ms) \o <<>> = <<>>
    BY <1>4, <1>16 DEF FromServer
  <2>2. s.state \notin Flown
    BY <1>6, <1>7, <2>1, CatNone
  <2>3. s.state \notin Unanswered
    BY <1>5, <1>16 DEF ClientMiddle
  <2>4. s.state = "generating_cv"
    BY <1>5, <2>2, <2>3 DEF ServerStates, Flown, Unanswered
  <2>5. c.dec = Ctx(y.ksh, y.ncr + 1) /\ s.enc = Ctx(y.ksh, y.ncr + 1)
    BY <1>1, <1>2, <1>16, <2>4 DEF ClientAt, ServerAt
  <2>6. w = ms
    BY <1>8, <1>9, <2>2
  <2> QED BY <1>1, <1>8, <1>16, <2>4, <2>5, <2>6 DEF ClientDrained
<1>17. CASE c.state = "expect_fin"
  <2>1. SFin(y, s.state, ms) \o <<>> = <<>>
    BY <1>4, <1>17 DEF FromServer
  <2> QED BY <1>5, <1>6, <1>7, <1>17, <2>1, CatNone
<1>18. CASE c.state = "post"
  <2>1. PICK q \in Nat : c.dec = Ctx(y.ksa, q) /\ w = IF q <= y.tickets THEN 0 ELSE q - y.tickets
    BY <1>1, <1>18 DEF ClientAt
  <2>2. PICK e : e = y.tickets + ms
    OBVIOUS
  <2>3. c.dec.seq = q
    BY <2>1, CtxFields
  <2>4. q <= e /\ Run(y.server, q, e) \o <<>> = <<>> /\ e \in Nat
    BY <1>3, <1>4, <1>18, <2>2, <2>3 DEF FromServer
  <2>5. IsSeq(Run(y.server, q, e)) /\ IsSeq(<<>>)
    BY <2>4, RunSeq, ShortSeq, ZenonT(30)
  <2>6. Run(y.server, q, e) = <<>>
    BY <2>4, <2>5, CatEmpty
  <2>7. q = e
    BY <2>4, <2>6, RunMissing
  <2>8. w = ms
    BY <1>3, <2>1, <2>2, <2>7
  <2>9. s.state \in Flown
    BY <1>5, <1>18
  <2>10. s.enc = Ctx(y.ksa, e)
    BY <1>2, <2>2, <2>9 DEF ServerAt
  <2> QED BY <1>1, <1>8, <1>18, <2>1, <2>2, <2>7, <2>8, <2>9, <2>10 DEF ClientDrained
<1> QED BY <1>5, <1>11, <1>12, <1>13, <1>14, <1>15, <1>16, <1>17, <1>18 DEF ClientStates

(* Where the two ends are when a server that has not failed has read everything. *)
ServerDrained(y, c, s, n, m, a, b) ==
    \/ /\ s.state \in Unanswered
       /\ c.state = "start" \/ (c.state = "expect_sh" /\ s.retries = 1)
    \/ s.state = "expect_eoed" /\ a = n /\ c.state # "post"
    \/ Waits(y, s) /\ c.state # "post"
    \/ s.state = "post" /\ b = m

(* It is in one of these places and all data is delivered. *)
LEMMA ServerDrains ==
  ASSUME NEW y, Flags(y), cfg \in Config, NEW c, NEW s, NEW n \in Nat, NEW m \in Nat, NEW ms, NEW a,
         NEW b, NEW g, Always(y, c, s, n, m), ServerAt(y, s, n, ms, a, b),
         GotServer(y, c, s, g, n, m, a, b), FromClient(y, s, c.state, n, m, a, b, <<>>, <<>>)
  PROVE  /\ ServerDrained(y, c, s, n, m, a, b) /\ b = m /\ (s.accepted => a = n)
<1>1. /\ y.accept \in BOOLEAN /\ y.retry \in BOOLEAN /\ y.found \in BOOLEAN /\ y.auth \in BOOLEAN
      /\ (y.accept => y.found /\ ~y.retry) /\ (y.found => ~y.auth)
  BY FlagTypes
<1>2. PICK st : st = c.state
  OBVIOUS
<1>3. /\ IsSeq(CFin(y, m)) /\ IsSeq(CVerify(y, m)) /\ IsSeq(CCert(y, m))
      /\ IsSeq(CEnd(y, st, n, m)) /\ IsSeq(CCcs(y, st, n, m)) /\ IsSeq(CHello(y, st, n, m))
      /\ \A k \in 0 .. n : IsSeq(CEarly(y, k, st, n, m))
  BY ClientStreams
<1>4. /\ CFin(y, m) # <<>> /\ CVerify(y, m) # <<>> /\ CCert(y, m) # <<>>
      /\ CEnd(y, st, n, m) = <<>> => st # "post"
      /\ \A k \in 0 .. n : CEarly(y, k, st, n, m) = <<>> =>
            k = n /\ st # "post" /\ ~(y.retry /\ st # "expect_sh")
      /\ CCcs(y, st, n, m) = <<>> => n = 0 /\ st # "post" /\ ~(y.retry /\ st # "expect_sh")
      /\ CHello(y, st, n, m) # <<>>
  BY ClientStreamEnds
<1>5. /\ st # "post" => m = 0
      /\ s.retries \in {0, 1} /\ (s.retries = 1 => y.retry) /\ s.state \in ServerStates
  BY <1>2 DEF Always
<1>6. a \in 0 .. n /\ b \in 0 .. m /\ (st # "post" => b = m)
  BY <1>5 DEF GotServer
<1>7. s.accepted = (s.state \notin Unanswered /\ y.accept)
  BY DEF ServerAt
<1>8. RetryForm(y, st, n, m, <<>>, <<>>) => st # "post" /\ ~(y.retry /\ st # "expect_sh")
  <2> HAVE RetryForm(y, st, n, m, <<>>, <<>>)
  <2>1. CASE CCcs(y, st, n, m) \o <<>> = <<>>
    BY <1>3, <1>4, <2>1, CatNone
  <2>2. CASE \E k \in 0 .. n : CEarly(y, k, st, n, m) \o <<>> = <<>>
    <3>1. PICK k \in 0 .. n : CEarly(y, k, st, n, m) \o <<>> = <<>>
      BY <2>2
    <3>2. CEarly(y, k, st, n, m) = <<>>
      BY <1>3, <3>1, CatNone
    <3> QED BY <1>4, <3>2
  <2> QED BY <2>1, <2>2 DEF RetryForm
<1>9. WaitForm(y, st, n, m, <<>>, <<>>) => st # "post"
  <2>1. CEnd(y, st, n, m) \o <<>> = <<>> => st # "post"
    BY <1>3, <1>4, CatNone
  <2>2. CCert(y, m) \o <<>> # <<>>
    BY <1>3, <1>4, CatNone
  <2> QED BY <1>8, <2>1, <2>2 DEF WaitForm
<1>10. CASE s.state \in Unanswered
  <2>1. ~s.accepted
    BY <1>7, <1>10
  <2>2. CASE s.retries = 0
    <3>1. st = "start"
      <4>1. st # "start" => CHello(y, st, n, m) \o <<>> = <<>>
        BY <1>2, <1>10, <2>2 DEF FromClient
      <4> QED BY <1>3, <1>4, <4>1, CatNone
    <3> QED BY <1>2, <1>6, <1>10, <2>1, <3>1 DEF ServerDrained
  <2>3. CASE s.retries = 1
    <3>1. RetryForm(y, st, n, m, <<>>, <<>>)
      BY <1>2, <1>10, <2>3 DEF FromClient
    <3>2. st = "expect_sh" /\ st # "post"
      BY <1>5, <1>8, <2>3, <3>1
    <3> QED BY <1>2, <1>6, <1>10, <2>1, <2>3, <3>2 DEF ServerDrained
  <2> QED BY <1>5, <2>2, <2>3
<1>11. CASE s.state = "expect_eoed"
  <2>1. EarlyForm(y, st, n, m, a, <<>>, <<>>)
    BY <1>2, <1>11 DEF FromClient
  <2>2. a = n /\ st # "post"
    <3>1. CASE a = 0 /\ CCcs(y, st, n, m) \o <<>> = <<>>
      BY <1>3, <1>4, <3>1, CatNone
    <3>2. CASE CEarly(y, a, st, n, m) \o <<>> = <<>>
      BY <1>3, <1>4, <1>6, <3>2, CatNone
    <3> QED BY <2>1, <3>1, <3>2 DEF EarlyForm
  <2> QED BY <1>2, <1>6, <1>11, <2>2 DEF ServerDrained
<1>12. CASE Waits(y, s)
  <2>1. st # "post"
    BY <1>2, <1>9, <1>12 DEF FromClient
  <2>2. ~y.accept
    <3>1. s.state = "generating_cv" => ~y.found
      BY DEF ServerAt
    <3>2. s.state = "expect_cert" => y.auth
      BY DEF ServerAt
    <3> QED BY <1>1, <1>12, <3>1, <3>2 DEF Waits
  <2> QED BY <1>2, <1>6, <1>7, <1>12, <2>1, <2>2 DEF ServerDrained
<1>13. CASE s.state = "expect_cv"
  <2>1. CVerify(y, m) \o <<>> = <<>>
    BY <1>13 DEF FromClient
  <2> QED BY <1>3, <1>4, <2>1, CatNone
<1>14. CASE s.state = "expect_fin" /\ ~Waits(y, s)
  <2>1. CFin(y, m) \o <<>> = <<>>
    BY <1>14 DEF FromClient
  <2> QED BY <1>3, <1>4, <2>1, CatNone
<1>15. CASE s.state = "post"
  <2>1. b \in Nat /\ b <= m /\ Run(y.client, b, m) \o <<>> = <<>>
    BY <1>6, <1>15 DEF FromClient
  <2>2. IsSeq(Run(y.client, b, m)) /\ IsSeq(<<>>)
    BY <2>1, RunSeq, ShortSeq, ZenonT(30)
  <2>3. Run(y.client, b, m) = <<>>
    BY <2>1, <2>2, CatEmpty
  <2>4. b = m
    BY <2>1, <2>3, RunMissing
  <2>5. y.accept => a = n
    BY <1>15 DEF ServerAt
  <2> QED BY <1>7, <1>15, <2>4, <2>5 DEF ServerDrained
<1>16. s.state \in {"generating_cv", "expect_cert"} => Waits(y, s)
  BY DEF Waits
<1> QED BY <1>5, <1>10, <1>11, <1>12, <1>13, <1>14, <1>15, <1>16 DEF ServerStates, Unanswered

-----------------------------------------------------------------------------
(* The theorems. *)

(* What the invariant says of the server of a handshake that has not failed. *)
ServerFacts(y, a, b) ==
    /\ GotServer(y, cl, sv, got.server, sent.early, sent.client, a, b)
    /\ sv.error = "none" =>
         /\ ServerAt(y, sv, sent.early, sent.server, a, b)
         /\ \E al : /\ ClientAlert(cl, al)
                    /\ FromClient(y, sv, cl.state, sent.early, sent.client, a, b, al, toServer)

(* The constant parts of it, and what has been counted. *)
LEMMA SyncFacts ==
  ASSUME SyncInv, NEW y, SyncAt(y)
  PROVE  /\ Flags(y) /\ Keys(y) /\ cfg \in Config
         /\ sent.early \in Nat /\ sent.client \in Nat /\ sent.server \in Nat
         /\ Always(y, cl, sv, sent.early, sent.client)
         /\ ClientSide(y, cl, sv, sent.early, sent.client, sent.server, got.client, toClient)
         /\ \E a, b : ServerFacts(y, a, b)
BY HandshakeAssumption DEF SyncInv, HandshakeInv, SyncAt, Story, Counted, ServerSide, ServerFacts

(* A client that has read everything. *)
LEMMA ClientRests ==
  ASSUME SyncInv, NEW y, SyncAt(y), Healthy, toClient = <<>>
  PROVE  /\ ClientDrained(y, cl, sv, sent.server) /\ cl.dec = sv.enc
         /\ got.client = Numbered("server", sent.server)
         /\ \E w : ClientAt(y, cl, sent.early, sent.client, w)
<1>1. /\ Flags(y) /\ Keys(y) /\ cfg \in Config /\ sent.server \in Nat
      /\ Always(y, cl, sv, sent.early, sent.client)
      /\ ClientSide(y, cl, sv, sent.early, sent.client, sent.server, got.client, <<>>)
  BY SyncFacts
<1>2. PICK a, b : ServerFacts(y, a, b)
  BY SyncFacts
<1>3. cl.error = "none" /\ sv.error = "none"
  BY DEF Healthy
<1>4. ServerAt(y, sv, sent.early, sent.server, a, b)
  BY <1>2, <1>3 DEF ServerFacts
<1> QED BY <1>1, <1>3, <1>4, ClientDrains

(* A server that has read everything. *)
LEMMA ServerRests ==
  ASSUME SyncInv, NEW y, SyncAt(y), NEW a, NEW b, ServerFacts(y, a, b), Healthy, toServer = <<>>
  PROVE  /\ ServerDrained(y, cl, sv, sent.early, sent.client, a, b) /\ b = sent.client
         /\ sv.accepted => a = sent.early
         /\ ServerAt(y, sv, sent.early, sent.server, a, b)
<1>1. /\ Flags(y) /\ cfg \in Config /\ sent.early \in Nat /\ sent.client \in Nat
      /\ Always(y, cl, sv, sent.early, sent.client)
  BY SyncFacts
<1>2. cl.error = "none" /\ sv.error = "none"
  BY DEF Healthy
<1>3. /\ GotServer(y, cl, sv, got.server, sent.early, sent.client, a, b)
      /\ ServerAt(y, sv, sent.early, sent.server, a, b)
  BY <1>2 DEF ServerFacts
<1>4. PICK al : /\ ClientAlert(cl, al)
                /\ FromClient(y, sv, cl.state, sent.early, sent.client, a, b, al, <<>>)
  BY <1>2 DEF ServerFacts
<1>5. al = <<>>
  BY <1>2, <1>4 DEF ClientAlert
<1>6. FromClient(y, sv, cl.state, sent.early, sent.client, a, b, <<>>, <<>>)
  BY <1>4, <1>5
<1>7. PICK n, m, ms, g : n = sent.early /\ m = sent.client /\ ms = sent.server /\ g = got.server
  OBVIOUS
<1>8. PICK c, s : c = cl /\ s = sv
  OBVIOUS
<1>9. /\ n \in Nat /\ m \in Nat /\ Always(y, c, s, n, m) /\ ServerAt(y, s, n, ms, a, b)
      /\ GotServer(y, c, s, g, n, m, a, b) /\ FromClient(y, s, c.state, n, m, a, b, <<>>, <<>>)
  BY <1>1, <1>3, <1>6, <1>7, <1>8
<1>10. /\ ServerDrained(y, c, s, n, m, a, b) /\ b = m /\ (s.accepted => a = n)
  BY <1>1, <1>9, ServerDrains
<1> QED BY <1>3, <1>7, <1>8, <1>10

(* With nothing in flight the client has not begun, or both ends wait for the *)
(* signature, or both have completed.                                         *)
LEMMA QuietStates ==
  ASSUME SyncInv, NEW y, SyncAt(y), Healthy, Quiet
  PROVE  \/ cl.state = "start" /\ sv.state \in Unanswered
         \/ cl.state = "expect_cv" /\ sv.state = "generating_cv"
         \/ cl.state = "post" /\ sv.state = "post"
<1>1. toClient = <<>> /\ toServer = <<>>
  BY DEF Quiet
<1>2. PICK a, b : ServerFacts(y, a, b)
  BY SyncFacts
<1>3. ClientDrained(y, cl, sv, sent.server)
  BY <1>1, ClientRests
<1>4. ServerDrained(y, cl, sv, sent.early, sent.client, a, b)
  BY <1>1, <1>2, ServerRests
<1>5. CASE sv.state \in Unanswered
  <2>1. sv.state \notin Flown /\ sv.state \notin {"generating_cv", "expect_eoed", "post"} /\ ~Waits(y, sv)
    BY <1>5 DEF Unanswered, Flown, Waits
  <2> QED BY <1>3, <1>4, <1>5, <2>1 DEF ClientDrained, ServerDrained
<1>6. CASE sv.state \notin Unanswered
  BY <1>3, <1>4, <1>6 DEF ClientDrained, ServerDrained
<1> QED BY <1>5, <1>6

(* Whenever nothing is in flight each end reads with exactly the key and the     *)
(* sequence number the other writes with: client_handle_hello,                   *)
(* client_handle_finished, server_handle_hello, server_finish_handshake and      *)
(* server_handle_finished switch keys at the same place of the stream, for every *)
(* configuration, every number of tickets and of records of 0-RTT and            *)
(* application data, and every interleaving of the two ends.                     *)
THEOREM KeysInStep == Spec => []InStep
<1>1. SyncInv => InStep
  <2> SUFFICES ASSUME SyncInv, Healthy PROVE
           /\ toClient = <<>> => cl.dec = sv.enc
           /\ Quiet /\ (cl.enc.key.label = "c e" => sv.accepted) => cl.enc = sv.dec
    BY DEF InStep
  <2>1. PICK y : SyncAt(y)
    BY DEF SyncInv
  <2>2. toClient = <<>> => cl.dec = sv.enc
    BY <2>1, ClientRests
  <2>3. ASSUME Quiet, cl.enc.key.label = "c e" => sv.accepted
        PROVE  cl.enc = sv.dec
    <3>1. toClient = <<>> /\ toServer = <<>>
      BY <2>3 DEF Quiet
    <3>2. PICK a, b : ServerFacts(y, a, b)
      BY <2>1, SyncFacts
    <3>3. PICK w : ClientAt(y, cl, sent.early, sent.client, w)
      BY <2>1, <3>1, ClientRests
    <3>4. /\ b = sent.client /\ ServerAt(y, sv, sent.early, sent.server, a, b)
      BY <2>1, <3>1, <3>2, ServerRests
    <3>5. CASE cl.state = "start" /\ sv.state \in Unanswered
      <4>1. cl.enc = NoProtection
        BY <3>3, <3>5 DEF ClientAt
      <4>2. sv.dec = NoProtection
        BY <3>4, <3>5 DEF ServerAt
      <4> QED BY <4>1, <4>2
    <3>6. CASE cl.state = "expect_cv" /\ sv.state = "generating_cv"
      <4>1. ~y.found /\ sv.dec = Ctx(y.kch, 0)
        BY <3>4, <3>6 DEF ServerAt
      <4>2. ~y.accept
        BY <2>1, <4>1, SyncFacts, FlagTypes
      <4>3. cl.enc = (IF Pends(y) THEN Ctx(y.ke, sent.early) ELSE Ctx(y.kch, 0))
        BY <3>3, <3>6 DEF ClientAt, ClientMiddle
      <4>4. ~sv.accepted
        BY <3>4, <4>2 DEF ServerAt
      <4>5. y.ke.label = "c e" /\ Ctx(y.ke, sent.early).key = y.ke
        BY <2>1, SyncFacts, KeyLabels, CtxFields
      <4>6. ~Pends(y)
        BY <2>3, <4>3, <4>4, <4>5
      <4> QED BY <4>1, <4>3, <4>6
    <3>7. CASE cl.state = "post" /\ sv.state = "post"
      <4>1. cl.enc = Ctx(y.kca, sent.client)
        BY <3>3, <3>7 DEF ClientAt
      <4>2. sv.dec = Ctx(y.kca, b)
        BY <3>4, <3>7 DEF ServerAt
      <4> QED BY <3>4, <4>1, <4>2
    <3> QED BY <2>1, <2>3, <3>5, <3>6, <3>7, QuietStates
  <2> QED BY <2>2, <2>3
<1> QED BY <1>1, SyncInvariant, PTL

(* The handshake never stops half way: with nothing in flight and no failure the *)
(* client has not begun, the signer is at work, or both ends have completed.     *)
THEOREM NoEndWaits == Spec => []NobodyWaits
<1>1. SyncInv => NobodyWaits
  <2> SUFFICES ASSUME SyncInv, Healthy, Quiet
               PROVE  \/ cl.state = "start"
                      \/ sv.state = "generating_cv"
                      \/ cl.state = "post" /\ sv.state = "post"
    BY DEF NobodyWaits
  <2>1. PICK y : SyncAt(y)
    BY DEF SyncInv
  <2> QED BY <2>1, QuietStates
<1> QED BY <1>1, SyncInvariant, PTL

(* The applications receive exactly what was sent, in order: 0-RTT data only if   *)
(* the server accepted it, and then all of it before the rest; a server that      *)
(* skips rejected 0-RTT data (handle_input) swallows none of the application data. *)
THEOREM DataDelivered == Spec => []DeliveredIsSent
<1>1. SyncInv => DeliveredIsSent
  <2> SUFFICES ASSUME SyncInv PROVE DeliveredIsSent
    OBVIOUS
  <2>1. PICK y : SyncAt(y)
    BY DEF SyncInv
  <2>2. PICK a, b : ServerFacts(y, a, b)
    BY <2>1, SyncFacts
  <2>3. /\ got.server = Numbered("early", a) \o Numbered("client", b)
        /\ a \in 0 .. sent.early /\ b \in 0 .. sent.client /\ (~sv.accepted => a = 0)
    BY <2>2 DEF ServerFacts, GotServer
  <2>4. b > 0 /\ sv.accepted => a = sent.early
    BY <2>2 DEF ServerFacts, GotServer
  <2>5. Healthy /\ toServer = <<>> => b = sent.client /\ (sv.accepted => a = sent.early)
    BY <2>1, <2>2, ServerRests
  <2>6. \E v \in 0 .. sent.early, u \in 0 .. sent.client :
          /\ got.server = Numbered("early", v) \o Numbered("client", u)
          /\ ~sv.accepted => v = 0
          /\ u > 0 /\ sv.accepted => v = sent.early
          /\ Healthy /\ toServer = <<>> => u = sent.client /\ (sv.accepted => v = sent.early)
    BY <2>3, <2>4, <2>5
  <2>7. PICK w : GotClient(got.client, sent.server, w)
    BY <2>1, SyncFacts DEF ClientSide
  <2>8. w \in 0 .. sent.server /\ got.client = Numbered("server", w) /\ sent.server \in Nat
    BY <2>1, <2>7, SyncFacts DEF GotClient
  <2>9. \E u \in 0 .. sent.server :
          /\ got.client = Numbered("server", u)
          /\ Healthy /\ toClient = <<>> => u = sent.server
    <3>1. CASE Healthy /\ toClient = <<>>
      <4>1. got.client = Numbered("server", sent.server) /\ sent.server \in 0 .. sent.server
        BY <2>1, <2>8, <3>1, ClientRests
      <4> QED BY <4>1
    <3>2. CASE ~(Healthy /\ toClient = <<>>)
      BY <2>8, <3>2
    <3> QED BY <3>1, <3>2
  <2> QED BY <2>6, <2>9 DEF DeliveredIsSent
<1> QED BY <1>1, SyncInvariant, PTL

(* A failed handshake is noticed at the other end once everything in flight has *)
(* been read, although ptls_handshake drops the flight, a server seals the      *)
(* alert with the keys of the abandoned handler, and one that skips rejected    *)
(* 0-RTT data drops what it cannot open; the exceptions are the ones            *)
(* FailureReaches names.                                                        *)
THEOREM FailureIsNoticed == Spec => []FailureReaches
<1>1. SyncInv => FailureReaches
  <2> SUFFICES ASSUME SyncInv PROVE FailureReaches
    OBVIOUS
  <2>1. PICK y : SyncAt(y)
    BY DEF SyncInv
  <2>2. /\ Flags(y) /\ Keys(y) /\ cfg \in Config
        /\ sent.early \in Nat /\ sent.client \in Nat /\ sent.server \in Nat
        /\ Always(y, cl, sv, sent.early, sent.client)
        /\ ClientSide(y, cl, sv, sent.early, sent.client, sent.server, got.client, toClient)
    BY <2>1, SyncFacts
  <2>3. /\ cl.state \in ClientStates /\ sv.state \in ServerStates /\ sv.retries \in {0, 1}
        /\ cl.state = "start" => cl.error = "none" /\ sv.error = "none"
    BY <2>2 DEF Always
  <2>4. ASSUME cl.error # "none", toServer = <<>>, sv.error = "none", ~cl.done
        PROVE  FALSE
    <3>1. PICK a, b : ServerFacts(y, a, b)
      BY <2>1, SyncFacts
    <3>2. /\ ServerAt(y, sv, sent.early, sent.server, a, b)
          /\ a \in 0 .. sent.early /\ b \in 0 .. sent.client
      BY <2>4, <3>1 DEF ServerFacts, GotServer
    <3>3. PICK al : /\ ClientAlert(cl, al)
                    /\ FromClient(y, sv, cl.state, sent.early, sent.client, a, b, al, <<>>)
      BY <2>4, <3>1 DEF ServerFacts
    <3>4. IsSeq(al)
      BY <3>3, ShortSeq DEF ClientAlert
    <3>5. cl.state # "start"
      BY <2>3, <2>4
    <3>6. al = <<>>
      BY <2>2, <2>3, <3>2, <3>3, <3>4, <3>5, NoClientAlert
    <3>7. \A r : <<r>> # <<>>
      OBVIOUS
    <3> QED BY <2>4, <3>3, <3>6, <3>7 DEF ClientAlert
  <2>5. ASSUME sv.error # "none", toClient = <<>>, cl.error = "none", ~sv.done,
               sv.state # "generating_cv"
        PROVE  FALSE
    <3>1. PICK w : /\ ClientAt(y, cl, sent.early, sent.client, w)
                   /\ \E al : ServerAlert(sv, al) /\ FromServer(y, cl, sv, sent.server, al, <<>>)
      BY <2>2, <2>5 DEF ClientSide
    <3>2. PICK al : ServerAlert(sv, al) /\ FromServer(y, cl, sv, sent.server, al, <<>>)
      BY <3>1
    <3>3. IsSeq(al)
      BY <3>2, ShortSeq DEF ServerAlert
    <3>4. cl.state # "start" /\ y.tickets \in Nat
      BY <2>2, <2>3, <2>5, FlagTypes
    <3>5. cl.state = "post" => cl.dec.seq \in Nat
      BY <3>1, CtxFields DEF ClientAt
    <3>6. al = <<>>
      BY <2>2, <2>3, <3>2, <3>3, <3>4, <3>5, NoServerAlert
    <3>7. \A r : <<r>> # <<>>
      OBVIOUS
    <3> QED BY <2>5, <3>2, <3>6, <3>7 DEF ServerAlert
  <2> QED BY <2>4, <2>5 DEF FailureReaches
<1> QED BY <1>1, SyncInvariant, PTL
=============================================================================
