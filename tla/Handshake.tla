------------------------------ MODULE Handshake ------------------------------
(***************************************************************************)
(* The TLS 1.3 handshake of lib/picotls.c: the client's and the server's   *)
(* state machine, driven record by record through ptls_handshake and       *)
(* ptls_receive over a reliable byte stream, with HelloRetryRequest        *)
(* (stateful and with a cookie), resumption and external PSK, 0-RTT data,  *)
(* client authentication, asynchronous signing and session tickets.        *)
(*                                                                         *)
(* Secrets are symbolic: a key is its label, the inputs the key schedule   *)
(* extracted and the transcript it was derived from, so two ends hold the  *)
(* same key exactly when they derived it from the same things.  A message  *)
(* authentication code (Finished, PSK binder, CertificateVerify) is the    *)
(* key and the transcript it covers; it is a function of what precedes it, *)
(* which is why the transcript records messages without it.                *)
(***************************************************************************)
EXTENDS Integers, Sequences

CONSTANTS
    Configs,   \* the pairs of contexts and handshake properties considered
    MaxEarly,  \* bound: 0-RTT records the client's application sends
    MaxData,   \* bound: application records each side sends afterwards
    MaxSkip    \* PTLS_MAX_EARLY_DATA_SKIP_SIZE, in records

Groups == {"g1", "g2", "g3"}

\* Contexts and properties of the two ends.  psk: the identity the client
\* offers and whether the server honours it ("stale": the server's ticket
\* checks fail; "client"/"server": only that end has the external key).
Config ==
    [psk : {"none", "ticket", "stale", "external", "client", "server"},
     ticketGroup : {"g1", "g2"},     \* key exchange recorded in the ticket
     negotiateFirst : BOOLEAN,       \* negotiate_before_key_exchange
     dheOnPsk : BOOLEAN,             \* require_dhe_on_psk
     early : BOOLEAN,                \* the client asks for 0-RTT
     acceptEarly : BOOLEAN,          \* the server allows it (size, ticket age)
     groups : SUBSET Groups,         \* the server's key_exchanges
     enforceRetry : BOOLEAN, cookie : BOOLEAN,   \* server.enforce_retry, retry_uses_cookie
     auth : BOOLEAN,                 \* require_client_authentication
     clientCert : BOOLEAN,           \* the client has a certificate and a signer
     failOpen : BOOLEAN,             \* the server's verifier accepts no certificate
     async : BOOLEAN,                \* the server's signer works asynchronously
     tickets : Nat,                  \* tickets the server sends (ticket_lifetime # 0)
     compat : BOOLEAN,               \* send_change_cipher_spec
     certBad : BOOLEAN,              \* the client's verifier refuses the server
     signBad : {"no", "server", "client"}]       \* whose signer fails

ASSUME HandshakeAssumption ==
    /\ Configs \subseteq Config
    /\ MaxEarly \in Nat
    /\ MaxData \in Nat
    /\ MaxSkip \in Nat

VARIABLES
    cfg,        \* the configuration, fixed
    cl,         \* the client's ptls_t
    sv,         \* the server's ptls_t
    toServer,   \* records on their way to the server
    toClient,   \* records on their way to the client
    sent,       \* sent[tag]: application records sent, by kind of key
    got,        \* got[e]: application records delivered to e's application
    ticketsSeen \* (secret in the ticket, secret the client saved) of each ticket

vars == <<cfg, cl, sv, toServer, toClient, sent, got, ticketsSeen>>

(***************************************************************************)
(* Keys and records                                                        *)
(***************************************************************************)
NoKey == [label |-> "none", psk |-> "unset", dhe |-> "unset", th |-> <<>>]
NoProtection == [key |-> NoKey, seq |-> 0]
NoMac == [key |-> NoKey, th |-> <<>>]

\* key_schedule_new
EmptySchedule == [psk |-> "unset", dhe |-> "unset", th |-> <<>>]

\* ptls__key_schedule_update_hash
Hash(s, ms) == [s EXCEPT !.th = @ \o ms]

\* key_schedule_transform_post_ch1hash: the first ClientHello becomes its hash.
HashCH1(s) == [s EXCEPT !.th = <<[type |-> "message_hash", of |-> s.th]>>]

\* derive_secret: the label, the extracted secrets, the transcript.
Key(label, s) == [label |-> label, psk |-> s.psk, dhe |-> s.dhe, th |-> s.th]

\* calc_verify_data, with the traffic secret of a direction.
FinishedMac(k, s) == [key |-> k, th |-> s.th]

\* The binder is keyed by the early secret alone (derive_secret_with_empty_digest).
Binder(s) == [key |-> [NoKey EXCEPT !.label = "binder", !.psk = s.psk], th |-> s.th]

\* build_certificate_verify_signdata
Signature(s) == [key |-> NoKey, th |-> s.th]

\* setup_traffic_protection
Protect(k) == [key |-> k, seq |-> 0]

Plain(t) == [type |-> t]
Item(m, mac) == [msg |-> m, mac |-> mac]
Messages(items) == [i \in 1..Len(items) |-> items[i].msg]

\* begin_record_message and commit_record_message: one record per message,
\* sealed with the context's key and next sequence number when it has one.
Seal(p, items) ==
    [i \in 1..Len(items) |->
        [key |-> p.key, seq |-> IF p.key = NoKey THEN 0 ELSE p.seq + i - 1,
         msg |-> items[i].msg, mac |-> items[i].mac]]

\* The context after sealing n records.
Used(p, n) == IF p.key = NoKey THEN p ELSE [p EXCEPT !.seq = @ + n]

\* push_change_cipher_spec: once per connection, in the clear.
ChangeCipherSpec(on) ==
    IF on THEN Seal(NoProtection, <<Item(Plain("ccs"), NoMac)>>) ELSE <<>>

(***************************************************************************)
(* Initial states                                                          *)
(***************************************************************************)

\* ptls_client_new
NewClient ==
    [state |-> "start", enc |-> NoProtection, dec |-> NoProtection, pending |-> NoKey,
     sched |-> EmptySchedule, share |-> "none", usingEarly |-> FALSE, offeredPsk |-> FALSE,
     isPsk |-> FALSE, certReq |-> FALSE, ccs |-> cfg.compat, verified |-> FALSE,
     done |-> FALSE, error |-> "none"]

\* ptls_server_new; skipped = -1 is early_data_skipped_bytes = UINT32_MAX.
NewServer ==
    [state |-> "expect_ch", enc |-> NoProtection, dec |-> NoProtection, pending |-> NoKey,
     pendingAp |-> NoKey, sched |-> EmptySchedule, isPsk |-> FALSE, skipped |-> -1,
     accepted |-> FALSE, retries |-> 0, ccs |-> cfg.compat, verified |-> FALSE, done |-> FALSE,
     error |-> "none"]

Init ==
    /\ cfg \in Configs
    /\ cl = NewClient
    /\ sv = NewServer
    /\ toServer = <<>>
    /\ toClient = <<>>
    /\ sent = [early |-> 0, client |-> 0, server |-> 0]
    /\ got = [client |-> <<>>, server |-> <<>>]
    /\ ticketsSeen = {}

(***************************************************************************)
(* Input and output of a call                                              *)
(***************************************************************************)
Alert(code) == Item([type |-> "alert", code |-> code], NoMac)

\* handle_input: a record is read when it is in the clear and no key is set (an
\* alert in the clear always), or sealed with exactly the expected key and
\* sequence number.
Opens(p, r) ==
    IF r.key = NoKey THEN p.key = NoKey \/ r.msg.type = "alert"
    ELSE r.key = p.key /\ r.seq = p.seq

\* aead_decrypt steps the sequence number.
Read(p, r) == IF r.key = NoKey THEN p ELSE Used(p, 1)

\* What handle_input returns for a record it cannot read.
Unreadable(p, r) ==
    IF p.key = NoKey THEN "unexpected_message"
    ELSE IF r.key = NoKey THEN "handshake_failure" ELSE "bad_record_mac"

\* A call that went on: the new ptls_t and the records to send.
ClientReply(c, out) ==
    /\ cl' = c
    /\ toServer' = toServer \o out
    /\ toClient' = Tail(toClient)

\* Mutated ClientFail: the alert is encrypted as soon as there is a key.
ClientFail_Sealed(c, code) ==
    LET silent == c.done \/ code = "peer_alert"
    IN  /\ cl' = [c EXCEPT !.error = code, !.enc = IF silent THEN @ ELSE Used(@, 1)]
        /\ toServer' = toServer \o (IF silent THEN <<>> ELSE Seal(c.enc, <<Alert(code)>>))
        /\ toClient' = Tail(toClient)

\* A call that failed.  ptls_handshake drops the output and sends an alert, which
\* ptls_send_alert leaves in the clear in every state a client has before it is
\* done; ptls_receive sends nothing.
ClientFail(c, code) ==
    /\ cl' = [c EXCEPT !.error = code]
    /\ toServer' = toServer \o (IF c.done \/ code = "peer_alert" THEN <<>>
                                ELSE Seal(NoProtection, <<Alert(code)>>))
    /\ toClient' = Tail(toClient)

ServerReply(s, out) ==
    /\ sv' = s
    /\ toClient' = toClient \o out
    /\ toServer' = Tail(toServer)

\* A server's alert is encrypted once there is a key, the one the failed handler left.
ServerFail(s, code) ==
    LET silent == s.done \/ code = "peer_alert"
    IN  /\ sv' = [s EXCEPT !.error = code, !.enc = IF silent THEN @ ELSE Used(@, 1)]
        /\ toClient' = toClient \o (IF silent THEN <<>> ELSE Seal(s.enc, <<Alert(code)>>))
        /\ toServer' = Tail(toServer)

(***************************************************************************)
(* The client                                                              *)
(***************************************************************************)
External(who) == cfg.psk \in {"external", who}

Identity ==
    IF External("client") THEN "external"
    ELSE IF cfg.psk \in {"ticket", "stale"} THEN "ticket" ELSE "none"

\* encode_client_hello
ClientHello(c, cookie) ==
    [type |-> "ch", share |-> c.share, psk |-> Identity, early |-> c.usingEarly, cookie |-> cookie]

\* The rest of send_client_hello: hash and send the message (with its binder),
\* set up the 0-RTT key, wait for the answer.
SentHello(c, cookie, state) ==
    LET m == ClientHello(c, cookie)
        s == Hash(c.sched, <<m>>)
        mac == IF Identity = "none" THEN NoMac ELSE Binder(s)
        hello == Seal(c.enc, <<Item(m, mac)>>)
    IN  [tls |-> [c EXCEPT !.sched = s, !.state = state,
                           !.enc = IF c.usingEarly THEN Protect(Key("c e", s)) ELSE Used(@, 1),
                           !.ccs = @ /\ ~c.usingEarly],
         out |-> hello \o ChangeCipherSpec(c.ccs /\ c.usingEarly)]

\* ptls_handshake on a new client: send_client_hello, first flight.
ClientStart ==
    /\ cl.state = "start"
    /\ LET c == [cl EXCEPT !.offeredPsk = Identity # "none",
                           !.usingEarly = cfg.early /\ Identity # "none",
                           !.share = IF Identity = "ticket" THEN cfg.ticketGroup
                                     ELSE IF cfg.negotiateFirst THEN "none" ELSE "g1",
                           !.sched.psk = IF Identity = "none" THEN "zero" ELSE Identity]
           h == SentHello(c, <<>>, "expect_sh")
       IN  cl' = h.tls /\ toServer' = toServer \o h.out
    /\ UNCHANGED <<cfg, sv, toClient, sent, got, ticketsSeen>>

\* Mutated ReleaseEarlyKey: the 0-RTT key stays in place.
ReleaseEarlyKey_Kept(c) == [c EXCEPT !.usingEarly = FALSE]

\* handle_hello_retry_request gives up 0-RTT: the second ClientHello is in the clear.
ReleaseEarlyKey(c) ==
    [c EXCEPT !.enc = IF c.usingEarly THEN NoProtection ELSE @, !.usingEarly = FALSE]

\* client_handle_hello on a HelloRetryRequest, then handle_hello_retry_request.
ClientHandleRetry(c, r) ==
    LET m == r.msg
        share == IF m.group = "none" THEN c.share ELSE m.group
        d == [ReleaseEarlyKey(c) EXCEPT !.sched = Hash(HashCH1(c.sched), <<m>>), !.share = share]
        h == SentHello(d, m.cookie, "expect_sh2")
    IN  /\ c.state \in {"expect_sh", "expect_sh2"} /\ m.type = "hrr"
        /\ IF share \in {"g1", "g2"} THEN ClientReply(h.tls, h.out)
           ELSE ClientFail(d, "illegal_parameter")

\* What decode_server_hello and client_handle_hello refuse.
ServerHelloError(c, m) ==
    IF \/ m.share \notin {"none", c.share}
       \/ m.psk /\ ~c.offeredPsk
       \/ m.share = "none" /\ ~m.psk THEN "illegal_parameter"
    ELSE IF External("client") /\ ~m.psk THEN "handshake_failure" ELSE "none"

\* Mutated SelectedPsk: the offered PSK stays in the key schedule.
SelectedPsk_Offered(c, m) == c.sched.psk

\* key_schedule_select_cipher takes a PSK the server did not use back out of the
\* key schedule.
SelectedPsk(c, m) == IF c.offeredPsk /\ ~m.psk THEN "zero" ELSE c.sched.psk

\* client_handle_hello on a ServerHello; after 0-RTT the handshake key of the
\* client waits.
ClientHandleHello(c, r) ==
    LET m == r.msg
        s == Hash([c.sched EXCEPT !.psk = SelectedPsk(c, m),
                                  !.dhe = IF m.share = "none" THEN "zero" ELSE m.share], <<m>>)
        d == [c EXCEPT !.isPsk = m.psk, !.sched = s, !.dec = Protect(Key("s hs", s)),
                       !.enc = IF c.usingEarly THEN @ ELSE Protect(Key("c hs", s)),
                       !.pending = IF c.usingEarly THEN Key("c hs", s) ELSE @,
                       !.state = "expect_ee"]
    IN  /\ c.state \in {"expect_sh", "expect_sh2"} /\ m.type = "sh"
        /\ IF ServerHelloError(c, m) = "none" THEN ClientReply(d, <<>>)
           ELSE ClientFail(c, ServerHelloError(c, m))

\* client_handle_encrypted_extensions
ClientHandleEncryptedExtensions(c, r) ==
    /\ c.state = "expect_ee" /\ r.msg.type = "ee"
    /\ IF r.msg.early /\ ~c.usingEarly THEN ClientFail(c, "illegal_parameter")
       ELSE ClientReply([c EXCEPT !.usingEarly = r.msg.early, !.sched = Hash(@, <<r.msg>>),
                                  !.state = IF c.isPsk THEN "expect_fin" ELSE "expect_cr_or_cert"],
                        <<>>)

\* client_handle_certificate_request
ClientHandleCertificateRequest(c, r) ==
    /\ c.state = "expect_cr_or_cert" /\ r.msg.type = "cr"
    /\ ClientReply([c EXCEPT !.certReq = TRUE, !.sched = Hash(@, <<r.msg>>),
                             !.state = "expect_cert"], <<>>)

\* client_handle_certificate: handle_certificate asks the verifier.
ClientHandleCertificate(c, r) ==
    /\ c.state \in {"expect_cr_or_cert", "expect_cert"} /\ r.msg.type = "cert"
    /\ IF cfg.certBad THEN ClientFail(c, "bad_certificate")
       ELSE IF ~r.msg.some THEN ClientFail(c, "illegal_parameter")
       ELSE ClientReply([c EXCEPT !.sched = Hash(@, <<r.msg>>), !.state = "expect_cv"], <<>>)

\* client_handle_certificate_verify
ClientHandleCertificateVerify(c, r) ==
    /\ c.state = "expect_cv" /\ r.msg.type = "cv"
    /\ IF r.mac # Signature(c.sched) THEN ClientFail(c, "decrypt_error")
       ELSE ClientReply([c EXCEPT !.sched = Hash(@, <<r.msg>>), !.verified = TRUE,
                                  !.state = "expect_fin"], <<>>)

\* client_handle_finished after the peer's Finished was verified: the flight the
\* client sends (EndOfEarlyData, Certificate, CertificateVerify, Finished), each
\* part under the key it belongs to; d.tls is the ptls_t at the end of the flight,
\* failed the one send_certificate_verify leaves when the signer fails.
ClientFlight(c, ap) ==
    LET eoed == IF c.pending # NoKey /\ c.usingEarly THEN <<Item(Plain("eoed"), NoMac)>> ELSE <<>>
        s1 == Hash(ap, Messages(eoed))
        hs == IF c.pending # NoKey THEN Protect(c.pending) ELSE c.enc
        cert == IF c.certReq THEN <<Item([type |-> "cert", some |-> cfg.clientCert], NoMac)>>
                ELSE <<>>
        s2 == Hash(s1, Messages(cert))
        cv == IF c.certReq /\ cfg.clientCert THEN <<Item(Plain("cv"), Signature(s2))>> ELSE <<>>
        s3 == Hash(s2, Messages(cv))
        fin == Item([type |-> "fin", key |-> "c hs"], FinishedMac(hs.key, s3))
        d == [c EXCEPT !.dec = Protect(Key("s ap", ap)), !.pending = NoKey, !.usingEarly = FALSE,
                       !.ccs = FALSE, !.certReq = FALSE]
    IN  [tls |-> [d EXCEPT !.sched = Hash(s3, <<fin.msg>>), !.enc = Protect(Key("c ap", ap)),
                           !.state = "post", !.done = TRUE],
         failed |-> [d EXCEPT !.enc = Used(hs, Len(cert))],
         signs |-> cv # <<>>,
         out |-> Seal(c.enc, eoed) \o ChangeCipherSpec(c.ccs) \o Seal(hs, cert \o cv \o <<fin>>)]

\* client_handle_finished
ClientHandleFinished(c, r) ==
    LET f == ClientFlight(c, Hash(c.sched, <<r.msg>>))
    IN  /\ c.state = "expect_fin" /\ r.msg.type = "fin"
        /\ IF r.mac # FinishedMac(c.dec.key, c.sched) THEN ClientFail(c, "handshake_failure")
           ELSE IF f.signs /\ cfg.signBad = "client" THEN ClientFail(f.failed, "internal_error")
           ELSE ClientReply(f.tls, f.out)

\* client_handle_new_session_ticket saves the resumption secret of its own
\* transcript; the ticket (r.mac) holds the one the server put there.
ClientHandleNewSessionTicket(c, r) ==
    /\ c.state = "post" /\ r.msg.type = "nst"
    /\ ClientReply(c, <<>>)
    /\ ticketsSeen' = ticketsSeen \cup {<<r.mac.key, Key("res", c.sched)>>}

\* An application record is handed to the application after the handshake.
ClientDeliver(c, r) ==
    /\ c.state = "post" /\ r.msg.type = "data"
    /\ ClientReply(c, <<>>)
    /\ got' = [got EXCEPT !.client = Append(@, <<r.msg.tag, r.msg.n>>)]

\* handle_alert: the peer's alert ends the connection.
ClientHandleAlert(c, r) == r.msg.type = "alert" /\ ClientFail(c, "peer_alert")

\* The messages handle_client_handshake_message and handle_input take in a state.
ClientTakes(state) ==
    CASE state \in {"expect_sh", "expect_sh2"} -> {"sh", "hrr"}
      [] state = "expect_ee" -> {"ee"}
      [] state = "expect_cr_or_cert" -> {"cr", "cert"}
      [] state = "expect_cert" -> {"cert"}
      [] state = "expect_cv" -> {"cv"}
      [] state = "expect_fin" -> {"fin"}
      [] OTHER -> {"nst", "data"}

\* A record the client cannot read, or whose message it does not expect.
ClientRefuse(r) ==
    /\ r.msg.type # "ccs"
    /\ IF Opens(cl.dec, r)
       THEN /\ r.msg.type \notin ClientTakes(cl.state) \cup {"alert"}
            /\ ClientFail([cl EXCEPT !.dec = Read(@, r)], "unexpected_message")
       ELSE ClientFail(cl, Unreadable(cl.dec, r))

\* handle_input tolerates ChangeCipherSpec until the handshake is over.
ClientIgnoreCcs(r) ==
    /\ r.msg.type = "ccs"
    /\ IF cl.state = "post" THEN ClientFail(cl, "unexpected_message") ELSE ClientReply(cl, <<>>)

ClientReceives == cl.error = "none" /\ cl.state # "start" /\ toClient # <<>>

\* ptls_handshake or ptls_receive on the next record of the server.
ClientReceive ==
    /\ ClientReceives
    /\ LET r == Head(toClient)
           c == [cl EXCEPT !.dec = Read(@, r)]
       IN  \/ /\ \/ ClientIgnoreCcs(r)
                 \/ ClientRefuse(r)
                 \/ /\ r.msg.type # "ccs" /\ Opens(cl.dec, r)
                    /\ \/ ClientHandleRetry(c, r)
                       \/ ClientHandleHello(c, r)
                       \/ ClientHandleEncryptedExtensions(c, r)
                       \/ ClientHandleCertificateRequest(c, r)
                       \/ ClientHandleCertificate(c, r)
                       \/ ClientHandleCertificateVerify(c, r)
                       \/ ClientHandleFinished(c, r)
                       \/ ClientHandleAlert(c, r)
              /\ UNCHANGED <<got, ticketsSeen>>
           \/ /\ r.msg.type # "ccs" /\ Opens(cl.dec, r)
              /\ \/ ClientHandleNewSessionTicket(c, r) /\ UNCHANGED got
                 \/ ClientDeliver(c, r) /\ UNCHANGED ticketsSeen
    /\ UNCHANGED <<cfg, sv, sent>>

Data(tag) == Item([type |-> "data", tag |-> tag, n |-> sent[tag] + 1], NoMac)

\* ptls_send by the client: 0-RTT data while it is on offer, then application data.
ClientSend(tag) ==
    /\ cl.error = "none"
    /\ \/ tag = "early" /\ cl.usingEarly /\ cl.enc.key.label = "c e" /\ sent.early < MaxEarly
       \/ tag = "client" /\ cl.done /\ sent.client < MaxData
    /\ toServer' = toServer \o Seal(cl.enc, <<Data(tag)>>)
    /\ cl' = [cl EXCEPT !.enc = Used(@, 1)]
    /\ sent' = [sent EXCEPT ![tag] = @ + 1]
    /\ UNCHANGED <<cfg, sv, toClient, got, ticketsSeen>>

(***************************************************************************)
(* The server                                                              *)
(***************************************************************************)

\* select_negotiated_group: the first group of the client's list (g1, g2) that
\* the server has.
RetryGroup ==
    IF "g1" \in cfg.groups THEN "g1" ELSE IF "g2" \in cfg.groups THEN "g2" ELSE "none"

\* server_handle_hello rebuilds the first flight from the cookie.
ByCookie(s, m) == s.state = "expect_ch" /\ m.cookie # <<>> /\ m.share \in cfg.groups

\* Only a first flight is retried.
MayRetry(s, m) == s.state = "expect_ch" /\ ~ByCookie(s, m)

\* A HelloRetryRequest is sent when no share of the client can be used, or when
\* the application enforces it.
MustRetry(s, m) == MayRetry(s, m) /\ (m.share \notin cfg.groups \/ cfg.enforceRetry)

\* calc_cookie_signature covers the group; the cookie itself holds the hash of
\* the first ClientHello and whether the retry named a group.
Cookie(s, m) ==
    [of |-> Hash(s.sched, <<m>>).th, sent |-> m.share \notin cfg.groups, signed |-> RetryGroup]

HelloRetryRequest(s, m) ==
    [type |-> "hrr", group |-> IF m.share \in cfg.groups THEN "none" ELSE RetryGroup,
     cookie |-> IF cfg.cookie THEN <<Cookie(s, m)>> ELSE <<>>]

\* The schedule the second flight continues: the one kept, or the one rebuilt
\* from the cookie.  Only an external PSK was extracted into it.
RetriedPsk == IF External("server") THEN "external" ELSE "zero"

CookieSchedule(m) ==
    LET ck == m.cookie[1]
        hrr == [type |-> "hrr", group |-> IF ck.sent THEN m.share ELSE "none", cookie |-> m.cookie]
    IN  [psk |-> RetriedPsk, dhe |-> "unset",
         th |-> <<[type |-> "message_hash", of |-> ck.of], hrr>>]

\* server_handle_hello sends a HelloRetryRequest.  With a cookie the call returns
\* PTLS_ERROR_STATELESS_RETRY and the application starts over with a new ptls_t.
ServerSendRetry(s, r) ==
    LET m == r.msg
        hrr == HelloRetryRequest(s, m)
        s1 == [Hash(HashCH1(Hash(s.sched, <<m>>)), <<hrr>>) EXCEPT !.psk = RetriedPsk]
        out == Seal(s.enc, <<Item(hrr, NoMac)>>)
    IN  IF cfg.cookie
        THEN ServerReply([NewServer EXCEPT !.retries = s.retries + 1],
                         out \o ChangeCipherSpec(s.ccs))
        ELSE ServerReply([s EXCEPT !.sched = s1, !.state = "expect_ch2", !.retries = @ + 1,
                                   !.skipped = IF m.early THEN 0 ELSE @], out)

\* try_psk_handshake is called on a first flight or for an external PSK, never
\* when the client must be authenticated by certificate.
PskFound(s, m) ==
    /\ m.psk # "none" /\ ~cfg.auth
    /\ IF External("server") THEN m.psk = "external"
       ELSE /\ s.state = "expect_ch" /\ ~ByCookie(s, m)
            /\ m.psk = "ticket" /\ cfg.psk = "ticket" /\ cfg.ticketGroup \in cfg.groups

\* The schedule with the ClientHello in it.
HelloSchedule(s, m) ==
    LET second == s.state = "expect_ch2" \/ ByCookie(s, m)
        base == IF ByCookie(s, m) THEN CookieSchedule(m) ELSE s.sched
    IN  Hash(IF second THEN base
             ELSE [base EXCEPT !.psk = IF PskFound(s, m) THEN m.psk ELSE "zero"], <<m>>)

\* HANDSHAKE_MODE_PSK: no key exchange.
PskOnly(s, m) == PskFound(s, m) /\ ~cfg.dheOnPsk

\* Early data is accepted with the first PSK, when the context allows it.
AcceptsEarly(s, m) == PskFound(s, m) /\ m.early /\ cfg.acceptEarly

\* What server_handle_hello refuses a ClientHello with.
HelloError(s, r) ==
    LET m == r.msg
    IN  CASE s.state = "expect_ch2" /\ m.early -> "decode_error"
          [] ByCookie(s, m) /\ m.cookie[1].signed # m.share -> "handshake_failure"
          [] MustRetry(s, m) -> IF RetryGroup = "none" THEN "handshake_failure" ELSE "none"
          [] PskFound(s, m) /\ r.mac # Binder(HelloSchedule(s, m)) -> "decrypt_error"
          [] External("server") /\ ~PskFound(s, m) -> "unknown_psk_identity"
          [] ~PskOnly(s, m) /\ m.share \notin cfg.groups -> "handshake_failure"
          [] OTHER -> "none"

\* The schedule and the contexts server_handle_hello reaches with its ServerHello:
\* 0-RTT data is read until EndOfEarlyData, or skipped.
ServerHelloState(s, m) ==
    LET share == IF PskOnly(s, m) THEN "none" ELSE m.share
        sh == [type |-> "sh", share |-> share, psk |-> PskFound(s, m)]
        ch == HelloSchedule(s, m)
        hs == Hash([ch EXCEPT !.dhe = IF share = "none" THEN "zero" ELSE share], <<sh>>)
        early == AcceptsEarly(s, m)
    IN  [tls |-> [s EXCEPT !.isPsk = PskFound(s, m), !.accepted = early, !.sched = hs,
                           !.ccs = FALSE, !.enc = Protect(Key("s hs", hs)),
                           !.dec = Protect(IF early THEN Key("c e", ch) ELSE Key("c hs", hs)),
                           !.pending = IF early THEN Key("c hs", hs) ELSE NoKey,
                           !.skipped = IF m.early /\ ~early THEN 0 ELSE @],
         out |-> Seal(s.enc, <<Item(sh, NoMac)>>) \o ChangeCipherSpec(s.ccs)]

\* EncryptedExtensions and, without PSK, CertificateRequest and Certificate.
ServerExtensions(s) ==
    <<Item([type |-> "ee", early |-> s.pending # NoKey], NoMac)>>
    \o (IF ~s.isPsk /\ cfg.auth THEN <<Item(Plain("cr"), NoMac)>> ELSE <<>>)
    \o (IF ~s.isPsk THEN <<Item([type |-> "cert", some |-> TRUE], NoMac)>> ELSE <<>>)

\* Mutated TicketTranscript: the EndOfEarlyData the client will send is left out.
TicketTranscript_NoEoed(s) == Hash(s.sched, <<[type |-> "fin", key |-> "c hs"]>>)

\* send_session_ticket: the transcript up to the client's Finished, as the server
\* expects it.
TicketTranscript(s) ==
    Hash(s.sched, (IF s.pending # NoKey THEN <<Plain("eoed")>> ELSE <<>>)
                  \o <<[type |-> "fin", key |-> "c hs"]>>)

\* The state server_finish_handshake waits in.
AfterServerFinished(s) ==
    IF s.pending # NoKey THEN "expect_eoed" ELSE IF cfg.auth THEN "expect_cert" ELSE "expect_fin"

\* server_finish_handshake once the signature is there: CertificateVerify,
\* Finished, the application keys, the session tickets.  The handshake is reported
\* as done unless the client has still to be authenticated.
ServerFinish(s) ==
    LET cv == IF s.isPsk THEN <<>> ELSE <<Item(Plain("cv"), Signature(s.sched))>>
        s1 == Hash(s.sched, Messages(cv))
        fin == Item([type |-> "fin", key |-> "s hs"], FinishedMac(s.enc.key, s1))
        s2 == Hash(s1, <<fin.msg>>)
        ap == Protect(Key("s ap", s2))
        d == [s EXCEPT !.sched = s2, !.pendingAp = Key("c ap", s2), !.enc = Used(ap, cfg.tickets),
                       !.state = AfterServerFinished(s), !.done = ~cfg.auth]
        ticket == Item(Plain("nst"), [key |-> Key("res", TicketTranscript(d)), th |-> <<>>])
    IN  [tls |-> d,
         out |-> Seal(s.enc, cv \o <<fin>>) \o Seal(ap, [i \in 1..cfg.tickets |-> ticket])]

\* The rest of server_handle_hello: the flight up to Finished, or up to Certificate
\* when the signer works asynchronously.  When it fails the flight is dropped.
ServerSendFlight(s, r) ==
    LET h == ServerHelloState(s, r.msg)
        items == ServerExtensions(h.tls)
        d == [h.tls EXCEPT !.sched = Hash(@, Messages(items)), !.enc = Used(@, Len(items))]
        out == h.out \o Seal(h.tls.enc, items)
        f == ServerFinish(d)
    IN  IF ~d.isPsk /\ cfg.async THEN ServerReply([d EXCEPT !.state = "generating_cv"], out)
        ELSE IF ~d.isPsk /\ cfg.signBad = "server" THEN ServerFail(d, "internal_error")
        ELSE ServerReply(f.tls, out \o f.out)

\* server_handle_hello
ServerHandleHello(s, r) ==
    /\ s.state \in {"expect_ch", "expect_ch2"} /\ r.msg.type = "ch"
    /\ IF HelloError(s, r) # "none" THEN ServerFail(s, HelloError(s, r))
       ELSE IF MustRetry(s, r.msg) THEN ServerSendRetry(s, r)
       ELSE ServerSendFlight(s, r)

\* ptls_handshake in SERVER_GENERATING_CERTIFICATE_VERIFY returns straight from
\* server_finish_handshake: a failure leaves no alert.
ServerSignDone ==
    /\ sv.state = "generating_cv" /\ sv.error = "none"
    /\ IF cfg.signBad = "server"
       THEN sv' = [sv EXCEPT !.error = "internal_error"] /\ UNCHANGED toClient
       ELSE sv' = ServerFinish(sv).tls /\ toClient' = toClient \o ServerFinish(sv).out
    /\ UNCHANGED <<cfg, cl, toServer, sent, got, ticketsSeen>>

\* Mutated AfterCertificate: a missing certificate is taken for one.
AfterCertificate_FailOpen(m) == IF m.some THEN "expect_cv" ELSE "expect_fin"

\* handle_certificate on the server: the verifier decides about an empty list.
AfterCertificate(m) ==
    IF m.some THEN "expect_cv" ELSE IF cfg.failOpen THEN "expect_fin" ELSE "refused"

\* server_handle_certificate
ServerHandleCertificate(s, r) ==
    /\ s.state = "expect_cert" /\ r.msg.type = "cert"
    /\ IF AfterCertificate(r.msg) = "refused" THEN ServerFail(s, "certificate_required")
       ELSE ServerReply([s EXCEPT !.sched = Hash(@, <<r.msg>>), !.state = AfterCertificate(r.msg)],
                        <<>>)

\* server_handle_certificate_verify
ServerHandleCertificateVerify(s, r) ==
    /\ s.state = "expect_cv" /\ r.msg.type = "cv"
    /\ IF r.mac # Signature(s.sched) THEN ServerFail(s, "decrypt_error")
       ELSE ServerReply([s EXCEPT !.sched = Hash(@, <<r.msg>>), !.verified = TRUE,
                                  !.state = "expect_fin"], <<>>)

\* server_handle_end_of_early_data: the client's handshake key comes into use.
ServerHandleEndOfEarlyData(s, r) ==
    /\ s.state = "expect_eoed" /\ r.msg.type = "eoed"
    /\ ServerReply([s EXCEPT !.dec = Protect(s.pending), !.pending = NoKey,
                             !.sched = Hash(@, <<r.msg>>), !.state = "expect_fin"], <<>>)

\* Mutated WithTrafficKey: the client's application key is not put to use.
WithTrafficKey_Kept(s) == [s EXCEPT !.pendingAp = NoKey]

\* The end of server_handle_finished: the client's application key.
WithTrafficKey(s) == [s EXCEPT !.dec = Protect(s.pendingAp), !.pendingAp = NoKey]

\* server_handle_finished
ServerHandleFinished(s, r) ==
    /\ s.state = "expect_fin" /\ r.msg.type = "fin"
    /\ IF r.mac # FinishedMac(s.dec.key, s.sched) THEN ServerFail(s, "handshake_failure")
       ELSE ServerReply([WithTrafficKey(s) EXCEPT !.sched = Hash(@, <<r.msg>>),
                                                  !.state = "post", !.done = TRUE], <<>>)

\* Application records are delivered after the handshake, and as 0-RTT data
\* while EndOfEarlyData is awaited.
ServerDeliver(s, r) ==
    /\ s.state \in {"post", "expect_eoed"} /\ r.msg.type = "data"
    /\ ServerReply(s, <<>>)
    /\ got' = [got EXCEPT !.server = Append(@, <<r.msg.tag, r.msg.n>>)]

ServerHandleAlert(s, r) == r.msg.type = "alert" /\ ServerFail(s, "peer_alert")

\* The messages handle_server_handshake_message and handle_input take in a state.
ServerTakes(state) ==
    CASE state \in {"expect_ch", "expect_ch2"} -> {"ch"}
      [] state = "expect_cert" -> {"cert"}
      [] state = "expect_cv" -> {"cv"}
      [] state = "expect_eoed" -> {"eoed", "data"}
      [] state = "expect_fin" -> {"fin"}
      [] OTHER -> {"data"}

\* Of another handshake message, handle_server_handshake_message returns
\* handshake_failure where it expects a ClientHello or Finished.
WrongMessage(state, t) ==
    IF state \in {"expect_ch", "expect_ch2", "expect_fin"} /\ t # "data" THEN "handshake_failure"
    ELSE "unexpected_message"

\* A record that does not decrypt is taken for rejected 0-RTT data.
Skips(r) == r.key # NoKey /\ ~Opens(sv.dec, r) /\ sv.skipped # -1

\* handle_input at ServerSkipEarlyData
ServerSkipEarlyData(r) ==
    LET s == [sv EXCEPT !.skipped = @ + 1]
    IN  /\ r.msg.type # "ccs" /\ Skips(r)
        /\ IF s.skipped > MaxSkip THEN ServerFail(s, "handshake_failure") ELSE ServerReply(s, <<>>)

\* A record the server cannot read, or whose message it does not expect.
ServerRefuse(r) ==
    /\ r.msg.type # "ccs" /\ ~Skips(r)
    /\ IF Opens(sv.dec, r)
       THEN /\ r.msg.type \notin ServerTakes(sv.state) \cup {"alert"}
            /\ ServerFail([sv EXCEPT !.dec = Read(@, r)], WrongMessage(sv.state, r.msg.type))
       ELSE ServerFail(sv, Unreadable(sv.dec, r))

ServerIgnoreCcs(r) ==
    /\ r.msg.type = "ccs"
    /\ IF sv.state = "post" THEN ServerFail(sv, "unexpected_message") ELSE ServerReply(sv, <<>>)

ServerReceives == sv.error = "none" /\ sv.state # "generating_cv" /\ toServer # <<>>

\* ptls_handshake or ptls_receive on the next record of the client.  While the
\* signer is at work the application holds input back.
ServerReceive ==
    /\ ServerReceives
    /\ LET r == Head(toServer)
           s == [sv EXCEPT !.dec = Read(@, r)]
       IN  \/ /\ \/ ServerIgnoreCcs(r)
                 \/ ServerSkipEarlyData(r)
                 \/ ServerRefuse(r)
                 \/ /\ r.msg.type # "ccs" /\ Opens(sv.dec, r)
                    /\ \/ ServerHandleHello(s, r)
                       \/ ServerHandleCertificate(s, r)
                       \/ ServerHandleCertificateVerify(s, r)
                       \/ ServerHandleEndOfEarlyData(s, r)
                       \/ ServerHandleFinished(s, r)
                       \/ ServerHandleAlert(s, r)
              /\ UNCHANGED got
           \/ r.msg.type # "ccs" /\ Opens(sv.dec, r) /\ ServerDeliver(s, r)
    /\ UNCHANGED <<cfg, cl, sent, ticketsSeen>>

\* ptls_send by the server, possible as soon as its Finished is out.
ServerSend ==
    /\ sv.error = "none" /\ sv.done /\ sent.server < MaxData
    /\ toClient' = toClient \o Seal(sv.enc, <<Data("server")>>)
    /\ sv' = [sv EXCEPT !.enc = Used(@, 1)]
    /\ sent' = [sent EXCEPT !.server = @ + 1]
    /\ UNCHANGED <<cfg, cl, toServer, got, ticketsSeen>>

Next ==
    \/ ClientStart
    \/ ClientReceive
    \/ ServerReceive
    \/ ServerSignDone
    \/ \E tag \in {"early", "client"} : ClientSend(tag)
    \/ ServerSend

Spec == Init /\ [][Next]_vars

Progress == ClientStart \/ ClientReceive \/ ServerReceive \/ ServerSignDone

\* When Progress is enabled: a handshake to start, input to read, a signature to use.
Busy ==
    \/ cl.state = "start"
    \/ ClientReceives
    \/ ServerReceives
    \/ sv.state = "generating_cv" /\ sv.error = "none"

\* One of the two applications goes on as long as there is something to do for one
\* (weak fairness of Progress, with its enabling condition spelled out); nobody has
\* to send data.
FairSpec == Spec /\ ([]<>~Busy \/ []<><<Progress>>_vars)

(***************************************************************************)
(* Properties                                                              *)
(***************************************************************************)
Labels == {"none", "c e", "c hs", "s hs", "c ap", "s ap"}
ClientStates == {"start", "expect_sh", "expect_sh2", "expect_ee", "expect_cr_or_cert",
                 "expect_cert", "expect_cv", "expect_fin", "post"}
ServerStates == {"expect_ch", "expect_ch2", "generating_cv", "expect_cert", "expect_cv",
                 "expect_eoed", "expect_fin", "post"}

\* The states are those of the enum, a server sends at most one
\* HelloRetryRequest, and the skip counter stops one past its limit.
TypeOK ==
    /\ cfg \in Config
    /\ cl.state \in ClientStates /\ sv.state \in ServerStates
    /\ {cl.enc.key.label, cl.dec.key.label, sv.enc.key.label, sv.dec.key.label} \subseteq Labels
    /\ sv.retries \in 0..1
    /\ sv.skipped \in -1..MaxSkip + 1
    /\ Len(got.client) <= MaxData /\ Len(got.server) <= MaxEarly + MaxData

Healthy == cl.error = "none" /\ sv.error = "none"
Quiet == toClient = <<>> /\ toServer = <<>>

\* Each end reads with exactly the key and the sequence number the other end
\* writes with (same label, same extracted secrets, same transcript, same count)
\* whenever nothing is in flight: client_handle_hello, client_handle_finished,
\* server_handle_hello, server_finish_handshake and server_handle_finished switch
\* keys at the same place of the stream, with and without retry, PSK and 0-RTT.
InStep ==
    Healthy =>
        /\ toClient = <<>> => cl.dec = sv.enc
        /\ Quiet /\ (cl.enc.key.label = "c e" => sv.accepted) => cl.enc = sv.dec

\* The handshake never stops half way: when nothing is in flight and no end has
\* failed, the client has not begun, the signer is at work, or both ends are in
\* the post-handshake state.
NobodyWaits ==
    Healthy /\ Quiet =>
        \/ cl.state = "start"
        \/ sv.state = "generating_cv"
        \/ cl.state = "post" /\ sv.state = "post"

Numbered(tag, n) == [i \in 1..n |-> <<tag, i>>]

\* The applications receive exactly what was sent, in order: 0-RTT data only if
\* the server accepted it and then all of it before the rest; and a server that
\* skips rejected 0-RTT data (handle_input, ServerSkipEarlyData) never swallows
\* application data of the handshake's keys.
DeliveredIsSent ==
    /\ \E a \in 0..sent.early, b \in 0..sent.client :
          /\ got.server = Numbered("early", a) \o Numbered("client", b)
          /\ ~sv.accepted => a = 0
          /\ b > 0 /\ sv.accepted => a = sent.early
          /\ Healthy /\ toServer = <<>> => b = sent.client /\ (sv.accepted => a = sent.early)
    /\ \E b \in 0..sent.server :
          /\ got.client = Numbered("server", b)
          /\ Healthy /\ toClient = <<>> => b = sent.server

\* No end completes with a peer it has not authenticated: the client by PSK or by
\* certificate, and a server that requires client authentication by the client's
\* certificate, unless its verifier lets a client without one through.
Authenticated ==
    /\ cl.state = "post" => cl.verified \/ cl.isPsk
    /\ sv.state = "post" /\ cfg.auth => ~sv.isPsk /\ (sv.verified \/ cfg.failOpen)
    /\ sv.state = "post" => sv.isPsk = cl.isPsk

\* The secret inside a ticket is the one the client stores with it, although
\* send_session_ticket computes it before the client's Finished arrives.  With
\* client authentication it is not: see TicketsMatch.
TicketsMatchWithoutAuth == ~cfg.auth => \A t \in ticketsSeen : t[1] = t[2]

\* send_session_ticket: "calculate verify-data that will be sent by the client".
TicketsMatch == \A t \in ticketsSeen : t[1] = t[2]

\* A failed handshake is noticed at the other end once everything in flight has
\* been read, although ptls_handshake drops the flight, a server seals the alert
\* with the keys of the abandoned handler, and a server that skips rejected 0-RTT
\* data drops what it cannot open.  Not covered: failures inside ptls_receive and of
\* an asynchronous signer, which send no alert.
FailureReaches ==
    /\ cl.error # "none" /\ toServer = <<>> => sv.error # "none" \/ cl.done
    /\ sv.error # "none" /\ toClient = <<>> =>
           cl.error # "none" \/ sv.done \/ sv.state = "generating_cv"

\* The contexts of the two ends can agree: a common group, the same external PSK
\* or none, certificates that verify and a signer that works.
Compatible ==
    /\ RetryGroup # "none"
    /\ cfg.psk \notin {"client", "server"}
    /\ cfg.psk = "external" => ~cfg.auth
    /\ ~cfg.certBad /\ cfg.signBad = "no"
    /\ cfg.auth => cfg.clientCert \/ cfg.failOpen

\* A client that brings its cookie back, with the share it was told to keep, is not
\* refused: test_enforce_retry completes such a handshake.
CookieHonoured ==
    sv.retries = 1 /\ sv.state = "expect_ch" /\ Compatible => sv.error # "handshake_failure"

\* ptls_handshake: "The function returns zero in case the handshake completed
\* successfully".  A server's returns it earlier: not an invariant of this code.
ZeroMeansComplete == sv.done => sv.state = "post"

\* A stateless retry that cannot succeed: it starts over while 0-RTT data is on its
\* way, or signs the cookie for another group than the client's (CookieHonoured).
CookieTrouble ==
    /\ cfg.cookie
    /\ cfg.early \/ cfg.ticketGroup \in cfg.groups \ {RetryGroup}

\* Between compatible ends every handshake completes, whatever is negotiated, unless
\* the client sends more rejected 0-RTT data than a server skips.
Completes ==
    Compatible /\ ~CookieTrouble =>
        <>(sv.skipped > MaxSkip \/ (cl.state = "post" /\ sv.state = "post"))
=============================================================================
