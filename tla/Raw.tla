--------------------------------- MODULE Raw ---------------------------------
(***************************************************************************)
(* The raw message interface (ptls_handle_message), by which QUIC runs the *)
(* handshake over its own packets.  The library writes handshake messages  *)
(* into one buffer and tells which part of it belongs to which epoch with  *)
(* five offsets; it tells of new keys through update_traffic_key.  The     *)
(* application cuts the buffer up by the offsets, carries the parts of an  *)
(* epoch in order, those of different epochs in any order, and supplies    *)
(* what it has of an epoch once ptls_get_read_epoch asks for that epoch.   *)
(*                                                                         *)
(* A message is its type and has length 1; the messages themselves, their  *)
(* checks and the key schedule are those of Handshake.                     *)
(***************************************************************************)
EXTENDS Integers, Sequences, SequencesExt

CONSTANT
    RawSetups   \* what the two contexts and handshake properties amount to

Epochs == 0 .. 3

\* early: the client offers 0-RTT; accept: the server takes it; omit:
\* omit_end_of_early_data of both; retain: the applications keep buffer and
\* offsets between calls instead of emptying them.
RawSetup ==
    [psk : BOOLEAN, early : BOOLEAN, accept : BOOLEAN, retry : BOOLEAN, omit : BOOLEAN,
     auth : BOOLEAN, clientCert : BOOLEAN, async : BOOLEAN, tickets : 0 .. 2, retain : BOOLEAN]

\* Early data is accepted from the first ClientHello of a resumption only; a
\* server that wants client authentication does not resume.
ASSUME RawAssumption ==
    /\ RawSetups \subseteq RawSetup
    /\ \A c \in RawSetups : /\ c.accept => c.early /\ c.psk /\ ~c.retry
                            /\ c.psk => ~c.auth /\ ~c.async

VARIABLES
    rsetup,   \* the setup, fixed
    rtls,     \* rtls[end]: the ptls_t of "client" and "server"
    rbuf,     \* rbuf[end]: its application's sendbuf and epoch_offsets
    rwire,    \* rwire[end][epoch]: messages that end's peer has not been given
    rcall     \* the call being executed; script is what is left of a handler

rvars == <<rsetup, rtls, rbuf, rwire, rcall>>

RawEnds == {"client", "server"}
RawPeer(e) == IF e = "client" THEN "server" ELSE "client"

---------------------------------------------------------------------------
(* What handlers do, one at a time: write a message, set up a key, and the *)
(* assignments between them.                                               *)

Emit(type) == <<"push", type>>
Keyed(dir, epoch) == <<"key", dir, epoch>>
Held(dir) == <<"held", dir>>
Commissioned(dir) == <<"commission", dir>>
Enter(state) == <<"state", state>>
GiveUpEarly == <<"early", FALSE>>
When(condition, ops) == IF condition THEN ops ELSE <<>>

\* Mutated RawEpoch: the second ClientHello counts as a message of epoch 1.
RawEpoch_KeyEpoch(t, type) == t.enc

\* The key epoch, except for a ClientHello written after the 0-RTT key.
RawEpoch(t, type) == IF t.enc = 1 /\ type = "client_hello" THEN 0 ELSE t.enc

\* begin_raw_message, the body, commit_raw_message; failed: its assertion
\* does not hold.
DoPush(e, type) ==
    LET b == rbuf[e]
        start == Len(b.buf)
        later == RawEpoch(rtls[e], type) + 1 .. 4
    IN /\ rbuf' = [rbuf EXCEPT ![e] =
              [buf |-> Append(b.buf, type),
               offsets |-> [i \in 0 .. 4 |-> IF i \in later THEN start + 1 ELSE b.offsets[i]]]]
       /\ rtls' = [rtls EXCEPT ![e].failed = @ \/ \E i \in later : b.offsets[i] # start]

\* setup_traffic_protection: the application learns of the key unless
\* skip_notify; keys is the sequence of what it was told.
SetupTrafficProtection(t, dir, epoch, skip_notify) ==
    [t EXCEPT !.enc = IF dir = "w" THEN epoch ELSE @,
              !.keys = IF skip_notify THEN @ ELSE Append(@, <<dir, epoch>>)]

\* The handshake key of the client's direction, kept in
\* pending_handshake_secret: the application has it, the key epoch stays.
HoldHandshakeSecret(t, dir) == [t EXCEPT !.pending = TRUE, !.keys = Append(@, <<dir, 2>>)]

\* commission_handshake_secret
CommissionHandshakeSecret(t, dir) ==
    SetupTrafficProtection([t EXCEPT !.pending = FALSE], dir, 2, TRUE)

\* The ptls_t after an operation other than a push.
After(t, op) ==
    CASE op[1] = "key"        -> SetupTrafficProtection(t, op[2], op[3], FALSE)
      [] op[1] = "held"       -> HoldHandshakeSecret(t, op[2])
      [] op[1] = "commission" -> CommissionHandshakeSecret(t, op[2])
      [] op[1] = "state"      -> [t EXCEPT !.state = op[2]]
      [] op[1] = "early"      -> [t EXCEPT !.early = op[2]]
      [] op[1] = "request"    -> [t EXCEPT !.certReq = TRUE]

---------------------------------------------------------------------------
(* The client.                                                             *)

\* send_client_hello commits the ClientHello before it sets up the 0-RTT key.
SendFirstHello ==
    <<Emit("client_hello")>>
    \o When(rsetup.early, <<Keyed("w", 1), <<"early", TRUE>>>>)
    \o <<Enter("expect_sh")>>

\* handle_hello_retry_request: early data is given up, the key epoch stays 1.
HandleRetryRequest == <<GiveUpEarly, Emit("client_hello"), Enter("expect_second_sh")>>

\* client_handle_hello
HandleServerHello(t) ==
    <<Keyed("r", 2), IF t.early THEN Held("w") ELSE Keyed("w", 2), Enter("expect_ee")>>

\* client_handle_encrypted_extensions
HandleEncryptedExtensions ==
    When(~rsetup.accept, <<GiveUpEarly>>)
    \o <<Enter(IF rsetup.psk THEN "expect_fin" ELSE "expect_cr_or_cert")>>

\* client_handle_finished: EndOfEarlyData under the 0-RTT key, the rest under
\* the handshake key, and only then the key of application data.
HandleServerFinished(t) ==
    <<Keyed("r", 3)>>
    \o When(t.pending /\ t.early /\ ~rsetup.omit, <<Emit("end_of_early_data")>>)
    \o When(t.pending, <<GiveUpEarly, Commissioned("w")>>)
    \o When(t.certReq, <<Emit("certificate")>>)
    \o When(t.certReq /\ rsetup.clientCert, <<Emit("certificate_verify")>>)
    \o <<Emit("finished"), Keyed("w", 3), Enter("post_handshake")>>

\* handle_client_handshake_message; last is is_end_of_record.
ClientHandles(t, type, last) ==
    CASE t.state = "expect_sh" /\ type = "hello_retry_request" /\ last -> HandleRetryRequest
      [] t.state \in {"expect_sh", "expect_second_sh"} /\ type = "server_hello" /\ last ->
            HandleServerHello(t)
      [] t.state = "expect_ee" /\ type = "encrypted_extensions" -> HandleEncryptedExtensions
      [] t.state = "expect_cr_or_cert" /\ type = "certificate_request" ->
            <<<<"request">>, Enter("expect_cert")>>
      [] t.state \in {"expect_cr_or_cert", "expect_cert"} /\ type = "certificate" ->
            <<Enter("expect_cv")>>
      [] t.state = "expect_cv" /\ type = "certificate_verify" -> <<Enter("expect_fin")>>
      [] t.state = "expect_fin" /\ type = "finished" /\ last -> HandleServerFinished(t)
      [] t.state = "post_handshake" /\ type = "new_session_ticket" -> <<>>
      [] OTHER -> <<Enter("failed")>>

---------------------------------------------------------------------------
(* The server.                                                             *)

\* server_finish_handshake behind CertificateVerify: Finished, the key of its
\* application data, the tickets.
FinishHandshake(pending) ==
    <<Emit("finished"), Keyed("w", 3)>>
    \o When(pending /\ rsetup.omit, <<Commissioned("r")>>)
    \o <<Enter(IF pending THEN IF rsetup.omit THEN "expect_fin" ELSE "expect_eoed"
               ELSE IF rsetup.auth THEN "expect_cert" ELSE "expect_fin")>>
    \o [i \in 1 .. rsetup.tickets |-> Emit("new_session_ticket")]

\* server_handle_hello: HelloRetryRequest, or the flight up to Finished; an
\* asynchronous signer suspends it before CertificateVerify.
HandleClientHello(t) ==
    IF rsetup.retry /\ t.state = "expect_ch"
    THEN <<Emit("hello_retry_request"), Enter("expect_second_ch")>>
    ELSE When(rsetup.accept, <<Keyed("r", 1)>>)
         \o <<Emit("server_hello"), Keyed("w", 2),
              IF rsetup.accept THEN Held("r") ELSE Keyed("r", 2), Emit("encrypted_extensions")>>
         \o When(~rsetup.psk /\ rsetup.auth, <<Emit("certificate_request")>>)
         \o When(~rsetup.psk, <<Emit("certificate")>>)
         \o (IF rsetup.async THEN <<Enter("generating_cv")>>
             ELSE When(~rsetup.psk, <<Emit("certificate_verify")>>) \o FinishHandshake(rsetup.accept))

\* handle_server_handshake_message; a client without certificate sends no
\* CertificateVerify either.
ServerHandles(t, type, last) ==
    CASE t.state \in {"expect_ch", "expect_second_ch"} /\ type = "client_hello" /\ last ->
            HandleClientHello(t)
      [] t.state = "expect_cert" /\ type = "certificate" ->
            <<Enter(IF rsetup.clientCert THEN "expect_cv" ELSE "expect_fin")>>
      [] t.state = "expect_cv" /\ type = "certificate_verify" -> <<Enter("expect_fin")>>
      [] t.state = "expect_eoed" /\ type = "end_of_early_data" ->
            <<Commissioned("r"), Enter("expect_fin")>>
      [] t.state = "expect_fin" /\ type = "finished" /\ last -> <<Keyed("r", 3), Enter("post_handshake")>>
      [] OTHER -> <<Enter("failed")>>

---------------------------------------------------------------------------
(* The calls.                                                              *)

\* Mutated ReadEpoch: while it waits for EndOfEarlyData the server asks for
\* handshake messages.
ReadEpoch_NoEarly(t) ==
    IF t.state \in {"start", "expect_sh", "expect_second_sh", "expect_ch", "expect_second_ch"} THEN 0
    ELSE IF t.state = "post_handshake" THEN 3 ELSE 2

\* ptls_get_read_epoch
ReadEpoch(t) ==
    IF t.state \in {"start", "expect_sh", "expect_second_sh", "expect_ch", "expect_second_ch"} THEN 0
    ELSE IF t.state = "expect_eoed" THEN 1
    ELSE IF t.state = "post_handshake" THEN 3 ELSE 2

NewRawTls(e) ==
    [state |-> IF e = "client" THEN "start" ELSE "expect_ch", enc |-> 0, keys |-> <<>>,
     pending |-> FALSE, early |-> FALSE, certReq |-> FALSE, failed |-> FALSE]

EmptyRawBuffer == [buf |-> <<>>, offsets |-> [i \in 0 .. 4 |-> 0]]
NotCalled == [end |-> "none", old |-> EmptyRawBuffer, input |-> <<>>, script |-> <<>>]

\* The application of e calls with input and with the buffer it kept, or with
\* an empty one; script is what is done before any input is looked at.
Call(e, input, script) ==
    LET b == IF rsetup.retain THEN rbuf[e] ELSE EmptyRawBuffer
    IN /\ rcall = NotCalled
       /\ rcall' = [end |-> e, old |-> b, input |-> input, script |-> script]
       /\ rbuf' = [rbuf EXCEPT ![e] = b]
       /\ UNCHANGED <<rsetup, rtls>>

\* ptls_client_handle_message with input = NULL
RawStart ==
    /\ rtls["client"].state = "start"
    /\ Call("client", <<>>, SendFirstHello)
    /\ UNCHANGED rwire

\* ptls_handle_message with the first n messages waiting in the read epoch.
RawHandleMessage(e, n) ==
    LET epoch == ReadEpoch(rtls[e])
        input == rwire[RawPeer(e)][epoch]
    IN /\ rtls[e].state \notin {"start", "failed", "generating_cv"}
       /\ n \in 1 .. Len(input)
       /\ Call(e, SubSeq(input, 1, n), <<>>)
       /\ rwire' = [rwire EXCEPT ![RawPeer(e)][epoch] = SubSeq(@, n + 1, Len(@))]

\* ptls_server_handle_message without input once the signature is there.
RawResume ==
    /\ rtls["server"].state = "generating_cv"
    /\ Call("server", <<>>, <<Emit("certificate_verify")>> \o FinishHandshake(FALSE))
    /\ UNCHANGED rwire

\* One operation of the handler.
RawStep ==
    /\ rcall.script # <<>>
    /\ LET e == rcall.end
           op == Head(rcall.script)
       IN IF op[1] = "push" THEN DoPush(e, op[2])
          ELSE rtls' = [rtls EXCEPT ![e] = After(@, op)] /\ UNCHANGED rbuf
    /\ rcall' = [rcall EXCEPT !.script = Tail(@)]
    /\ UNCHANGED <<rsetup, rwire>>

\* handle_handshake_record turns to the next message of the input; an error
\* ends the call.
RawNextMessage ==
    /\ rcall.end # "none" /\ rcall.script = <<>> /\ rcall.input # <<>>
    /\ LET e == rcall.end
           t == rtls[e]
           m == Head(rcall.input)
           last == Len(rcall.input) = 1
       IN rcall' = [rcall EXCEPT
              !.input = IF t.state = "failed" THEN <<>> ELSE Tail(@),
              !.script = IF t.state = "failed" THEN <<>>
                         ELSE IF e = "client" THEN ClientHandles(t, m, last)
                         ELSE ServerHandles(t, m, last)]
    /\ UNCHANGED <<rsetup, rtls, rbuf, rwire>>

\* What the offsets say belongs to an epoch.
Slice(b, epoch) == SubSeq(b.buf, b.offsets[epoch] + 1, b.offsets[epoch + 1])

\* What of it the call has added.
Fresh(old, new, epoch) ==
    LET part == Slice(new, epoch)
    IN SubSeq(part, old.offsets[epoch + 1] - old.offsets[epoch] + 1, Len(part))

\* The call returns, and the application passes on what is new.
RawReturn ==
    /\ rcall.end # "none" /\ rcall.script = <<>> /\ rcall.input = <<>>
    /\ LET e == rcall.end
       IN rwire' = [rwire EXCEPT ![e] = [k \in Epochs |-> @[k] \o Fresh(rcall.old, rbuf[e], k)]]
    /\ rcall' = NotCalled
    /\ UNCHANGED <<rsetup, rtls, rbuf>>

RawInit ==
    /\ rsetup \in RawSetups
    /\ rtls = [e \in RawEnds |-> NewRawTls(e)]
    /\ rbuf = [e \in RawEnds |-> EmptyRawBuffer]
    /\ rwire = [e \in RawEnds |-> [k \in Epochs |-> <<>>]]
    /\ rcall = NotCalled

RawNext ==
    \/ RawStart
    \/ \E e \in RawEnds, n \in 1 .. 6 : RawHandleMessage(e, n)
    \/ RawResume
    \/ RawStep
    \/ RawNextMessage
    \/ RawReturn

RawSpec == RawInit /\ [][RawNext]_rvars

---------------------------------------------------------------------------
(* Properties.                                                             *)

\* The epoch a message is sent in, by the protocol.
EpochOf(type) ==
    IF type \in {"client_hello", "hello_retry_request", "server_hello"} THEN 0
    ELSE IF type = "end_of_early_data" THEN 1
    ELSE IF type = "new_session_ticket" THEN 3 ELSE 2

\* The offsets cut the buffer into the messages of each epoch, none lost and
\* none in two parts, and no message is committed against the assertion of
\* commit_raw_message: however the application keeps its buffers, through
\* retries, 0-RTT given up or accepted, and a suspended flight.
OffsetsTell ==
    \A e \in RawEnds :
        /\ ~rtls[e].failed
        /\ \A k \in Epochs : \A i \in DOMAIN Slice(rbuf[e], k) : EpochOf(Slice(rbuf[e], k)[i]) = k
        /\ Slice(rbuf[e], 0) \o Slice(rbuf[e], 1) \o Slice(rbuf[e], 2) \o Slice(rbuf[e], 3) = rbuf[e].buf

\* The application is told of every key in time and once: of the key to write
\* with before messages of that epoch are in the buffer, of the key to read
\* with before the library asks for that epoch; and the server's key to read
\* application data comes only when the client, its Finished sent, writes with it.
KeysInTime ==
    \A e \in RawEnds :
        LET keys == rtls[e].keys
            told == ToSet(keys)
        IN /\ IsInjective(keys)
           /\ \A i \in DOMAIN rbuf[e].buf :
                 LET k == EpochOf(rbuf[e].buf[i]) IN k = 0 \/ <<"w", k>> \in told
           /\ rtls[e].state # "failed" /\ ReadEpoch(rtls[e]) # 0 => <<"r", ReadEpoch(rtls[e])>> \in told
           /\ e = "server" /\ <<"r", 3>> \in told => <<"w", 3>> \in ToSet(rtls["client"].keys)

\* Two honest ends finish: no call fails, and when nothing is left that either
\* asks for, both are through the handshake and nothing is left over.
RawCompletes ==
    /\ \A e \in RawEnds : rtls[e].state # "failed"
    /\ (~ENABLED RawNext) =>
          \A e \in RawEnds : rtls[e].state = "post_handshake" /\ \A k \in Epochs : rwire[e][k] = <<>>

\* What the library tells a QUIC application is right at every call: where
\* in its output each epoch lies (epoch_offsets) and when each key is there
\* (update_traffic_key).
EpochsSound == OffsetsTell /\ KeysInTime

==============================================================================
