------------------------------- MODULE Signing -------------------------------
(***************************************************************************)
(* The authentication flight: Certificate (compressed or not),             *)
(* CertificateVerify and Finished, with a signature that may be computed   *)
(* by a backend while ptls_handshake returns PTLS_ERROR_ASYNC_OPERATION    *)
(* (send_certificate, send_certificate_verify, server_finish_handshake and *)
(* the asynchronous signer of lib/openssl.c).  Several connections share   *)
(* the backend, which completes their jobs in any order.                   *)
(*                                                                         *)
(* A signature or a Finished is what it covers: the transcript so far.     *)
(***************************************************************************)
EXTENDS Integers, Sequences, FiniteSets, SequencesExt

CONSTANTS
    SignConns,    \* connections, each with a flight to send
    SignSetups,   \* contexts and peers' offers considered
    NoJob,        \* async_job == NULL
    MaxPauses,    \* bound: calls that find the job still in flight
    MaxTrailing   \* bound: units of input that follow the ClientHello

SignSetup ==
    [server : BOOLEAN,              \* else a client answering CertificateRequest
     signer : {"none", "sync", "async"},
     schemes : Seq({"rsa", "ec"}),  \* of the key, in order of preference
     algos : Seq({"rsa", "ec", "other"}),  \* signature_algorithms received
     compressed : BOOLEAN,          \* ctx->emit_certificate is set
     peerBrotli : BOOLEAN,          \* the peer lists brotli
     ocsp : BOOLEAN, status : BOOLEAN]  \* a precompressed entry with OCSP; asked for

\* Messages that cover nothing, and the jobs that sign them.
PlainMessage == [type : {"hello", "server_hello", "extensions", "certificate", "compressed"},
                 over : {<<>>}, with : {"", "chain", "chain+ocsp"}]
Job == [scheme : {"rsa", "ec"}, over : Seq(PlainMessage), ready : BOOLEAN]

ASSUME SigningAssumption == SignSetups \subseteq SignSetup /\ NoJob \notin Job

VARIABLES
    setup,     \* setup[c], fixed
    sst,       \* "hello", "generating", "done", "error" or "freed"
    sbuf,      \* sendbuf: messages, and "half" for a message left unfinished
    shash,     \* the transcript
    sjob,      \* the asynchronous job of c, or NoJob
    pauses,    \* calls so far that ended with the job in flight
    trailing,  \* input behind the ClientHello that the application holds
    looked     \* units of it the library has looked at

svars == <<setup, sst, sbuf, shash, sjob, pauses, trailing, looked>>

Msg(type, over, with) == [type |-> type, over |-> over, with |-> with]
Hello0 == Msg("hello", <<>>, "")

\* ptls_push_message: written, and fed to the transcript.
Push(c, ms) == [buf |-> sbuf[c] \o ms, hash |-> shash[c] \o ms]

---------------------------------------------------------------------------
(* Certificate.                                                            *)

\* ptls_build_certificate_message: the chain, OCSP with the first entry.
BuildCertificateMessage(ocsp) == Msg("certificate", <<>>, IF ocsp THEN "chain+ocsp" ELSE "chain")

\* default_emit_certificate_cb never has an OCSP response.
DefaultEmit == BuildCertificateMessage(FALSE)

\* build_compressed: one entry per form of the message.
Compressed(ocsp) == [BuildCertificateMessage(ocsp) EXCEPT !.type = "compressed"]

\* emit_compressed_certificate: only if the peer lists brotli; else the core's
\* own is run (PTLS_ERROR_DELEGATE).
EmitCompressed(s) ==
    IF s.peerBrotli THEN <<Compressed(s.status /\ s.ocsp)>> ELSE <<>>

\* send_certificate, with its Redo.
SendCertificate(s) ==
    LET emitted == IF s.compressed THEN EmitCompressed(s) ELSE <<DefaultEmit>>
    IN IF emitted = <<>> THEN DefaultEmit ELSE emitted[1]

\* decode_signature_algorithms keeps what it is given; send_certificate and
\* decode_certificate_request refuse an empty list (MISSING_EXTENSION).
DecodeCertificateRequest(s) == s.algos # <<>>

---------------------------------------------------------------------------
(* Signing.                                                                *)

\* The key's schemes that the peer lists.
CommonSchemes(s) == {i \in DOMAIN s.schemes : s.schemes[i] \in ToSet(s.algos)}

\* ptls_openssl_select_signature_scheme: the first of them, if there is one.
SelectScheme(s) == s.schemes[CHOOSE i \in CommonSchemes(s) : \A j \in CommonSchemes(s) : i <= j]

\* Everything between the CertificateVerify and the end of the flight:
\* server_finish_handshake, or the tail of the client's.
FinishFlight(c, verify) ==
    LET p == Push(c, verify)
        fin == Msg("finished", p.hash, "")
    IN /\ sst' = [sst EXCEPT ![c] = "done"]
       /\ sbuf' = [sbuf EXCEPT ![c] = Append(p.buf, fin)]
       /\ shash' = [shash EXCEPT ![c] = Append(p.hash, fin)]

\* A failure inside ptls_handshake's loop: what was written is taken back and
\* an alert sent.
FailsWithAlert(c) ==
    /\ sst' = [sst EXCEPT ![c] = "error"]
    /\ sbuf' = [sbuf EXCEPT ![c] = <<Msg("alert", <<>>, "")>>]
    /\ UNCHANGED shash

\* A failure when the operation is resumed: ptls_handshake returns at once,
\* with what send_certificate_verify had written so far.
FailsAtOnce(c) ==
    /\ sst' = [sst EXCEPT ![c] = "error"]
    /\ sbuf' = [sbuf EXCEPT ![c] = Append(@, Msg("half", <<>>, ""))]
    /\ UNCHANGED shash

\* build_certificate_verify_signdata covers the transcript as it is now.
Verify(c, scheme) == Msg("verify", shash[c], scheme)

\* The messages before CertificateVerify.
Lead(c) == IF setup[c].server THEN <<Msg("server_hello", <<>>, ""), Msg("extensions", <<>>, "")>> ELSE <<>>

\* ptls_handshake on the hello that starts the flight, up to the signature: what
\* has been written and hashed by then.
BeginFlight(c) ==
    /\ sst[c] = "hello"
    /\ DecodeCertificateRequest(setup[c])
    /\ LET before == Lead(c) \o <<SendCertificate(setup[c])>>
       IN /\ sst' = [sst EXCEPT ![c] = "sign"]
          /\ sbuf' = [sbuf EXCEPT ![c] = @ \o before]
          /\ shash' = [shash EXCEPT ![c] = @ \o before]
    /\ UNCHANGED <<setup, sjob, pauses, trailing, looked>>

MissingExtension(c) ==
    /\ sst[c] = "hello" /\ ~DecodeCertificateRequest(setup[c])
    /\ FailsWithAlert(c)
    /\ UNCHANGED <<setup, sjob, pauses, trailing, looked>>

\* sign_certificate is NULL: no CertificateVerify.
SignNone(c) ==
    /\ sst[c] = "sign" /\ setup[c].signer = "none"
    /\ FinishFlight(c, <<>>)
    /\ UNCHANGED <<setup, sjob, pauses, trailing, looked>>

\* sign_certificate: no scheme in common, or do_sign in one go, which may fail.
SignSync(c) ==
    /\ sst[c] = "sign" /\ setup[c].signer # "none"
    /\ \/ FailsWithAlert(c)
       \/ /\ CommonSchemes(setup[c]) # {} /\ (setup[c].signer = "sync" \/ ~setup[c].server)
          /\ FinishFlight(c, <<Verify(c, SelectScheme(setup[c]))>>)
    /\ UNCHANGED <<setup, sjob, pauses, trailing, looked>>

\* emitter->buf->off = start_off
ResetOutput(buf, start) == SubSeq(buf, 1, start)

\* Mutated AsyncStart: the state does not become GENERATING_CERTIFICATE_VERIFY.
AsyncStart_StateKept(c) ==
    /\ sst[c] = "sign" /\ setup[c].signer = "async" /\ setup[c].server
    /\ CommonSchemes(setup[c]) # {}
    /\ sjob' = [sjob EXCEPT ![c] = [scheme |-> SelectScheme(setup[c]), over |-> shash[c], ready |-> FALSE]]
    /\ UNCHANGED <<setup, sst, sbuf, shash, pauses, trailing, looked>>

\* do_sign with an asynchronous job: async_sign_ctx_new, then ASYNC_start_job
\* pauses.  The output is reset to the end of the previous message.
AsyncStart(c) ==
    /\ sst[c] = "sign" /\ setup[c].signer = "async" /\ setup[c].server
    /\ CommonSchemes(setup[c]) # {}
    /\ sjob' = [sjob EXCEPT ![c] = [scheme |-> SelectScheme(setup[c]), over |-> shash[c], ready |-> FALSE]]
    /\ sst' = [sst EXCEPT ![c] = "generating"]
    /\ sbuf' = [sbuf EXCEPT ![c] = ResetOutput(Append(@, Msg("half", <<>>, "")), Len(@))]
    /\ UNCHANGED <<setup, shash, pauses, trailing, looked>>

\* The job finished at once, without pausing.
AsyncAtOnce(c) ==
    /\ sst[c] = "sign" /\ setup[c].signer = "async" /\ setup[c].server
    /\ CommonSchemes(setup[c]) # {}
    /\ FinishFlight(c, <<Verify(c, SelectScheme(setup[c]))>>)
    /\ UNCHANGED <<setup, sjob, pauses, trailing, looked>>

\* The backend has the signature: the file descriptor becomes readable.
BackendDone(c) ==
    /\ sjob[c] # NoJob /\ ~sjob[c].ready
    /\ sjob' = [sjob EXCEPT ![c].ready = TRUE]
    /\ UNCHANGED <<setup, sst, sbuf, shash, pauses, trailing, looked>>

\* ptls_handshake again: no look at the input.  In flight still: the output is
\* reset once more.
ResumeEarly(c) ==
    /\ sst[c] = "generating" /\ ~sjob[c].ready /\ pauses[c] < MaxPauses
    /\ pauses' = [pauses EXCEPT ![c] = @ + 1]
    /\ sbuf' = [sbuf EXCEPT ![c] = ResetOutput(Append(@, Msg("half", <<>>, "")), Len(@))]
    /\ trailing' = [trailing EXCEPT ![c] = 0]
    /\ UNCHANGED <<setup, sst, shash, sjob, looked>>

\* Mutated Resume: the slot is not cleared.
Resume_KeepJob(c) ==
    /\ sst[c] = "generating" /\ sjob[c].ready
    /\ FinishFlight(c, <<Msg("verify", sjob[c].over, sjob[c].scheme)>>)
    /\ trailing' = [trailing EXCEPT ![c] = 0]
    /\ UNCHANGED <<setup, sjob, pauses, looked>>

\* Complete: do_sign_async writes the signature and frees the context.
Resume(c) ==
    /\ sst[c] = "generating" /\ sjob[c].ready
    /\ FinishFlight(c, <<Msg("verify", sjob[c].over, sjob[c].scheme)>>)
    /\ sjob' = [sjob EXCEPT ![c] = NoJob]
    /\ trailing' = [trailing EXCEPT ![c] = 0]
    /\ UNCHANGED <<setup, pauses, looked>>

\* ASYNC_ERR: the context is freed too.
ResumeFails(c) ==
    /\ sst[c] = "generating" /\ sjob[c].ready
    /\ FailsAtOnce(c)
    /\ sjob' = [sjob EXCEPT ![c] = NoJob]
    /\ trailing' = [trailing EXCEPT ![c] = 0]
    /\ UNCHANGED <<setup, pauses, looked>>

\* Input that follows, handled by the state the handshake has reached.
HandleTrailing(c) ==
    /\ sst[c] = "done" /\ trailing[c] > 0
    /\ trailing' = [trailing EXCEPT ![c] = @ - 1]
    /\ looked' = [looked EXCEPT ![c] = @ + 1]
    /\ UNCHANGED <<setup, sst, sbuf, shash, sjob, pauses>>

\* ptls_free: a job still there is destroyed, which reads the result of the
\* backend; an application that waits for the descriptor, as it is told to,
\* frees only then.
FreeConn(c) ==
    /\ sst[c] \in {"generating", "done", "error"}
    /\ sjob[c] # NoJob => sjob[c].ready
    /\ sst' = [sst EXCEPT ![c] = "freed"]
    /\ sjob' = [sjob EXCEPT ![c] = NoJob]
    /\ UNCHANGED <<setup, sbuf, shash, pauses, trailing, looked>>

SignInit ==
    /\ setup \in [SignConns -> SignSetups]
    /\ sst = [c \in SignConns |-> "hello"]
    /\ sbuf = [c \in SignConns |-> <<>>]
    /\ shash = [c \in SignConns |-> <<Hello0>>]
    /\ sjob = [c \in SignConns |-> NoJob]
    /\ pauses = [c \in SignConns |-> 0]
    /\ trailing \in [SignConns -> 0..MaxTrailing]
    /\ looked = [c \in SignConns |-> 0]

SignNext ==
    \E c \in SignConns :
        \/ BeginFlight(c) \/ MissingExtension(c) \/ SignNone(c) \/ SignSync(c)
        \/ AsyncStart(c) \/ AsyncAtOnce(c) \/ BackendDone(c)
        \/ ResumeEarly(c) \/ Resume(c) \/ ResumeFails(c)
        \/ HandleTrailing(c) \/ FreeConn(c)

\* The application calls again once the descriptor is readable, and the
\* backend completes what it has been given.
SignFairness ==
    \A c \in SignConns :
        /\ WF_svars(SignNone(c) \/ SignSync(c) \/ AsyncStart(c) \/ AsyncAtOnce(c))
        /\ WF_svars(BackendDone(c))
        /\ WF_svars(Resume(c) \/ ResumeFails(c))

SignSpec == SignInit /\ [][SignNext]_svars /\ SignFairness

---------------------------------------------------------------------------
(* Properties.                                                             *)

\* A flight that is sent is the same whether its signature was computed at
\* once or by the backend, however often the call found it still in flight and
\* whatever the other connections did: whole messages, each in the transcript
\* once, CertificateVerify over all that precedes it, with a scheme the peer
\* lists, Finished over all that precedes it.
FlightCoversTranscript ==
    \A c \in SignConns : sst[c] = "done" =>
        /\ shash[c] = <<Hello0>> \o sbuf[c]
        /\ \A i \in DOMAIN shash[c] :
              /\ shash[c][i].type \in {"verify", "finished"} => shash[c][i].over = SubSeq(shash[c], 1, i - 1)
              /\ shash[c][i].type = "verify" => shash[c][i].with \in ToSet(setup[c].algos)
        /\ setup[c].signer # "none" => \E i \in DOMAIN sbuf[c] : sbuf[c][i].type = "verify"

\* A job exists exactly while its connection waits for it: none is left behind
\* by a resumption, a failure or ptls_free, and none is freed under the backend
\* (the assertions around the async_job slot in send_certificate_verify).
JobWhileWaiting == \A c \in SignConns : sjob[c] # NoJob <=> sst[c] = "generating"

\* A flight once begun ends: no order of the backend's completion, of early
\* calls and of the other connection's leaves a connection waiting for ever.
FlightEnds == \A c \in SignConns : (sst[c] # "hello") ~> (sst[c] \in {"done", "error", "freed"})

\* "Upon return the value is updated to the number of bytes consumed": input
\* reported as consumed has been looked at.  Not so in the call that resumes a
\* signature: not a property of this code.
InputLookedAt == [][\A c \in SignConns : trailing'[c] < trailing[c] => looked'[c] > looked[c]]_svars

\* "The contents of sendbuf should be sent to the client, regardless of whether
\* if an error is returned": it never holds part of a message.  A signer that
\* fails when it is resumed leaves one: not an invariant of this code.
OnlyWholeMessages == \A c \in SignConns : \A i \in DOMAIN sbuf[c] : sbuf[c][i].type # "half"

\* send_certificate_verify may be suspended: the flight is the same as without,
\* and its job lives as long as it is waited for.
SigningSound == FlightCoversTranscript /\ JobWhileWaiting

===============================================================================
