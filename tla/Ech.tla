--------------------------------- MODULE Ech ---------------------------------
(***************************************************************************)
(* Encrypted ClientHello: a client that offers it (really or as GREASE)    *)
(* keeps two transcripts until the server's confirmation tells it which of *)
(* its two ClientHellos the server answered; a server opens the inner      *)
(* ClientHello or carries on with the outer one.  HelloRetryRequest makes  *)
(* both decide twice.                                                      *)
(*                                                                         *)
(* The server is this library, or any other that follows the wire format   *)
(* and cannot open what it has no key for.  A ciphertext is the key, the   *)
(* sequence number, the associated data and the plaintext; a confirmation  *)
(* is the label, the inner random and the transcript it is computed from.  *)
(***************************************************************************)
EXTENDS Integers, Sequences

CONSTANTS
    EchScenarios,  \* the pairs of contexts and handshake properties considered
    Nil,           \* no key, no name
    MaxRetries     \* bound: HelloRetryRequests a server of another make sends

\* Names in the clear and names to hide.
TrueName == "true"
PublicName == "public"

\* One ECHConfig: does the client know its version, KEM and a cipher suite,
\* is its public name an address, has it a critical extension, is it broken.
\* Key 0 is the random one of GREASE, which is nobody's.
EchConfig ==
    [version : BOOLEAN, kem : BOOLEAN, cipher : BOOLEAN, ip : BOOLEAN,
     critical : BOOLEAN, broken : BOOLEAN, id : Nat, key : Nat \ {0}]
NoConfig == [key |-> Nil]

EchScenario ==
    [sni : BOOLEAN,                \* the client has a server name
     offer : {"no", "grease", "configs"},
     configs : Seq(EchConfig),     \* properties.client.ech.configs
     greasable : BOOLEAN,          \* X25519 and AES-128-GCM are available
     opener : BOOLEAN,             \* ech.server.create_opener
     keys : Seq(Nat \ {0}),        \* the server's key for each config id it knows
     retryConfigs : BOOLEAN,       \* ech.server.retry_configs.len # 0
     retry : BOOLEAN,              \* the server needs a HelloRetryRequest
     savesName : BOOLEAN,          \* on_client_hello calls ptls_set_server_name
     library : BOOLEAN]            \* the server is this library

ASSUME EchAssumption ==
    /\ EchScenarios \subseteq EchScenario
    /\ Nil \notin Nat \cup {TrueName, PublicName}
    /\ MaxRetries \in Nat

VARIABLES
    sc,        \* the scenario, fixed
    ec,        \* the client's ECH state, transcripts and outcome
    es,        \* the server's
    toEs,      \* the ClientHello on its way to the server, if any
    toEc,      \* messages on their way to the client
    verified   \* the name given to the client's certificate verifier

evars == <<sc, ec, es, toEs, toEc, verified>>

---------------------------------------------------------------------------
(* The client's configuration.                                             *)

\* decode_one_ech_config leaves kem and cipher set; configurations with an
\* address as public name or a critical extension are skipped.
Usable(c) == c.version /\ c.kem /\ c.cipher /\ ~c.ip /\ ~c.critical

\* client_decode_ech_config_list: the first usable one; a list with a broken
\* entry of the known version is ignored altogether.
SelectedConfig(list) ==
    LET ok == {i \in DOMAIN list : Usable(list[i])}
    IN IF ok = {} \/ \E i \in DOMAIN list : list[i].version /\ list[i].broken THEN NoConfig
       ELSE list[CHOOSE i \in ok : \A j \in ok : i <= j]

NoExtension == [type |-> "none"]
NoEch == [state |-> "none", aead |-> Nil, id |-> 0, public |-> Nil, first |-> NoExtension]

\* client_setup_ech: keys, config id and public name from the configuration.
SetupEch(c) == [NoEch EXCEPT !.aead = c.key, !.id = c.id, !.public = PublicName]

\* client_setup_ech_grease: a random key nobody has, the true name as public
\* name.  The state is GREASE even if there is nothing to grease with.
SetupEchGrease ==
    IF sc.greasable THEN [NoEch EXCEPT !.state = "grease", !.aead = 0, !.id = 1, !.public = TrueName]
    ELSE [NoEch EXCEPT !.state = "grease"]

OfferedEch ==
    LET c == SelectedConfig(sc.configs)
    IN IF ~sc.sni \/ sc.offer = "no" THEN NoEch
       ELSE IF sc.offer = "grease" THEN SetupEchGrease
       ELSE IF c = NoConfig THEN NoEch ELSE SetupEch(c)

\* clear_ech: what is needed to build and read Hellos goes, the state stays;
\* on a client the public name goes too.
ClearEch(e, isServer) ==
    IF isServer THEN [e EXCEPT !.aead = Nil]
    ELSE [e EXCEPT !.aead = Nil, !.public = Nil, !.first = NoExtension]

---------------------------------------------------------------------------
(* ClientHello.                                                            *)

SniName == IF sc.sni THEN TrueName ELSE Nil

\* encode_client_hello for CHInner (and for the only ClientHello, without
\* ECH): the inner marker, or the first ECH extension once more.
InnerHello(e, second) ==
    [random |-> IF e.aead # Nil THEN "inner" ELSE "outer", name |-> SniName, second |-> second,
     ech |-> IF e.aead # Nil THEN [type |-> "inner"] ELSE e.first]

\* CHOuter without the payload: the associated data.
OuterAad(e, second) ==
    [random |-> "outer", name |-> e.public, second |-> second]

\* Mutated OuterHello: a second ClientHello is sealed under the same number.
OuterHello_SameSeq(e, second) ==
    [random |-> "outer", name |-> e.public, second |-> second,
     ech |-> [type |-> "outer", id |-> e.id, enc |-> ~second,
              payload |-> [key |-> e.aead, seq |-> FALSE, plain |-> InnerHello(e, second),
                           aad |-> OuterAad(e, second)]]]

\* encode_client_hello for CHOuter with EncodedCHInner sealed in it; the rest
\* of CHOuter is the associated data, the flight the sequence number.
OuterHello(e, second) ==
    [random |-> "outer", name |-> e.public, second |-> second,
     ech |-> [type |-> "outer", id |-> e.id, enc |-> ~second,
              payload |-> [key |-> e.aead, seq |-> second, plain |-> InnerHello(e, second),
                           aad |-> OuterAad(e, second)]]]

\* send_client_hello: hash CHInner; if ECH is in use send CHOuter, hash it
\* into the other transcript, and remember its extension; with GREASE the
\* outer hello becomes the only one at once.
SendHello(c, second) ==
    LET e == c.ech
        inner == InnerHello(e, second)
        outer == OuterHello(e, second)
        first == IF second THEN e.first ELSE outer.ech
        offered == IF second \/ e.state = "grease" THEN e.state ELSE "offered"
    IN IF e.aead = Nil
       THEN /\ toEs' = <<inner>>
            /\ ec' = [c EXCEPT !.phase = "hello", !.inner = Append(@, inner)]
       ELSE /\ toEs' = <<outer>>
            /\ ec' = IF e.state = "grease"
                     THEN [c EXCEPT !.phase = "hello", !.inner = Append(c.outer, outer), !.outer = <<>>,
                                    !.ech = [e EXCEPT !.aead = Nil, !.first = first]]
                     ELSE [c EXCEPT !.phase = "hello", !.inner = Append(@, inner),
                                    !.outer = Append(@, outer),
                                    !.ech = [e EXCEPT !.state = offered, !.first = first]]

EchClientStart ==
    /\ ec.phase = "start"
    /\ SendHello([ec EXCEPT !.ech = OfferedEch], FALSE)
    /\ UNCHANGED <<sc, es, toEc, verified>>

---------------------------------------------------------------------------
(* The server.                                                             *)

\* ech_calc_confirmation.
Confirmation(label, transcript) == [label |-> label, random |-> "inner", over |-> transcript]

\* What stands in its place in a ServerHello that does not accept.
RandomBytes == [label |-> "random", random |-> "outer", over |-> <<>>]
NoConfirmation == [label |-> "none", random |-> "outer", over |-> <<>>]

\* key_schedule_transform_post_ch1hash.
Ch1Hash(transcript) == <<[hash |-> transcript]>>

\* create_opener: the key of that config id, if the server has one.
OpenerKey(id) == IF sc.opener /\ id \in DOMAIN sc.keys THEN sc.keys[id] ELSE Nil

\* ptls_aead_decrypt with the rest of the message as associated data.
OpensPayload(key, ch) ==
    /\ ch.ech.payload.key = key
    /\ ch.ech.payload.seq = ch.second
    /\ ch.ech.payload.aad = [random |-> ch.random, name |-> ch.name, second |-> ch.second]

HasOuterEch(ch) == ch.ech.type = "outer"

\* What server_handle_hello makes of the ECH extension: the ECH state
\* afterwards, the ClientHello it goes on with, or an alert.
ServerEch(e, second, ch) ==
    LET key == IF second THEN e.aead ELSE OpenerKey(ch.ech.id)
        refuse(alert) == [alert |-> alert, ech |-> e, hello |-> ch]
        goOn(ech, hello) == [alert |-> "none", ech |-> ech, hello |-> hello]
    IN IF second /\ e.aead # Nil /\ ch.ech = NoExtension THEN refuse("missing_extension")
       ELSE IF second /\ e.aead # Nil /\ ~(ch.ech.id = e.id /\ ~ch.ech.enc)
       THEN refuse("illegal_parameter")
       ELSE IF ch.ech = NoExtension
       THEN IF e.state # "none" THEN refuse("illegal_parameter") ELSE goOn(e, ch)
       ELSE IF ~HasOuterEch(ch) THEN refuse("illegal_parameter")
       ELSE IF key = Nil
       THEN goOn(IF second THEN e ELSE [e EXCEPT !.state = "offered"], ch)
       ELSE IF OpensPayload(key, ch)
       THEN goOn([e EXCEPT !.state = "accepted", !.aead = key, !.id = ch.ech.id],
                 ch.ech.payload.plain)
       ELSE IF second THEN refuse("decrypt_error")
       ELSE goOn([e EXCEPT !.state = "offered"], ch)

\* The name on_client_hello saved must come again.
NameKept(s, hello) == s.name = Nil \/ hello.name = s.name

\* HelloRetryRequest; when accepting, with the confirmation.
RetryMessage(s, transcript) ==
    [type |-> "hrr",
     confirm |-> IF s.ech.state = "accepted" THEN Confirmation("hrr ech accept confirmation", transcript)
                 ELSE NoConfirmation]

\* ServerHello; when accepting, its random ends in the confirmation.
HelloMessage(s, transcript) ==
    [type |-> "sh",
     confirm |-> IF s.ech.state = "accepted" THEN Confirmation("ech accept confirmation", transcript)
                 ELSE RandomBytes]

\* retry_configs go out if ECH was offered and not accepted.
Flight(s) ==
    [type |-> "ee", retryConfigs |-> s.ech.state = "offered" /\ sc.opener /\ sc.retryConfigs]

ServerHandleEch ==
    /\ sc.library
    /\ toEs # <<>>
    /\ LET second == es.phase = "second"
           r == ServerEch(es.ech, second, Head(toEs))
           s == [es EXCEPT !.ech = r.ech, !.name = IF ~second /\ sc.savesName THEN r.hello.name ELSE @,
                           !.transcript = Append(@, r.hello)]
           retryT == Ch1Hash(s.transcript)
           hrr == RetryMessage(s, retryT)
           sh == HelloMessage(s, s.transcript)
           done == Append(s.transcript, sh)
       IN IF r.alert # "none"
          THEN es' = [es EXCEPT !.phase = r.alert] /\ toEc' = <<[type |-> "alert"]>>
          ELSE IF second /\ ~NameKept(es, r.hello)
          THEN es' = [es EXCEPT !.phase = "handshake_failure"] /\ toEc' = <<[type |-> "alert"]>>
          ELSE IF sc.retry /\ ~second
          THEN /\ es' = [s EXCEPT !.phase = "second", !.transcript = Append(retryT, hrr)]
               /\ toEc' = <<hrr>>
          ELSE /\ es' = [s EXCEPT !.phase = "done", !.ech = ClearEch(@, TRUE), !.transcript = done]
               /\ toEc' = <<sh, Flight(s), [type |-> "cert", name |-> r.hello.name],
                            [type |-> "fin", over |-> done]>>
    /\ toEs' = <<>>
    /\ UNCHANGED <<sc, ec, verified>>

\* A server of another make: it may ask for a retry, more than once, and may
\* or may not accept what it can open, whatever it did before, and put an
\* ECH extension into the retry request or not (ext).  It keeps a
\* transcript of the hellos as sent and one with the opened ones.
PeerHandleEch(retry, accept, ext) ==
    /\ ~sc.library
    /\ toEs # <<>>
    /\ LET ch == Head(toEs)
           open == HasOuterEch(ch) /\ OpenerKey(ch.ech.id) = ch.ech.payload.key
           outerT == Append(es.outer, ch)
           innerT == Append(es.transcript, IF open THEN ch.ech.payload.plain ELSE ch)
           wrap(t) == IF retry THEN Ch1Hash(t) ELSE t
           label == IF retry THEN "hrr ech accept confirmation" ELSE "ech accept confirmation"
           m == [type |-> IF retry THEN "hrr" ELSE "sh",
                 confirm |-> IF accept THEN Confirmation(label, wrap(innerT))
                             ELSE IF retry /\ ~ext THEN NoConfirmation ELSE RandomBytes]
           used == IF accept THEN innerT ELSE outerT
       IN /\ accept => open
          /\ retry => es.retries < MaxRetries
          /\ accept \/ ~retry => ext
          /\ es' = [es EXCEPT !.retries = IF retry THEN @ + 1 ELSE @,
                              !.phase = IF retry THEN "second" ELSE "done",
                              !.transcript = Append(wrap(innerT), m),
                              !.outer = Append(wrap(outerT), m),
                              !.ech.state = IF accept THEN "accepted" ELSE "offered"]
          /\ toEc' = IF retry THEN <<m>>
                     ELSE <<m, [type |-> "ee", retryConfigs |-> FALSE],
                            [type |-> "cert", name |-> PublicName],
                            [type |-> "fin", over |-> Append(used, m)]>>
    /\ toEs' = <<>>
    /\ UNCHANGED <<sc, ec, verified>>

---------------------------------------------------------------------------
(* The client's reactions.                                                 *)

EchFail(c, alert) == [c EXCEPT !.phase = alert]

\* client_ech_select_hello: a confirmation that matches means acceptance; one
\* that does not, after acceptance, is fatal; otherwise, and whenever a
\* HelloRetryRequest has none, the outer transcript is adopted.
SelectHello(c, m, label) ==
    IF m.confirm = Confirmation(label, c.inner)
    THEN [c EXCEPT !.ech.state = "accepted"]
    ELSE IF m.confirm # NoConfirmation /\ c.ech.state = "accepted"
    THEN EchFail(c, "illegal_parameter")
    ELSE [c EXCEPT !.ech.aead = Nil, !.inner = c.outer, !.outer = <<>>]

Selected(c, m, label) == IF c.ech.aead = Nil THEN c ELSE SelectHello(c, m, label)

\* A retry request: hash of the first hello(s), decision, second ClientHello.
\* Nothing here asks whether there was a retry before.
EchHandleRetry ==
    /\ ec.phase = "hello" /\ toEc # <<>> /\ Head(toEc).type = "hrr"
    /\ LET m == Head(toEc)
           hashed == [ec EXCEPT !.inner = Ch1Hash(@), !.outer = IF @ = <<>> THEN <<>> ELSE Ch1Hash(@)]
           c == Selected(hashed, m, "hrr ech accept confirmation")
       IN IF m.confirm # NoConfirmation /\ ec.ech.state = "none"
          THEN /\ ec' = EchFail(ec, "unsupported_extension")
               /\ UNCHANGED toEs
          ELSE IF c.phase # "hello" THEN ec' = c /\ UNCHANGED toEs
          ELSE SendHello([c EXCEPT !.inner = Append(@, m)], TRUE)
    /\ toEc' = Tail(toEc)
    /\ UNCHANGED <<sc, es, verified>>

EchHandleServerHello ==
    /\ ec.phase = "hello" /\ toEc # <<>> /\ Head(toEc).type = "sh"
    /\ LET m == Head(toEc)
           c == Selected(ec, m, "ech accept confirmation")
       IN ec' = IF c.phase # "hello" THEN c
                ELSE [c EXCEPT !.phase = "ee", !.ech = ClearEch(@, FALSE),
                               !.inner = Append(@, m), !.outer = <<>>]
    /\ toEc' = Tail(toEc)
    /\ UNCHANGED <<sc, es, toEs, verified>>

\* retry_configs are welcome only if ECH was offered and not accepted.
EchHandleEncryptedExtensions ==
    /\ ec.phase = "ee" /\ toEc # <<>> /\ Head(toEc).type = "ee"
    /\ ec' = IF Head(toEc).retryConfigs /\ ec.ech.state \notin {"offered", "grease"}
             THEN EchFail(ec, "unsupported_extension")
             ELSE [ec EXCEPT !.phase = "cert",
                             !.retryConfigs = Head(toEc).retryConfigs /\ ec.ech.state = "offered"]
    /\ toEc' = Tail(toEc)
    /\ UNCHANGED <<sc, es, toEs, verified>>

\* handle_certificate: the name to verify is the public name if ECH was
\* rejected, else the server name.
EchHandleCertificate ==
    /\ ec.phase = "cert" /\ toEc # <<>> /\ Head(toEc).type = "cert"
    /\ verified' = <<IF ec.ech.state = "offered" THEN ec.ech.public ELSE SniName>>
    /\ ec' = [ec EXCEPT !.phase = "fin"]
    /\ toEc' = Tail(toEc)
    /\ UNCHANGED <<sc, es, toEs>>

\* Mutated AfterFinished: a rejected offer is forgotten.
AfterFinished_NoAlert(c, fin) == IF fin.over # c.inner THEN "decrypt_error" ELSE "done"

\* client_handle_finished: after a rejection the connection is given up.
AfterFinished(c, fin) ==
    IF fin.over # c.inner THEN "decrypt_error"
    ELSE IF c.ech.state = "offered" THEN "ech_required" ELSE "done"

EchHandleFinished ==
    /\ ec.phase = "fin" /\ toEc # <<>> /\ Head(toEc).type = "fin"
    /\ ec' = [ec EXCEPT !.phase = AfterFinished(ec, Head(toEc))]
    /\ toEc' = Tail(toEc)
    /\ UNCHANGED <<sc, es, toEs, verified>>

EchHandleAlert ==
    /\ toEc # <<>> /\ Head(toEc).type = "alert"
    /\ ec' = EchFail(ec, "peer_alert")
    /\ toEc' = Tail(toEc)
    /\ UNCHANGED <<sc, es, toEs, verified>>

EchInit ==
    /\ sc \in EchScenarios
    /\ ec = [phase |-> "start", ech |-> NoEch, inner |-> <<>>, outer |-> <<>>, retryConfigs |-> FALSE]
    /\ es = [phase |-> "first", ech |-> NoEch, name |-> Nil, transcript |-> <<>>, outer |-> <<>>,
             retries |-> 0]
    /\ toEs = <<>> /\ toEc = <<>> /\ verified = <<>>

EchNext ==
    \/ EchClientStart
    \/ ServerHandleEch
    \/ \E retry, accept, ext \in BOOLEAN : PeerHandleEch(retry, accept, ext)
    \/ EchHandleRetry
    \/ EchHandleServerHello
    \/ EchHandleEncryptedExtensions
    \/ EchHandleCertificate
    \/ EchHandleFinished
    \/ EchHandleAlert

EchSpec == EchInit /\ [][EchNext]_evars

---------------------------------------------------------------------------
(* Properties.                                                             *)

\* The two ends agree: a client that gets to the end of the handshake, by
\* success or with ech_required, has the server's transcript and thinks ECH
\* was accepted exactly if this library's server accepted it, retry or not.
EchAgreement ==
    ec.phase \in {"done", "ech_required"} /\ sc.library =>
        /\ ec.inner = es.transcript
        /\ ec.ech.state = "accepted" <=> es.ech.state = "accepted"

\* ECH is never a reason to fail: two ends of this library, whatever either
\* knows of the other's configuration, end in success or, after a real offer
\* that was rejected, in ech_required.  The one exception is a rejection by
\* HelloRetryRequest at a server that saved the outer name.
EchSucceeds ==
    /\ sc.library
    /\ ~(sc.retry /\ sc.savesName /\ ec.ech.state = "offered")
    => ec.phase \in {"start", "hello", "ee", "cert", "fin", "done", "ech_required"}

\* A client that made a real offer never completes a handshake in which the
\* inner hello was not the one answered, however often the server retries,
\* whatever it confirms and in whatever order it changes its mind.
OnlyInnerCompletes ==
    /\ ec.phase = "done"
    /\ sc.offer = "configs" /\ sc.sni /\ SelectedConfig(sc.configs) # NoConfig
    => ec.ech.state = "accepted" /\ es.ech.state = "accepted"

\* A client that offers ECH shows the name it connects to in no ClientHello:
\* rejection means "adopting outer CH for the rest of the handshake".  After a
\* retry the second hello has the true name: not an invariant of this code.
NameHidden ==
    sc.offer = "configs" /\ SelectedConfig(sc.configs) # NoConfig /\ toEs # <<>> => Head(toEs).name # TrueName

\* After a rejection the certificate is verified against the public name:
\* the name "is provided explicitly as server_name", different from the one
\* set if "ECH is offered by the client but [...] rejected by the server".
\* clear_ech has freed it by then: not an invariant of this code.
PublicNameVerified ==
    verified # <<>> /\ ec.ech.state = "offered" => verified = <<PublicName>>

\* Acceptance of ECH (client_handle_hello, server_handle_hello) is sound: with
\* this library's server both ends agree on it and on the transcript, and with
\* any server a real offer completes only on the inner hello.
EchSound == EchAgreement /\ OnlyInnerCompletes

=============================================================================
