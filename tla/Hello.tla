-------------------------------- MODULE Hello --------------------------------
(***************************************************************************)
(* ClientHello: how a client writes it in its three forms (inner, encoded  *)
(* inner and outer), how a server rebuilds the inner one, decodes it       *)
(* extension by extension, checks it and negotiates version, cipher suite, *)
(* certificate type and key share, asking once for another share if need   *)
(* be.  The client is this library or any other; a hello of another client *)
(* is any short sequence of the extensions of OtherExtensions.             *)
(*                                                                         *)
(* An extension is its type and the list it carries (identities and        *)
(* binders, in list and aux, for pre_shared_key).  An end may have a       *)
(* pre-shared key: "external", the one of its context (identity "ext"), or *)
(* "ticket", which for a client is a stored session (identity "id0") and   *)
(* for a server the means to decrypt one.  A cookie is the group that its  *)
(* signature covers.                                                       *)
(***************************************************************************)
EXTENDS Integers, Sequences, FiniteSets, SequencesExt

CONSTANTS
    ClientContexts,   \* ptls_context_t and handshake properties of clients
    ServerContexts,   \* the same of servers
    OtherExtensions,  \* extensions hellos of other clients are made of
    MaxExtensions,    \* bound: extensions in such a hello
    ListCapacity      \* slots of the lists of st_ptls_client_hello_t

\* The extensions the table of extension_bitmap_testandset names.
KnownExtensions ==
    {"sni", "status", "groups", "sigalgs", "alpn", "certtype", "share", "psk", "modes",
     "early", "cookie", "versions", "compress", "ech", "outer_extensions"}

IsList(s) == s \in Seq(ToSet(s))

\* A client has a group to offer, the one of its ticket among them, no empty
\* protocol name, and as additional extensions none the library writes itself
\* and none twice.  A server asks to collect extensions the decoder has no case
\* of its own for.
ASSUME HelloAssumption ==
    /\ ListCapacity \in Nat \ {0} /\ MaxExtensions \in Nat
    /\ \A e \in OtherExtensions :
          e = [type |-> e.type, list |-> e.list, aux |-> e.aux] /\ IsList(e.list) /\ IsList(e.aux)
    /\ \A c \in ClientContexts :
          /\ c.library /\ c.ech \in BOOLEAN
          /\ IsList(c.suites) /\ IsList(c.algos) /\ IsList(c.groups) /\ IsList(c.alpn) /\ IsList(c.extra)
          /\ c.groups # <<>> /\ "" \notin ToSet(c.alpn)
          /\ c.psk = "ticket" => c.ticketGroup \in ToSet(c.groups)
          /\ ToSet(c.extra) \cap (KnownExtensions \cup {"tickets"}) = {}
          /\ \A i, j \in DOMAIN c.extra : c.extra[i] = c.extra[j] => i = j
    /\ \A s \in ServerContexts :
          IsList(s.suites) /\ IsList(s.groups) /\ s.wants \cap (KnownExtensions \cup {"tickets"}) = {}

Chacha == "chacha"
Hosts == <<"name">>

VARIABLES
    hclient,  \* the client's context; library = FALSE: another implementation
    hserver,  \* the server's context
    hin,      \* the ClientHello the server works on
    hpos,     \* extensions decoded so far
    hseen,    \* st_ptls_extension_bitmap_t
    hch,      \* st_ptls_client_hello_t
    hsrv,     \* what the ptls_t of the server remembers: flight, suite, group
    hstep     \* "fields", "decode", "negotiate", "retry", or how it ended

hvars == <<hclient, hserver, hin, hpos, hseen, hch, hsrv, hstep>>

---------------------------------------------------------------------------
(* Writing.                                                                *)

Ext(type, list) == [type |-> type, list |-> list, aux |-> <<>>]
If(condition, ext) == IF condition THEN <<ext>> ELSE <<>>

\* push_signature_algorithms: those of the verifier, or the built-in ones.
SignatureAlgorithms(c) == IF c.algos = <<>> THEN <<"rsa_pss", "ecdsa">> ELSE c.algos

\* push_additional_extensions
AdditionalExtensions(c) == [i \in DOMAIN c.extra |-> Ext(c.extra[i], <<"data">>)]

\* psk_ke_modes as the client pushes them.
KeModes(c) == IF c.dheOnly THEN <<"psk_dhe">> ELSE <<"psk", "psk_dhe">>

\* The group of the first key share: that of the session resumed, else the
\* first one unless negotiate_before_key_exchange.
FirstShare(c) ==
    IF c.psk = "ticket" THEN <<c.ticketGroup>>
    ELSE IF c.negotiateFirst THEN <<>> ELSE <<c.groups[1]>>

\* psk.identity in send_client_hello.  The outer form of a real ECH carries a
\* random one.
OfferedIdentity(c, mode) == IF mode = "outer" THEN "random" ELSE IF c.psk = "external" THEN "ext" ELSE "id0"

\* encode_client_hello, the extensions behind the key share; cookie is <<>> or
\* what the HelloRetryRequest carried.
FurtherExtensions(c, mode, second, cookie) ==
    If(c.sni, Ext("sni", Hosts))
    \o If(c.alpn # <<>>, Ext("alpn", c.alpn))
    \o If(c.decompress, Ext("compress", <<"br">>))
    \o <<Ext("versions", <<"tls13">>), Ext("sigalgs", SignatureAlgorithms(c)), Ext("groups", c.groups)>>
    \o If(cookie # <<>>, Ext("cookie", cookie))
    \o If(c.raw, Ext("certtype", <<"raw">>))
    \o If(c.save /\ c.tickets, Ext("tickets", <<"2", "1">>))
    \o AdditionalExtensions(c)
    \o If(c.save \/ c.psk # "none", Ext("modes", KeModes(c)))
    \o If(c.psk # "none" /\ c.early /\ ~second, Ext("early", <<>>))
    \o If(c.psk # "none", [type |-> "psk", list |-> <<OfferedIdentity(c, mode)>>, aux |-> <<"binder0">>])

\* All of them.  share is the group of the key share, or <<>>; the encoded
\* inner form refers to the key share of the outer one.
EncodeExtensions(c, mode, share, second, cookie) ==
    If(mode = "outer", Ext("ech", <<"outer", "payload">>))
    \o If(mode # "outer" /\ c.ech, Ext("ech", <<"inner">>))
    \o <<IF mode = "encoded" THEN Ext("outer_extensions", <<"share">>) ELSE Ext("share", share)>>
    \o FurtherExtensions(c, mode, second, cookie)

EncodeClientHello(c, mode, share, second, cookie) ==
    [version |-> 772, session |-> mode # "encoded", suites |-> c.suites,
     compression |-> <<0>>, exts |-> EncodeExtensions(c, mode, share, second, cookie)]

---------------------------------------------------------------------------
(* rebuild_ch_inner.                                                       *)

\* Mutated TakeReference: the reference is taken to be the next extension.
TakeReference_Next(st, type) ==
    IF st.rest = <<>> THEN [st EXCEPT !.bad = TRUE]
    ELSE [st EXCEPT !.out = Append(@, [st.rest[1] EXCEPT !.type = type]), !.rest = Tail(@)]

\* One reference: skip the outer extensions up to and including the one named,
\* which is copied.  st.rest is what outer_ext still points to.
TakeReference(st, type) ==
    LET at == {i \in DOMAIN st.rest : st.rest[i].type = type}
        i == CHOOSE k \in at : \A j \in at : k <= j
    IN IF st.bad \/ type = "ech" \/ at = {} THEN [st EXCEPT !.bad = TRUE]
       ELSE [st EXCEPT !.out = Append(@, st.rest[i]), !.rest = SubSeq(@, i + 1, Len(@))]

\* The references of one outer_extensions, in order.
TakeReferences(st, types) ==
    LET taken[n \in 0 .. Len(types)] ==
            IF n = 0 THEN st ELSE TakeReference(taken[n - 1], types[n])
    IN taken[Len(types)]

RebuildOne(st, ext) ==
    IF ext.type # "outer_extensions" THEN [st EXCEPT !.out = Append(@, ext)]
    ELSE IF ext.list = <<>> THEN [st EXCEPT !.bad = TRUE]
    ELSE TakeReferences(st, ext.list)

\* rebuild_ch_inner_extensions
RebuildExtensions(exts, outer) ==
    LET rebuilt[n \in 0 .. Len(exts)] ==
            IF n = 0 THEN [out |-> <<>>, rest |-> outer, bad |-> FALSE]
            ELSE RebuildOne(rebuilt[n - 1], exts[n])
    IN rebuilt[Len(exts)]

\* An encoded inner hello with a session id of its own is refused; the outer
\* one's is put in.  "bad" is PTLS_ALERT_ILLEGAL_PARAMETER.
RebuildChInner(encoded, outer) ==
    LET r == RebuildExtensions(encoded.exts, outer.exts)
    IN [bad |-> encoded.session \/ r.bad,
        hello |-> [encoded EXCEPT !.session = outer.session, !.exts = r.out]]

---------------------------------------------------------------------------
(* decode_client_hello.                                                    *)

\* extension_bitmap_testandset: the extensions allowed in a ClientHello, and
\* which were seen.
AllowedInHello == KnownExtensions \ {"outer_extensions"}
TestAndSet(seen, type) ==
    [ok |-> type \notin KnownExtensions \/ (type \in AllowedInHello /\ type \notin seen),
     seen |-> seen \cup ({type} \cap KnownExtensions)]

\* The slots of a fixed-size list, filled while there is room.
Capped(list) == SubSeq(list, 1, IF Len(list) < ListCapacity THEN Len(list) ELSE ListCapacity)

NoHello ==
    [sni |-> <<>>, alpn |-> <<>>, certTypes |-> <<>>, compress |-> <<>>, groups |-> <<>>,
     hasGroups |-> FALSE, sigalgs |-> <<>>, shares |-> <<>>, hasShares |-> FALSE,
     version |-> "", cookie |-> <<>>, ids |-> <<>>, binders |-> <<>>, hashEnd |-> FALSE,
     last |-> FALSE, modes |-> {}, early |-> FALSE, status |-> FALSE, tickets |-> <<>>,
     ech |-> "", unknown |-> <<>>]

\* Does the body of the extension decode?  Every list has at least one entry
\* except the raw ones, which are looked at later.
NonEmpty == {"sni", "alpn", "certtype", "compress", "sigalgs", "versions", "psk", "modes",
             "cookie", "ech"}
WellFormed(e) ==
    /\ e.type \in NonEmpty => e.list # <<>>
    /\ e.type \in {"sni", "alpn", "psk"} => \A i \in DOMAIN e.list : e.list[i] # ""
    /\ e.type = "certtype" => e.list # <<"x509">>
    /\ e.type = "psk" => e.aux # <<>>
    /\ e.type = "tickets" => Len(e.list) = 2
    /\ e.type = "ech" /\ e.list[1] = "inner" => Len(e.list) = 1
    /\ e.type = "ech" /\ e.list[1] = "outer" => Len(e.list) = 2

\* Is the extension, once decoded, one this server takes?
Legal(e, ch) ==
    /\ e.type = "sni" => \A i \in DOMAIN e.list : e.list[i] # "nul"
    /\ e.type = "cookie" => hserver.cookieKey
    /\ e.type = "psk" => Len(e.list) = Len(e.aux)
    /\ e.type = "ech" => e.list[1] \in {"inner", "outer"}
    /\ e.type \in hserver.wants => e.type \notin ToSet(ch.unknown)

\* What the switch over the type leaves in ch; is_last_extension is reset by
\* every extension before it is set by pre_shared_key.
Decoded(e, ch0) ==
    LET ch == [ch0 EXCEPT !.last = FALSE] IN
    CASE e.type = "sni" -> [ch EXCEPT !.sni = <<e.list[Len(e.list)]>>]
      [] e.type = "alpn" -> [ch EXCEPT !.alpn = Capped(e.list)]
      [] e.type = "certtype" -> [ch EXCEPT !.certTypes = Capped(e.list)]
      [] e.type = "compress" -> [ch EXCEPT !.compress = Capped(e.list)]
      [] e.type = "groups" -> [ch EXCEPT !.groups = e.list, !.hasGroups = TRUE]
      [] e.type = "sigalgs" -> [ch EXCEPT !.sigalgs = Capped(e.list)]
      [] e.type = "share" -> [ch EXCEPT !.shares = e.list, !.hasShares = TRUE]
      [] e.type = "versions" -> [ch EXCEPT !.version = IF "tls13" \in ToSet(e.list) THEN "tls13" ELSE ""]
      [] e.type = "cookie" -> [ch EXCEPT !.cookie = e.list]
      [] e.type = "psk" -> [ch EXCEPT !.ids = Capped(e.list), !.binders = Capped(e.aux),
                                      !.hashEnd = TRUE, !.last = TRUE]
      [] e.type = "modes" -> [ch EXCEPT !.modes = ToSet(e.list) \cap {"psk", "psk_dhe"}]
      [] e.type = "early" -> [ch EXCEPT !.early = TRUE]
      [] e.type = "status" -> [ch EXCEPT !.status = TRUE]
      [] e.type = "tickets" -> [ch EXCEPT !.tickets = e.list]
      [] e.type = "ech" -> [ch EXCEPT !.ech = e.list[1]]
      [] e.type \in hserver.wants -> [ch EXCEPT !.unknown = Capped(Append(@, e.type))]
      [] OTHER -> ch

\* The fields before the extensions; nothing older than TLS 1.0 is decoded.
DecodeFields ==
    /\ hstep = "fields"
    /\ hstep' = IF hin.version < 769 THEN "protocol_version"
                ELSE IF hin.compression = <<>> THEN "decode_error" ELSE "decode"
    /\ UNCHANGED <<hclient, hserver, hin, hpos, hseen, hch, hsrv>>

\* One turn of decode_extensions.
DecodeExtension ==
    /\ hstep = "decode" /\ hpos < Len(hin.exts)
    /\ LET e == hin.exts[hpos + 1]
           t == TestAndSet(hseen, e.type)
           bad == IF ~t.ok THEN "illegal" ELSE IF ~WellFormed(e) THEN "decode_error"
                  ELSE IF ~Legal(e, hch) THEN "illegal" ELSE ""
       IN IF bad # "" THEN hstep' = bad /\ UNCHANGED <<hpos, hseen, hch>>
          ELSE /\ hpos' = hpos + 1
               /\ hseen' = t.seen
               /\ hch' = Decoded(e, hch)
               /\ UNCHANGED hstep
    /\ UNCHANGED <<hclient, hserver, hin, hsrv>>

\* Mutated Constraints: is_last_extension is not looked at.
Constraints_AnyPlace(ch) ==
    IF ch.version # "tls13" THEN IF hsrv.inner THEN "illegal" ELSE "protocol_version"
    ELSE IF \/ hin.compression # <<0>>
            \/ ~ch.hashEnd /\ ch.early
            \/ hsrv.inner /\ ch.ech # "inner"
            \/ ~hsrv.inner /\ ch.ech = "inner"
         THEN "illegal" ELSE "negotiate"

\* check_client_hello_constraints
Constraints(ch) ==
    IF ch.version # "tls13" THEN IF hsrv.inner THEN "illegal" ELSE "protocol_version"
    ELSE IF \/ hin.compression # <<0>>
            \/ ch.hashEnd /\ ~ch.last
            \/ ~ch.hashEnd /\ ch.early
            \/ hsrv.inner /\ ch.ech # "inner"
            \/ ~hsrv.inner /\ ch.ech = "inner"
         THEN "illegal" ELSE "negotiate"

CheckConstraints ==
    /\ hstep = "decode" /\ hpos = Len(hin.exts)
    /\ hstep' = Constraints(hch)
    /\ hch' = [hch EXCEPT !.modes = IF hserver.dheOnly THEN @ \ {"psk"} ELSE @]
    /\ UNCHANGED <<hclient, hserver, hin, hpos, hseen, hsrv>>

---------------------------------------------------------------------------
(* Negotiation: the part of server_handle_hello up to the key exchange.    *)

\* Mutated SelectOne: the priority of ChaCha20 outlives the first entry.
SelectOne_KeepChacha(candidates, preference, hash, st, id) ==
    LET at == {i \in DOMAIN candidates : candidates[i] = id /\ (hash = {} \/ id \in hash)}
        i == CHOOSE k \in at : \A j \in at : k <= j
    IN IF st.done \/ at = {} THEN st
       ELSE IF preference /\ ~(st.chacha /\ id = Chacha)
            THEN LET f == IF st.found = 0 \/ i < st.found THEN i ELSE st.found
                 IN [st EXCEPT !.found = f, !.done = f = 1]
            ELSE [found |-> i, done |-> TRUE, chacha |-> FALSE]

\* select_cipher.  One entry of the client's list; found is the best index so
\* far, 0 if none; chacha is server_cipher_chacha_priority, dropped after the
\* first entry; only suites of the pre-shared key's hash count.
SelectOne(candidates, preference, hash, st, id) ==
    LET at == {i \in DOMAIN candidates : candidates[i] = id /\ (hash = {} \/ id \in hash)}
        i == CHOOSE k \in at : \A j \in at : k <= j
    IN IF st.done THEN st
       ELSE IF at = {} THEN [st EXCEPT !.chacha = FALSE]
       ELSE IF preference /\ ~(st.chacha /\ id = Chacha)
            THEN LET f == IF st.found = 0 \/ i < st.found THEN i ELSE st.found
                 IN [st EXCEPT !.found = f, !.done = f = 1, !.chacha = FALSE]
            ELSE [found |-> i, done |-> TRUE, chacha |-> FALSE]

\* The index of the suite selected in candidates, 0 for HANDSHAKE_FAILURE.
SelectCipher(candidates, ids, preference, chacha, hash) ==
    LET after[n \in 0 .. Len(ids)] ==
            IF n = 0 THEN [found |-> 0, done |-> FALSE, chacha |-> chacha]
            ELSE SelectOne(candidates, preference, hash, after[n - 1], ids[n])
    IN after[Len(ids)].found

\* The first entry of a list that is in S, or <<>>.
FirstIn(list, S) ==
    LET at == {i \in DOMAIN list : list[i] \in S}
    IN IF at = {} THEN <<>> ELSE <<list[CHOOSE k \in at : \A j \in at : k <= j]>>

\* select_key_share without expect_one: the first share of a group we have.
SelectKeyShare(groups, shares) == FirstIn(shares, ToSet(groups))

\* select_negotiated_group
SelectNegotiatedGroup(groups, offered) == FirstIn(offered, ToSet(groups))

\* certificate_type_exists
CertificateTypeExists(list, type) == (type = "x509" /\ list = <<>>) \/ type \in ToSet(list)

\* The key share selected: <<>> or one group first.
Share(ch) == IF ch.hasShares THEN SelectKeyShare(hserver.groups, ch.shares) ELSE <<>>

\* try_psk_handshake as far as it matters here: an identity is known, the one
\* of the context or, in a first flight, that of a ticket.  Its binder is taken
\* to hold (Handshake has the binders).
KnownIdentities(second) ==
    CASE hserver.psk = "external" -> {"ext"}
      [] hserver.psk = "ticket" /\ ~second /\ hserver.groups # <<>> -> {"id0"}
      [] OTHER -> {}
PskChosen(ch, second) ==
    /\ ch.hashEnd /\ ch.modes # {} /\ ~hserver.clientAuth
    /\ FirstIn(ch.ids, KnownIdentities(second)) # <<>>

\* The end of the flight: a server with an external key insists on it; psk_ke
\* needs no share.
KeyExchange(ch, second) ==
    IF hserver.psk = "external" /\ ~PskChosen(ch, second) THEN "unknown_psk_identity"
    ELSE IF PskChosen(ch, second) /\ "psk" \in ch.modes THEN "psk"
    ELSE IF Share(ch) # <<>> THEN "ok"
    ELSE IF ch.hasShares THEN "handshake_failure" ELSE "missing_extension"

\* A cookie that comes with a share makes a first flight the second one.
CookieReturned(ch) == ~hsrv.second /\ ch.cookie # <<>> /\ Share(ch) # <<>>

\* Is a HelloRetryRequest called for?
NeedsRetry(ch) ==
    /\ ~hsrv.second /\ ~CookieReturned(ch)
    /\ ch.hasShares /\ hserver.groups # <<>>
    /\ Share(ch) = <<>> \/ hserver.enforceRetry

\* The checks that come before the selection of a cipher suite.
Refusal(ch) ==
    IF ~hsrv.second
    THEN IF CertificateTypeExists(ch.certTypes, IF hserver.raw THEN "raw" ELSE "x509")
         THEN "" ELSE "unsupported_certificate"
    ELSE IF ch.early THEN "decode_error"
    ELSE IF hsrv.name # <<>> /\ ch.sni # hsrv.name THEN "handshake_failure" ELSE ""

\* ptls_set_server_name in on_client_hello.
SavedName(ch) == IF ~hsrv.second /\ hserver.savesName THEN ch.sni ELSE hsrv.name

Negotiate ==
    LET ch == hch
        suite == SelectCipher(hserver.suites, hin.suites, hserver.preference, hserver.chacha, hserver.pskSuites)
        group == SelectNegotiatedGroup(hserver.groups, ch.groups)
        end(how, new) == hstep' = how /\ hsrv' = new
        now == [hsrv EXCEPT !.suite = suite, !.name = SavedName(ch)]
        stateless == hserver.cookieKey /\ ~hsrv.inner
    IN /\ hstep = "negotiate"
       /\ \/ Refusal(ch) # "" /\ end(Refusal(ch), hsrv)
          \/ /\ Refusal(ch) = ""
             /\ suite = 0 \/ (hsrv.second /\ suite # hsrv.suite)
             /\ end("handshake_failure", now)
          \/ /\ Refusal(ch) = ""
             /\ suite # 0 /\ (hsrv.second => suite = hsrv.suite)
             /\ IF CookieReturned(ch) /\ ch.cookie # Share(ch) THEN end("handshake_failure", now)
                ELSE IF ~NeedsRetry(ch) THEN end(KeyExchange(ch, hsrv.second \/ CookieReturned(ch)), now)
                ELSE IF ~ch.hasGroups THEN end("missing_extension", now)
                ELSE IF group = <<>> THEN end("handshake_failure", now)
                ELSE end("retry",
                         [IF stateless THEN [now EXCEPT !.suite = 0, !.name = <<>>] ELSE [now EXCEPT !.second = TRUE]
                          EXCEPT !.retries = @ + 1, !.cookie = IF stateless THEN group ELSE <<>>,
                                 !.group = IF Share(ch) = <<>> THEN <<group[1]>> ELSE <<>>])
       /\ UNCHANGED <<hclient, hserver, hin, hpos, hseen, hch>>

---------------------------------------------------------------------------
(* The client's side of a retry, and the specification.                    *)

\* What reaches the server: the inner hello it rebuilt if there is one.
Arriving(c, inner, share, second, cookie) ==
    IF inner THEN RebuildChInner(EncodeClientHello(c, "encoded", share, second, cookie),
                                 EncodeClientHello(c, "outer", share, second, cookie))
    ELSE [bad |-> FALSE, hello |-> EncodeClientHello(c, IF c.ech THEN "outer" ELSE "inner", share, second, cookie)]

\* Hellos of other clients, bare or wrapped in an outer one.
OtherHello(version, compression, exts) ==
    [version |-> version, session |-> FALSE, suites |-> <<Chacha, "aes">>, compression |-> compression, exts |-> exts]
OtherHellos ==
    {OtherHello(768, <<0>>, <<>>), OtherHello(769, <<0>>, <<>>), OtherHello(772, <<>>, <<>>)}
    \cup {OtherHello(772, <<0>>, <<Ext("versions", <<"tls13">>)>> \o s) :
             s \in SeqOf(OtherExtensions, MaxExtensions)}
OtherOuter ==
    [version |-> 772, session |-> TRUE, suites |-> <<"aes">>, compression |-> <<0>>,
     exts |-> <<Ext("ech", <<"outer", "payload">>), Ext("share", <<"g1">>), Ext("alpn", <<"h2">>), Ext("groups", <<"g1">>)>>]

HelloBegins(arriving, inner) ==
    /\ hin = arriving.hello
    /\ hsrv = [second |-> FALSE, inner |-> inner, suite |-> 0, name |-> <<>>, retries |-> 0,
               cookie |-> <<>>, group |-> <<>>]
    /\ hstep = IF arriving.bad THEN "illegal" ELSE "fields"

HelloInit ==
    /\ hserver \in ServerContexts
    /\ hpos = 0 /\ hseen = {} /\ hch = NoHello
    /\ \/ /\ hclient \in ClientContexts
          /\ \E inner \in {FALSE, hclient.ech} : HelloBegins(Arriving(hclient, inner, FirstShare(hclient), FALSE, <<>>), inner)
       \/ /\ hclient = [library |-> FALSE]
          /\ \E h \in OtherHellos :
                \/ HelloBegins([bad |-> FALSE, hello |-> h], FALSE)
                \/ HelloBegins(RebuildChInner(h, OtherOuter), TRUE)

\* handle_hello_retry_request and the second send_client_hello: the group
\* asked for must be one of ours; without one the share stays.
ClientRetry ==
    /\ hstep = "retry" /\ hclient.library
    /\ LET asked == hsrv.group
           share == IF asked # <<>> THEN asked ELSE FirstShare(hclient)
           next == Arriving(hclient, hsrv.inner, share, TRUE, hsrv.cookie)
       IN IF (asked # <<>> /\ asked[1] \notin ToSet(hclient.groups)) \/ share = <<>>
          THEN hstep' = "client_illegal" /\ UNCHANGED <<hin, hpos, hseen, hch>>
          ELSE /\ hin' = next.hello
               /\ hstep' = IF next.bad THEN "illegal" ELSE "fields"
               /\ hpos' = 0 /\ hseen' = {} /\ hch' = NoHello
    /\ UNCHANGED <<hclient, hserver, hsrv>>

\* Another client answers with the same extensions and any suites.
OtherRetry ==
    /\ hstep = "retry" /\ ~hclient.library /\ hsrv.retries = 1 /\ hsrv.second
    /\ \E suites \in {hin.suites, <<Chacha>>} : hin' = [hin EXCEPT !.suites = suites]
    /\ hstep' = "fields"
    /\ hpos' = 0 /\ hseen' = {} /\ hch' = NoHello
    /\ UNCHANGED <<hclient, hserver, hsrv>>

HelloNext == DecodeFields \/ DecodeExtension \/ CheckConstraints \/ Negotiate \/ ClientRetry \/ OtherRetry

HelloSpec == HelloInit /\ [][HelloNext]_hvars

---------------------------------------------------------------------------
(* Properties.                                                             *)

Accepted == hstep \in {"ok", "psk"}
HelloOver == hstep \notin {"fields", "decode", "negotiate", "retry"}

\* The inner ClientHello a server rebuilds from the encoded one and the outer
\* one is, extension for extension, the one the client put in its transcript
\* (encode_client_hello in its three modes against rebuild_ch_inner).
RebuildExact ==
    hclient.library /\ hsrv.inner /\ hstep # "illegal" =>
        \E share \in {FirstShare(hclient), hsrv.group}, second \in BOOLEAN :
            hin = EncodeClientHello(hclient, "inner", share, second, <<>>)

\* What the server's policy is meant to choose: the client's first suite if it
\* is ChaCha20 and that has priority, else the best of its own list if it has
\* a preference, else the client's first usable one (0: none).
PolicySuite ==
    LET own == hserver.suites
        ok == {i \in DOMAIN own : own[i] \in ToSet(hin.suites) /\ (hserver.pskSuites = {} \/ own[i] \in hserver.pskSuites)}
        best == CHOOSE i \in ok : \A j \in ok : i <= j
        theirs == CHOOSE n \in DOMAIN hin.suites : /\ \E i \in ok : own[i] = hin.suites[n]
                                                  /\ \A m \in 1..(n - 1) : \A i \in ok : own[i] # hin.suites[m]
    IN IF ok = {} THEN 0
       ELSE IF hserver.preference /\ ~(hserver.chacha /\ theirs = 1 /\ hin.suites[1] = Chacha) THEN best
       ELSE CHOOSE i \in ok : own[i] = hin.suites[theirs] /\ \A j \in ok : own[j] = own[i] => i <= j

\* Whatever the two lists are, select_cipher settles on the suite the policy
\* calls for, in the first flight and after a retry.
SuiteByPolicy == Accepted => hsrv.suite = PolicySuite

\* The server has an external key and cannot agree on it: the client has none,
\* or hides it in an inner hello the server did not see, or the server wants a
\* certificate of the client.
KeyNotAgreed ==
    /\ hserver.psk = "external"
    /\ hclient.psk # "external" \/ (hclient.ech /\ ~hsrv.inner) \/ hserver.clientAuth

\* A stateless retry without need: the cookie is signed for the group the
\* server would pick and checked for that of the share, which is another one
\* if the client resumes a session of that group.
CookieOfAnotherGroup ==
    /\ hserver.enforceRetry /\ hserver.cookieKey /\ ~hsrv.inner
    /\ ToSet(FirstShare(hclient)) \cap ToSet(hserver.groups) # {}
    /\ SelectNegotiatedGroup(hserver.groups, hclient.groups) # FirstShare(hclient)

\* Two ends of this library need at most one HelloRetryRequest, and fail to
\* agree only if they have no suite, no group or no certificate type in common,
\* cannot agree on the external key the server insists on, or meet the cookie
\* of another group.
CommonMeansSuccess ==
    /\ hsrv.retries <= 1
    /\ hclient.library /\ HelloOver /\ ~Accepted =>
          \/ PolicySuite = 0
          \/ ToSet(hclient.groups) \cap ToSet(hserver.groups) = {}
          \/ hclient.raw # hserver.raw
          \/ KeyNotAgreed
          \/ CookieOfAnotherGroup

\* A ClientHello that is accepted names no extension of the table twice, has
\* pre_shared_key as its last extension if at all, early data only with it,
\* as many binders as identities in the slots kept, and no inner ECH marker
\* unless it came out of an encrypted one.
AcceptedIsWellFormed ==
    Accepted =>
        LET types == [i \in DOMAIN hin.exts |-> hin.exts[i].type]
            has(t) == t \in ToSet(types)
        IN /\ \A i, j \in DOMAIN types : types[i] = types[j] /\ types[i] \in KnownExtensions => i = j
           /\ has("psk") => types[Len(types)] = "psk"
           /\ has("early") => has("psk")
           /\ Len(hch.ids) = Len(hch.binders)
           /\ hsrv.inner <=> hch.ech = "inner"

\* A server with an external key completes no flight without it: the hello it
\* accepts offered that identity, whatever else it offered and however often it
\* was asked again (server_handle_hello after try_psk_handshake).
KeyInsistedOn == Accepted /\ hserver.psk = "external" => "ext" \in ToSet(hch.ids) /\ ~hserver.clientAuth

\* The hellos settle what they should: select_cipher and select_negotiated_group
\* choose by policy, an external key is not done without, and ends that have
\* something in common find it with at most one retry, except for the cookie of
\* another group.
NegotiatesByPolicy == SuiteByPolicy /\ KeyInsistedOn /\ CommonMeansSuccess

===============================================================================
