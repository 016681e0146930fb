------------------------------- MODULE MCInput -------------------------------
(***************************************************************************)
(* What a peer sends, in one run: its records and the messages in them     *)
(* (Records), and what its first flight settles (Hello, Ech, Tickets).  A  *)
(* behaviour is one of the four; the other three stay in one initial       *)
(* state.                                                                  *)
(***************************************************************************)
EXTENDS Records, Hello, Ech, Tickets

VARIABLE which   \* the component that moves, fixed

Mode(keyed, skipping, takesData, post, tls12) ==
    [keyed |-> keyed, skipping |-> skipping, takesData |-> takesData,
     post |-> post, tls12 |-> tls12]

\* Before there are keys: a first flight, and a server that asked for another
\* ClientHello and skips the early data behind the first one.
MCClear == {Mode(FALSE, FALSE, FALSE, FALSE, FALSE), Mode(FALSE, TRUE, FALSE, FALSE, FALSE)}

\* With keys: during the handshake, skipping rejected early data, reading
\* accepted early data, after the handshake, and with TLS 1.2.
MCKeyed == {Mode(TRUE, FALSE, FALSE, FALSE, FALSE), Mode(TRUE, TRUE, FALSE, FALSE, FALSE),
            Mode(TRUE, FALSE, TRUE, FALSE, FALSE), Mode(TRUE, FALSE, TRUE, TRUE, FALSE),
            Mode(TRUE, FALSE, TRUE, TRUE, TRUE)}

MCModes == MCClear \cup MCKeyed

\* Enough values for whole handshake messages, and of every content type where
\* fewer cells arrive.
MCCells == [m \in MCModes |->
    IF m.post THEN {0, 1, 2, 3, 4} ELSE IF m.keyed \/ m.skipping THEN {1, 3, 4} ELSE {0, 1, 2, 3}]
MCMaxCells == [m \in MCModes |-> IF m.post THEN 6 ELSE IF m.skipping \/ m.takesData THEN 9 ELSE IF m.keyed THEN 10 ELSE 8]

\* A message without a body is refused.
MCRefused == {<<0>>}

\* Clients of this library, from one that sends as little as possible to one
\* that offers everything, with several orders of suites and groups.
PlainClient ==
    [library |-> TRUE, suites |-> <<"aes", "chacha">>, groups |-> <<"g1", "g2">>, algos |-> <<>>,
     extra |-> <<>>, alpn |-> <<>>, decompress |-> FALSE, raw |-> FALSE, save |-> FALSE,
     tickets |-> FALSE, psk |-> "none", ticketGroup |-> "g2", early |-> FALSE, dheOnly |-> FALSE, ech |-> FALSE,
     sni |-> TRUE, negotiateFirst |-> FALSE]
FullClient ==
    [PlainClient EXCEPT !.algos = <<"rsa_pss">>, !.extra = <<"x">>, !.alpn = <<"h2", "h3", "h4">>,
                        !.decompress = TRUE, !.save = TRUE, !.tickets = TRUE, !.psk = "ticket",
                        !.early = TRUE, !.ech = TRUE]
MCClientContexts ==
    {[c EXCEPT !.suites = s, !.groups = g, !.negotiateFirst = n, !.raw = r, !.dheOnly = d, !.ech = e] :
        c \in {PlainClient, FullClient, [FullClient EXCEPT !.psk = "external"]},
        s \in {<<"aes", "chacha">>, <<"chacha", "aes">>, <<"aes">>, <<"chacha", "gcm", "aes">>},
        g \in {<<"g1", "g2">>, <<"g2">>}, n \in BOOLEAN, r \in BOOLEAN, d \in BOOLEAN, e \in BOOLEAN}

\* Servers with and without preferences, retries, cookies, keys and names.
PlainServer ==
    [suites |-> <<"gcm", "aes", "chacha">>, groups |-> <<"g1">>, preference |-> TRUE, chacha |-> TRUE,
     pskSuites |-> {}, raw |-> FALSE, cookieKey |-> FALSE, wants |-> {"x"}, dheOnly |-> FALSE,
     psk |-> "ticket", clientAuth |-> FALSE, savesName |-> TRUE, enforceRetry |-> FALSE]
MCServerContexts ==
    {[PlainServer EXCEPT !.preference = p, !.chacha = p /\ r, !.enforceRetry = r, !.cookieKey = k,
                         !.dheOnly = p, !.psk = IF r /\ ~p THEN "none" ELSE "ticket"] :
        p \in BOOLEAN, r \in BOOLEAN, k \in BOOLEAN}
    \cup {[PlainServer EXCEPT !.psk = "external", !.pskSuites = {"aes"}, !.enforceRetry = k, !.cookieKey = k] :
             k \in BOOLEAN}
    \cup {[PlainServer EXCEPT !.raw = TRUE, !.groups = <<"g1", "g2">>],
          [PlainServer EXCEPT !.groups = <<"g1", "g2">>, !.enforceRetry = TRUE, !.cookieKey = TRUE],
          [PlainServer EXCEPT !.psk = "external", !.pskSuites = {"aes"}, !.clientAuth = TRUE, !.savesName = FALSE]}

\* What hellos of other clients are made of: extensions well-formed and not.
PskExt(identities, binders) == [type |-> "psk", list |-> identities, aux |-> binders]
MCOtherExtensions ==
    {Ext("share", <<"g1">>), Ext("share", <<>>), Ext("groups", <<"g1">>), Ext("sni", <<"name">>),
     Ext("sni", <<"nul">>), Ext("early", <<>>), Ext("modes", <<"psk">>), Ext("ech", <<"inner">>),
     Ext("ech", <<"outer", "p">>), Ext("outer_extensions", <<"share", "groups">>),
     Ext("outer_extensions", <<"groups", "share">>), Ext("x", <<>>), Ext("y", <<>>),
     Ext("cookie", <<"g1">>), Ext("cookie", <<"g2">>),
     PskExt(<<"id0">>, <<"b0">>), PskExt(<<"id1", "ext">>, <<"b1", "b0">>),
     PskExt(<<"id1", "id2", "id0">>, <<"b1", "b2", "b0">>),
     PskExt(<<"id0">>, <<"b0", "b1">>)}

\* ECH configurations: one that can be used, those that cannot for one reason
\* each, and lists of both.
GoodConfig == [version |-> TRUE, kem |-> TRUE, cipher |-> TRUE, ip |-> FALSE, critical |-> FALSE,
               broken |-> FALSE, id |-> 1, key |-> 1]
OddConfigs ==
    {[GoodConfig EXCEPT !.version = FALSE, !.broken = TRUE], [GoodConfig EXCEPT !.kem = FALSE],
     [GoodConfig EXCEPT !.cipher = FALSE], [GoodConfig EXCEPT !.ip = TRUE],
     [GoodConfig EXCEPT !.critical = TRUE], [GoodConfig EXCEPT !.broken = TRUE]}
ConfigLists ==
    {<<GoodConfig>>, <<[GoodConfig EXCEPT !.id = 2, !.key = 2]>>, <<[GoodConfig EXCEPT !.key = 3]>>}
    \cup {<<o, GoodConfig>> : o \in OddConfigs} \cup {<<o>> : o \in OddConfigs}
    \cup {<<[GoodConfig EXCEPT !.id = 3], o>> : o \in OddConfigs}
MCEchScenarios ==
    {[sni |-> n, offer |-> o, configs |-> IF o = "configs" THEN l ELSE <<>>, greasable |-> g,
      opener |-> op, keys |-> <<1, 2>>, retryConfigs |-> rc, retry |-> r, savesName |-> sn,
      library |-> lib] :
        n \in BOOLEAN, o \in {"no", "grease", "configs"}, l \in ConfigLists, g \in BOOLEAN,
        op \in BOOLEAN, rc \in BOOLEAN, r \in BOOLEAN, sn \in BOOLEAN, lib \in BOOLEAN}

\* Clocks a little apart, three server contexts to move between, three
\* requests of which one server name is a prefix of another.
MCSkews == {-1, 2}
PlainTickets == [context |-> None, groups |-> {"g1", "g2"}, lifetime |-> 4, maxEarly |-> TRUE,
                 store |-> "hmac", keys |-> {1, 2}, key |-> 1]
MCContexts ==
    {PlainTickets,
     [PlainTickets EXCEPT !.context = "c1", !.key = 2, !.keys = {2}, !.store = "evp"],
     [PlainTickets EXCEPT !.lifetime = 2, !.store = "cache", !.groups = {"g1"}]}
MCRequests ==
    {[name |-> <<>>, alpn |-> None, suite |-> "s1"], [name |-> <<"a">>, alpn |-> "h2", suite |-> "s1"],
     [name |-> <<"a", "b">>, alpn |-> "h2", suite |-> "s1"]}

-----------------------------------------------------------------------------
RecordsRest == mode = (CHOOSE m \in Modes : TRUE) /\ Init
HelloRests == hserver = (CHOOSE c \in ServerContexts : TRUE) /\ hclient = PlainClient /\ HelloInit
EchRests == sc = (CHOOSE s \in EchScenarios : TRUE) /\ EchInit
TicketsRest == skew = (CHOOSE d \in Skews : TRUE) /\ sctx = PlainTickets /\ TicketsInit

InputInit ==
    \/ which = "records" /\ HelloRests /\ EchRests /\ TicketsRest /\ Init
    \/ which = "hello" /\ RecordsRest /\ EchRests /\ TicketsRest /\ HelloInit
    \/ which = "ech" /\ RecordsRest /\ HelloRests /\ TicketsRest /\ EchInit
    \/ which = "tickets" /\ RecordsRest /\ HelloRests /\ EchRests /\ TicketsInit

InputNext ==
    \/ which = "records" /\ Next /\ UNCHANGED <<which, hvars, evars, tvars>>
    \/ which = "hello" /\ HelloNext /\ UNCHANGED <<which, vars, evars, tvars>>
    \/ which = "ech" /\ EchNext /\ UNCHANGED <<which, vars, hvars, tvars>>
    \/ which = "tickets" /\ TicketsNext /\ UNCHANGED <<which, vars, hvars, evars>>

InputSpec == InputInit /\ [][InputNext]_<<which, vars, hvars, evars, tvars>>
=============================================================================
