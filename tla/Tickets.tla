------------------------------- MODULE Tickets -------------------------------
(***************************************************************************)
(* Session tickets over the life of several connections: what a server     *)
(* writes into a ticket and seals (send_session_ticket, the OpenSSL ticket *)
(* callbacks and the session cache of t/util.h), what a client stores with *)
(* it, when the client offers it again, and what a server whose context,   *)
(* keys and clock have moved on makes of it (try_psk_handshake).           *)
(*                                                                         *)
(* A resumption secret is the number of the session it comes from.  Time   *)
(* is in units of the ticket clock (milliseconds in the code); the clocks  *)
(* of the ends differ by a constant.  The age on the wire is a uint32_t:   *)
(* it is computed modulo AgeMod.                                           *)
(***************************************************************************)
EXTENDS Integers, Sequences, FiniteSets, SequencesExt

CONSTANTS
    AgeMod,      \* 2^32: ages and age_add are uint32_t
    Week,        \* 7 * 86400 * 1000 in decode_stored_session_ticket
    Window,      \* PTLS_EARLY_DATA_MAX_DELAY
    AgeAdds,     \* values of ticket_age_add considered
    Skews,       \* differences between the server's and the client's clock
    Contexts,    \* server contexts considered
    Requests,    \* server name, ALPN and cipher suite of a connection
    None,        \* "not present"
    MaxTime,     \* bound: instants
    MaxSessions  \* bound: full handshakes that send a ticket

\* ptls_context_t of a server, as far as tickets go.
TicketContext ==
    [context : {None, "c1", "c2"},     \* ticket_context, if is_set
     groups : SUBSET {"g1", "g2"},     \* key_exchanges
     lifetime : Nat, maxEarly : BOOLEAN,
     store : {"hmac", "evp", "cache"}, \* encrypt_ticket
     keys : SUBSET (1..2),             \* the ticket keys its callback knows
     key : 1..2]                       \* the one it seals with

\* A ticket_context (a SHA-256 digest) is nobody's server name: the
\* session identifier has one field for either.
ASSUME TicketsAssumption ==
    /\ AgeMod \in Nat /\ Week \in Nat /\ Window \in Nat /\ Skews \subseteq Int
    /\ MaxTime \in Nat /\ MaxSessions \in Nat
    /\ Week < AgeMod
    /\ AgeAdds \subseteq 0..(AgeMod - 1)
    /\ Contexts \subseteq TicketContext
    /\ \A r \in Requests : r.name \in Seq(STRING) \ {<<"c1">>, <<"c2">>}

VARIABLES
    now,        \* true time
    skew,       \* server clock - client clock
    sctx,       \* the server's context
    cache,      \* session cache: the label of the one entry it holds
    sessions,   \* history: sessions[n] is what session n was negotiated as
    ticket,     \* NewSessionTicket on its way to the client, or None
    saved,      \* what the client's save_ticket stored
    hello,      \* the ClientHello in flight, or None
    resumed     \* what the server made of the last ClientHello, or None

tvars == <<now, skew, sctx, cache, sessions, ticket, saved, hello, resumed>>

ClientClock == now
ServerClock == now + skew

---------------------------------------------------------------------------
(* Sealing and opening tickets.                                            *)

\* A sealed ticket: the name of its key (or the entry of the cache), its
\* contents, and whether its HMAC is the one that key gives.
SealTicket(label, plain) == [label |-> label, plain |-> plain, genuine |-> TRUE]

\* The HMAC is checked before anything is decrypted; an unknown key name
\* makes the callback return 0.
OpensTicket(t) == t.label \in sctx.keys /\ t.genuine

\* The same steps over EVP_MAC instead of HMAC_CTX.
SealTicketEvp(label, plain) == SealTicket(label, plain)
OpensTicketEvp(t) == OpensTicket(t)

\* The session cache keeps one entry; a new ticket replaces it.
CacheOpens(t) == t.label = cache /\ t.genuine

\* encrypt_ticket with is_encrypt = 1 for session n, and whether it succeeds.
CanEncryptTicket == sctx.store = "cache" \/ sctx.key \in sctx.keys
EncryptTicket(n, plain) ==
    CASE sctx.store = "hmac"  -> SealTicket(sctx.key, plain)
      [] sctx.store = "evp"   -> SealTicketEvp(sctx.key, plain)
      [] sctx.store = "cache" -> SealTicket(100 + n, plain)

\* encrypt_ticket with is_encrypt = 0: whether it returns 0.
DecryptTicket(t) ==
    CASE sctx.store = "hmac"  -> OpensTicket(t)
      [] sctx.store = "evp"   -> OpensTicketEvp(t)
      [] sctx.store = "cache" -> CacheOpens(t)

---------------------------------------------------------------------------
(* Issuing and storing.                                                    *)

\* encode_session_identifier: the ticket_context if set, else the server
\* name, if any; the names are sequences, <<>> is "not present".
SessionContext(name) == IF sctx.context # None THEN <<sctx.context>> ELSE name

SessionIdentifier(n, req, group, age_add) ==
    [issuedAt |-> ServerClock, secret |-> n, group |-> group, suite |-> req.suite,
     ageAdd |-> age_add, context |-> SessionContext(req.name), alpn |-> req.alpn]

\* A full handshake that ends with a ticket: send_session_ticket.  If the
\* callback fails, so does the server's whole flight.
SendSessionTicket(req, group, age_add) ==
    LET n == Len(sessions) + 1
        plain == SessionIdentifier(n, req, group, age_add)
    IN /\ Len(sessions) < MaxSessions
       /\ ticket = None
       /\ sctx.lifetime # 0
       /\ group \in sctx.groups
       /\ CanEncryptTicket
       /\ sessions' = Append(sessions,
              [request |-> req, group |-> group, context |-> sctx.context, at |-> now])
       /\ ticket' = [lifetime |-> sctx.lifetime, ageAdd |-> age_add,
                     sealed |-> EncryptTicket(n, plain), early |-> sctx.maxEarly,
                     secret |-> n, group |-> group, suite |-> req.suite]
       /\ cache' = IF sctx.store = "cache" THEN 100 + n ELSE cache
       /\ UNCHANGED <<now, skew, sctx, saved, hello, resumed>>

\* client_handle_new_session_ticket: the message is stored with the time and
\* the secret the client derives; key_share and cipher_suite are those of the
\* connection it came over.
HandleNewSessionTicket ==
    /\ ticket # None
    /\ saved' = saved \cup {[obtainedAt |-> ClientClock, ticket |-> ticket]}
    /\ ticket' = None
    /\ UNCHANGED <<now, skew, sctx, cache, sessions, hello, resumed>>

---------------------------------------------------------------------------
(* Offering.                                                               *)

\* decode_stored_session_ticket: the client still knows group and suite (its
\* own context does not change here), and the ticket is under a week old.
\* The lifetime of the ticket is not looked at.
Offerable(s) == s.obtainedAt <= ClientClock /\ ClientClock - s.obtainedAt < Week

ObfuscatedTicketAge(s) == ((ClientClock - s.obtainedAt) + s.ticket.ageAdd) % AgeMod

Identity(s) == [sealed |-> s.ticket.sealed, age |-> ObfuscatedTicketAge(s)]

\* send_client_hello with properties.session_ticket set: one identity, and
\* early data if the ticket allows it and the application asks for it.
SendClientHello(s, req, wantEarly) ==
    /\ hello = None
    /\ Offerable(s)
    /\ hello' = [identities |-> <<Identity(s)>>, early |-> wantEarly /\ s.ticket.early,
                 request |-> req, sentAt |-> now]
    /\ resumed' = None
    /\ UNCHANGED <<now, skew, sctx, cache, sessions, ticket, saved>>

\* A client of another make may offer several identities, one of them no
\* ticket of this server at all.
Forged == [sealed |-> [label |-> 1, plain |->
              [issuedAt |-> ServerClock, secret |-> 99, group |-> "g1", suite |-> "s1",
               ageAdd |-> 0, context |-> <<>>, alpn |-> None], genuine |-> FALSE],
           age |-> 0]

PeerClientHello(s, req, early) ==
    /\ hello = None
    /\ s.obtainedAt <= ClientClock
    /\ \E ids \in {<<Forged, Identity(s)>>, <<Forged>>} :
          hello' = [identities |-> ids, early |-> early, request |-> req, sentAt |-> now]
    /\ resumed' = None
    /\ UNCHANGED <<now, skew, sctx, cache, sessions, ticket, saved>>

---------------------------------------------------------------------------
(* The server's decision: try_psk_handshake.                               *)

\* The ticket is neither from the future nor older than its lifetime.
AgeAcceptable(p) ==
    /\ p.issuedAt <= ServerClock
    /\ ServerClock - p.issuedAt <= sctx.lifetime

\* Mutated Delta: the age is used as it came, obfuscated.
Delta_Obfuscated(p, id) ==
    LET d == (ServerClock - p.issuedAt) - id.age IN IF d < 0 THEN -d ELSE d

\* Mutated Delta: a ticket whose reported age lags behind is always in the window.
Delta_NotAbsolute(p, id) ==
    LET d == ((id.age - p.ageAdd) % AgeMod) - (ServerClock - p.issuedAt)
    IN IF d < 0 THEN 0 ELSE d

\* The reported and the actual age differ by at most the window: the first
\* is a uint32_t difference, the second a uint64_t one.
Delta(p, id) ==
    LET d == (ServerClock - p.issuedAt) - ((id.age - p.ageAdd) % AgeMod)
    IN IF d < 0 THEN -d ELSE d

\* Only the first identity can carry early data.
EarlyDataAcceptable(h, i, p) ==
    /\ h.early
    /\ i = 1
    /\ sctx.maxEarly
    /\ Delta(p, h.identities[i]) <= Window

\* vec_is_string: the length-prefixed bytes equal the C string.
VecIsString(x, y) == IsPrefix(x, y) /\ Len(y) = Len(x)

\* ticket_context if set, else the server name, present or not.
ContextMatches(p, req) ==
    IF sctx.context # None THEN p.context = <<sctx.context>>
    ELSE IF p.context # <<>> THEN req.name # <<>> /\ VecIsString(p.context, req.name)
    ELSE req.name = <<>>

\* Group, cipher suite and protocol of the ticket still hold for this
\* connection; a ticket without protocol matches any.
SessionMatches(p, req) ==
    /\ p.group \in sctx.groups
    /\ p.suite = req.suite
    /\ p.alpn # None => req.alpn = p.alpn

PskAcceptable(h, i) ==
    LET t == h.identities[i].sealed
    IN /\ DecryptTicket(t)
       /\ AgeAcceptable(t.plain)
       /\ ContextMatches(t.plain, h.request)
       /\ SessionMatches(t.plain, h.request)

\* The first acceptable identity wins; without one, a full handshake.
TryPskHandshake ==
    /\ hello # None
    /\ LET ok == {i \in DOMAIN hello.identities : PskAcceptable(hello, i)}
           i == CHOOSE x \in ok : \A y \in ok : x <= y
           p == hello.identities[i].sealed.plain
       IN IF ok = {}
          THEN resumed' = [index |-> 0, secret |-> 0, early |-> FALSE]
          ELSE resumed' = [index |-> i, secret |-> p.secret,
                           early |-> EarlyDataAcceptable(hello, i, p)]
    /\ UNCHANGED <<now, skew, sctx, cache, sessions, ticket, saved, hello>>

---------------------------------------------------------------------------
(* The world around it.                                                    *)

\* The application has read what became of the handshake.
Done == /\ resumed # None
        /\ hello' = None /\ resumed' = None
        /\ UNCHANGED <<now, skew, sctx, cache, sessions, ticket, saved>>

Tick == /\ now < MaxTime
        /\ resumed = None
        /\ now' = now + 1
        /\ UNCHANGED <<skew, sctx, cache, sessions, ticket, saved, hello, resumed>>

\* The server is restarted with another context, its ticket keys rotated;
\* a session cache starts empty.
Reconfigure(c) ==
    /\ resumed = None
    /\ sctx' = c
    /\ cache' = 0
    /\ UNCHANGED <<now, skew, sessions, ticket, saved, hello, resumed>>

TicketsInit ==
    /\ now = 0 /\ skew \in Skews /\ sctx \in Contexts
    /\ cache = 0 /\ sessions = <<>> /\ ticket = None /\ saved = {}
    /\ hello = None /\ resumed = None

TicketsNext ==
    \/ \E r \in Requests, g \in {"g1", "g2"}, a \in AgeAdds : SendSessionTicket(r, g, a)
    \/ HandleNewSessionTicket
    \/ \E s \in saved, r \in Requests, e \in BOOLEAN : SendClientHello(s, r, e)
    \/ \E s \in saved, r \in Requests, e \in BOOLEAN : PeerClientHello(s, r, e)
    \/ TryPskHandshake
    \/ Done
    \/ Tick
    \/ \E c \in Contexts \ {sctx} : Reconfigure(c)

TicketsSpec == TicketsInit /\ [][TicketsNext]_tvars

---------------------------------------------------------------------------
(* Properties.                                                             *)

Resumes == resumed # None /\ resumed.index # 0

\* A session is resumed only for the service it was negotiated for: one a
\* server with this server's ticket context, or without one and under the
\* same name, really negotiated, with the same cipher suite and protocol,
\* and no longer ago than the server's present lifetime allows.
SameService ==
    Resumes =>
        /\ resumed.secret \in DOMAIN sessions
        /\ LET s == sessions[resumed.secret]
           IN /\ s.context = sctx.context
              /\ sctx.context = None => s.request.name = hello.request.name
              /\ s.request.suite = hello.request.suite
              /\ s.request.alpn \in {None, hello.request.alpn}
              /\ now - s.at <= sctx.lifetime

\* Early data is accepted only while it is fresh: no ClientHello is answered
\* with acceptance later than the window after it was sent, although the
\* clocks differ, the ticket was delayed and ages wrap around.
EarlyDataIsFresh == Resumes /\ resumed.early => now - hello.sentAt <= Window

\* A ticket is worth having: offered without delay, within its lifetime, to
\* a server that has not changed what the session depends on, for the same
\* request, it is resumed from, and early data is accepted if the ticket was
\* delivered without delay too.
TicketHonoured ==
    \A s \in saved :
        LET n == s.ticket.secret
        IN /\ resumed # None
           /\ hello.identities = <<[sealed |-> s.ticket.sealed,
                                    age |-> (hello.sentAt - s.obtainedAt + s.ticket.ageAdd) % AgeMod]>>
           /\ hello.sentAt = now
           /\ hello.request = sessions[n].request
           /\ now - sessions[n].at <= sctx.lifetime
           /\ sctx.context = sessions[n].context
           /\ s.ticket.group \in sctx.groups
           /\ IF sctx.store = "cache" THEN cache = 100 + n
              ELSE s.ticket.sealed.label \in sctx.keys
           => /\ resumed.index = 1
              /\ hello.early /\ sctx.maxEarly /\ s.obtainedAt - sessions[n].at <= Window
                    => resumed.early

\* What try_psk_handshake takes, it may take: a session of this service that
\* has not run out, and early data that is fresh.
ResumptionSound == SameService /\ EarlyDataIsFresh

=============================================================================
