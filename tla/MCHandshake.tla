----------------------------- MODULE MCHandshake -----------------------------
(* Small instances of Handshake for TLC: sets of configurations.           *)
EXTENDS Handshake

\* A plain full handshake.
Base == [psk |-> "none", ticketGroup |-> "g1", negotiateFirst |-> FALSE, dheOnPsk |-> TRUE,
         early |-> FALSE, acceptEarly |-> FALSE, groups |-> {"g1", "g2"},
         enforceRetry |-> FALSE, cookie |-> FALSE, auth |-> FALSE, clientCert |-> FALSE,
         failOpen |-> FALSE, async |-> FALSE, tickets |-> 1, compat |-> FALSE,
         certBad |-> FALSE, signBad |-> "no"]

\* Full handshakes: retries, client authentication, asynchronous signing.
MCFull ==
    {[Base EXCEPT !.negotiateFirst = nf, !.groups = gs, !.enforceRetry = er, !.cookie = ck,
                  !.auth = au, !.clientCert = cc, !.failOpen = fo, !.async = as, !.compat = cp,
                  !.tickets = t] :
        nf \in BOOLEAN, gs \in {{"g1", "g2"}, {"g2"}, {"g3"}}, er \in BOOLEAN, ck \in BOOLEAN,
        au \in BOOLEAN, cc \in BOOLEAN, fo \in BOOLEAN, as \in BOOLEAN, cp \in BOOLEAN,
        t \in {0, 2}}

\* Resumption and external PSK with and without 0-RTT, accepted, rejected, retried.
MCPsk ==
    {[Base EXCEPT !.psk = p, !.ticketGroup = tg, !.negotiateFirst = nf, !.dheOnPsk = d,
                  !.early = e, !.acceptEarly = e /\ ae, !.groups = gs, !.enforceRetry = er,
                  !.cookie = ck, !.auth = au, !.clientCert = au, !.compat = cp] :
        p \in {"ticket", "stale", "external", "client", "server"}, tg \in {"g1", "g2"},
        nf \in BOOLEAN, d \in BOOLEAN, e \in BOOLEAN, ae \in BOOLEAN,
        gs \in {{"g1", "g2"}, {"g1"}, {"g2"}, {"g3"}}, er \in BOOLEAN, ck \in BOOLEAN,
        au \in BOOLEAN, cp \in BOOLEAN}

\* Verifiers and signers that fail.
MCFailures ==
    {[Base EXCEPT !.psk = p, !.early = e, !.acceptEarly = ae, !.auth = au, !.clientCert = cc,
                  !.async = as, !.certBad = cb, !.signBad = sb, !.compat = cp] :
        p \in {"none", "ticket", "stale"}, e \in BOOLEAN, ae \in BOOLEAN, au \in BOOLEAN,
        cc \in BOOLEAN, as \in BOOLEAN, cb \in BOOLEAN, sb \in {"no", "server", "client"},
        cp \in BOOLEAN}

\* All of these.
MCHandshakes == MCFull \cup MCPsk \cup MCFailures

\* A ticket of another group than the one the server would pick, and a cookie.
MCCookie == {[Base EXCEPT !.psk = "ticket", !.ticketGroup = "g2", !.enforceRetry = TRUE,
                          !.cookie = TRUE]}

\* A server that requires client authentication and sends a ticket.
MCAuth == {[Base EXCEPT !.auth = TRUE, !.clientCert = TRUE]}

=============================================================================
