-------------------------- MODULE NegotiationProofs --------------------------
(***************************************************************************)
(* Proofs about what the first flights settle.                             *)
(*                                                                         *)
(* Tickets: for every clock skew, ticket key, context, request and number  *)
(* of sessions, what try_psk_handshake takes it may take                   *)
(* (ResumptionSound), and what is worth taking it takes (TicketHonoured).  *)
(* The invariant says where a ticket is and what is in it: every sealed    *)
(* ticket anywhere in the system describes the session its secret is of,   *)
(* the client's notes agree with it, each is stored once, and a            *)
(* ClientHello carries either such a ticket and its age or something that  *)
(* does not open.                                                          *)
(*                                                                         *)
(* Ech: for every list of configurations, set of server keys and server    *)
(* policy, acceptance is agreed and only the inner hello completes         *)
(* (EchSound), and ECH is no reason for two ends of this library to fail   *)
(* (EchSucceeds).  With this library at both ends the whole state is a     *)
(* function of the scenario and of how far the exchange has got.  With a   *)
(* server of another make the invariant follows the one danger: a client   *)
(* that took ECH for accepted and adopts its outer transcript later is     *)
(* left with one that lacks the retry request, so no Finished verifies.    *)
(*                                                                         *)
(* Hello: for every pair of contexts and every hello of another client,    *)
(* what is accepted is well formed (HelloWellFormed), the inner hello is   *)
(* rebuilt exactly (InnerRebuilt), and suite, group and certificate type   *)
(* are settled by policy with one retry at most (PolicyNegotiated).  One   *)
(* part of the invariant says what the decoder has noted in terms of the   *)
(* extensions read so far; another, for a client of this library, which of *)
(* its two hellos the server has, and that what a retry asks for both ends *)
(* have.  The loops of the code are recursive functions: each is shown to  *)
(* exist as the sequence of its steps before anything is said of its end.  *)
(***************************************************************************)
EXTENDS Tickets, Ech, Hello, SequenceTheorems, NaturalsInduction, WellFoundedInduction, TLAPS

---------------------------------------------------------------------------
(* Tickets: the invariant.                                                 *)

SessionRecord ==
    [request : Requests, group : {"g1", "g2"}, context : {None, "c1", "c2"}, at : Nat]

\* A sealed ticket says of its session what the session was.
Describes(t) ==
    /\ t.genuine
    /\ t.plain.secret \in DOMAIN sessions
    /\ LET s == sessions[t.plain.secret]
       IN /\ t.plain.issuedAt = s.at + skew
          /\ t.plain.group = s.group
          /\ t.plain.suite = s.request.suite
          /\ t.plain.alpn = s.request.alpn
          /\ t.plain.context = IF s.context # None THEN <<s.context>> ELSE s.request.name
    /\ t.plain.ageAdd \in 0 .. (AgeMod - 1)
    /\ t.label \in 1 .. 2 \/ t.label = 100 + t.plain.secret
    /\ cache = 100 + t.plain.secret => t.label = cache

\* NewSessionTicket, as sent and as stored, agrees with the ticket in it.
GoodTicket(k) ==
    /\ Describes(k.sealed)
    /\ k.secret = k.sealed.plain.secret
    /\ k.ageAdd = k.sealed.plain.ageAdd
    /\ k.group = k.sealed.plain.group

\* A stored ticket was obtained after it was issued, and not in the future.
GoodSaved(s) ==
    /\ GoodTicket(s.ticket)
    /\ s.obtainedAt \in Nat /\ s.obtainedAt <= now
    /\ sessions[s.ticket.secret].at <= s.obtainedAt

\* The hello of this library: one stored ticket, and its age.
OwnIdentity(s, h) ==
    /\ s.obtainedAt <= h.sentAt
    /\ h.sentAt - s.obtainedAt < Week
    /\ h.identities = <<[sealed |-> s.ticket.sealed,
                         age |-> ((h.sentAt - s.obtainedAt) + s.ticket.ageAdd) % AgeMod]>>

\* A hello of another make: what comes first does not open.
OtherIdentities(h) ==
    \E f : /\ ~f.sealed.genuine
           /\ \/ h.identities = <<f>>
              \/ \E s \in saved : \E i : i.sealed = s.ticket.sealed /\ h.identities = <<f, i>>

GoodHello(h) ==
    /\ h.request \in Requests
    /\ h.sentAt \in Nat /\ h.sentAt <= now
    /\ (\E s \in saved : OwnIdentity(s, h)) \/ OtherIdentities(h)

\* What the server made of the hello, as far as it still shows.
Judged(h, r) ==
    /\ r.index # 0 =>
          /\ r.index \in DOMAIN h.identities
          /\ LET t == h.identities[r.index].sealed
             IN /\ t.genuine
                /\ AgeAcceptable(t.plain)
                /\ ContextMatches(t.plain, h.request)
                /\ SessionMatches(t.plain, h.request)
                /\ r.secret = t.plain.secret
                /\ r.early <=> EarlyDataAcceptable(h, r.index, t.plain)
    /\ r.index # 1 => ~PskAcceptable(h, 1)

ClocksInv ==
    /\ now \in Nat /\ skew \in Int /\ sctx \in TicketContext
    /\ sessions \in Seq(SessionRecord)
    /\ \A n \in DOMAIN sessions : sessions[n].at <= now
    /\ cache = 0 \/ \E n \in DOMAIN sessions : cache = 100 + n

StoredInv ==
    /\ ticket # None => GoodTicket(ticket) /\ \A s \in saved : s.ticket.secret # ticket.secret
    /\ \A s \in saved : GoodSaved(s)
    /\ \A s, t \in saved : s.ticket.secret = t.ticket.secret => s = t

HelloInv == hello # None => GoodHello(hello)
JudgedInv == resumed # None => hello # None /\ Judged(hello, resumed)

TicketsInv == ClocksInv /\ StoredInv /\ HelloInv /\ JudgedInv

---------------------------------------------------------------------------
(* Ages: uint32_t arithmetic.                                              *)

\* A number below the modulus is its own remainder.
LEMMA ModSmall ==
    ASSUME NEW m \in Nat, NEW x \in Nat, x < m
    PROVE x % m = x
  OBVIOUS

\* One that is less than twice the modulus loses it once.
LEMMA ModOnce ==
    ASSUME NEW m \in Nat, NEW x \in Nat, m <= x, x < m + m
    PROVE x % m = x - m
  OBVIOUS

\* A negative one no less than minus the modulus gains it once.
LEMMA ModNegative ==
    ASSUME NEW m \in Nat, NEW x \in Int, -m <= x, x < 0
    PROVE x % m = x + m
  OBVIOUS

\* What ticket_age_add hides, subtracting it shows again, although both
\* operations wrap around.
LEMMA AgeShows ==
    ASSUME NEW m \in Nat, NEW x \in Nat, x < m, NEW a \in 0 .. (m - 1)
    PROVE (((x + a) % m) - a) % m = x
  <1>1. CASE x + a < m
    <2>1. (x + a) % m = x + a  BY <1>1, ModSmall
    <2>2. ((x + a) - a) = x  OBVIOUS
    <2> QED BY <2>1, <2>2, ModSmall
  <1>2. CASE x + a >= m
    <2>1. (x + a) % m = (x + a) - m  BY <1>2, ModOnce
    <2>2. (((x + a) - m) - a) = x - m  OBVIOUS
    <2>3. CASE x - m < 0
      <3>1. (x - m) % m = (x - m) + m  BY <2>3, ModNegative
      <3> QED BY <3>1, <2>1, <2>2
    <2> QED BY <2>3
  <1> QED BY <1>1, <1>2
---------------------------------------------------------------------------
(* What no step disturbs.                                                  *)

\* Every step of the model: time and the histories only grow, and a new entry
\* of the session cache is of a new session.
Grows ==
    /\ skew' = skew
    /\ now' \in Nat /\ now <= now'
    /\ saved \subseteq saved'
    /\ sessions' = sessions \/ \E r \in SessionRecord : sessions' = Append(sessions, r)
    /\ cache' = cache \/ cache' = 0 \/ (cache' = 100 + Len(sessions) + 1 /\ sessions' # sessions)

\* The sessions there were are still there.
LEMMA SessionsKept ==
    ASSUME ClocksInv, Grows
    PROVE /\ \A n \in DOMAIN sessions : n \in DOMAIN sessions' /\ sessions'[n] = sessions[n]
          /\ DOMAIN sessions = 1 .. Len(sessions) /\ Len(sessions) \in Nat
          /\ sessions' \in Seq(SessionRecord)
  <1>1. sessions \in Seq(SessionRecord)  BY DEF ClocksInv
  <1>2. DOMAIN sessions = 1 .. Len(sessions) /\ Len(sessions) \in Nat  BY <1>1, LenProperties
  <1>3. CASE sessions' = sessions  BY <1>1, <1>2, <1>3
  <1>4. CASE \E r \in SessionRecord : sessions' = Append(sessions, r)
    <2>1. PICK r \in SessionRecord : sessions' = Append(sessions, r)  BY <1>4
    <2>2. /\ sessions' \in Seq(SessionRecord)
          /\ Len(sessions') = Len(sessions) + 1
          /\ \A i \in 1 .. Len(sessions) : sessions'[i] = sessions[i]
      BY <1>1, <2>1, AppendProperties
    <2>3. DOMAIN sessions' = 1 .. Len(sessions) + 1  BY <2>2, LenProperties
    <2> QED BY <1>2, <2>2, <2>3
  <1> QED BY <1>3, <1>4 DEF Grows

\* A ticket that describes its session goes on doing so.
LEMMA DescribesKept ==
    ASSUME ClocksInv, Grows, NEW t, Describes(t)
    PROVE Describes(t)'
  <1>1. /\ t.plain.secret \in DOMAIN sessions' /\ sessions'[t.plain.secret] = sessions[t.plain.secret]
        /\ t.plain.secret \in 1 .. Len(sessions) /\ Len(sessions) \in Nat
    BY SessionsKept DEF Describes
  <1>2. cache' = 100 + t.plain.secret => t.label = cache'
    BY <1>1 DEF Describes, Grows
  <1> QED BY <1>1, <1>2 DEF Describes, Grows

\* So does the message it came in, and what the client stored of it.
LEMMA TicketsKept ==
    ASSUME ClocksInv, Grows
    PROVE /\ \A k : GoodTicket(k) => GoodTicket(k)'
          /\ \A s : GoodSaved(s) => GoodSaved(s)'
  <1>1. ASSUME NEW k, GoodTicket(k) PROVE GoodTicket(k)'
    <2>1. \A t : t = k.sealed => Describes(t)'  BY <1>1, DescribesKept DEF GoodTicket
    <2>2. Describes(k.sealed)'  BY <2>1
    <2> QED BY <1>1, <2>2 DEF GoodTicket
  <1>2. ASSUME NEW s, GoodSaved(s) PROVE GoodSaved(s)'
    <2>1. GoodTicket(s.ticket)'  BY <1>1, <1>2 DEF GoodSaved
    <2>2. s.obtainedAt \in Nat /\ s.obtainedAt <= now'
      <3>1. s.obtainedAt \in Nat /\ s.obtainedAt <= now /\ now \in Nat /\ now' \in Nat /\ now <= now'
        BY <1>2 DEF GoodSaved, ClocksInv, Grows
      <3> QED BY <3>1
    <2>3. s.ticket.secret \in DOMAIN sessions  BY <1>2 DEF GoodSaved, GoodTicket, Describes
    <2>4. sessions'[s.ticket.secret].at <= s.obtainedAt  BY <1>2, <2>3, SessionsKept DEF GoodSaved
    <2> QED BY <2>1, <2>2, <2>4 DEF GoodSaved
  <1> QED BY <1>1, <1>2

\* A hello still says what it said when it was sent.
LEMMA HelloKept ==
    ASSUME ClocksInv, Grows, NEW h, GoodHello(h)
    PROVE GoodHello(h)'
  <1>1. h.sentAt \in Nat /\ h.sentAt <= now'
    <2>1. h.sentAt \in Nat /\ h.sentAt <= now /\ now \in Nat /\ now' \in Nat /\ now <= now'
      BY DEF GoodHello, ClocksInv, Grows
    <2> QED BY <2>1
  <1>2. CASE \E s \in saved : OwnIdentity(s, h)
    <2>1. \E s \in saved' : OwnIdentity(s, h)  BY <1>2 DEF Grows
    <2> QED BY <1>1, <2>1 DEF GoodHello, OwnIdentity
  <1>3. CASE OtherIdentities(h)
    <2>1. OtherIdentities(h)'  BY <1>3, Zenon DEF OtherIdentities, Grows
    <2> QED BY <1>1, <2>1 DEF GoodHello
  <1> QED BY <1>2, <1>3 DEF GoodHello
\* The identity a hello begins with describes its session, if it opens at all.
LEMMA FirstIdentity ==
    ASSUME StoredInv, NEW h, GoodHello(h), h.identities[1].sealed.genuine
    PROVE \E s \in saved : OwnIdentity(s, h) /\ h.identities[1].sealed = s.ticket.sealed
                           /\ Describes(h.identities[1].sealed)
  <1>1. CASE \E s \in saved : OwnIdentity(s, h)
    <2>1. PICK s \in saved : OwnIdentity(s, h)  BY <1>1
    <2>2. h.identities[1].sealed = s.ticket.sealed  BY <2>1 DEF OwnIdentity
    <2>3. Describes(s.ticket.sealed)  BY DEF StoredInv, GoodSaved, GoodTicket
    <2>4. Describes(h.identities[1].sealed)  BY <2>2, <2>3
    <2> QED BY <2>1, <2>2, <2>4
  <1>2. CASE OtherIdentities(h)
    <2>1. PICK f : /\ ~f.sealed.genuine
                   /\ \/ h.identities = <<f>>
                      \/ \E s \in saved : \E i : i.sealed = s.ticket.sealed /\ h.identities = <<f, i>>
      BY <1>2, Zenon DEF OtherIdentities
    <2>2. h.identities[1] = f
      <3>1. CASE h.identities = <<f>>  BY <3>1
      <3>2. CASE \E s \in saved : \E i : i.sealed = s.ticket.sealed /\ h.identities = <<f, i>>
        <4>1. PICK i : h.identities = <<f, i>>  BY <3>2
        <4> QED BY <4>1
      <3> QED BY <2>1, <3>1, <3>2
    <2> QED BY <2>1, <2>2
  <1> QED BY <1>1, <1>2 DEF GoodHello

\* The server's decision stands while its context and the time do: a session
\* that starts meanwhile has a cache entry of its own.
LEMMA JudgedKept ==
    ASSUME ClocksInv, StoredInv, Grows, sctx' = sctx, now' = now,
           cache' = cache \/ cache' = 100 + Len(sessions) + 1,
           NEW h, NEW r, GoodHello(h), Judged(h, r)
    PROVE Judged(h, r)'
  <1>1. ServerClock' = ServerClock  BY DEF ServerClock, Grows
  <1>2. \A p, q : /\ AgeAcceptable(p)' <=> AgeAcceptable(p)
                  /\ ContextMatches(p, q)' <=> ContextMatches(p, q)
                  /\ SessionMatches(p, q)' <=> SessionMatches(p, q)
    BY <1>1 DEF AgeAcceptable, ContextMatches, SessionMatches
  <1>3. \A i, p : EarlyDataAcceptable(h, i, p)' <=> EarlyDataAcceptable(h, i, p)
    BY <1>1 DEF EarlyDataAcceptable, Delta
  <1>4. ASSUME DecryptTicket(h.identities[1].sealed)' PROVE DecryptTicket(h.identities[1].sealed)
    <2>1. CASE sctx.store # "cache"
      BY <1>4, <2>1 DEF DecryptTicket, OpensTicket, OpensTicketEvp, ClocksInv, TicketContext
    <2>2. CASE sctx.store = "cache"
      <3>1. h.identities[1].sealed.label = cache' /\ h.identities[1].sealed.genuine
        BY <1>4, <2>2 DEF DecryptTicket, CacheOpens
      <3>2. Describes(h.identities[1].sealed)  BY <3>1, FirstIdentity
      <3>3. /\ h.identities[1].sealed.plain.secret \in 1 .. Len(sessions) /\ Len(sessions) \in Nat
            /\ \/ h.identities[1].sealed.label \in 1 .. 2
               \/ h.identities[1].sealed.label = 100 + h.identities[1].sealed.plain.secret
        BY <3>2, SessionsKept DEF Describes
      <3>4. cache' = cache  BY <3>1, <3>3
      <3> QED BY <2>2, <3>1, <3>4 DEF DecryptTicket, CacheOpens
    <2> QED BY <2>1, <2>2
  <1>5. PskAcceptable(h, 1)' => PskAcceptable(h, 1)  BY <1>2, <1>4 DEF PskAcceptable
  <1> QED BY <1>2, <1>3, <1>5 DEF Judged

\* A step that leaves the tickets and the decision alone, or takes the
\* decision back, keeps what is known of both.
LEMMA RestKept ==
    ASSUME ClocksInv, StoredInv, HelloInv, JudgedInv, Grows,
           saved' = saved, ticket' = ticket, hello' = hello,
           \/ resumed' = None
           \/ /\ resumed' = resumed /\ sctx' = sctx /\ now' = now
              /\ cache' = cache \/ cache' = 100 + Len(sessions) + 1
    PROVE StoredInv' /\ HelloInv' /\ JudgedInv'
  <1>1. StoredInv'
    <2>1. PICK k : k = ticket  OBVIOUS
    <2>2. k # None => GoodTicket(k)'  BY <2>1, TicketsKept DEF StoredInv
    <2>3. GoodTicket(ticket)' <=> GoodTicket(k)'  BY <2>1
    <2>4. \A s \in saved' : GoodSaved(s)'  BY TicketsKept DEF StoredInv
    <2> QED BY <2>1, <2>2, <2>3, <2>4 DEF StoredInv
  <1>2. PICK h, r : h = hello /\ r = resumed  OBVIOUS
  <1>3. h # None => GoodHello(h) /\ GoodHello(h)'  BY <1>2, HelloKept DEF HelloInv
  <1>4. HelloInv'
    <2>1. GoodHello(hello)' <=> GoodHello(h)'  BY <1>2
    <2> QED BY <1>2, <1>3, <2>1 DEF HelloInv
  <1>5. JudgedInv'
    <2>1. CASE resumed' = None  BY <2>1 DEF JudgedInv
    <2>2. CASE /\ resumed' = resumed /\ sctx' = sctx /\ now' = now
               /\ cache' = cache \/ cache' = 100 + Len(sessions) + 1
      <3>1. r # None => h # None /\ Judged(h, r)'  BY <1>2, <1>3, <2>2, JudgedKept DEF JudgedInv
      <3>2. Judged(hello, resumed)' <=> Judged(h, r)'  BY <1>2, <2>2
      <3> QED BY <1>2, <2>2, <3>1, <3>2 DEF JudgedInv
    <2> QED BY <2>1, <2>2
  <1> QED BY <1>1, <1>4, <1>5
---------------------------------------------------------------------------
(* The steps.                                                              *)

\* send_session_ticket: the new ticket describes the new session.
LEMMA SendSessionTicketStep ==
    ASSUME TicketsInv, NEW q \in Requests, NEW g \in {"g1", "g2"}, NEW a \in AgeAdds,
           SendSessionTicket(q, g, a)
    PROVE TicketsInv'
  <1> USE TicketsAssumption
  <1> DEFINE n == Len(sessions) + 1
  <1> DEFINE plain == SessionIdentifier(n, q, g, a)
  <1> DEFINE rec == [request |-> q, group |-> g, context |-> sctx.context, at |-> now]
  <1>1. /\ sessions' = Append(sessions, rec)
        /\ ticket' = [lifetime |-> sctx.lifetime, ageAdd |-> a, sealed |-> EncryptTicket(n, plain),
                      early |-> sctx.maxEarly, secret |-> n, group |-> g, suite |-> q.suite]
        /\ cache' = IF sctx.store = "cache" THEN 100 + n ELSE cache
        /\ UNCHANGED <<now, skew, sctx, saved, hello, resumed>>
        /\ ticket = None
    BY DEF SendSessionTicket
  <1>2. rec \in SessionRecord
    BY DEF SessionRecord, TicketsInv, ClocksInv, TicketContext
  <1>3. sessions \in Seq(SessionRecord) /\ Len(sessions) \in Nat /\ DOMAIN sessions = 1 .. Len(sessions)
    BY LenProperties DEF TicketsInv, ClocksInv
  <1>4. /\ Len(sessions') = n /\ sessions'[n] = rec /\ sessions' \in Seq(SessionRecord)
        /\ \A i \in 1 .. Len(sessions) : sessions'[i] = sessions[i]
    <2> HIDE DEF rec
    <2> QED BY <1>1, <1>2, <1>3, AppendProperties
  <1>5. DOMAIN sessions' = 1 .. n  BY <1>4, LenProperties
  <1>6. Grows
    <2>1. sessions' # sessions  BY <1>3, <1>4
    <2>2. cache' = cache \/ cache' = 100 + Len(sessions) + 1  BY <1>1, <1>3
    <2>3. now' \in Nat /\ now <= now'  BY <1>1 DEF TicketsInv, ClocksInv
    <2> HIDE DEF rec
    <2> QED BY <1>1, <1>2, <2>1, <2>2, <2>3 DEF Grows
  <1>7. ClocksInv'
    <2>1. \A i \in 1 .. n : sessions'[i].at <= now'
      <3>1. \A i \in 1 .. Len(sessions) : sessions'[i].at <= now'  BY <1>1, <1>3, <1>4 DEF TicketsInv, ClocksInv
      <3>2. sessions'[n].at <= now'  BY <1>1, <1>4 DEF TicketsInv, ClocksInv
      <3> QED BY <1>3, <3>1, <3>2
    <2>2. cache' = 0 \/ \E i \in 1 .. n : cache' = 100 + i
      BY <1>1, <1>3 DEF TicketsInv, ClocksInv
    <2> QED BY <1>1, <1>4, <1>5, <2>1, <2>2 DEF TicketsInv, ClocksInv
  <1>8. PICK t : t = EncryptTicket(n, plain)  OBVIOUS
  <1>9. /\ t.genuine /\ t.plain = plain
        /\ t.label \in 1 .. 2 \/ t.label = 100 + n
        /\ sctx.store = "cache" => t.label = 100 + n
    <2>1. sctx.store \in {"hmac", "evp", "cache"} /\ sctx.key \in 1 .. 2
      BY DEF TicketsInv, ClocksInv, TicketContext
    <2> HIDE DEF plain, n
    <2> QED BY <1>8, <2>1 DEF EncryptTicket, SealTicket, SealTicketEvp
  <1>10. /\ plain.secret = n /\ plain.issuedAt = now + skew /\ plain.group = g /\ plain.ageAdd = a
         /\ plain.suite = q.suite /\ plain.alpn = q.alpn
         /\ plain.context = IF sctx.context # None THEN <<sctx.context>> ELSE q.name
    BY DEF SessionIdentifier, ServerClock, SessionContext
  <1>11. Describes(t)'
    <2>1. /\ sessions'[n].at = now /\ sessions'[n].group = g /\ sessions'[n].request = q
          /\ sessions'[n].context = sctx.context
      BY <1>4
    <2>2. cache' = 100 + n => t.label = cache'
      <3>1. cache = 0 \/ \E i \in 1 .. Len(sessions) : cache = 100 + i
        BY <1>3 DEF TicketsInv, ClocksInv
      <3>2. cache # 100 + n  BY <1>3, <3>1
      <3> QED BY <1>1, <1>9, <3>2
    <2>3. a \in 0 .. (AgeMod - 1)  OBVIOUS
    <2>4. n \in DOMAIN sessions'  BY <1>3, <1>5
    <2> HIDE DEF plain, n
    <2> QED BY <1>1, <1>9, <1>10, <2>1, <2>2, <2>3, <2>4 DEF Describes
  <1>12. PICK k : k = ticket'  OBVIOUS
  <1>13. k.sealed = t /\ k.ageAdd = a /\ k.secret = n /\ k.group = g
    <2> HIDE DEF plain, n
    <2> QED BY <1>1, <1>8, <1>12
  <1>14. GoodTicket(k)'
    <2> HIDE DEF plain, n
    <2>1. Describes(k.sealed)'  BY <1>11, <1>13
    <2> QED BY <2>1, <1>9, <1>10, <1>13 DEF GoodTicket
  <1>15. \A s \in saved : GoodSaved(s)' /\ s.ticket.secret # n
    <2>1. \A s \in saved : GoodSaved(s)'  BY <1>6, TicketsKept DEF TicketsInv, StoredInv
    <2>2. \A s \in saved : s.ticket.secret \in 1 .. Len(sessions)
      BY <1>3 DEF TicketsInv, StoredInv, GoodSaved, GoodTicket, Describes
    <2>3. n \notin 1 .. Len(sessions)  BY <1>3
    <2> QED BY <2>1, <2>2, <2>3
  <1>16. StoredInv'
    <2>1. GoodTicket(ticket)'  BY <1>12, <1>14
    <2> HIDE DEF plain, n
    <2>2. \A s \in saved' : s.ticket.secret # ticket'.secret  BY <1>1, <1>12, <1>13, <1>15
    <2> QED BY <1>1, <1>15, <2>1, <2>2 DEF TicketsInv, StoredInv
  <1>17. PICK h, r : h = hello /\ r = resumed  OBVIOUS
  <1>18. h # None => GoodHello(h) /\ GoodHello(h)'
    BY <1>6, <1>17, HelloKept DEF TicketsInv, HelloInv
  <1>19. HelloInv'
    <2>1. hello' = h /\ (GoodHello(hello)' <=> GoodHello(h)')  BY <1>1, <1>17
    <2> QED BY <1>18, <2>1 DEF HelloInv
  <1>20. JudgedInv'
    <2>1. r # None => h # None /\ Judged(h, r)  BY <1>17 DEF TicketsInv, JudgedInv
    <2>2. cache' = cache \/ cache' = 100 + Len(sessions) + 1  BY <1>1, <1>3
    <2>3. r # None => h # None /\ Judged(h, r)'
      BY <1>1, <1>6, <1>18, <2>1, <2>2, JudgedKept DEF TicketsInv
    <2>4. hello' = h /\ resumed' = r /\ (Judged(hello, resumed)' <=> Judged(h, r)')  BY <1>1, <1>17
    <2> QED BY <2>3, <2>4 DEF JudgedInv
  <1> QED BY <1>7, <1>16, <1>19, <1>20 DEF TicketsInv
\* client_handle_new_session_ticket: the ticket moves into the store.
LEMMA HandleNewSessionTicketStep ==
    ASSUME TicketsInv, HandleNewSessionTicket
    PROVE TicketsInv'
  <1> DEFINE new == [obtainedAt |-> ClientClock, ticket |-> ticket]
  <1>1. /\ ticket # None /\ saved' = saved \cup {new} /\ ticket' = None
        /\ UNCHANGED <<now, skew, sctx, cache, sessions, hello, resumed>>
    BY DEF HandleNewSessionTicket
  <1>2. Grows  BY <1>1 DEF Grows, TicketsInv, ClocksInv
  <1>3. ClocksInv'  BY <1>1 DEF TicketsInv, ClocksInv
  <1>4. PICK k, s : k = ticket /\ s = new  OBVIOUS
  <1>5. s.ticket = k /\ s.obtainedAt = now  BY <1>4 DEF ClientClock
  <1>6. GoodTicket(k) /\ GoodTicket(k)'
    BY <1>1, <1>2, <1>4, TicketsKept DEF TicketsInv, StoredInv
  <1>7. GoodSaved(s)'
    <2>1. GoodTicket(s.ticket)'  BY <1>5, <1>6
    <2>2. k.secret \in DOMAIN sessions  BY <1>6 DEF GoodTicket, Describes
    <2>3. sessions[k.secret].at <= now /\ now \in Nat  BY <2>2 DEF TicketsInv, ClocksInv
    <2>4. s.obtainedAt \in Nat /\ s.obtainedAt <= now'  BY <1>1, <1>5, <2>3
    <2>5. sessions'[s.ticket.secret].at <= s.obtainedAt  BY <1>1, <1>5, <2>3
    <2> QED BY <2>1, <2>4, <2>5 DEF GoodSaved
  <1>8. \A x \in saved : GoodSaved(x)'  BY <1>2, TicketsKept DEF TicketsInv, StoredInv
  <1>9. \A x \in saved : x.ticket.secret # s.ticket.secret
    BY <1>1, <1>4, <1>5 DEF TicketsInv, StoredInv
  <1>10. saved' = saved \cup {s}  BY <1>1, <1>4
  <1>11. StoredInv'
    <2>1. \A x \in saved' : GoodSaved(x)'  BY <1>7, <1>8, <1>10
    <2>2. \A x, y \in saved' : x.ticket.secret = y.ticket.secret => x = y
      BY <1>9, <1>10 DEF TicketsInv, StoredInv
    <2> QED BY <1>1, <2>1, <2>2 DEF StoredInv
  <1>12. PICK h, r : h = hello /\ r = resumed  OBVIOUS
  <1>13. h # None => GoodHello(h) /\ GoodHello(h)'
    BY <1>2, <1>12, HelloKept DEF TicketsInv, HelloInv
  <1>14. HelloInv'
    <2>1. hello' = h /\ (GoodHello(hello)' <=> GoodHello(h)')  BY <1>1, <1>12
    <2> QED BY <1>13, <2>1 DEF HelloInv
  <1>15. JudgedInv'
    <2>1. r # None => h # None /\ Judged(h, r)  BY <1>12 DEF TicketsInv, JudgedInv
    <2>2. r # None => h # None /\ Judged(h, r)'
      BY <1>1, <1>2, <1>13, <2>1, JudgedKept DEF TicketsInv
    <2>3. hello' = h /\ resumed' = r /\ (Judged(hello, resumed)' <=> Judged(h, r)')  BY <1>1, <1>12
    <2> QED BY <2>2, <2>3 DEF JudgedInv
  <1> QED BY <1>3, <1>11, <1>14, <1>15 DEF TicketsInv

\* Sending a hello disturbs nothing but the hello and the decision.
LEMMA SendingHello ==
    ASSUME TicketsInv, UNCHANGED <<now, skew, sctx, cache, sessions, ticket, saved>>,
           resumed' = None, NEW h, hello' = h, GoodHello(h)
    PROVE TicketsInv'
  <1>1. Grows  BY DEF Grows, TicketsInv, ClocksInv
  <1>2. ClocksInv'  BY DEF TicketsInv, ClocksInv
  <1>3. StoredInv'
    <2>1. PICK k : k = ticket  OBVIOUS
    <2>2. k # None => GoodTicket(k)'  BY <1>1, <2>1, TicketsKept DEF TicketsInv, StoredInv
    <2>3. GoodTicket(ticket)' <=> GoodTicket(k)'  BY <2>1
    <2>4. \A s \in saved' : GoodSaved(s)'  BY <1>1, TicketsKept DEF TicketsInv, StoredInv
    <2> QED BY <2>1, <2>2, <2>3, <2>4 DEF TicketsInv, StoredInv
  <1>4. HelloInv'
    <2>1. GoodHello(h)'  BY <1>1, HelloKept DEF TicketsInv
    <2>2. GoodHello(hello)' <=> GoodHello(h)'  OBVIOUS
    <2> QED BY <2>1, <2>2 DEF HelloInv
  <1>5. JudgedInv'  BY DEF JudgedInv
  <1> QED BY <1>2, <1>3, <1>4, <1>5 DEF TicketsInv

\* send_client_hello: a ticket that is not too old, and its age.
LEMMA SendClientHelloStep ==
    ASSUME TicketsInv, NEW s \in saved, NEW q \in Requests, NEW e \in BOOLEAN,
           SendClientHello(s, q, e)
    PROVE TicketsInv'
  <1>1. PICK h : h = hello'  OBVIOUS
  <1>2. h = [identities |-> <<Identity(s)>>, early |-> e /\ s.ticket.early, request |-> q, sentAt |-> now]
    BY <1>1 DEF SendClientHello
  <1>3. h.identities = <<Identity(s)>> /\ h.request = q /\ h.sentAt = now  BY <1>2
  <1>4. s.obtainedAt <= now /\ now - s.obtainedAt < Week
    BY DEF SendClientHello, Offerable, ClientClock
  <1>5. OwnIdentity(s, h)
    BY <1>3, <1>4 DEF OwnIdentity, Identity, ObfuscatedTicketAge, ClientClock
  <1>6. now \in Nat  BY DEF TicketsInv, ClocksInv
  <1>7. GoodHello(h)  BY <1>3, <1>5, <1>6 DEF GoodHello
  <1> QED BY <1>1, <1>7, SendingHello DEF SendClientHello

\* A hello of another make: what it begins with does not open.
LEMMA PeerClientHelloStep ==
    ASSUME TicketsInv, NEW s \in saved, NEW q \in Requests, NEW e \in BOOLEAN,
           PeerClientHello(s, q, e)
    PROVE TicketsInv'
  <1>1. PICK ids : /\ ids \in {<<Forged, Identity(s)>>, <<Forged>>}
                   /\ hello' = [identities |-> ids, early |-> e, request |-> q, sentAt |-> now]
    BY DEF PeerClientHello
  <1>2. PICK h : h = hello'  OBVIOUS
  <1>3. h.identities = ids /\ h.request = q /\ h.sentAt = now  BY <1>1, <1>2
  <1>4. ~Forged.sealed.genuine  BY DEF Forged
  <1>5. Identity(s).sealed = s.ticket.sealed  BY DEF Identity
  <1>6. OtherIdentities(h)
    <2>1. CASE ids = <<Forged>>  BY <1>3, <1>4, <2>1, Zenon DEF OtherIdentities
    <2>2. CASE ids = <<Forged, Identity(s)>>  BY <1>3, <1>4, <1>5, <2>2, Zenon DEF OtherIdentities
    <2> QED BY <1>1, <2>1, <2>2
  <1>7. now \in Nat  BY DEF TicketsInv, ClocksInv
  <1>8. GoodHello(h)  BY <1>3, <1>6, <1>7 DEF GoodHello
  <1> QED BY <1>2, <1>8, SendingHello DEF PeerClientHello
\* A hello has one identity or two.
LEMMA IdentityCount ==
    ASSUME NEW h, GoodHello(h)
    PROVE DOMAIN h.identities = {1} \/ DOMAIN h.identities = {1, 2}
  <1>1. CASE \E s \in saved : OwnIdentity(s, h)
    <2>1. PICK x : h.identities = <<x>>  BY <1>1 DEF OwnIdentity
    <2> QED BY <2>1
  <1>2. CASE OtherIdentities(h)
    <2>1. PICK f : \/ h.identities = <<f>>
                   \/ \E s \in saved : \E i : i.sealed = s.ticket.sealed /\ h.identities = <<f, i>>
      BY <1>2, Zenon DEF OtherIdentities
    <2>2. CASE h.identities = <<f>>  BY <2>2
    <2>3. CASE \E s \in saved : \E i : i.sealed = s.ticket.sealed /\ h.identities = <<f, i>>
      <3>1. PICK i : h.identities = <<f, i>>  BY <2>3
      <3> QED BY <3>1
    <2> QED BY <2>1, <2>2, <2>3
  <1> QED BY <1>1, <1>2 DEF GoodHello

\* What opens is genuine, whichever store the server has.
LEMMA OpenedIsGenuine ==
    ASSUME sctx \in TicketContext, NEW t, DecryptTicket(t)
    PROVE t.genuine
  <1>1. sctx.store \in {"hmac", "evp", "cache"}  BY DEF TicketContext
  <1> QED BY <1>1 DEF DecryptTicket, OpensTicket, OpensTicketEvp, CacheOpens

\* try_psk_handshake: the first identity that is acceptable, or none.
LEMMA TryPskHandshakeStep ==
    ASSUME TicketsInv, TryPskHandshake
    PROVE TicketsInv'
  <1> DEFINE ok == {i \in DOMAIN hello.identities : PskAcceptable(hello, i)}
  <1> DEFINE i == CHOOSE x \in ok : \A y \in ok : x <= y
  <1> DEFINE p == hello.identities[i].sealed.plain
  <1>1. /\ hello # None
        /\ UNCHANGED <<now, skew, sctx, cache, sessions, ticket, saved, hello>>
        /\ ok = {} => resumed' = [index |-> 0, secret |-> 0, early |-> FALSE]
        /\ ok # {} => resumed' = [index |-> i, secret |-> p.secret, early |-> EarlyDataAcceptable(hello, i, p)]
    BY DEF TryPskHandshake
  <1>2. GoodHello(hello)  BY <1>1 DEF TicketsInv, HelloInv
  <1>3. DOMAIN hello.identities = {1} \/ DOMAIN hello.identities = {1, 2}  BY <1>2, IdentityCount
  <1>4. ok # {} => i \in ok /\ \A y \in ok : i <= y
    <2>1. ok \subseteq {1, 2}  BY <1>3
    <2> HIDE DEF ok
    <2>2. ok # {} => \E x \in ok : \A y \in ok : x <= y
      <3>1. CASE 1 \in ok  BY <2>1, <3>1
      <3>2. CASE 1 \notin ok
        <4>1. \A y \in ok : y = 2  BY <2>1, <3>2
        <4> QED BY <4>1
      <3> QED BY <3>1, <3>2
    <2> QED BY <2>2
  <1>5. Judged(hello, resumed')
    <2>1. CASE ok = {}
      <3>1. resumed'.index = 0  BY <1>1, <2>1
      <3>2. ~PskAcceptable(hello, 1)  BY <1>3, <2>1
      <3> QED BY <3>1, <3>2 DEF Judged
    <2>2. CASE ok # {}
      <3>1. i \in DOMAIN hello.identities /\ PskAcceptable(hello, i)  BY <1>4, <2>2
      <3>2. PskAcceptable(hello, 1) => i = 1
        <4>1. PskAcceptable(hello, 1) => 1 \in ok  BY <1>3
        <4>2. i \in {1, 2} /\ \A y \in ok : i <= y  BY <1>3, <1>4, <2>2, <3>1
        <4> HIDE DEF ok, i
        <4> QED BY <4>1, <4>2
      <3>3. /\ resumed'.index = i /\ resumed'.secret = p.secret
            /\ resumed'.early = EarlyDataAcceptable(hello, i, p)
        <4> HIDE DEF ok, i, p
        <4> QED BY <1>1, <2>2
      <3>4. DecryptTicket(hello.identities[i].sealed)
        <4> HIDE DEF i
        <4> QED BY <3>1 DEF PskAcceptable
      <3>5. sctx \in TicketContext  BY DEF TicketsInv, ClocksInv
      <3>6. hello.identities[i].sealed.genuine
        <4> HIDE DEF i
        <4> QED BY <3>4, <3>5, OpenedIsGenuine
      <3> HIDE DEF ok, i
      <3> QED BY <3>1, <3>2, <3>3, <3>6 DEF Judged, PskAcceptable
    <2> QED BY <2>1, <2>2
  <1> HIDE DEF ok, i, p
  <1>6. PICK h, r : h = hello /\ r = resumed'  OBVIOUS
  <1>7. Judged(h, r)  BY <1>5, <1>6
  <1>8. Grows  BY <1>1 DEF Grows, TicketsInv, ClocksInv
  <1>9. Judged(h, r)'
    <2>1. GoodHello(h)  BY <1>2, <1>6
    <2> QED BY <1>1, <1>7, <1>8, <2>1, JudgedKept DEF TicketsInv
  <1>10. JudgedInv'
    <2>1. Judged(hello, resumed)' <=> Judged(h, r)'  BY <1>1, <1>6
    <2> QED BY <1>1, <1>9, <2>1 DEF JudgedInv
  <1>11. ClocksInv'  BY <1>1 DEF TicketsInv, ClocksInv
  <1>12. StoredInv'
    <2>1. PICK k : k = ticket  OBVIOUS
    <2>2. k # None => GoodTicket(k)'  BY <1>8, <2>1, TicketsKept DEF TicketsInv, StoredInv
    <2>3. ticket' = k /\ (GoodTicket(ticket)' <=> GoodTicket(k)')  BY <1>1, <2>1
    <2>4. \A s \in saved' : GoodSaved(s)'  BY <1>1, <1>8, TicketsKept DEF TicketsInv, StoredInv
    <2> QED BY <1>1, <2>1, <2>2, <2>3, <2>4 DEF TicketsInv, StoredInv
  <1>13. HelloInv'
    <2>1. GoodHello(h)'  BY <1>2, <1>6, <1>8, HelloKept DEF TicketsInv
    <2>2. GoodHello(hello)' <=> GoodHello(h)'  BY <1>1, <1>6
    <2> QED BY <2>1, <2>2 DEF HelloInv
  <1> QED BY <1>10, <1>11, <1>12, <1>13 DEF TicketsInv

\* Time, the application and the operator.
LEMMA WorldStep ==
    ASSUME TicketsInv, Done \/ Tick \/ (\E c \in Contexts : Reconfigure(c)) \/ UNCHANGED tvars
    PROVE TicketsInv'
  <1>1. CASE Done
    <2>1. Grows /\ ClocksInv'  BY <1>1 DEF Done, Grows, TicketsInv, ClocksInv
    <2>2. StoredInv'
      <3>1. PICK k : k = ticket  OBVIOUS
      <3>2. k # None => GoodTicket(k)'  BY <2>1, <3>1, TicketsKept DEF TicketsInv, StoredInv
      <3>3. ticket' = k /\ (GoodTicket(ticket)' <=> GoodTicket(k)')  BY <1>1, <3>1 DEF Done
      <3>4. saved' = saved  BY <1>1 DEF Done
      <3>5. \A s \in saved' : GoodSaved(s)'  BY <2>1, <3>4, TicketsKept DEF TicketsInv, StoredInv
      <3> QED BY <3>1, <3>2, <3>3, <3>4, <3>5 DEF TicketsInv, StoredInv
    <2>3. HelloInv' /\ JudgedInv'  BY <1>1 DEF Done, HelloInv, JudgedInv
    <2> QED BY <2>1, <2>2, <2>3 DEF TicketsInv
  <1>2. CASE Tick
    <2>1. now \in Nat /\ now' = now + 1 /\ resumed' = None
      BY <1>2 DEF Tick, TicketsInv, ClocksInv
    <2>2. Grows
      <3>1. now' \in Nat /\ now <= now'  BY <2>1
      <3> QED BY <1>2, <3>1 DEF Tick, Grows
    <2>3. ClocksInv'
      <3>1. \A n \in DOMAIN sessions : sessions[n].at \in Nat /\ sessions[n].at <= now
        <4>1. sessions \in Seq(SessionRecord) /\ \A n \in DOMAIN sessions : sessions[n].at <= now
          BY DEF TicketsInv, ClocksInv
        <4>2. ASSUME NEW n \in DOMAIN sessions PROVE sessions[n] \in SessionRecord
          BY <4>1, <4>2
        <4> QED BY <4>1, <4>2 DEF SessionRecord
      <3>2. \A n \in DOMAIN sessions : sessions[n].at <= now'  BY <2>1, <3>1
      <3> QED BY <1>2, <2>1, <3>2 DEF Tick, TicketsInv, ClocksInv
    <2> QED BY <1>2, <2>1, <2>2, <2>3, RestKept DEF Tick, TicketsInv
  <1>3. ASSUME NEW c \in Contexts, Reconfigure(c) PROVE TicketsInv'
    <2>1. Grows  BY <1>3 DEF Reconfigure, Grows, TicketsInv, ClocksInv
    <2>2. ClocksInv'  BY <1>3, TicketsAssumption DEF Reconfigure, TicketsInv, ClocksInv
    <2> QED BY <1>3, <2>1, <2>2, RestKept DEF Reconfigure, TicketsInv
  <1>4. CASE UNCHANGED tvars
    <2>1. Grows /\ ClocksInv'  BY <1>4 DEF tvars, Grows, TicketsInv, ClocksInv
    <2> QED BY <1>4, <2>1, RestKept DEF tvars, TicketsInv
  <1> QED BY <1>1, <1>2, <1>3, <1>4
---------------------------------------------------------------------------
(* Tickets: the theorems.                                                  *)

\* The invariant holds throughout.
LEMMA TicketsInvariant == TicketsSpec => []TicketsInv
  <1>1. TicketsInit => TicketsInv
    <2> SUFFICES ASSUME TicketsInit PROVE TicketsInv  OBVIOUS
    <2>1. sessions = <<>> /\ sessions \in Seq(SessionRecord) /\ DOMAIN sessions = {}
      <3>1. sessions = <<>>  BY DEF TicketsInit
      <3> QED BY <3>1, EmptySeq, LenProperties
    <2>2. ClocksInv  BY <2>1, TicketsAssumption DEF TicketsInit, ClocksInv
    <2> QED BY <2>2 DEF TicketsInit, TicketsInv, StoredInv, HelloInv, JudgedInv
  <1>2. TicketsInv /\ [TicketsNext]_tvars => TicketsInv'
    <2> SUFFICES ASSUME TicketsInv, [TicketsNext]_tvars PROVE TicketsInv'  OBVIOUS
    <2> QED BY SendSessionTicketStep, HandleNewSessionTicketStep, SendClientHelloStep,
               PeerClientHelloStep, TryPskHandshakeStep, WorldStep DEF TicketsNext
  <1> QED BY <1>1, <1>2, PTL DEF TicketsSpec

\* Every identity of a hello that opens describes its session.
LEMMA IdentityDescribes ==
    ASSUME StoredInv, NEW h, GoodHello(h), NEW i \in DOMAIN h.identities, h.identities[i].sealed.genuine
    PROVE Describes(h.identities[i].sealed)
  <1>1. CASE \E s \in saved : OwnIdentity(s, h)
    <2>1. PICK s \in saved : OwnIdentity(s, h)  BY <1>1
    <2>2. h.identities[1].sealed = s.ticket.sealed /\ i = 1  BY <2>1 DEF OwnIdentity
    <2> QED BY <2>2 DEF StoredInv, GoodSaved, GoodTicket
  <1>2. CASE OtherIdentities(h)
    <2>1. PICK f : /\ ~f.sealed.genuine
                   /\ \/ h.identities = <<f>>
                      \/ \E s \in saved : \E x : x.sealed = s.ticket.sealed /\ h.identities = <<f, x>>
      BY <1>2, Zenon DEF OtherIdentities
    <2>2. CASE h.identities = <<f>>
      <3>1. h.identities[i] = f  BY <2>2
      <3> QED BY <2>1, <3>1
    <2>3. CASE \E s \in saved : \E x : x.sealed = s.ticket.sealed /\ h.identities = <<f, x>>
      <3>0. PICK s \in saved : \E x : x.sealed = s.ticket.sealed /\ h.identities = <<f, x>>  BY <2>3
      <3>1. PICK x : x.sealed = s.ticket.sealed /\ h.identities = <<f, x>>  BY <3>0
      <3>2. h.identities[i] = f \/ h.identities[i] = x  BY <3>1
      <3> QED BY <2>1, <3>1, <3>2 DEF StoredInv, GoodSaved, GoodTicket
    <2> QED BY <2>1, <2>2, <2>3
  <1> QED BY <1>1, <1>2 DEF GoodHello

\* Strings that vec_is_string calls equal are equal.
LEMMA VecIsStringEqual ==
    ASSUME NEW S, NEW T, NEW x \in Seq(S), NEW y \in Seq(T)
    PROVE VecIsString(x, y) <=> x = y
  <1>1. ASSUME VecIsString(x, y) PROVE x = y
    <2>1. Len(x) = Len(y) /\ \A i \in 1 .. Len(x) : x[i] = y[i]
      BY <1>1 DEF VecIsString, IsPrefix
    <2> QED BY <2>1, SeqEqual
  <1>2. ASSUME x = y PROVE VecIsString(x, y)
    <2>1. Len(x) \in Nat /\ SubSeq(x, 1, Len(x)) = x  BY LenProperties, SubSeqFull
    <2> QED BY <1>2, <2>1 DEF VecIsString, IsPrefix
  <1> QED BY <1>1, <1>2
\* The context of the server and of the session are the same one, if the
\* ticket of the session passes for the server's.
LEMMA SameContext ==
    ASSUME sctx \in TicketContext, NEW s \in SessionRecord, NEW q \in Requests, NEW p,
           p.context = IF s.context # None THEN <<s.context>> ELSE s.request.name
    PROVE ContextMatches(p, q) <=>
              s.context = sctx.context /\ (sctx.context = None => s.request.name = q.name)
  <1>1. /\ q.name \in Seq(STRING) /\ q.name # <<"c1">> /\ q.name # <<"c2">>
        /\ s.request.name \in Seq(STRING) /\ s.request.name # <<"c1">> /\ s.request.name # <<"c2">>
    BY TicketsAssumption DEF SessionRecord
  <1>2. s.context \in {None, "c1", "c2"} /\ sctx.context \in {None, "c1", "c2"}
    BY DEF SessionRecord, TicketContext
  <1>3. CASE sctx.context # None
    <2>1. ContextMatches(p, q) <=> p.context = <<sctx.context>>  BY <1>3 DEF ContextMatches
    <2>2. CASE s.context # None
      <3>1. <<s.context>> = <<sctx.context>> <=> s.context = sctx.context  OBVIOUS
      <3> QED BY <1>3, <2>1, <2>2, <3>1
    <2>3. CASE s.context = None
      <3>1. s.request.name # <<sctx.context>>  BY <1>1, <1>2, <1>3
      <3> QED BY <1>3, <2>1, <2>3, <3>1
    <2> QED BY <2>2, <2>3
  <1>4. CASE sctx.context = None
    <2>1. ContextMatches(p, q) <=>
              IF p.context # <<>> THEN q.name # <<>> /\ VecIsString(p.context, q.name)
              ELSE q.name = <<>>
      BY <1>4 DEF ContextMatches
    <2>2. CASE s.context # None
      <3>1. p.context = <<s.context>> /\ p.context \in Seq({"c1", "c2"}) /\ p.context # <<>>
            /\ (p.context = <<"c1">> \/ p.context = <<"c2">>)
        <4>1. p.context = <<s.context>> /\ (s.context = "c1" \/ s.context = "c2")  BY <1>2, <2>2
        <4>2. s.context \in {"c1", "c2"}  BY <4>1
        <4>3. <<s.context>> \in Seq({"c1", "c2"}) /\ <<s.context>> # <<>>  BY <4>2
        <4> QED BY <4>1, <4>3
      <3>2. ~VecIsString(p.context, q.name)  BY <1>1, <3>1, VecIsStringEqual
      <3> QED BY <1>4, <2>1, <2>2, <3>1, <3>2
    <2>3. CASE s.context = None
      <3>1. p.context = s.request.name /\ p.context \in Seq(STRING)  BY <1>1, <2>3
      <3>2. VecIsString(p.context, q.name) <=> p.context = q.name  BY <1>1, <3>1, VecIsStringEqual
      <3> QED BY <1>4, <2>1, <2>3, <3>1, <3>2
    <2> QED BY <2>2, <2>3
  <1> QED BY <1>3, <1>4

\* A session resumed is of this service and not too old.
LEMMA SameServiceHolds == TicketsInv => SameService
  <1> SUFFICES ASSUME TicketsInv, Resumes PROVE SameService  BY DEF SameService
  <1> DEFINE i == resumed.index
  <1> DEFINE t == hello.identities[i].sealed
  <1> DEFINE s == sessions[resumed.secret]
  <1>1. GoodHello(hello) /\ Judged(hello, resumed)
    BY DEF TicketsInv, HelloInv, JudgedInv, Resumes
  <1>2. /\ i \in DOMAIN hello.identities /\ t.genuine /\ AgeAcceptable(t.plain)
        /\ ContextMatches(t.plain, hello.request) /\ SessionMatches(t.plain, hello.request)
        /\ resumed.secret = t.plain.secret
    BY <1>1 DEF Judged, Resumes
  <1>3. Describes(t)
    <2>1. StoredInv  BY DEF TicketsInv
    <2> QED BY <1>1, <1>2, <2>1, IdentityDescribes
  <1> HIDE DEF t, i
  <1>4. resumed.secret \in DOMAIN sessions  BY <1>2, <1>3 DEF Describes
  <1>5. /\ t.plain.issuedAt = s.at + skew
        /\ t.plain.suite = s.request.suite /\ t.plain.alpn = s.request.alpn
        /\ t.plain.context = IF s.context # None THEN <<s.context>> ELSE s.request.name
    BY <1>2, <1>3 DEF Describes
  <1>6. s \in SessionRecord /\ sctx \in TicketContext /\ now \in Nat /\ skew \in Int
        /\ hello.request \in Requests
    <2>1. sessions \in Seq(SessionRecord)  BY DEF TicketsInv, ClocksInv
    <2>2. s \in SessionRecord  BY <1>4, <2>1
    <2> QED BY <1>1, <2>2 DEF TicketsInv, ClocksInv, GoodHello
  <1> HIDE DEF s
  <1>7. s.context = sctx.context /\ (sctx.context = None => s.request.name = hello.request.name)
    <2>1. PICK p : p = t.plain  OBVIOUS
    <2>2. ContextMatches(p, hello.request)  BY <1>2, <2>1
    <2>3. p.context = IF s.context # None THEN <<s.context>> ELSE s.request.name  BY <1>5, <2>1
    <2> QED BY <1>6, <2>2, <2>3, SameContext
  <1>8. now - s.at <= sctx.lifetime
    <2>1. s.at \in Nat /\ sctx.lifetime \in Nat  BY <1>6 DEF SessionRecord, TicketContext
    <2>2. (now + skew) - (s.at + skew) <= sctx.lifetime
      BY <1>2, <1>5 DEF AgeAcceptable, ServerClock
    <2> QED BY <1>6, <2>1, <2>2
  <1>9. s.request.suite = hello.request.suite /\ s.request.alpn \in {None, hello.request.alpn}
    BY <1>2, <1>5 DEF SessionMatches
  <1>10. s = sessions[resumed.secret]  BY DEF s
  <1> QED BY <1>4, <1>7, <1>8, <1>9, <1>10 DEF SameService

\* Early data accepted is fresh.
LEMMA EarlyDataFreshHolds == TicketsInv => EarlyDataIsFresh
  <1> SUFFICES ASSUME TicketsInv, Resumes, resumed.early PROVE now - hello.sentAt <= Window
    BY DEF EarlyDataIsFresh
  <1>1. GoodHello(hello) /\ Judged(hello, resumed) /\ StoredInv
    BY DEF TicketsInv, HelloInv, JudgedInv, Resumes
  <1>2. EarlyDataAcceptable(hello, resumed.index, hello.identities[resumed.index].sealed.plain)
        /\ hello.identities[resumed.index].sealed.genuine
    BY <1>1 DEF Judged, Resumes
  <1>3. resumed.index = 1  BY <1>2 DEF EarlyDataAcceptable
  <1>4. PICK s \in saved : /\ OwnIdentity(s, hello) /\ hello.identities[1].sealed = s.ticket.sealed
                           /\ Describes(hello.identities[1].sealed)
    BY <1>1, <1>2, <1>3, FirstIdentity
  <1> DEFINE p == s.ticket.sealed.plain
  <1>5. Delta(p, hello.identities[1]) <= Window
    BY <1>2, <1>3, <1>4 DEF EarlyDataAcceptable
  <1>6. GoodSaved(s) /\ GoodTicket(s.ticket)  BY <1>1 DEF StoredInv, GoodSaved
  <1> DEFINE at == sessions[s.ticket.secret].at
  <1>7. p.issuedAt = at + skew /\ p.ageAdd = s.ticket.ageAdd /\ p.ageAdd \in 0 .. (AgeMod - 1)
        /\ s.ticket.secret \in DOMAIN sessions
    BY <1>6 DEF GoodTicket, Describes
  <1>8. at \in Nat /\ now \in Nat /\ skew \in Int /\ hello.sentAt \in Nat
    <2>1. sessions \in Seq(SessionRecord) /\ now \in Nat /\ skew \in Int  BY DEF TicketsInv, ClocksInv
    <2>2. sessions[s.ticket.secret] \in SessionRecord  BY <1>7, <2>1
    <2> QED BY <1>1, <2>1, <2>2 DEF SessionRecord, GoodHello
  <1>9. s.obtainedAt \in Nat /\ at <= s.obtainedAt  BY <1>6 DEF GoodSaved
  <1>10. s.obtainedAt <= hello.sentAt /\ hello.sentAt - s.obtainedAt < Week
         /\ hello.identities[1].age = ((hello.sentAt - s.obtainedAt) + p.ageAdd) % AgeMod
    BY <1>4, <1>7 DEF OwnIdentity
  <1> HIDE DEF p, at
  <1> DEFINE age == hello.sentAt - s.obtainedAt
  <1>11. age \in Nat /\ age < AgeMod  BY <1>8, <1>9, <1>10, TicketsAssumption
  <1>12. (hello.identities[1].age - p.ageAdd) % AgeMod = age
    <2>1. AgeMod \in Nat  BY TicketsAssumption
    <2>2. hello.identities[1].age = (age + p.ageAdd) % AgeMod  BY <1>10
    <2> HIDE DEF age
    <2>3. (((age + p.ageAdd) % AgeMod) - p.ageAdd) % AgeMod = age  BY <1>7, <1>11, <2>1, AgeShows
    <2> QED BY <2>2, <2>3
  <1>13. Delta(p, hello.identities[1]) =
            LET d == ((now + skew) - (at + skew)) - age IN IF d < 0 THEN -d ELSE d
    BY <1>7, <1>12 DEF Delta, ServerClock
  <1>14. ((now + skew) - (at + skew)) - age <= Window
    <2>1. Window \in Nat  BY TicketsAssumption
    <2> DEFINE d == ((now + skew) - (at + skew)) - age
    <2>2. d \in Int  BY <1>8, <1>11
    <2>3. (IF d < 0 THEN -d ELSE d) <= Window  BY <1>5, <1>13
    <2> HIDE DEF d
    <2>4. d <= Window  BY <2>1, <2>2, <2>3
    <2> QED BY <2>4 DEF d
  <1>15. Window \in Nat  BY TicketsAssumption
  <1> QED BY <1>8, <1>9, <1>14, <1>15
\* A ticket that can be honoured is.
LEMMA HonouredHolds == TicketsInv => TicketHonoured
  <1> SUFFICES ASSUME TicketsInv, NEW s \in saved, resumed # None,
                      hello.identities = <<[sealed |-> s.ticket.sealed,
                          age |-> (hello.sentAt - s.obtainedAt + s.ticket.ageAdd) % AgeMod]>>,
                      hello.sentAt = now,
                      hello.request = sessions[s.ticket.secret].request,
                      now - sessions[s.ticket.secret].at <= sctx.lifetime,
                      sctx.context = sessions[s.ticket.secret].context,
                      s.ticket.group \in sctx.groups,
                      IF sctx.store = "cache" THEN cache = 100 + s.ticket.secret
                      ELSE s.ticket.sealed.label \in sctx.keys
               PROVE /\ resumed.index = 1
                     /\ hello.early /\ sctx.maxEarly
                        /\ s.obtainedAt - sessions[s.ticket.secret].at <= Window => resumed.early
    BY DEF TicketHonoured
  <1> DEFINE t == s.ticket.sealed
  <1> DEFINE p == t.plain
  <1> DEFINE z == sessions[s.ticket.secret]
  <1>1. GoodHello(hello) /\ Judged(hello, resumed) /\ StoredInv
    BY DEF TicketsInv, HelloInv, JudgedInv
  <1>2. GoodSaved(s) /\ GoodTicket(s.ticket) /\ Describes(t)  BY <1>1 DEF StoredInv, GoodSaved, GoodTicket
  <1>3. hello.identities[1].sealed = t /\ 1 \in DOMAIN hello.identities  OBVIOUS
  <1>4. /\ t.genuine /\ p.issuedAt = z.at + skew /\ p.group = z.group /\ p.suite = z.request.suite
        /\ p.alpn = z.request.alpn /\ p.secret = s.ticket.secret /\ p.ageAdd = s.ticket.ageAdd
        /\ p.context = IF z.context # None THEN <<z.context>> ELSE z.request.name
        /\ p.ageAdd \in 0 .. (AgeMod - 1) /\ s.ticket.secret \in DOMAIN sessions
        /\ cache = 100 + p.secret => t.label = cache
    BY <1>2 DEF GoodTicket, Describes
  <1>5. /\ z \in SessionRecord /\ sctx \in TicketContext /\ now \in Nat /\ skew \in Int
        /\ hello.request \in Requests /\ z.at <= now
    <2>1. sessions \in Seq(SessionRecord)  BY DEF TicketsInv, ClocksInv
    <2>2. z \in SessionRecord  BY <1>4, <2>1
    <2> QED BY <1>1, <1>4, <2>2 DEF TicketsInv, ClocksInv, GoodHello
  <1>6. z.at \in Nat /\ sctx.lifetime \in Nat /\ sctx.store \in {"hmac", "evp", "cache"}
    BY <1>5 DEF SessionRecord, TicketContext
  <1>7. DecryptTicket(t)
    <2>1. CASE sctx.store = "cache"
      <3>1. t.label = cache  BY <1>4, <2>1
      <3> HIDE DEF t
      <3> QED BY <1>4, <2>1, <3>1 DEF DecryptTicket, CacheOpens
    <2>2. CASE sctx.store # "cache"
      <3>1. t.label \in sctx.keys  BY <2>2
      <3> HIDE DEF t
      <3> QED BY <1>4, <1>6, <2>2, <3>1 DEF DecryptTicket, OpensTicket, OpensTicketEvp
    <2> QED BY <2>1, <2>2
  <1>8. AgeAcceptable(p)
    <2>1. now - z.at <= sctx.lifetime  OBVIOUS
    <2> HIDE DEF p, z
    <2>2. z.at + skew <= now + skew /\ (now + skew) - (z.at + skew) <= sctx.lifetime
      BY <1>5, <1>6, <2>1
    <2> QED BY <1>4, <2>2 DEF AgeAcceptable, ServerClock
  <1>9. ContextMatches(p, hello.request)
    <2>1. z.context = sctx.context /\ z.request.name = hello.request.name  OBVIOUS
    <2>2. PICK x : x = p  OBVIOUS
    <2> HIDE DEF p, z
    <2>3. ContextMatches(x, hello.request)  BY <1>4, <1>5, <2>1, <2>2, SameContext
    <2> QED BY <2>2, <2>3
  <1>10. SessionMatches(p, hello.request)
    <2>1. hello.request = z.request /\ p.group \in sctx.groups  BY <1>2 DEF GoodTicket
    <2> HIDE DEF p, z
    <2> QED BY <1>4, <2>1 DEF SessionMatches
  <1>11. PskAcceptable(hello, 1)  BY <1>3, <1>7, <1>8, <1>9, <1>10 DEF PskAcceptable
  <1>12. resumed.index = 1 /\ (resumed.early <=> EarlyDataAcceptable(hello, 1, p))
    <2>1. resumed.index = 1  BY <1>1, <1>11 DEF Judged
    <2> QED BY <1>1, <1>3, <2>1 DEF Judged
  <1>13. ASSUME hello.early, sctx.maxEarly, s.obtainedAt - z.at <= Window
         PROVE EarlyDataAcceptable(hello, 1, p)
    <2>1. PICK u \in saved : OwnIdentity(u, hello) /\ hello.identities[1].sealed = u.ticket.sealed
      BY <1>1, <1>3, <1>4, FirstIdentity
    <2>2. u.ticket.secret = s.ticket.secret
      <3>1. GoodTicket(u.ticket)  BY <1>1 DEF StoredInv, GoodSaved
      <3> QED BY <1>3, <1>4, <2>1, <3>1 DEF GoodTicket
    <2>3. u = s  BY <1>1, <2>2 DEF StoredInv
    <2> DEFINE age == now - s.obtainedAt
    <2>4. s.obtainedAt <= now /\ age < Week /\ s.obtainedAt \in Nat /\ z.at <= s.obtainedAt
      BY <1>2, <2>1, <2>3 DEF OwnIdentity, GoodSaved
    <2>5. age \in Nat /\ age < AgeMod /\ AgeMod \in Nat /\ Window \in Nat
      BY <1>5, <2>4, TicketsAssumption
    <2>6. hello.identities[1].age = (age + p.ageAdd) % AgeMod  BY <1>4
    <2>7. (hello.identities[1].age - p.ageAdd) % AgeMod = age
      <3> HIDE DEF age, p
      <3>1. (((age + p.ageAdd) % AgeMod) - p.ageAdd) % AgeMod = age  BY <1>4, <2>5, AgeShows
      <3> QED BY <2>6, <3>1
    <2> DEFINE d == ((now + skew) - (z.at + skew)) - age
    <2>8. d = s.obtainedAt - z.at /\ d \in Nat /\ d <= Window
      <3> HIDE DEF z
      <3> QED BY <1>5, <1>6, <1>13, <2>4, <2>5
    <2>9. Delta(p, hello.identities[1]) = IF d < 0 THEN -d ELSE d
      BY <1>4, <2>7 DEF Delta, ServerClock
    <2>10. Delta(p, hello.identities[1]) <= Window
      <3> HIDE DEF d, p
      <3> QED BY <2>5, <2>8, <2>9
    <2> HIDE DEF p
    <2> QED BY <1>13, <2>10 DEF EarlyDataAcceptable
  <1> QED BY <1>12, <1>13

\* For every skew of the clocks, every context, key, request and number of
\* sessions: what try_psk_handshake takes is a session of this service that
\* has not run out, and early data that is fresh, although tickets are
\* delayed, ages wrap around and the server is reconfigured in between.
THEOREM ResumesSoundly == TicketsSpec => []ResumptionSound
  <1>1. TicketsInv => ResumptionSound
    BY SameServiceHolds, EarlyDataFreshHolds DEF ResumptionSound
  <1> QED BY <1>1, TicketsInvariant, PTL

\* For every value of the constants a ticket that try_psk_handshake could
\* take when it is offered, it takes, and its early data with it.
THEOREM TicketsAreHonoured == TicketsSpec => []TicketHonoured
  BY TicketsInvariant, HonouredHolds, PTL

---------------------------------------------------------------------------
(* Ech: what two ends of this library do, as a function of the scenario.   *)

\* A real offer, and one the server has the key for.
RealOffer == OfferedEch.aead # Nil /\ OfferedEch.state = "none"
Opened == RealOffer /\ OpenerKey(OfferedEch.id) = OfferedEch.aead

\* The first ClientHello as sent, and as the server reads it.
Hello1 == IF OfferedEch.aead = Nil THEN InnerHello(OfferedEch, FALSE) ELSE OuterHello(OfferedEch, FALSE)
Read1 == IF Opened THEN InnerHello(OfferedEch, FALSE) ELSE Hello1

\* What it leaves in the client's two transcripts.
Inner1 == IF RealOffer THEN InnerHello(OfferedEch, FALSE) ELSE Hello1
Outer1 == IF RealOffer THEN <<Hello1>> ELSE <<>>

\* The client's ECH state behind the first and behind the second hello.
Ech1 ==
    [OfferedEch EXCEPT !.state = IF RealOffer THEN "offered" ELSE @, !.aead = IF RealOffer THEN @ ELSE Nil,
                       !.first = IF OfferedEch.aead = Nil THEN NoExtension ELSE Hello1.ech]
Ech2 == [Ech1 EXCEPT !.state = IF Opened THEN "accepted" ELSE @, !.aead = IF Opened THEN @ ELSE Nil]

\* The server's state behind the first hello, and what it asks.
ServerState == IF Opened THEN "accepted" ELSE IF OfferedEch.aead # Nil THEN "offered" ELSE "none"
ServerEch1 ==
    [state |-> ServerState, aead |-> IF Opened THEN OfferedEch.aead ELSE Nil,
     id |-> IF Opened THEN OfferedEch.id ELSE 0, public |-> Nil, first |-> NoExtension]
Retry1 ==
    [type |-> "hrr",
     confirm |-> IF Opened THEN Confirmation("hrr ech accept confirmation", Ch1Hash(<<Read1>>))
                 ELSE NoConfirmation]

\* The second hello as sent, and as read.
Hello2 == IF Opened THEN OuterHello(Ech2, TRUE) ELSE InnerHello(Ech2, TRUE)
Read2 == InnerHello(Ech2, TRUE)

\* The transcript up to ServerHello, ServerHello, and with it.
Asked == IF sc.retry THEN <<[hash |-> <<Read1>>], Retry1, Read2>> ELSE <<Read1>>
Answer ==
    [type |-> "sh",
     confirm |-> IF Opened THEN Confirmation("ech accept confirmation", Asked) ELSE RandomBytes]
Answered == Append(Asked, Answer)

\* The flight behind it.
Extensions == [type |-> "ee", retryConfigs |-> ServerState = "offered" /\ sc.opener /\ sc.retryConfigs]
Cert == [type |-> "cert", name |-> IF sc.retry THEN Read2.name ELSE Read1.name]
Fin == [type |-> "fin", over |-> Answered]

\* The server saved the outer name and meets the inner one in the open.
NameRefused == sc.retry /\ sc.savesName /\ RealOffer /\ ~Opened

Client1 ==
    /\ ec.phase = "hello" /\ ec.ech = Ech1
    /\ ec.inner = <<Inner1>> /\ ec.outer = Outer1
Client2 ==
    /\ ec.phase = "hello" /\ ec.ech = Ech2
    /\ ec.inner = Asked

Server0 ==
    /\ es.phase = "first" /\ es.ech = NoEch /\ es.name = Nil /\ es.transcript = <<>>
Server1 ==
    /\ es.phase = "second" /\ es.ech = ServerEch1
    /\ es.name = IF sc.savesName THEN Read1.name ELSE Nil
    /\ es.transcript = <<[hash |-> <<Read1>>], Retry1>>
Server2 ==
    /\ es.phase = "done" /\ es.ech.state = ServerState /\ es.transcript = Answered

ClientEnd ==
    /\ ec.inner = Answered
    /\ ec.ech.state = Ech2.state

\* Where two ends of this library can be: before anything is sent, with a
\* hello, a retry request, the second hello, the answer or a refusal on its
\* way, with the flight being handled, and refused.
AtStart ==
    /\ ec.phase = "start" /\ Server0 /\ toEs = <<>> /\ toEc = <<>>
    /\ ec.ech = NoEch /\ ec.inner = <<>> /\ ec.outer = <<>>
AtHello1 == Client1 /\ Server0 /\ toEs = <<Hello1>> /\ toEc = <<>>
AtRetry == sc.retry /\ Client1 /\ Server1 /\ toEs = <<>> /\ toEc = <<Retry1>>
AtHello2 == sc.retry /\ Client2 /\ Server1 /\ toEs = <<Hello2>> /\ toEc = <<>>
AtAnswer ==
    /\ (~sc.retry /\ Client1) \/ (sc.retry /\ Client2 /\ ~NameRefused)
    /\ Server2 /\ toEs = <<>> /\ toEc = <<Answer, Extensions, Cert, Fin>>
AtFlight ==
    /\ Server2 /\ ClientEnd /\ toEs = <<>>
    /\ \/ ec.phase = "ee" /\ toEc = <<Extensions, Cert, Fin>>
       \/ ec.phase = "cert" /\ toEc = <<Cert, Fin>>
       \/ ec.phase = "fin" /\ toEc = <<Fin>>
       \/ ec.phase = (IF Ech2.state = "offered" THEN "ech_required" ELSE "done") /\ toEc = <<>>
AtRefusal == NameRefused /\ Client2 /\ toEs = <<>> /\ toEc = <<[type |-> "alert"]>>
AtRefused == NameRefused /\ ec.phase = "peer_alert" /\ ec.ech = Ech2 /\ toEs = <<>> /\ toEc = <<>>

LibraryInv ==
    AtStart \/ AtHello1 \/ AtRetry \/ AtHello2 \/ AtAnswer \/ AtFlight \/ AtRefusal \/ AtRefused

---------------------------------------------------------------------------
(* Ech: a real offer to a server of another make.                          *)

Offers == sc.offer = "configs" /\ sc.sni /\ SelectedConfig(sc.configs) # NoConfig

\* The client has been told that ECH is accepted, and has the keys for it; or
\* a retry without confirmation has made it adopt the outer transcript since.
Believes == ec.ech.state = "accepted" /\ ec.ech.aead # Nil
Misled == ec.ech.state = "accepted" /\ ec.ech.aead = Nil

\* A ClientHello is on its way.  The outer transcript lacks the retry request,
\* so a client that adopts it late is left with one that is not the server's.
Asking(h) ==
    /\ ec.phase = "hello" /\ toEs = <<h>> /\ toEc = <<>>
    /\ Believes => /\ \E a, b : ec.outer = <<a>> \/ ec.outer = <<a, b>>
                   /\ \E a, b : es.outer = <<a, b>>
    /\ Misled => \E i, o, r : i # o /\ ec.inner \in {<<r, h>>, <<i, r, h>>} /\ es.outer = <<o, r>>
PeerAsked == \E h : Asking(h)

\* A HelloRetryRequest is.
PeerRetries ==
    \E m, o : /\ ec.phase = "hello" /\ toEs = <<>> /\ toEc = <<m>> /\ m.type = "hrr"
              /\ es.outer = <<[hash |-> o], m>>
              /\ Believes => ec.outer # o
              /\ Misled => ec.inner # o

\* A ServerHello is, with what follows it.
Answering(m, e, k, f) ==
    /\ ec.phase = "hello" /\ toEs = <<>> /\ toEc = <<m, e, k, f>>
    /\ m.type = "sh" /\ e.type = "ee" /\ k.type = "cert" /\ f.type = "fin"
    /\ \/ es.ech.state = "accepted"
       \/ /\ m.confirm = RandomBytes
          /\ Misled => \E i, o, r, h : /\ i # o /\ ec.inner \in {<<r, h>>, <<i, r, h>>}
                                       /\ f.over = <<o, r, h, m>>
PeerAnswers == \E m, e, k, f : Answering(m, e, k, f)

\* The flight is being handled: it leads nowhere unless ECH was accepted.
Ending(e, k, f) ==
    /\ toEs = <<>> /\ e.type = "ee" /\ k.type = "cert" /\ f.type = "fin"
    /\ \/ ec.phase = "ee" /\ toEc = <<e, k, f>>
       \/ ec.phase = "cert" /\ toEc = <<k, f>>
       \/ ec.phase = "fin" /\ toEc = <<f>>
    /\ es.ech.state = "accepted" \/ ec.ech.state = "offered" \/ f.over # ec.inner
PeerFlight == \E e, k, f : Ending(e, k, f)

\* The client has finished, or given up.
PeerEnd ==
    /\ toEs = <<>> /\ ec.phase \notin {"start", "hello", "ee", "cert", "fin"}
    /\ ec.phase = "done" => ec.ech.state = "accepted" /\ es.ech.state = "accepted"

PeerInv ==
    \/ /\ ec.phase = "start" /\ toEs = <<>> /\ toEc = <<>> /\ ec.outer = <<>> /\ es.outer = <<>>
    \/ /\ ec.ech.state \in {"offered", "accepted"}
       /\ PeerAsked \/ PeerRetries \/ PeerAnswers \/ PeerFlight \/ PeerEnd

\* The shapes of the records.
EchRecord(e) ==
    e = [state |-> e.state, aead |-> e.aead, id |-> e.id, public |-> e.public, first |-> e.first]
EchClient(c) ==
    /\ c = [phase |-> c.phase, ech |-> c.ech, inner |-> c.inner, outer |-> c.outer,
            retryConfigs |-> c.retryConfigs]
    /\ EchRecord(c.ech)
EchServer(s) ==
    /\ s = [phase |-> s.phase, ech |-> s.ech, name |-> s.name, transcript |-> s.transcript,
            outer |-> s.outer, retries |-> s.retries]
    /\ EchRecord(s.ech)
EchRecords == EchClient(ec) /\ EchServer(es)

EchInv ==
    /\ sc \in EchScenario /\ EchRecords
    /\ sc.library => LibraryInv
    /\ ~sc.library /\ Offers => PeerInv

---------------------------------------------------------------------------
(* Ech: the scenario.                                                      *)

\* Short lists, element by element.
LEMMA AppendIs ==
    ASSUME NEW S, NEW s \in Seq(S), NEW t \in Seq(S), NEW x \in S,
           Len(t) = Len(s) + 1, \A i \in 1 .. Len(s) : t[i] = s[i], t[Len(s) + 1] = x
    PROVE Append(s, x) = t
  <1>1. PICK u : u = Append(s, x)  OBVIOUS
  <1>2. /\ u \in Seq(S) /\ Len(u) = Len(s) + 1 /\ u[Len(s) + 1] = x
        /\ \A i \in 1 .. Len(s) : u[i] = s[i]
    BY <1>1, AppendProperties
  <1>3. Len(s) \in Nat  BY LenProperties
  <1>4. \A i \in 1 .. Len(u) : u[i] = t[i]
    <2>1. TAKE i \in 1 .. Len(u)
    <2>2. i \in 1 .. Len(s) \/ i = Len(s) + 1  BY <1>2, <1>3
    <2> QED BY <1>2, <2>2
  <1>5. u = t  BY <1>2, <1>4, SeqEqual
  <1> QED BY <1>1, <1>5

\* Lists of one.
LEMMA Lists1 ==
    ASSUME NEW a
    PROVE /\ Append(<<>>, a) = <<a>> /\ Head(<<a>>) = a /\ Tail(<<a>>) = <<>>
          /\ <<a>> # <<>> /\ Len(<<a>>) = 1 /\ \A b : <<a>> = <<b>> => a = b
  <1>1. Append(<<>>, a) = <<a>>  OBVIOUS
  <1>2. Head(<<a>>) = a /\ <<a>> # <<>> /\ Len(<<a>>) = 1  OBVIOUS
  <1>3. Tail(<<a>>) = <<>>  OBVIOUS
  <1>4. \A b : <<a>> = <<b>> => a = b  OBVIOUS
  <1> QED BY <1>1, <1>2, <1>3, <1>4

\* Lists of two.
LEMMA Lists2 ==
    ASSUME NEW a, NEW b
    PROVE /\ Append(<<a>>, b) = <<a, b>> /\ Head(<<a, b>>) = a /\ Tail(<<a, b>>) = <<b>>
          /\ <<a, b>> # <<>> /\ Len(<<a, b>>) = 2 /\ <<a, b>>[2] = b
  <1> DEFINE s == <<a>>
             t == <<a, b>>
  <1>3. s \in Seq({a, b}) /\ t \in Seq({a, b}) /\ Len(s) = 1 /\ Len(t) = 2  OBVIOUS
  <1>4. (\A i \in 1 .. 1 : s[i] = t[i]) /\ t[2] = b  OBVIOUS
  <1>1. Append(s, b) = t
    <2>1. PICK S : S = {a, b}  OBVIOUS
    <2> HIDE DEF s, t
    <2>2. s \in Seq(S) /\ t \in Seq(S) /\ b \in S  BY <1>3, <2>1
    <2>3. Len(t) = Len(s) + 1 /\ (\A i \in 1 .. Len(s) : t[i] = s[i]) /\ t[Len(s) + 1] = b
      BY <1>3, <1>4
    <2> QED BY <2>2, <2>3, AppendIs
  <1>2. Tail(<<a, b>>) = <<b>>  OBVIOUS
  <1> QED BY <1>1, <1>2

\* Lists of three.
LEMMA Lists3 ==
    ASSUME NEW a, NEW b, NEW c
    PROVE /\ Append(<<a, b>>, c) = <<a, b, c>>
          /\ Head(<<a, b, c>>) = a /\ Tail(<<a, b, c>>) = <<b, c>> /\ <<a, b, c>> # <<>>
  <1> DEFINE s == <<a, b>>
             t == <<a, b, c>>
  <1>3. s \in Seq({a, b, c}) /\ t \in Seq({a, b, c}) /\ Len(s) = 2 /\ Len(t) = 3  OBVIOUS
  <1>4. (\A i \in 1 .. 2 : s[i] = t[i]) /\ t[3] = c  OBVIOUS
  <1>1. Append(s, c) = t
    <2>1. PICK S : S = {a, b, c}  OBVIOUS
    <2> HIDE DEF s, t
    <2>2. s \in Seq(S) /\ t \in Seq(S) /\ c \in S  BY <1>3, <2>1
    <2>3. Len(t) = Len(s) + 1 /\ (\A i \in 1 .. Len(s) : t[i] = s[i]) /\ t[Len(s) + 1] = c
      BY <1>3, <1>4
    <2> QED BY <2>2, <2>3, AppendIs
  <1>2. Tail(<<a, b, c>>) = <<b, c>>  OBVIOUS
  <1> QED BY <1>1, <1>2

\* A fourth element.
LEMMA AppendThree ==
    ASSUME NEW s, NEW a, NEW b, NEW c, NEW d, s = <<a, b, c>>
    PROVE Append(s, d) = <<a, b, c, d>>
  <1>1. PICK t, S : t = <<a, b, c, d>> /\ S = {a, b, c, d}  OBVIOUS
  <1>2. s \in Seq(S) /\ Len(s) = 3  BY <1>1
  <1>3. t \in Seq(S) /\ Len(t) = 4  BY <1>1
  <1>4. (\A i \in 1 .. 3 : t[i] = s[i]) /\ t[4] = d  BY <1>1
  <1>5. d \in S  BY <1>1
  <1>6. Len(t) = Len(s) + 1 /\ (\A i \in 1 .. Len(s) : t[i] = s[i]) /\ t[Len(s) + 1] = d
    BY <1>2, <1>3, <1>4
  <1>7. Append(s, d) = t  BY <1>2, <1>3, <1>5, <1>6, AppendIs
  <1> QED BY <1>1, <1>7

\* A set of numbers that is not empty has a least one.
LEMMA LeastExists ==
    ASSUME NEW M \in SUBSET Nat, M # {}
    PROVE \E i \in M : \A j \in M : i <= j
  <1>1. PICK m \in M : \A x \in M : <<x, m>> \notin OpToRel(<, Nat)
    BY NatLessThanWellFounded, WFMin
  <1>2. ASSUME NEW j \in M PROVE m <= j
    <2>1. SUFFICES ASSUME j < m PROVE FALSE  OBVIOUS
    <2>2. <<j, m>> \in {ss \in Nat \X Nat : ss[1] < ss[2]}  BY <2>1
    <2>3. <<j, m>> \in OpToRel(<, Nat)  BY <2>2 DEF OpToRel
    <2> QED BY <1>1, <2>3
  <1> QED BY <1>2

\* The configuration chosen is one of the list.
LEMMA SelectedIs ==
    ASSUME NEW list \in Seq(EchConfig)
    PROVE SelectedConfig(list) = NoConfig \/ SelectedConfig(list) \in EchConfig
  <1> DEFINE ok == {i \in DOMAIN list : Usable(list[i])}
  <1>1. ok \subseteq DOMAIN list  OBVIOUS
  <1>2. DOMAIN list \subseteq Nat /\ \A i \in DOMAIN list : list[i] \in EchConfig
    BY LenProperties, ElementOfSeq
  <1>3. CASE ok = {}  BY <1>3 DEF SelectedConfig
  <1>4. CASE ok # {}
    <2>1. \E i \in ok : \A j \in ok : i <= j  BY <1>1, <1>2, <1>4, LeastExists
    <2>2. (CHOOSE i \in ok : \A j \in ok : i <= j) \in ok  BY <2>1
    <2>3. list[CHOOSE i \in ok : \A j \in ok : i <= j] \in EchConfig  BY <1>1, <1>2, <2>2
    <2> QED BY <2>3 DEF SelectedConfig
  <1> QED BY <1>3, <1>4

\* What is offered: nothing, GREASE with or without a key, or a configuration.
LEMMA OfferedIs ==
    ASSUME sc \in EchScenario
    PROVE /\ EchRecord(OfferedEch) /\ OfferedEch.first = NoExtension
          /\ OfferedEch.state \in {"none", "grease"}
          /\ OfferedEch.aead # Nil => sc.sni
          /\ OfferedEch.aead # Nil /\ OfferedEch.state = "grease" =>
                OfferedEch.aead = 0 /\ OfferedEch.public = TrueName
          /\ RealOffer => OfferedEch.aead \in Nat \ {0} /\ OfferedEch.public = PublicName
          /\ Offers => RealOffer
          /\ RealOffer => Offers
  <1>1. PICK c : c = SelectedConfig(sc.configs)  OBVIOUS
  <1>2. c = NoConfig \/ c \in EchConfig
    <2>1. sc.configs \in Seq(EchConfig)  BY DEF EchScenario
    <2> QED BY <1>1, <2>1, SelectedIs
  <1>3. Nil \notin Nat  BY EchAssumption
  <1>4. c # NoConfig => c.key \in Nat \ {0} /\ c.key # Nil  BY <1>2, <1>3 DEF EchConfig
  <1>5. sc.offer \in {"no", "grease", "configs"} /\ sc.sni \in BOOLEAN  BY DEF EchScenario
  <1>6. CASE ~sc.sni \/ sc.offer = "no"
    <2>1. OfferedEch = NoEch  BY <1>6 DEF OfferedEch
    <2> QED BY <1>6, <2>1 DEF NoEch, EchRecord, RealOffer, Offers
  <1>7. CASE sc.sni /\ sc.offer = "grease"
    <2>1. OfferedEch = SetupEchGrease  BY <1>7 DEF OfferedEch
    <2> QED BY <1>3, <1>7, <2>1 DEF SetupEchGrease, NoEch, EchRecord, RealOffer, Offers
  <1>8. CASE sc.sni /\ sc.offer = "configs" /\ c = NoConfig
    <2>1. OfferedEch = NoEch  BY <1>1, <1>8 DEF OfferedEch
    <2> QED BY <1>1, <1>8, <2>1 DEF NoEch, EchRecord, RealOffer, Offers
  <1>9. CASE sc.sni /\ sc.offer = "configs" /\ c # NoConfig
    <2>1. OfferedEch = SetupEch(c)  BY <1>1, <1>9 DEF OfferedEch
    <2>2. OfferedEch = [state |-> "none", aead |-> c.key, id |-> c.id, public |-> PublicName,
                        first |-> NoExtension]
      BY <2>1 DEF SetupEch, NoEch
    <2> QED BY <1>1, <1>4, <1>9, <2>2 DEF EchRecord, RealOffer, Offers
  <1> QED BY <1>5, <1>6, <1>7, <1>8, <1>9

\* A key the server has is nobody's random one.
LEMMA OpenerIs ==
    ASSUME sc \in EchScenario, NEW id
    PROVE OpenerKey(id) \in (Nat \ {0}) \cup {Nil}
  <1>1. sc.keys \in Seq(Nat \ {0})  BY DEF EchScenario
  <1>2. PICK k : k = sc.keys  OBVIOUS
  <1>3. \A i \in DOMAIN k : k[i] \in Nat \ {0}  BY <1>1, <1>2
  <1> QED BY <1>2, <1>3 DEF OpenerKey

\* These are functions of the scenario.
LEMMA SameScenario ==
    ASSUME sc' = sc
    PROVE /\ OfferedEch' = OfferedEch /\ RealOffer' = RealOffer /\ Opened' = Opened
          /\ Hello1' = Hello1 /\ Read1' = Read1 /\ Ech1' = Ech1 /\ Ech2' = Ech2
          /\ ServerState' = ServerState /\ ServerEch1' = ServerEch1 /\ Retry1' = Retry1
          /\ Hello2' = Hello2 /\ Read2' = Read2 /\ Asked' = Asked /\ Answer' = Answer
          /\ Answered' = Answered /\ Extensions' = Extensions /\ Cert' = Cert /\ Fin' = Fin
          /\ NameRefused' = NameRefused /\ Offers' = Offers
          /\ Inner1' = Inner1 /\ Outer1' = Outer1
  <1>1. OfferedEch' = OfferedEch /\ Offers' = Offers
    BY DEF OfferedEch, SetupEchGrease, Offers
  <1>2. RealOffer' = RealOffer  BY <1>1 DEF RealOffer
  <1>3. Opened' = Opened  BY <1>1, <1>2 DEF Opened, OpenerKey
  <1>4. Hello1' = Hello1  BY <1>1 DEF Hello1, InnerHello, OuterHello, OuterAad, SniName
  <1>5. Read1' = Read1  BY <1>1, <1>3, <1>4 DEF Read1, InnerHello, SniName
  <1>6. Ech1' = Ech1  BY <1>1, <1>2, <1>4 DEF Ech1
  <1>7. Ech2' = Ech2  BY <1>3, <1>6 DEF Ech2
  <1>8. ServerState' = ServerState  BY <1>1, <1>3 DEF ServerState
  <1>9. ServerEch1' = ServerEch1  BY <1>1, <1>3, <1>8 DEF ServerEch1
  <1>10. Retry1' = Retry1  BY <1>3, <1>5 DEF Retry1
  <1>11. Read2' = Read2  BY <1>7 DEF Read2, InnerHello, SniName
  <1>12. Hello2' = Hello2  BY <1>3, <1>7 DEF Hello2, InnerHello, OuterHello, OuterAad, SniName
  <1>13. Asked' = Asked  BY <1>5, <1>10, <1>11 DEF Asked
  <1>14. Answer' = Answer  BY <1>3, <1>13 DEF Answer
  <1>15. Answered' = Answered  BY <1>13, <1>14 DEF Answered
  <1>16. Extensions' = Extensions /\ Cert' = Cert /\ Fin' = Fin
    BY <1>5, <1>8, <1>11, <1>15 DEF Extensions, Cert, Fin
  <1>17. NameRefused' = NameRefused  BY <1>2, <1>3 DEF NameRefused
  <1>18. Inner1' = Inner1 /\ Outer1' = Outer1
    BY <1>1, <1>2, <1>4 DEF Inner1, Outer1, InnerHello, SniName
  <1> QED BY <1>1, <1>2, <1>3, <1>4, <1>5, <1>6, <1>7, <1>8, <1>9, <1>10, <1>11, <1>12, <1>13,
             <1>14, <1>15, <1>16, <1>17, <1>18

\* The client's ECH state behind each hello, field by field.
LEMMA Ech12 ==
    ASSUME sc \in EchScenario
    PROVE /\ EchRecord(Ech1) /\ EchRecord(Ech2)
          /\ Ech1.state = IF RealOffer THEN "offered" ELSE OfferedEch.state
          /\ Ech1.aead = IF RealOffer THEN OfferedEch.aead ELSE Nil
          /\ Ech1.first = IF OfferedEch.aead = Nil THEN NoExtension ELSE Hello1.ech
          /\ Ech2.state = IF Opened THEN "accepted" ELSE Ech1.state
          /\ Ech2.aead = IF Opened THEN OfferedEch.aead ELSE Nil
          /\ Ech1.id = OfferedEch.id /\ Ech1.public = OfferedEch.public
          /\ Ech2.id = Ech1.id /\ Ech2.public = Ech1.public /\ Ech2.first = Ech1.first
  <1>1. PICK e : e = OfferedEch /\ EchRecord(e)  BY OfferedIs
  <1>2. /\ EchRecord(Ech1)
        /\ Ech1.state = IF RealOffer THEN "offered" ELSE OfferedEch.state
        /\ Ech1.aead = IF RealOffer THEN OfferedEch.aead ELSE Nil
        /\ Ech1.first = IF OfferedEch.aead = Nil THEN NoExtension ELSE Hello1.ech
        /\ Ech1.id = OfferedEch.id /\ Ech1.public = OfferedEch.public
    <2>1. PICK x, y, z : /\ x = IF RealOffer THEN "offered" ELSE e.state
                         /\ y = IF RealOffer THEN e.aead ELSE Nil
                         /\ z = IF e.aead = Nil THEN NoExtension ELSE Hello1.ech
      OBVIOUS
    <2>2. Ech1 = [e EXCEPT !.state = x, !.aead = y, !.first = z]  BY <1>1, <2>1 DEF Ech1
    <2>3. Ech1 = [state |-> x, aead |-> y, id |-> e.id, public |-> e.public, first |-> z]
      BY <1>1, <2>2 DEF EchRecord
    <2>4. EchRecord(Ech1)  BY <2>3 DEF EchRecord
    <2> QED BY <1>1, <2>1, <2>3, <2>4
  <1>3. PICK f : f = Ech1 /\ EchRecord(f)  BY <1>2
  <1>4. /\ EchRecord(Ech2)
        /\ Ech2.state = IF Opened THEN "accepted" ELSE Ech1.state
        /\ Ech2.aead = IF Opened THEN Ech1.aead ELSE Nil
        /\ Ech2.id = Ech1.id /\ Ech2.public = Ech1.public /\ Ech2.first = Ech1.first
    <2>1. PICK x, y : x = (IF Opened THEN "accepted" ELSE f.state) /\ y = IF Opened THEN f.aead ELSE Nil
      OBVIOUS
    <2>2. Ech2 = [f EXCEPT !.state = x, !.aead = y]  BY <1>3, <2>1 DEF Ech2
    <2>3. Ech2 = [state |-> x, aead |-> y, id |-> f.id, public |-> f.public, first |-> f.first]
      BY <1>3, <2>2 DEF EchRecord
    <2>4. EchRecord(Ech2)  BY <2>3 DEF EchRecord
    <2> QED BY <1>3, <2>1, <2>3, <2>4
  <1>5. Opened => RealOffer  BY DEF Opened
  <1> QED BY <1>2, <1>4, <1>5

\* send_client_hello, field by field: without ECH, with GREASE, with an offer.
LEMMA SendHelloIs ==
    ASSUME NEW c, EchClient(c), NEW second \in BOOLEAN, SendHello(c, second)
    PROVE /\ EchClient(ec') /\ ec'.phase = "hello" /\ ec'.retryConfigs = c.retryConfigs
          /\ c.ech.aead = Nil =>
                /\ toEs' = <<InnerHello(c.ech, second)>> /\ ec'.ech = c.ech
                /\ ec'.inner = Append(c.inner, InnerHello(c.ech, second)) /\ ec'.outer = c.outer
          /\ c.ech.aead # Nil =>
                /\ toEs' = <<OuterHello(c.ech, second)>>
                /\ ec'.ech.id = c.ech.id /\ ec'.ech.public = c.ech.public
                /\ ec'.ech.first = IF second THEN c.ech.first ELSE OuterHello(c.ech, second).ech
          /\ c.ech.aead # Nil /\ c.ech.state = "grease" =>
                /\ ec'.ech.aead = Nil /\ ec'.ech.state = "grease"
                /\ ec'.inner = Append(c.outer, OuterHello(c.ech, second)) /\ ec'.outer = <<>>
          /\ c.ech.aead # Nil /\ c.ech.state # "grease" =>
                /\ ec'.ech.aead = c.ech.aead
                /\ ec'.ech.state = IF second THEN c.ech.state ELSE "offered"
                /\ ec'.inner = Append(c.inner, InnerHello(c.ech, second))
                /\ ec'.outer = Append(c.outer, OuterHello(c.ech, second))
  <1>1. PICK e, inner, outer : e = c.ech /\ inner = InnerHello(c.ech, second) /\ outer = OuterHello(c.ech, second)
    OBVIOUS
  <1>2. CASE e.aead = Nil
    <2>1. /\ toEs' = <<inner>>
          /\ ec' = [c EXCEPT !.phase = "hello", !.inner = Append(@, inner)]
      BY <1>1, <1>2 DEF SendHello
    <2> QED BY <1>1, <1>2, <2>1 DEF EchClient
  <1>3. CASE e.aead # Nil /\ e.state = "grease"
    <2>1. PICK first : first = IF second THEN e.first ELSE outer.ech  OBVIOUS
    <2>2. /\ toEs' = <<outer>>
          /\ ec' = [c EXCEPT !.phase = "hello", !.inner = Append(c.outer, outer), !.outer = <<>>,
                             !.ech = [e EXCEPT !.aead = Nil, !.first = first]]
      BY <1>1, <1>3, <2>1 DEF SendHello
    <2>3. ec' = [phase |-> "hello", ech |-> [e EXCEPT !.aead = Nil, !.first = first],
                 inner |-> Append(c.outer, outer), outer |-> <<>>, retryConfigs |-> c.retryConfigs]
      BY <2>2 DEF EchClient
    <2>4. PICK g : g = [e EXCEPT !.aead = Nil, !.first = first]  OBVIOUS
    <2>5. g = [state |-> e.state, aead |-> Nil, id |-> e.id, public |-> e.public, first |-> first]
      BY <1>1, <2>4 DEF EchClient, EchRecord
    <2>6. ec'.ech = g /\ EchRecord(g) /\ EchClient(ec')  BY <2>3, <2>4, <2>5 DEF EchClient, EchRecord
    <2>7. PICK a : a = Append(c.outer, outer)  OBVIOUS
    <2>8. ec'.phase = "hello" /\ ec'.inner = a /\ ec'.outer = <<>> /\ ec'.retryConfigs = c.retryConfigs
      BY <2>3, <2>7
    <2>9. /\ g.state = e.state /\ g.aead = Nil /\ g.id = e.id /\ g.public = e.public /\ g.first = first
      BY <2>5
    <2> QED BY <1>1, <1>3, <2>1, <2>2, <2>6, <2>7, <2>8, <2>9, Zenon
  <1>4. CASE e.aead # Nil /\ e.state # "grease"
    <2>1. PICK first, offered : /\ first = IF second THEN e.first ELSE outer.ech
                                /\ offered = IF second THEN e.state ELSE "offered"
      OBVIOUS
    <2>2. /\ toEs' = <<outer>>
          /\ ec' = [c EXCEPT !.phase = "hello", !.inner = Append(@, inner), !.outer = Append(@, outer),
                             !.ech = [e EXCEPT !.state = offered, !.first = first]]
      BY <1>1, <1>4, <2>1 DEF SendHello
    <2>3. ec' = [phase |-> "hello", ech |-> [e EXCEPT !.state = offered, !.first = first],
                 inner |-> Append(c.inner, inner), outer |-> Append(c.outer, outer),
                 retryConfigs |-> c.retryConfigs]
      BY <2>2 DEF EchClient
    <2>4. PICK g : g = [e EXCEPT !.state = offered, !.first = first]  OBVIOUS
    <2>5. g = [state |-> offered, aead |-> e.aead, id |-> e.id, public |-> e.public, first |-> first]
      BY <1>1, <2>4 DEF EchClient, EchRecord
    <2>6. ec'.ech = g /\ EchRecord(g) /\ EchClient(ec')  BY <2>3, <2>4, <2>5 DEF EchClient, EchRecord
    <2>7. PICK a, b : a = Append(c.inner, inner) /\ b = Append(c.outer, outer)  OBVIOUS
    <2>8. ec'.phase = "hello" /\ ec'.inner = a /\ ec'.outer = b /\ ec'.retryConfigs = c.retryConfigs
      BY <2>3, <2>7
    <2>9. /\ g.state = offered /\ g.aead = e.aead /\ g.id = e.id /\ g.public = e.public /\ g.first = first
      BY <2>5
    <2> QED BY <1>1, <1>4, <2>1, <2>2, <2>6, <2>7, <2>8, <2>9, Zenon
  <1> QED BY <1>1, <1>2, <1>3, <1>4

---------------------------------------------------------------------------
(* Ech: the steps of two ends of this library.                             *)

\* The first hello.
LEMMA LibraryStarts ==
    ASSUME sc \in EchScenario, EchRecords, AtStart, EchClientStart
    PROVE EchRecords' /\ AtHello1'
  <1>1. PICK c : c = [ec EXCEPT !.ech = OfferedEch]  OBVIOUS
  <1>2. SendHello(c, FALSE) /\ sc' = sc /\ es' = es /\ toEc' = toEc  BY <1>1 DEF EchClientStart
  <1>3. c = [phase |-> ec.phase, ech |-> OfferedEch, inner |-> <<>>, outer |-> <<>>,
             retryConfigs |-> ec.retryConfigs]
    BY <1>1 DEF EchRecords, EchClient, AtStart
  <1>4. EchRecord(OfferedEch)  BY OfferedIs
  <1>5. EchClient(c) /\ c.ech = OfferedEch /\ c.inner = <<>> /\ c.outer = <<>>
    BY <1>3, <1>4 DEF EchClient
  <1>6. PICK e, hi, ho : e = OfferedEch /\ hi = InnerHello(e, FALSE) /\ ho = OuterHello(e, FALSE)
    OBVIOUS
  <1>7. /\ Append(<<>>, hi) = <<hi>> /\ Append(<<>>, ho) = <<ho>>  BY Lists1
  <1>8. /\ EchClient(ec') /\ ec'.phase = "hello"
        /\ e.aead = Nil => toEs' = <<hi>> /\ ec'.ech = e /\ ec'.inner = <<hi>> /\ ec'.outer = <<>>
        /\ e.aead # Nil =>
              /\ toEs' = <<ho>> /\ ec'.ech.id = e.id /\ ec'.ech.public = e.public /\ ec'.ech.first = ho.ech
        /\ e.aead # Nil /\ e.state = "grease" =>
              ec'.ech.aead = Nil /\ ec'.ech.state = "grease" /\ ec'.inner = <<ho>> /\ ec'.outer = <<>>
        /\ e.aead # Nil /\ e.state # "grease" =>
              ec'.ech.aead = e.aead /\ ec'.ech.state = "offered" /\ ec'.inner = <<hi>> /\ ec'.outer = <<ho>>
    BY <1>2, <1>5, <1>6, <1>7, SendHelloIs
  <1>9. /\ e.aead = Nil => Hello1 = hi
        /\ e.aead # Nil => Hello1 = ho
        /\ RealOffer <=> e.aead # Nil /\ e.state = "none"
        /\ e.state \in {"none", "grease"} /\ e.first = NoExtension
    BY <1>6, OfferedIs DEF Hello1, RealOffer
  <1>10. toEs' = <<Hello1>>  BY <1>8, <1>9
  <1>11. ec'.inner = <<Inner1>> /\ ec'.outer = Outer1
    BY <1>6, <1>8, <1>9 DEF Inner1, Outer1
  <1>12. ec'.ech = Ech1
    <2>1. EchRecord(ec'.ech)  BY <1>8 DEF EchClient
    <2>2. PICK g, h : g = ec'.ech /\ h = Ech1  OBVIOUS
    <2>3. /\ EchRecord(h) /\ EchRecord(g) /\ EchRecord(e)
          /\ h.state = IF RealOffer THEN "offered" ELSE e.state
          /\ h.aead = IF RealOffer THEN e.aead ELSE Nil
          /\ h.first = IF e.aead = Nil THEN NoExtension ELSE Hello1.ech
          /\ h.id = e.id /\ h.public = e.public
      BY <1>4, <1>6, <2>1, <2>2, Ech12
    <2>4. g.state = h.state /\ g.aead = h.aead /\ g.id = h.id /\ g.public = h.public /\ g.first = h.first
      BY <1>8, <1>9, <2>2, <2>3
    <2>5. g = h  BY <2>3, <2>4 DEF EchRecord
    <2> QED BY <2>2, <2>5
  <1>13. Client1'
    <2>1. Ech1' = Ech1 /\ Inner1' = Inner1 /\ Outer1' = Outer1  BY <1>2, SameScenario
    <2> QED BY <1>8, <1>11, <1>12, <2>1 DEF Client1
  <1>14. EchRecords'  BY <1>2, <1>8 DEF EchRecords
  <1> QED BY <1>2, <1>10, <1>13, <1>14, SameScenario DEF AtHello1, AtStart, Server0

\* CHOuter opens with the key it was sealed under, and with no other.
LEMMA OuterIs ==
    ASSUME NEW e, NEW second \in BOOLEAN, NEW h, h = OuterHello(e, second)
    PROVE /\ h.ech # NoExtension /\ HasOuterEch(h) /\ h.ech.id = e.id /\ h.ech.enc = ~second
          /\ h.ech.payload.plain = InnerHello(e, second) /\ h.name = e.public
          /\ \A key : OpensPayload(key, h) <=> key = e.aead
  <1>1. PICK p, a, x : /\ p = InnerHello(e, second) /\ a = OuterAad(e, second)
                       /\ x = [key |-> e.aead, seq |-> second, plain |-> p, aad |-> a]
    OBVIOUS
  <1>2. PICK y : y = [type |-> "outer", id |-> e.id, enc |-> ~second, payload |-> x]  OBVIOUS
  <1>3. h = [random |-> "outer", name |-> e.public, second |-> second, ech |-> y]
    BY <1>1, <1>2 DEF OuterHello
  <1>4. h.ech = y /\ h.random = "outer" /\ h.name = e.public /\ h.second = second  BY <1>3
  <1>5. y.type = "outer" /\ y.id = e.id /\ y.enc = ~second /\ y.payload = x  BY <1>2
  <1>6. x.key = e.aead /\ x.seq = second /\ x.plain = p /\ x.aad = a  BY <1>1
  <1>7. y # NoExtension  BY <1>5 DEF NoExtension
  <1>8. a = [random |-> h.random, name |-> h.name, second |-> h.second]
    BY <1>1, <1>4 DEF OuterAad
  <1>9. \A key : OpensPayload(key, h) <=> key = e.aead
    BY <1>4, <1>5, <1>6, <1>8, Zenon DEF OpensPayload
  <1>10. HasOuterEch(h)  BY <1>4, <1>5 DEF HasOuterEch
  <1> QED BY <1>1, <1>4, <1>5, <1>6, <1>7, <1>9, <1>10

\* Acceptance, field by field.
LEMMA AcceptIs ==
    ASSUME NEW e, EchRecord(e), NEW x, NEW y, NEW z
    PROVE [e EXCEPT !.state = x, !.aead = y, !.id = z] =
            [state |-> x, aead |-> y, id |-> z, public |-> e.public, first |-> e.first]
  <1>1. PICK f : f = [e EXCEPT !.state = x, !.aead = y, !.id = z]  OBVIOUS
  <1>2. f = [state |-> x, aead |-> y, id |-> z, public |-> e.public, first |-> e.first]
    BY <1>1 DEF EchRecord
  <1> QED BY <1>1, <1>2

\* The first hello, as server_handle_hello reads it.
LEMMA ReadsHello1 ==
    ASSUME sc \in EchScenario
    PROVE ServerEch(NoEch, FALSE, Hello1) = [alert |-> "none", ech |-> ServerEch1, hello |-> Read1]
  <1>1. PICK e, h : e = OfferedEch /\ h = Hello1  OBVIOUS
  <1>2. EchRecord(e) /\ e.first = NoExtension /\ e.state \in {"none", "grease"}
    BY <1>1, OfferedIs
  <1>3. CASE e.aead = Nil
    <2>1. h = InnerHello(e, FALSE)  BY <1>1, <1>3 DEF Hello1
    <2>2. h.ech = NoExtension  BY <1>2, <1>3, <2>1 DEF InnerHello
    <2>3. ~Opened /\ Read1 = h  BY <1>1, <1>3 DEF Opened, RealOffer, Read1
    <2>4. ServerEch1 = NoEch
      <3>1. ServerState = "none"  BY <1>1, <1>3, <2>3 DEF ServerState
      <3> QED BY <2>3, <3>1 DEF ServerEch1, NoEch
    <2>5. ServerEch(NoEch, FALSE, h) = [alert |-> "none", ech |-> NoEch, hello |-> h]
      BY <2>2 DEF ServerEch, NoEch
    <2> QED BY <1>1, <2>3, <2>4, <2>5
  <1>4. CASE e.aead # Nil
    <2>1. h = OuterHello(e, FALSE)  BY <1>1, <1>4 DEF Hello1
    <2>2. /\ h.ech # NoExtension /\ HasOuterEch(h) /\ h.ech.id = e.id
          /\ h.ech.payload.plain = InnerHello(e, FALSE)
          /\ \A key : OpensPayload(key, h) <=> key = e.aead
      BY <2>1, OuterIs
    <2>3. PICK key : key = OpenerKey(e.id)  OBVIOUS
    <2>4. key \in (Nat \ {0}) \cup {Nil}  BY <2>3, OpenerIs
    <2>5. e.state = "grease" => e.aead = 0  BY <1>1, <1>4, OfferedIs
    <2>6. Opened <=> key = e.aead
      BY <1>1, <1>2, <1>4, <2>3, <2>4, <2>5, EchAssumption DEF Opened, RealOffer
    <2>7. CASE ~Opened
      <3>4. ServerState = "offered"  BY <1>1, <1>4, <2>7 DEF ServerState
      <3>1. ServerEch1 = [NoEch EXCEPT !.state = "offered"]
        BY <2>7, <3>4 DEF ServerEch1, NoEch
      <3>2. Read1 = h  BY <1>1, <2>7 DEF Read1
      <3>3. ServerEch(NoEch, FALSE, h) =
              [alert |-> "none", ech |-> [NoEch EXCEPT !.state = "offered"], hello |-> h]
        BY <2>2, <2>3, <2>6, <2>7, Zenon DEF ServerEch
      <3> QED BY <1>1, <3>1, <3>2, <3>3
    <2>8. CASE Opened
      <3>4. ServerState = "accepted"  BY <2>8 DEF ServerState
      <3>5. ServerEch1 = [state |-> "accepted", aead |-> key, id |-> e.id, public |-> Nil,
                          first |-> NoExtension]
        BY <1>1, <2>6, <2>8, <3>4 DEF ServerEch1
      <3>6. PICK i : i = e.id  OBVIOUS
      <3>7. [NoEch EXCEPT !.state = "accepted", !.aead = key, !.id = i] =
              [state |-> "accepted", aead |-> key, id |-> i, public |-> Nil, first |-> NoExtension]
        <4>1. PICK n : n = NoEch  OBVIOUS
        <4>2. EchRecord(n) /\ n.public = Nil /\ n.first = NoExtension  BY <4>1 DEF NoEch, EchRecord
        <4>3. [n EXCEPT !.state = "accepted", !.aead = key, !.id = i] =
                [state |-> "accepted", aead |-> key, id |-> i, public |-> n.public, first |-> n.first]
          BY <4>2, AcceptIs, Zenon
        <4> QED BY <4>1, <4>2, <4>3, Zenon
      <3>1. ServerEch1 = [NoEch EXCEPT !.state = "accepted", !.aead = key, !.id = e.id]
        BY <3>5, <3>6, <3>7
      <3>2. Read1 = h.ech.payload.plain  BY <1>1, <2>2, <2>8 DEF Read1
      <3>3. ServerEch(NoEch, FALSE, h) =
              [alert |-> "none", ech |-> [NoEch EXCEPT !.state = "accepted", !.aead = key, !.id = h.ech.id],
               hello |-> h.ech.payload.plain]
        BY <1>4, <2>2, <2>3, <2>6, <2>8, Zenon DEF ServerEch
      <3> QED BY <1>1, <2>2, <3>1, <3>2, <3>3
    <2> QED BY <2>7, <2>8
  <1> QED BY <1>3, <1>4

\* The second hello: opened with the key kept, or read as it is.
LEMMA ReadsHello2 ==
    ASSUME sc \in EchScenario
    PROVE ServerEch(ServerEch1, TRUE, Hello2) = [alert |-> "none", ech |-> ServerEch1, hello |-> Read2]
  <1>1. PICK s, h, o, e : s = ServerEch1 /\ h = Hello2 /\ o = OfferedEch /\ e = Ech2  OBVIOUS
  <1>2. /\ s.state = ServerState /\ s.aead = (IF Opened THEN o.aead ELSE Nil) /\ EchRecord(s)
        /\ s.id = IF Opened THEN o.id ELSE 0
    BY <1>1 DEF ServerEch1, EchRecord
  <1>3. /\ e.aead = (IF Opened THEN o.aead ELSE Nil) /\ e.id = o.id
        /\ e.first = IF o.aead = Nil THEN NoExtension ELSE Hello1.ech
    BY <1>1, Ech12
  <1>4. CASE Opened
    <2>1. h = OuterHello(e, TRUE) /\ Read2 = InnerHello(e, TRUE) /\ o.aead # Nil
      BY <1>1, <1>4 DEF Hello2, Read2, Opened, RealOffer
    <2>2. /\ h.ech # NoExtension /\ HasOuterEch(h) /\ h.ech.id = e.id /\ ~h.ech.enc
          /\ h.ech.payload.plain = InnerHello(e, TRUE)
          /\ \A key : OpensPayload(key, h) <=> key = e.aead
      <3>1. h.ech.enc = ~TRUE  BY <2>1, OuterIs, ZenonT(30)
      <3>2. /\ h.ech # NoExtension /\ HasOuterEch(h) /\ h.ech.id = e.id
            /\ h.ech.payload.plain = InnerHello(e, TRUE)
            /\ \A key : OpensPayload(key, h) <=> key = e.aead
        BY <2>1, OuterIs, ZenonT(30)
      <3> QED BY <3>1, <3>2
    <2>3. s.aead = o.aead /\ s.id = h.ech.id /\ OpensPayload(s.aead, h) /\ s.state = "accepted"
      <3>1. s.aead = o.aead /\ s.id = o.id /\ e.aead = o.aead  BY <1>2, <1>3, <1>4
      <3>2. s.state = "accepted"  BY <1>2, <1>4 DEF ServerState
      <3>3. OpensPayload(e.aead, h)  BY <2>2, Zenon
      <3> QED BY <1>3, <2>2, <3>1, <3>2, <3>3
    <2>4. ServerEch(s, TRUE, h) =
            [alert |-> "none", ech |-> [s EXCEPT !.state = "accepted", !.aead = s.aead, !.id = h.ech.id],
             hello |-> h.ech.payload.plain]
      BY <2>1, <2>2, <2>3, Zenon DEF ServerEch
    <2>5. [s EXCEPT !.state = "accepted", !.aead = s.aead, !.id = h.ech.id] =
            [state |-> s.state, aead |-> s.aead, id |-> s.id, public |-> s.public, first |-> s.first]
      <3>1. PICK x, y, z : x = "accepted" /\ y = s.aead /\ z = h.ech.id  OBVIOUS
      <3>2. EchRecord(s)  BY <1>2
      <3>3. [s EXCEPT !.state = x, !.aead = y, !.id = z] =
              [state |-> x, aead |-> y, id |-> z, public |-> s.public, first |-> s.first]
        BY <3>2, AcceptIs, Zenon
      <3> QED BY <2>3, <3>1, <3>3, Zenon
    <2>6. s = [s EXCEPT !.state = "accepted", !.aead = s.aead, !.id = h.ech.id]
      BY <1>2, <2>5, Zenon DEF EchRecord
    <2> QED BY <1>1, <2>1, <2>2, <2>4, <2>6
  <1>5. CASE ~Opened
    <2>1. h = InnerHello(e, TRUE) /\ Read2 = h /\ e.aead = Nil /\ s.aead = Nil
      BY <1>1, <1>2, <1>3, <1>5 DEF Hello2, Read2
    <2>2. h.ech = e.first  BY <2>1 DEF InnerHello
    <2>3. CASE o.aead = Nil
      <3>1. h.ech = NoExtension /\ s.state = "none"
        BY <1>1, <1>2, <1>3, <1>5, <2>2, <2>3 DEF ServerState
      <3>2. ServerEch(s, TRUE, h) = [alert |-> "none", ech |-> s, hello |-> h]
        BY <2>1, <3>1 DEF ServerEch
      <3> QED BY <1>1, <2>1, <3>2
    <2>4. CASE o.aead # Nil
      <3>1. PICK g : g = OuterHello(o, FALSE) /\ g = Hello1  BY <1>1, <2>4 DEF Hello1
      <3>2. h.ech = g.ech  BY <1>3, <2>2, <2>4, <3>1
      <3>3. g.ech # NoExtension /\ HasOuterEch(g)  BY <3>1, OuterIs
      <3>4. h.ech # NoExtension /\ HasOuterEch(h)  BY <3>2, <3>3 DEF HasOuterEch
      <3>5. ServerEch(s, TRUE, h) = [alert |-> "none", ech |-> s, hello |-> h]
        BY <2>1, <3>4 DEF ServerEch
      <3> QED BY <1>1, <2>1, <3>5
    <2> QED BY <2>3, <2>4
  <1> QED BY <1>4, <1>5

\* What a hello read as y, in ECH state x and with transcript T, makes the
\* server do: refuse, ask again, or send its flight.
ServerRefused == toEc' = <<[type |-> "alert"]>>
ServerRetried(x, y, T) ==
    /\ es'.phase = "second" /\ es'.ech = x
    /\ es'.name = (IF sc.savesName THEN y.name ELSE es.name)
    /\ \E m : /\ m = [type |-> "hrr",
                      confirm |-> IF x.state = "accepted"
                                  THEN Confirmation("hrr ech accept confirmation", Ch1Hash(T))
                                  ELSE NoConfirmation]
              /\ es'.transcript = Append(Ch1Hash(T), m) /\ toEc' = <<m>>
ServerAnswered(x, y, T) ==
    /\ es'.phase = "done" /\ es'.ech.state = x.state
    /\ \E m, U : /\ m = [type |-> "sh",
                         confirm |-> IF x.state = "accepted"
                                     THEN Confirmation("ech accept confirmation", T)
                                     ELSE RandomBytes]
                 /\ U = Append(T, m) /\ es'.transcript = U
                 /\ toEc' = <<m, [type |-> "ee", retryConfigs |-> x.state = "offered" /\ sc.opener
                                                                /\ sc.retryConfigs],
                              [type |-> "cert", name |-> y.name], [type |-> "fin", over |-> U]>>

\* The hello h is read as y, without an alert.
ServerReads(second, h, x, y, T) ==
    /\ toEs = <<h>> /\ second \in BOOLEAN /\ second = (es.phase = "second")
    /\ ServerEch(es.ech, second, h) = [alert |-> "none", ech |-> x, hello |-> y]
    /\ T = Append(es.transcript, y)

\* server_handle_hello once the hello is read, field by field: the name saved
\* does not come again, a retry is asked for, or the flight goes out.
LEMMA ServerStepIs ==
    ASSUME NEW h, NEW x, NEW y, NEW second, NEW T, ServerReads(second, h, x, y, T), EchServer(es),
           EchRecord(x), ServerHandleEch
    PROVE /\ EchServer(es') /\ toEs' = <<>> /\ ec' = ec /\ sc' = sc
          /\ second /\ ~NameKept(es, y) => ServerRefused
          /\ ~second /\ sc.retry => ServerRetried(x, y, T)
          /\ (IF second THEN NameKept(es, y) ELSE ~sc.retry) => ServerAnswered(x, y, T)
  <1>1. PICK r, nm, s : /\ r = ServerEch(es.ech, second, h)
                        /\ nm = (IF ~second /\ sc.savesName THEN r.hello.name ELSE es.name)
                        /\ s = [es EXCEPT !.ech = r.ech, !.name = IF ~second /\ sc.savesName THEN r.hello.name ELSE @,
                                          !.transcript = Append(@, r.hello)]
    OBVIOUS
  <1>11. /\ toEs = <<h>> /\ second \in BOOLEAN /\ second = (es.phase = "second")
         /\ ServerEch(es.ech, second, h) = [alert |-> "none", ech |-> x, hello |-> y]
         /\ T = Append(es.transcript, y)
    BY DEF ServerReads
  <1>2. r.alert = "none" /\ r.ech = x /\ r.hello = y  BY <1>1, <1>11
  <1>3. s = [es EXCEPT !.ech = x, !.name = nm, !.transcript = T]
    BY <1>1, <1>2, <1>11, Zenon
  <1>4. s = [phase |-> es.phase, ech |-> x, name |-> nm, transcript |-> T, outer |-> es.outer,
             retries |-> es.retries]
    BY <1>3 DEF EchServer
  <1>5. s.ech = x /\ s.transcript = T /\ s.name = nm  BY <1>4
  <1>6. PICK rt, hrr, sh, done : /\ rt = Ch1Hash(s.transcript) /\ hrr = RetryMessage(s, rt)
                                 /\ sh = HelloMessage(s, s.transcript) /\ done = Append(s.transcript, sh)
    OBVIOUS
  <1>7. /\ second /\ ~NameKept(es, y) =>
              es' = [es EXCEPT !.phase = "handshake_failure"] /\ toEc' = <<[type |-> "alert"]>>
        /\ ~second /\ sc.retry =>
              es' = [s EXCEPT !.phase = "second", !.transcript = Append(rt, hrr)] /\ toEc' = <<hrr>>
        /\ (IF second THEN NameKept(es, y) ELSE ~sc.retry) =>
              /\ es' = [s EXCEPT !.phase = "done", !.ech = ClearEch(@, TRUE), !.transcript = done]
              /\ toEc' = <<sh, Flight(s), [type |-> "cert", name |-> y.name], [type |-> "fin", over |-> done]>>
        /\ toEs' = <<>> /\ ec' = ec /\ sc' = sc
    <2>1. Head(toEs) = h /\ toEs # <<>>  BY <1>11, Lists1
    <2>2. /\ IF r.alert # "none"
             THEN es' = [es EXCEPT !.phase = r.alert] /\ toEc' = <<[type |-> "alert"]>>
             ELSE IF second /\ ~NameKept(es, r.hello)
             THEN es' = [es EXCEPT !.phase = "handshake_failure"] /\ toEc' = <<[type |-> "alert"]>>
             ELSE IF sc.retry /\ ~second
             THEN /\ es' = [s EXCEPT !.phase = "second", !.transcript = Append(rt, hrr)]
                  /\ toEc' = <<hrr>>
             ELSE /\ es' = [s EXCEPT !.phase = "done", !.ech = ClearEch(@, TRUE), !.transcript = done]
                  /\ toEc' = <<sh, Flight(s), [type |-> "cert", name |-> r.hello.name],
                               [type |-> "fin", over |-> done]>>
          /\ toEs' = <<>> /\ ec' = ec /\ sc' = sc
      BY <1>1, <1>6, <1>11, <2>1, Zenon DEF ServerHandleEch
    <2> QED BY <1>2, <2>2, Zenon
  <1>8. CASE second /\ ~NameKept(es, y)
    <2>1. EchServer(es')  BY <1>7, <1>8 DEF EchServer
    <2> QED BY <1>7, <1>8, <2>1 DEF ServerRefused
  <1>9. CASE ~second /\ sc.retry
    <2>1. hrr = [type |-> "hrr",
                 confirm |-> IF x.state = "accepted"
                             THEN Confirmation("hrr ech accept confirmation", Ch1Hash(T)) ELSE NoConfirmation]
      BY <1>5, <1>6, Zenon DEF RetryMessage
    <2>2. PICK a : a = Append(rt, hrr)  OBVIOUS
    <2>3. es' = [phase |-> "second", ech |-> x, name |-> nm, transcript |-> a, outer |-> es.outer,
                 retries |-> es.retries]
      BY <1>4, <1>7, <1>9, <2>2
    <2>4. EchServer(es')  BY <2>3 DEF EchServer
    <2>5. es'.phase = "second" /\ es'.ech = x /\ es'.name = nm /\ es'.transcript = a  BY <2>3
    <2>6. nm = IF sc.savesName THEN y.name ELSE es.name  BY <1>1, <1>2, <1>9
    <2>7. es'.transcript = Append(Ch1Hash(T), hrr) /\ toEc' = <<hrr>>
      BY <1>5, <1>6, <1>7, <1>9, <2>2, <2>5, Zenon
    <2>8. ServerRetried(x, y, T)  BY <2>1, <2>5, <2>6, <2>7, Zenon DEF ServerRetried
    <2> QED BY <1>7, <1>9, <2>4, <2>8
  <1>10. CASE IF second THEN NameKept(es, y) ELSE ~sc.retry
    <2>1. sh = [type |-> "sh",
                confirm |-> IF x.state = "accepted"
                            THEN Confirmation("ech accept confirmation", T) ELSE RandomBytes]
      BY <1>5, <1>6, Zenon DEF HelloMessage
    <2>2. Flight(s) = [type |-> "ee", retryConfigs |-> x.state = "offered" /\ sc.opener /\ sc.retryConfigs]
      BY <1>5 DEF Flight
    <2>3. PICK k : k = ClearEch(x, TRUE)  OBVIOUS
    <2>4. k = [state |-> x.state, aead |-> Nil, id |-> x.id, public |-> x.public, first |-> x.first]
      BY <2>3 DEF ClearEch, EchRecord
    <2>5. es' = [s EXCEPT !.phase = "done", !.ech = k, !.transcript = done]
      BY <1>5, <1>7, <1>10, <2>3, Zenon
    <2>6. es' = [phase |-> "done", ech |-> k, name |-> nm, transcript |-> done, outer |-> es.outer,
                 retries |-> es.retries]
      BY <1>4, <2>5
    <2>7. EchServer(es')  BY <2>4, <2>6 DEF EchServer, EchRecord
    <2>8. es'.phase = "done" /\ es'.ech = k /\ es'.transcript = done  BY <2>6
    <2>9. k.state = x.state  BY <2>4
    <2>10. done = Append(T, sh)  BY <1>5, <1>6
    <2>11. toEc' = <<sh, Flight(s), [type |-> "cert", name |-> y.name], [type |-> "fin", over |-> done]>>
      BY <1>7, <1>10
    <2>12. ServerAnswered(x, y, T)
      BY <2>1, <2>2, <2>8, <2>9, <2>10, <2>11, Zenon DEF ServerAnswered
    <2> QED BY <1>7, <1>10, <2>7, <2>12
  <1> QED BY <1>8, <1>9, <1>10

\* ServerEch1 accepts exactly if the payload opened.
LEMMA ServerEch1Is ==
    /\ EchRecord(ServerEch1) /\ ServerEch1.state = ServerState
    /\ ServerState = "accepted" <=> Opened
  <1>1. EchRecord(ServerEch1) /\ ServerEch1.state = ServerState  BY DEF ServerEch1, EchRecord
  <1>2. ServerState = "accepted" <=> Opened  BY DEF ServerState
  <1> QED BY <1>1, <1>2

\* The flight behind a hello read as y.
LEMMA AnswerIs ==
    ASSUME NEW x, x = ServerEch1, NEW y, NEW T, T = Asked,
           y.name = (IF sc.retry THEN Read2.name ELSE Read1.name), ServerAnswered(x, y, T), sc' = sc
    PROVE Server2' /\ toEc' = <<Answer, Extensions, Cert, Fin>>'
  <1>1. PICK m, U : /\ m = [type |-> "sh",
                            confirm |-> IF x.state = "accepted"
                                        THEN Confirmation("ech accept confirmation", T)
                                        ELSE RandomBytes]
                    /\ U = Append(T, m) /\ es'.transcript = U
                    /\ toEc' = <<m, [type |-> "ee", retryConfigs |-> x.state = "offered" /\ sc.opener
                                                                   /\ sc.retryConfigs],
                                 [type |-> "cert", name |-> y.name], [type |-> "fin", over |-> U]>>
    BY DEF ServerAnswered
  <1>2. m = Answer  BY <1>1, ServerEch1Is DEF Answer
  <1>3. U = Answered  BY <1>1, <1>2 DEF Answered
  <1>4. [type |-> "ee", retryConfigs |-> x.state = "offered" /\ sc.opener /\ sc.retryConfigs] = Extensions
    BY ServerEch1Is DEF Extensions
  <1>5. [type |-> "cert", name |-> y.name] = Cert  BY DEF Cert
  <1>6. [type |-> "fin", over |-> U] = Fin  BY <1>3 DEF Fin
  <1>7. toEc' = <<Answer, Extensions, Cert, Fin>>  BY <1>1, <1>2, <1>4, <1>5, <1>6, Zenon
  <1>8. es'.phase = "done" /\ es'.ech.state = ServerState /\ es'.transcript = Answered
    BY <1>1, <1>3, ServerEch1Is DEF ServerAnswered
  <1>9. /\ ServerState' = ServerState /\ Answered' = Answered /\ Answer' = Answer
        /\ Extensions' = Extensions /\ Cert' = Cert /\ Fin' = Fin
    BY SameScenario
  <1>10. Server2'  BY <1>8, <1>9 DEF Server2
  <1> QED BY <1>7, <1>9, <1>10

\* The server answers the first hello.
LEMMA LibraryAnswers1 ==
    ASSUME sc \in EchScenario, EchRecords, AtHello1, ServerHandleEch
    PROVE EchRecords' /\ (AtRetry' \/ AtAnswer')
  <1>1. PICK h, x, y, T : h = Hello1 /\ x = ServerEch1 /\ y = Read1 /\ T = Append(es.transcript, y)
    OBVIOUS
  <1>2. /\ EchServer(es) /\ toEs = <<h>> /\ EchRecord(x) /\ FALSE = (es.phase = "second") /\ es.ech = NoEch
        /\ es.transcript = <<>> /\ es.name = Nil /\ Client1
    BY <1>1, ServerEch1Is DEF EchRecords, AtHello1, Server0
  <1>3. ServerEch(es.ech, FALSE, h) = [alert |-> "none", ech |-> x, hello |-> y]
    BY <1>1, <1>2, ReadsHello1
  <1>4. T = <<y>>  BY <1>1, <1>2, Lists1
  <1>5. /\ EchServer(es') /\ toEs' = <<>> /\ ec' = ec /\ sc' = sc
        /\ sc.retry => ServerRetried(x, y, T)
        /\ ~sc.retry => ServerAnswered(x, y, T)
    <2>1. PICK b \in BOOLEAN : b = FALSE  OBVIOUS
    <2>2. b = (es.phase = "second") /\ ServerEch(es.ech, b, h) = [alert |-> "none", ech |-> x, hello |-> y]
      BY <1>2, <1>3, <2>1
    <2>3. /\ EchServer(es') /\ toEs' = <<>> /\ ec' = ec /\ sc' = sc
          /\ ~b /\ sc.retry => ServerRetried(x, y, T)
          /\ (IF b THEN NameKept(es, y) ELSE ~sc.retry) => ServerAnswered(x, y, T)
      <3>1. ServerReads(b, h, x, y, T)  BY <1>1, <1>2, <2>1, <2>2 DEF ServerReads
      <3> QED BY <1>2, <3>1, ServerStepIs
    <2> QED BY <2>1, <2>3
  <1>6. EchRecords'  BY <1>5 DEF EchRecords
  <1>7. Client1'  BY <1>2, <1>5, SameScenario DEF Client1
  <1>8. CASE sc.retry
    <2>1. PICK m : /\ m = [type |-> "hrr",
                           confirm |-> IF x.state = "accepted"
                                       THEN Confirmation("hrr ech accept confirmation", Ch1Hash(T))
                                       ELSE NoConfirmation]
                   /\ es'.transcript = Append(Ch1Hash(T), m) /\ toEc' = <<m>>
      BY <1>5, <1>8 DEF ServerRetried
    <2>2. m = Retry1  BY <1>1, <1>4, <2>1, ServerEch1Is DEF Retry1
    <2>3. Append(Ch1Hash(T), m) = <<[hash |-> <<Read1>>], Retry1>>
      BY <1>1, <1>4, <2>2, Lists2 DEF Ch1Hash
    <2>4. Server1'
      <3>1. PICK n : n = IF sc.savesName THEN Read1.name ELSE Nil  OBVIOUS
      <3>2. es'.name = n  BY <1>1, <1>2, <1>5, <1>8, <3>1 DEF ServerRetried
      <3>3. /\ ServerEch1' = ServerEch1 /\ Read1' = Read1 /\ Retry1' = Retry1 /\ sc' = sc
        BY <1>5, SameScenario
      <3>4. /\ es'.phase = "second" /\ es'.ech = ServerEch1
            /\ es'.transcript = <<[hash |-> <<Read1>>], Retry1>>
        BY <1>1, <1>5, <1>8, <2>1, <2>3 DEF ServerRetried
      <3> QED BY <3>1, <3>2, <3>3, <3>4, Zenon DEF Server1
    <2>5. Retry1' = Retry1 /\ sc'.retry  BY <1>5, <1>8, SameScenario
    <2>6. AtRetry'  BY <1>5, <1>7, <2>1, <2>2, <2>4, <2>5 DEF AtRetry
    <2> QED BY <1>6, <2>6
  <1>9. CASE ~sc.retry
    <2>1. T = Asked /\ y.name = (IF sc.retry THEN Read2.name ELSE Read1.name)
      BY <1>1, <1>4, <1>9 DEF Asked
    <2>2. Server2' /\ toEc' = <<Answer, Extensions, Cert, Fin>>'
      BY <1>1, <1>5, <1>9, <2>1, AnswerIs
    <2>3. AtAnswer'  BY <1>5, <1>7, <1>9, <2>2 DEF AtAnswer
    <2> QED BY <1>6, <2>3
  <1> QED BY <1>8, <1>9

\* client_ech_select_hello, field by field: no decision to take, acceptance,
\* a confirmation withdrawn, the outer transcript adopted.
Decided(c, m, label, d) ==
    /\ d.retryConfigs = c.retryConfigs
    /\ c.ech.aead = Nil => d = c
    /\ c.ech.aead # Nil /\ m.confirm = Confirmation(label, c.inner) =>
          /\ d.phase = c.phase /\ d.inner = c.inner /\ d.outer = c.outer
          /\ d.ech = [state |-> "accepted", aead |-> c.ech.aead, id |-> c.ech.id,
                      public |-> c.ech.public, first |-> c.ech.first]
    /\ /\ c.ech.aead # Nil /\ m.confirm # Confirmation(label, c.inner)
       /\ m.confirm # NoConfirmation /\ c.ech.state = "accepted"
       => d.phase = "illegal_parameter"
    /\ /\ c.ech.aead # Nil /\ m.confirm # Confirmation(label, c.inner)
       /\ m.confirm = NoConfirmation \/ c.ech.state # "accepted"
       => /\ d.phase = c.phase /\ d.inner = c.outer /\ d.outer = <<>>
          /\ d.ech = [state |-> c.ech.state, aead |-> Nil, id |-> c.ech.id,
                      public |-> c.ech.public, first |-> c.ech.first]

\* What client_ech_select_hello decides.
LEMMA SelectIs ==
    ASSUME NEW c, EchClient(c), NEW m, NEW label, NEW d, d = Selected(c, m, label)
    PROVE EchClient(d) /\ Decided(c, m, label, d)
  <1>1. CASE c.ech.aead = Nil  BY <1>1 DEF Selected, Decided
  <1>2. CASE c.ech.aead # Nil /\ m.confirm = Confirmation(label, c.inner)
    <2>1. d = [c EXCEPT !.ech.state = "accepted"]  BY <1>2 DEF Selected, SelectHello
    <2>2. PICK e, g : e = c.ech /\ g = [e EXCEPT !.state = "accepted"]  OBVIOUS
    <2>3. g = [state |-> "accepted", aead |-> e.aead, id |-> e.id, public |-> e.public, first |-> e.first]
      BY <2>2 DEF EchClient, EchRecord
    <2>4. d = [c EXCEPT !.ech = g]  BY <2>1, <2>2
    <2>5. d = [phase |-> c.phase, ech |-> g, inner |-> c.inner, outer |-> c.outer,
               retryConfigs |-> c.retryConfigs]
      BY <2>4 DEF EchClient
    <2>6. EchRecord(g)  BY <2>3 DEF EchRecord
    <2> QED BY <1>2, <2>2, <2>3, <2>5, <2>6 DEF EchClient, Decided
  <1>3. CASE /\ c.ech.aead # Nil /\ m.confirm # Confirmation(label, c.inner)
             /\ m.confirm # NoConfirmation /\ c.ech.state = "accepted"
    <2>1. d = [c EXCEPT !.phase = "illegal_parameter"]  BY <1>3 DEF Selected, SelectHello, EchFail
    <2> QED BY <1>3, <2>1 DEF EchClient, Decided
  <1>4. CASE /\ c.ech.aead # Nil /\ m.confirm # Confirmation(label, c.inner)
             /\ m.confirm = NoConfirmation \/ c.ech.state # "accepted"
    <2>1. d = [c EXCEPT !.ech.aead = Nil, !.inner = c.outer, !.outer = <<>>]
      BY <1>4 DEF Selected, SelectHello
    <2>2. PICK e, g : e = c.ech /\ g = [e EXCEPT !.aead = Nil]  OBVIOUS
    <2>3. g = [state |-> e.state, aead |-> Nil, id |-> e.id, public |-> e.public, first |-> e.first]
      BY <2>2 DEF EchClient, EchRecord
    <2>4. d = [c EXCEPT !.ech = g, !.inner = c.outer, !.outer = <<>>]  BY <2>1, <2>2
    <2>5. d = [phase |-> c.phase, ech |-> g, inner |-> c.outer, outer |-> <<>>,
               retryConfigs |-> c.retryConfigs]
      BY <2>4 DEF EchClient
    <2>6. EchRecord(g)  BY <2>3 DEF EchRecord
    <2> QED BY <1>4, <2>2, <2>3, <2>5, <2>6 DEF EchClient, Decided
  <1> QED BY <1>1, <1>2, <1>3, <1>4

\* The transcripts when a retry request comes.
Hashed(c) ==
    [phase |-> c.phase, ech |-> c.ech, inner |-> Ch1Hash(c.inner),
     outer |-> IF c.outer = <<>> THEN <<>> ELSE Ch1Hash(c.outer), retryConfigs |-> c.retryConfigs]

\* What comes of a retry request m and the decision c: a failure, or a hello.
Retried(m, c) ==
    /\ m.confirm # NoConfirmation /\ ec.ech.state = "none" =>
          EchClient(ec') /\ ec'.phase = "unsupported_extension" /\ toEs' = toEs
    /\ m.confirm = NoConfirmation \/ ec.ech.state # "none" =>
          /\ c.phase # "hello" => ec' = c /\ toEs' = toEs
          /\ c.phase = "hello" =>
                \E d : /\ EchClient(d) /\ d.ech = c.ech /\ d.inner = Append(c.inner, m)
                       /\ d.outer = c.outer /\ SendHello(d, TRUE)

\* What handle_hello_retry_request does: it hashes both transcripts, decides, and
\* fails or sends the second hello.
LEMMA RetryStepIs ==
    ASSUME EchClient(ec), NEW m, m = Head(toEc), EchHandleRetry,
           NEW c, c = Selected(Hashed(ec), m, "hrr ech accept confirmation")
    PROVE /\ EchClient(c) /\ toEc' = Tail(toEc) /\ sc' = sc /\ es' = es
          /\ Retried(m, c)
  <1>1. PICK h : h = [ec EXCEPT !.inner = Ch1Hash(@), !.outer = IF @ = <<>> THEN <<>> ELSE Ch1Hash(@)]
    OBVIOUS
  <1>2. h = Hashed(ec)
    <2>1. PICK i, o : i = Ch1Hash(ec.inner) /\ o = IF ec.outer = <<>> THEN <<>> ELSE Ch1Hash(ec.outer)
      OBVIOUS
    <2>2. h = [ec EXCEPT !.inner = i, !.outer = o]  BY <1>1, <2>1, Zenon
    <2>3. h = [phase |-> ec.phase, ech |-> ec.ech, inner |-> i, outer |-> o,
               retryConfigs |-> ec.retryConfigs]
      BY <2>2 DEF EchClient
    <2> QED BY <2>1, <2>3, Zenon DEF Hashed
  <1>3. EchClient(Hashed(ec))
    <2>1. PICK g : g = Hashed(ec)  OBVIOUS
    <2>2. g.ech = ec.ech  BY <2>1 DEF Hashed
    <2>3. EchClient(g)  BY <2>1, <2>2 DEF Hashed, EchClient
    <2> QED BY <2>1, <2>3
  <1>4. EchClient(c)  BY <1>3, SelectIs
  <1>6. PICK d : d = [c EXCEPT !.inner = Append(@, m)]  OBVIOUS
  <1>7. /\ toEc' = Tail(toEc) /\ sc' = sc /\ es' = es
        /\ IF m.confirm # NoConfirmation /\ ec.ech.state = "none"
           THEN ec' = EchFail(ec, "unsupported_extension") /\ toEs' = toEs
           ELSE IF c.phase # "hello" THEN ec' = c /\ toEs' = toEs
           ELSE SendHello(d, TRUE)
    BY <1>1, <1>2, <1>6, Zenon DEF EchHandleRetry
  <1>8. EchClient(d) /\ d.ech = c.ech /\ d.inner = Append(c.inner, m) /\ d.outer = c.outer
    <2>1. PICK a : a = Append(c.inner, m)  OBVIOUS
    <2>2. d = [c EXCEPT !.inner = a]  BY <1>6, <2>1
    <2>3. d = [phase |-> c.phase, ech |-> c.ech, inner |-> a, outer |-> c.outer,
               retryConfigs |-> c.retryConfigs]
      BY <1>4, <2>2 DEF EchClient
    <2>4. EchClient(d)  BY <1>4, <2>3 DEF EchClient
    <2> QED BY <2>1, <2>3, <2>4
  <1>9. CASE m.confirm # NoConfirmation /\ ec.ech.state = "none"
    <2>1. ec' = [ec EXCEPT !.phase = "unsupported_extension"]  BY <1>7, <1>9 DEF EchFail
    <2>2. EchClient(ec') /\ ec'.phase = "unsupported_extension"  BY <2>1 DEF EchClient
    <2> QED BY <1>4, <1>7, <1>9, <2>2 DEF Retried
  <1>10. CASE m.confirm = NoConfirmation \/ ec.ech.state # "none"
    <2>1. /\ c.phase # "hello" => ec' = c /\ toEs' = toEs
          /\ c.phase = "hello" => SendHello(d, TRUE)
      BY <1>7, <1>10, Zenon
    <2> QED BY <1>4, <1>7, <1>8, <1>10, <2>1 DEF Retried
  <1> QED BY <1>9, <1>10

\* Equal fields, equal records.
LEMMA EchRecordEqual ==
    ASSUME NEW g, NEW h, EchRecord(g), EchRecord(h), g.state = h.state, g.aead = h.aead, g.id = h.id,
           g.public = h.public, g.first = h.first
    PROVE g = h
  BY DEF EchRecord

\* The first hello the client has hashed is the one the server read.
LEMMA FirstRead ==
    /\ Opened \/ ~RealOffer => Read1 = Inner1
    /\ ~Opened => Read1 = Hello1
    /\ RealOffer => Outer1 = <<Hello1>>
    /\ ~RealOffer => Outer1 = <<>>
    /\ Opened => RealOffer
  BY DEF Opened, RealOffer, Read1, Inner1, Outer1

\* A confirmation is not what stands in its place.
LEMMA ConfirmationIs ==
    ASSUME NEW T, NEW label, label \in {"hrr ech accept confirmation", "ech accept confirmation"}
    PROVE /\ Confirmation(label, T) # NoConfirmation /\ Confirmation(label, T) # RandomBytes
          /\ RandomBytes # NoConfirmation
          /\ \A U : Confirmation(label, T) = Confirmation(label, U) => T = U
  <1>1. PICK x : x = Confirmation(label, T)  OBVIOUS
  <1>2. x.label = label /\ x.over = T  BY <1>1 DEF Confirmation
  <1>3. NoConfirmation.label = "none" /\ RandomBytes.label = "random"  BY DEF NoConfirmation, RandomBytes
  <1>4. \A U : Confirmation(label, U).over = U  BY DEF Confirmation
  <1>5. x # NoConfirmation /\ x # RandomBytes /\ RandomBytes # NoConfirmation  BY <1>2, <1>3
  <1>6. \A U : x = Confirmation(label, U) => T = U  BY <1>2, <1>4
  <1> QED BY <1>1, <1>5, <1>6, Zenon

\* The client, asked again, decides as the server did.
LEMMA LibraryRetries ==
    ASSUME sc \in EchScenario, EchRecords, AtRetry, EchHandleRetry
    PROVE EchRecords' /\ AtHello2'
  <1>1. PICK m, hd, c, lb : /\ m = Retry1 /\ hd = Hashed(ec) /\ lb = "hrr ech accept confirmation"
                            /\ c = Selected(hd, m, lb)
    OBVIOUS
  <1>2. /\ sc.retry /\ ec.phase = "hello" /\ ec.ech = Ech1 /\ ec.inner = <<Inner1>> /\ ec.outer = Outer1
        /\ Server1 /\ toEc = <<m>> /\ EchClient(ec)
    BY <1>1 DEF AtRetry, Client1, EchRecords
  <1>3. /\ hd.phase = "hello" /\ hd.ech = Ech1 /\ hd.inner = Ch1Hash(<<Inner1>>)
        /\ hd.outer = IF Outer1 = <<>> THEN <<>> ELSE Ch1Hash(Outer1)
    BY <1>1, <1>2 DEF Hashed
  <1>4. EchClient(hd)
    BY <1>1, <1>2 DEF Hashed, EchClient
  <1>5. m.confirm = IF Opened THEN Confirmation("hrr ech accept confirmation", Ch1Hash(<<Read1>>))
                    ELSE NoConfirmation
    BY <1>1 DEF Retry1
  <1>6. /\ EchRecord(Ech1) /\ EchRecord(Ech2)
        /\ Ech1.state = (IF RealOffer THEN "offered" ELSE OfferedEch.state)
        /\ Ech1.aead = (IF RealOffer THEN OfferedEch.aead ELSE Nil)
        /\ Ech2.state = (IF Opened THEN "accepted" ELSE Ech1.state)
        /\ Ech2.aead = (IF Opened THEN OfferedEch.aead ELSE Nil)
        /\ Ech2.id = Ech1.id /\ Ech2.public = Ech1.public /\ Ech2.first = Ech1.first
    BY Ech12
  <1>7. m.confirm = NoConfirmation \/ ec.ech.state # "none"
    BY <1>2, <1>5, <1>6, FirstRead
  <1>8. EchClient(c) /\ c.phase = "hello" /\ c.ech = Ech2 /\ c.inner = Ch1Hash(<<Read1>>)
    <2>1. PICK e1, e2, g : e1 = Ech1 /\ e2 = Ech2 /\ g = c.ech  OBVIOUS
    <2>2. EchClient(c)  BY <1>1, <1>4, SelectIs
    <2>7. Decided(hd, m, lb, c)  BY <1>1, <1>4, SelectIs
    <2>3. EchRecord(g) /\ EchRecord(e1) /\ EchRecord(e2)  BY <1>6, <2>1, <2>2 DEF EchClient
    <2>4. CASE Opened
      <3>1. hd.ech.aead # Nil /\ hd.ech = e1 /\ m.confirm = Confirmation(lb, hd.inner)
        BY <1>1, <1>3, <1>5, <1>6, <2>1, <2>4, FirstRead DEF RealOffer
      <3>2. /\ c.phase = hd.phase /\ c.inner = hd.inner
            /\ c.ech = [state |-> "accepted", aead |-> hd.ech.aead, id |-> hd.ech.id,
                        public |-> hd.ech.public, first |-> hd.ech.first]
        BY <2>7, <3>1 DEF Decided
      <3>3. g.state = e2.state /\ g.aead = e2.aead /\ g.id = e2.id /\ g.public = e2.public /\ g.first = e2.first
        BY <1>6, <2>1, <2>4, <3>1, <3>2, FirstRead
      <3>4. g = e2  BY <2>3, <3>3, EchRecordEqual
      <3> QED BY <1>3, <2>1, <2>2, <2>4, <3>2, <3>4, FirstRead
    <2>5. CASE ~Opened /\ RealOffer
      <3>1. hd.ech.aead # Nil /\ hd.ech = e1 /\ m.confirm = NoConfirmation
        BY <1>3, <1>5, <1>6, <2>1, <2>5 DEF RealOffer
      <3>2. m.confirm # Confirmation(lb, hd.inner)  BY <1>1, <3>1, ConfirmationIs
      <3>3. /\ c.phase = hd.phase /\ c.inner = hd.outer
            /\ c.ech = [state |-> hd.ech.state, aead |-> Nil, id |-> hd.ech.id,
                        public |-> hd.ech.public, first |-> hd.ech.first]
        BY <2>7, <3>1, <3>2 DEF Decided
      <3>4. g.state = e2.state /\ g.aead = e2.aead /\ g.id = e2.id /\ g.public = e2.public /\ g.first = e2.first
        BY <1>6, <2>1, <2>5, <3>1, <3>3
      <3>5. g = e2  BY <2>3, <3>4, EchRecordEqual
      <3>6. hd.outer = Ch1Hash(<<Read1>>)
        <4>1. PICK x : x = Hello1  OBVIOUS
        <4>2. Outer1 = <<x>> /\ <<x>> # <<>> /\ Read1 = x  BY <2>5, <4>1, FirstRead
        <4> QED BY <1>3, <4>2
      <3> QED BY <1>3, <2>1, <2>2, <3>3, <3>5, <3>6
    <2>6. CASE ~RealOffer
      <3>1. e1.aead = Nil /\ hd.ech = e1  BY <1>3, <1>6, <2>1, <2>6
      <3>5. hd.ech.aead = Nil  BY <3>1
      <3>2. c = hd  BY <2>7, <3>5 DEF Decided
      <3>3. e1.state = e2.state /\ e1.aead = e2.aead /\ e1.id = e2.id /\ e1.public = e2.public
            /\ e1.first = e2.first
        BY <1>6, <2>1, <2>6, <3>1, FirstRead
      <3>4. e1 = e2  BY <2>3, <3>3, EchRecordEqual
      <3> QED BY <1>3, <2>1, <2>2, <2>6, <3>2, <3>4, FirstRead
    <2> QED BY <2>4, <2>5, <2>6
  <1>10. toEc' = <<>> /\ sc' = sc /\ es' = es /\ Retried(m, c)
    <2>1. c = Selected(Hashed(ec), m, "hrr ech accept confirmation")  BY <1>1, Zenon
    <2>2. EchClient(ec) /\ toEc = <<m>>  BY <1>2
    <2>3. Head(toEc) = m /\ Tail(toEc) = <<>>  BY <2>2
    <2>4. toEc' = Tail(toEc) /\ sc' = sc /\ es' = es /\ Retried(m, c)
      BY <2>1, <2>2, <2>3, RetryStepIs, Zenon
    <2> QED BY <2>3, <2>4
  <1>9. PICK d : EchClient(d) /\ d.ech = c.ech /\ d.inner = Append(c.inner, m) /\ SendHello(d, TRUE)
    BY <1>7, <1>8, <1>10 DEF Retried
  <1>11. d.inner = <<[hash |-> <<Read1>>], Retry1>>
    <2>1. PICK a : a = [hash |-> <<Read1>>]  OBVIOUS
    <2>2. c.inner = <<a>>  BY <1>8, <2>1 DEF Ch1Hash
    <2>3. Append(<<a>>, m) = <<a, m>>  BY Lists2
    <2> QED BY <1>1, <1>9, <2>1, <2>2, <2>3
  <1>12. PICK e, hi, ho, a : /\ e = Ech2 /\ hi = InnerHello(e, TRUE) /\ ho = OuterHello(e, TRUE)
                             /\ a = [hash |-> <<Read1>>]
    OBVIOUS
  <1>13. d.ech = e /\ EchRecord(e) /\ e.aead = (IF Opened THEN OfferedEch.aead ELSE Nil)
         /\ (Opened => e.state = "accepted" /\ e.aead # Nil)
    BY <1>6, <1>8, <1>9, <1>12 DEF Opened, RealOffer
  <1>14. Append(<<a, Retry1>>, hi) = <<a, Retry1, hi>>  BY Lists3
  <1>15. d.inner = <<a, Retry1>>  BY <1>11, <1>12
  <1>16. /\ EchClient(ec') /\ ec'.phase = "hello"
         /\ e.aead = Nil => toEs' = <<hi>> /\ ec'.ech = e /\ ec'.inner = Append(<<a, Retry1>>, hi)
         /\ e.aead # Nil =>
               toEs' = <<ho>> /\ ec'.ech.id = e.id /\ ec'.ech.public = e.public /\ ec'.ech.first = e.first
         /\ e.aead # Nil /\ e.state # "grease" =>
               /\ ec'.ech.aead = e.aead /\ ec'.ech.state = e.state
               /\ ec'.inner = Append(<<a, Retry1>>, hi)
    <2>1. PICK b \in BOOLEAN : b = TRUE  OBVIOUS
    <2>2. SendHello(d, b) /\ EchClient(d)  BY <1>9, <2>1
    <2>3. hi = InnerHello(d.ech, b) /\ ho = OuterHello(d.ech, b)  BY <1>12, <1>13, <2>1
    <2> QED BY <1>13, <1>15, <2>1, <2>2, <2>3, SendHelloIs
  <1>17. Read2 = hi /\ (Opened => Hello2 = ho) /\ (~Opened => Hello2 = hi)  BY <1>12 DEF Read2, Hello2
  <1>18. Asked = <<a, Retry1, hi>>  BY <1>2, <1>12, <1>17 DEF Asked
  <1>19. toEs' = <<Hello2>> /\ ec'.inner = Asked /\ ec'.ech = e
    <2>1. CASE ~Opened  BY <1>13, <1>14, <1>16, <1>17, <1>18, <2>1
    <2>2. CASE Opened
      <3>1. PICK g : g = ec'.ech  OBVIOUS
      <3>2. EchRecord(g)  BY <1>16, <3>1 DEF EchClient
      <3>3. g.state = e.state /\ g.aead = e.aead /\ g.id = e.id /\ g.public = e.public /\ g.first = e.first
        BY <1>13, <1>16, <2>2, <3>1
      <3>4. g = e  BY <1>13, <3>2, <3>3, EchRecordEqual
      <3> QED BY <1>13, <1>14, <1>16, <1>17, <1>18, <2>2, <3>1, <3>4
    <2> QED BY <2>1, <2>2
  <1>20. /\ Ech2' = Ech2 /\ Asked' = Asked /\ Hello2' = Hello2 /\ ServerEch1' = ServerEch1
         /\ Read1' = Read1 /\ Retry1' = Retry1
    BY <1>10, SameScenario
  <1>21. Client2'  BY <1>12, <1>16, <1>19, <1>20 DEF Client2
  <1>22. Server1'  BY <1>2, <1>10, <1>20 DEF Server1
  <1>23. EchRecords'  BY <1>10, <1>16 DEF EchRecords
  <1> QED BY <1>2, <1>10, <1>19, <1>20, <1>21, <1>22, <1>23 DEF AtHello2

\* The name saved with the first hello is the second's, but after a rejection.
LEMMA NameComesAgain ==
    ASSUME sc \in EchScenario, sc.retry, Server1
    PROVE NameKept(es, Read2) <=> ~NameRefused
  <1>1. PICK e : e = OfferedEch  OBVIOUS
  <1>2. \A x, b : InnerHello(x, b).name = SniName  BY DEF InnerHello
  <1>3. \A x, b : OuterHello(x, b).name = x.public  BY DEF OuterHello
  <1>4. Read2.name = SniName  BY <1>2 DEF Read2
  <1>5. /\ e.aead # Nil => sc.sni
        /\ e.state \in {"none", "grease"}
        /\ e.aead # Nil /\ e.state = "grease" => e.public = TrueName
        /\ RealOffer => e.public = PublicName
    BY <1>1, OfferedIs
  <1>6. CASE ~sc.savesName
    <2>1. es.name = Nil  BY <1>6 DEF Server1
    <2> QED BY <1>6, <2>1 DEF NameKept, NameRefused
  <1>7. CASE sc.savesName
    <2>1. es.name = Read1.name  BY <1>7 DEF Server1
    <2>2. CASE Opened
      <3>1. Read1.name = SniName  BY <1>2, <2>2 DEF Read1
      <3> QED BY <1>4, <2>1, <2>2, <3>1 DEF NameKept, NameRefused
    <2>3. CASE ~Opened /\ RealOffer
      <3>1. e.aead # Nil  BY <1>1, <2>3 DEF RealOffer
      <3>2. Read1.name = PublicName  BY <1>1, <1>3, <1>5, <2>3, <3>1 DEF Read1, Hello1
      <3>3. SniName = TrueName  BY <1>5, <3>1 DEF SniName
      <3>4. PublicName # Nil /\ PublicName # TrueName  BY EchAssumption DEF PublicName, TrueName
      <3> QED BY <1>4, <1>7, <2>1, <2>3, <3>2, <3>3, <3>4 DEF NameKept, NameRefused
    <2>4. CASE ~RealOffer
      <3>1. Read1 = Hello1  BY <2>4 DEF Read1, Opened
      <3>2. Hello1.name = SniName
        <4>1. CASE e.aead = Nil  BY <1>1, <1>2, <4>1 DEF Hello1
        <4>2. CASE e.aead # Nil
          <5>1. e.state = "grease"  BY <1>1, <1>5, <2>4, <4>2 DEF RealOffer
          <5> QED BY <1>1, <1>3, <1>5, <4>2, <5>1 DEF Hello1, SniName
        <4> QED BY <4>1, <4>2
      <3> QED BY <1>4, <2>1, <2>4, <3>1, <3>2 DEF NameKept, NameRefused
    <2> QED BY <2>2, <2>3, <2>4
  <1> QED BY <1>6, <1>7

\* The server answers the second hello, or misses the name it saved.
LEMMA LibraryAnswers2 ==
    ASSUME sc \in EchScenario, EchRecords, AtHello2, ServerHandleEch
    PROVE EchRecords' /\ (AtAnswer' \/ AtRefusal')
  <1>1. PICK h, x, y, T, a : /\ h = Hello2 /\ x = ServerEch1 /\ y = Read2 /\ T = Append(es.transcript, y)
                             /\ a = [hash |-> <<Read1>>]
    OBVIOUS
  <1>2. /\ EchServer(es) /\ toEs = <<h>> /\ EchRecord(x) /\ es.phase = "second" /\ es.ech = x
        /\ es.transcript = <<a, Retry1>> /\ Client2 /\ Server1 /\ sc.retry
    BY <1>1, ServerEch1Is DEF EchRecords, AtHello2, Server1
  <1>3. PICK b \in BOOLEAN : b = TRUE  OBVIOUS
  <1>4. b = (es.phase = "second") /\ ServerEch(es.ech, b, h) = [alert |-> "none", ech |-> x, hello |-> y]
    BY <1>1, <1>2, <1>3, ReadsHello2
  <1>5. Append(<<a, Retry1>>, y) = <<a, Retry1, y>>  BY Lists3
  <1>6. T = Asked  BY <1>1, <1>2, <1>5 DEF Asked
  <1>7. /\ EchServer(es') /\ toEs' = <<>> /\ ec' = ec /\ sc' = sc
        /\ b /\ ~NameKept(es, y) => ServerRefused
        /\ (IF b THEN NameKept(es, y) ELSE ~sc.retry) => ServerAnswered(x, y, T)
    <2>1. ServerReads(b, h, x, y, T)  BY <1>1, <1>2, <1>4 DEF ServerReads
    <2> QED BY <1>2, <2>1, ServerStepIs
  <1>8. EchRecords'  BY <1>7 DEF EchRecords
  <1>9. Client2' /\ NameRefused' = NameRefused  BY <1>2, <1>7, SameScenario DEF Client2
  <1>10. NameKept(es, y) <=> ~NameRefused  BY <1>1, <1>2, NameComesAgain
  <1>11. CASE NameRefused
    <2>1. toEc' = <<[type |-> "alert"]>>  BY <1>3, <1>7, <1>10, <1>11 DEF ServerRefused
    <2>2. AtRefusal'  BY <1>7, <1>9, <1>11, <2>1 DEF AtRefusal
    <2> QED BY <1>8, <2>2
  <1>12. CASE ~NameRefused
    <2>1. ServerAnswered(x, y, T)  BY <1>3, <1>7, <1>10, <1>12
    <2>2. y.name = (IF sc.retry THEN Read2.name ELSE Read1.name)  BY <1>1, <1>2
    <2>3. Server2' /\ toEc' = <<Answer, Extensions, Cert, Fin>>'
      BY <1>1, <1>6, <1>7, <2>1, <2>2, AnswerIs
    <2>4. AtAnswer'  BY <1>2, <1>7, <1>9, <1>12, <2>3 DEF AtAnswer
    <2> QED BY <1>8, <2>4
  <1> QED BY <1>11, <1>12

\* What comes of a ServerHello m and the decision c.
Heard(m, c) ==
    /\ c.phase # "hello" => ec' = c
    /\ c.phase = "hello" =>
          ec'.phase = "ee" /\ ec'.ech.state = c.ech.state /\ ec'.inner = Append(c.inner, m)

\* What the ServerHello branch of client_handle_hello does.
LEMMA HelloStepIs ==
    ASSUME EchClient(ec), NEW m, m = Head(toEc), EchHandleServerHello,
           NEW c, c = Selected(ec, m, "ech accept confirmation")
    PROVE /\ EchClient(ec') /\ toEc' = Tail(toEc) /\ toEs' = toEs /\ sc' = sc /\ es' = es
          /\ Heard(m, c)
  <1>2. EchClient(c)  BY SelectIs
  <1>3. /\ ec' = IF c.phase # "hello" THEN c
                 ELSE [c EXCEPT !.phase = "ee", !.ech = ClearEch(@, FALSE),
                                !.inner = Append(@, m), !.outer = <<>>]
        /\ toEc' = Tail(toEc) /\ toEs' = toEs /\ sc' = sc /\ es' = es
    BY Zenon DEF EchHandleServerHello
  <1>4. CASE c.phase # "hello"  BY <1>2, <1>3, <1>4 DEF Heard
  <1>5. CASE c.phase = "hello"
    <2>1. PICK g, x, a : g = c.ech /\ x = ClearEch(g, FALSE) /\ a = Append(c.inner, m)  OBVIOUS
    <2>2. EchRecord(g)  BY <1>2, <2>1 DEF EchClient
    <2>3. x = [state |-> g.state, aead |-> Nil, id |-> g.id, public |-> Nil, first |-> NoExtension]
      BY <2>1, <2>2 DEF ClearEch, EchRecord
    <2>4. ec' = [c EXCEPT !.phase = "ee", !.ech = x, !.inner = a, !.outer = <<>>]
      BY <1>3, <1>5, <2>1, Zenon
    <2>5. ec' = [phase |-> "ee", ech |-> x, inner |-> a, outer |-> <<>>, retryConfigs |-> c.retryConfigs]
      BY <1>2, <2>4 DEF EchClient
    <2>6. EchRecord(x)  BY <2>3 DEF EchRecord
    <2>7. EchClient(ec')  BY <2>5, <2>6 DEF EchClient
    <2>9. ec'.phase = "ee" /\ ec'.ech = x /\ ec'.inner = a /\ x.state = g.state  BY <2>3, <2>5
    <2>8. Heard(m, c)  BY <1>5, <2>1, <2>9, Zenon DEF Heard
    <2> QED BY <1>3, <2>7, <2>8
  <1> QED BY <1>4, <1>5

\* The client decides on ServerHello as the server did.
LEMMA LibraryHears ==
    ASSUME sc \in EchScenario, EchRecords, AtAnswer, EchHandleServerHello
    PROVE EchRecords' /\ AtFlight'
  <1>1. PICK m, c, lb : /\ m = Answer /\ lb = "ech accept confirmation" /\ c = Selected(ec, m, lb)
    OBVIOUS
  <1>2. /\ EchClient(ec) /\ Server2 /\ toEs = <<>> /\ toEc = <<m, Extensions, Cert, Fin>>
        /\ (~sc.retry /\ Client1) \/ (sc.retry /\ Client2)
        /\ ec.phase = "hello"
    BY <1>1 DEF EchRecords, AtAnswer, Client1, Client2
  <1>3. EchClient(c) /\ Decided(ec, m, lb, c)  BY <1>1, <1>2, SelectIs
  <1>4. /\ Ech1.state = (IF RealOffer THEN "offered" ELSE OfferedEch.state)
        /\ Ech1.aead = (IF RealOffer THEN OfferedEch.aead ELSE Nil)
        /\ Ech2.state = (IF Opened THEN "accepted" ELSE Ech1.state)
        /\ Ech2.aead = (IF Opened THEN OfferedEch.aead ELSE Nil)
    BY Ech12
  <1>5. m.confirm = IF Opened THEN Confirmation(lb, Asked) ELSE RandomBytes  BY <1>1 DEF Answer
  <1>6. RealOffer => OfferedEch.aead # Nil  BY DEF RealOffer
  <1>7. c.phase = "hello" /\ c.inner = Asked /\ c.ech.state = Ech2.state
    <2>1. CASE ~sc.retry /\ Client1
      <3>1. ec.phase = "hello" /\ ec.ech = Ech1 /\ ec.inner = <<Inner1>> /\ ec.outer = Outer1
        BY <2>1 DEF Client1
      <3>2. Asked = <<Read1>>  BY <2>1 DEF Asked
      <3>3. CASE Opened
        <4>1. ec.inner = Asked /\ ec.ech.aead # Nil  BY <1>4, <1>6, <3>1, <3>2, <3>3, FirstRead
        <4> QED BY <1>3, <1>4, <1>5, <3>1, <3>3, <4>1 DEF Decided
      <3>4. CASE ~Opened /\ RealOffer
        <4>1. ec.outer = Asked /\ ec.ech.aead # Nil /\ ec.ech.state = "offered"
          BY <1>4, <1>6, <3>1, <3>2, <3>4, FirstRead
        <4>2. m.confirm # Confirmation(lb, ec.inner)  BY <1>1, <1>5, <3>4, ConfirmationIs
        <4> QED BY <1>3, <1>4, <3>1, <3>4, <4>1, <4>2 DEF Decided
      <3>5. CASE ~RealOffer
        <4>1. ec.inner = Asked /\ ec.ech.aead = Nil  BY <1>4, <3>1, <3>2, <3>5, FirstRead
        <4>2. c = ec  BY <1>3, <4>1 DEF Decided
        <4> QED BY <1>4, <3>1, <3>5, <4>1, <4>2, FirstRead
      <3> QED BY <3>3, <3>4, <3>5
    <2>2. CASE sc.retry /\ Client2
      <3>1. ec.phase = "hello" /\ ec.ech = Ech2 /\ ec.inner = Asked  BY <2>2 DEF Client2
      <3>2. CASE Opened
        <4>1. ec.ech.aead # Nil  BY <1>4, <1>6, <3>1, <3>2, FirstRead
        <4> QED BY <1>3, <1>4, <1>5, <3>1, <3>2, <4>1 DEF Decided
      <3>3. CASE ~Opened
        <4>1. c = ec  BY <1>3, <1>4, <3>1, <3>3 DEF Decided
        <4> QED BY <3>1, <4>1
      <3> QED BY <3>2, <3>3
    <2> QED BY <1>2, <2>1, <2>2
  <1>8. /\ EchClient(ec') /\ toEc' = <<Extensions, Cert, Fin>> /\ toEs' = toEs /\ sc' = sc /\ es' = es
        /\ Heard(m, c)
    <2>1. c = Selected(ec, m, "ech accept confirmation")  BY <1>1
    <2>2. PICK e, k, f : e = Extensions /\ k = Cert /\ f = Fin  OBVIOUS
    <2>3. toEc = <<m, e, k, f>>  BY <1>2, <2>2
    <2>4. Head(toEc) = m /\ Tail(toEc) = <<e, k, f>>  BY <2>3
    <2>5. /\ EchClient(ec') /\ toEc' = Tail(toEc) /\ toEs' = toEs /\ sc' = sc /\ es' = es
          /\ Heard(m, c)
      BY <1>2, <2>1, <2>4, HelloStepIs
    <2> QED BY <2>2, <2>4, <2>5
  <1>9. ec'.phase = "ee" /\ ec'.ech.state = Ech2.state /\ ec'.inner = Answered
    BY <1>1, <1>7, <1>8 DEF Heard, Answered
  <1>10. /\ Ech2' = Ech2 /\ Answered' = Answered /\ ServerState' = ServerState
         /\ Extensions' = Extensions /\ Cert' = Cert /\ Fin' = Fin
    BY <1>8, SameScenario
  <1>11. Server2' /\ ClientEnd'  BY <1>2, <1>8, <1>9, <1>10 DEF Server2, ClientEnd
  <1>12. EchRecords'  BY <1>8 DEF EchRecords, EchServer
  <1> QED BY <1>2, <1>8, <1>9, <1>10, <1>11, <1>12 DEF AtFlight

\* The messages behind ServerHello, and an alert, move only the phase.
Moves(phase) ==
    /\ EchClient(ec') /\ ec'.phase = phase /\ ec'.ech = ec.ech /\ ec'.inner = ec.inner
    /\ toEc' = Tail(toEc) /\ toEs' = toEs /\ sc' = sc /\ es' = es

\* What handling each message behind ServerHello does.
LEMMA FlightSteps ==
    ASSUME EchClient(ec), NEW m, m = Head(toEc)
    PROVE /\ EchHandleEncryptedExtensions =>
                /\ ec.phase = "ee" /\ toEc # <<>> /\ m.type = "ee"
                /\ Moves(IF m.retryConfigs /\ ec.ech.state \notin {"offered", "grease"}
                         THEN "unsupported_extension" ELSE "cert")
          /\ EchHandleCertificate =>
                ec.phase = "cert" /\ toEc # <<>> /\ m.type = "cert" /\ Moves("fin")
          /\ EchHandleFinished =>
                ec.phase = "fin" /\ toEc # <<>> /\ m.type = "fin" /\ Moves(AfterFinished(ec, m))
          /\ EchHandleAlert => toEc # <<>> /\ m.type = "alert" /\ Moves("peer_alert")
  <1>1. ASSUME EchHandleEncryptedExtensions
        PROVE /\ ec.phase = "ee" /\ toEc # <<>> /\ m.type = "ee"
              /\ Moves(IF m.retryConfigs /\ ec.ech.state \notin {"offered", "grease"}
                       THEN "unsupported_extension" ELSE "cert")
    <2>1. PICK bad, rc : /\ bad = (m.retryConfigs /\ ec.ech.state \notin {"offered", "grease"})
                         /\ rc = (m.retryConfigs /\ ec.ech.state = "offered")
      OBVIOUS
    <2>2. /\ ec.phase = "ee" /\ toEc # <<>> /\ m.type = "ee"
          /\ ec' = IF bad THEN [ec EXCEPT !.phase = "unsupported_extension"]
                   ELSE [ec EXCEPT !.phase = "cert", !.retryConfigs = rc]
          /\ toEc' = Tail(toEc) /\ toEs' = toEs /\ sc' = sc /\ es' = es
      BY <1>1, <2>1, Zenon DEF EchHandleEncryptedExtensions, EchFail
    <2>3. CASE bad
      <3>1. ec' = [phase |-> "unsupported_extension", ech |-> ec.ech, inner |-> ec.inner,
                   outer |-> ec.outer, retryConfigs |-> ec.retryConfigs]
        BY <2>2, <2>3 DEF EchClient
      <3>2. EchClient(ec')  BY <3>1 DEF EchClient
      <3>3. ec'.phase = "unsupported_extension" /\ ec'.ech = ec.ech /\ ec'.inner = ec.inner  BY <3>1
      <3>4. Moves("unsupported_extension")  BY <2>2, <3>2, <3>3 DEF Moves
      <3> QED BY <2>1, <2>2, <2>3, <3>4, Zenon
    <2>4. CASE ~bad
      <3>1. ec' = [phase |-> "cert", ech |-> ec.ech, inner |-> ec.inner,
                   outer |-> ec.outer, retryConfigs |-> rc]
        BY <2>2, <2>4 DEF EchClient
      <3>2. EchClient(ec')  BY <3>1 DEF EchClient
      <3>3. ec'.phase = "cert" /\ ec'.ech = ec.ech /\ ec'.inner = ec.inner  BY <3>1
      <3>4. Moves("cert")  BY <2>2, <3>2, <3>3 DEF Moves
      <3> QED BY <2>1, <2>2, <2>4, <3>4, Zenon
    <2> QED BY <2>3, <2>4
  <1>2. ASSUME NEW p, ec' = [ec EXCEPT !.phase = p],
               toEc' = Tail(toEc) /\ toEs' = toEs /\ sc' = sc /\ es' = es
        PROVE Moves(p)
    <2>1. ec' = [phase |-> p, ech |-> ec.ech, inner |-> ec.inner,
                 outer |-> ec.outer, retryConfigs |-> ec.retryConfigs]
      BY <1>2 DEF EchClient
    <2>2. EchClient(ec')  BY <2>1 DEF EchClient
    <2>3. ec'.phase = p /\ ec'.ech = ec.ech /\ ec'.inner = ec.inner  BY <2>1
    <2> QED BY <1>2, <2>2, <2>3 DEF Moves
  <1>3. ASSUME EchHandleCertificate
        PROVE ec.phase = "cert" /\ toEc # <<>> /\ m.type = "cert" /\ Moves("fin")
    BY <1>2, <1>3, Zenon DEF EchHandleCertificate
  <1>4. ASSUME EchHandleFinished
        PROVE ec.phase = "fin" /\ toEc # <<>> /\ m.type = "fin" /\ Moves(AfterFinished(ec, m))
    <2>1. PICK p : p = AfterFinished(ec, m)  OBVIOUS
    <2>2. /\ ec.phase = "fin" /\ toEc # <<>> /\ m.type = "fin" /\ ec' = [ec EXCEPT !.phase = p]
          /\ toEc' = Tail(toEc) /\ toEs' = toEs /\ sc' = sc /\ es' = es
      BY <1>4, <2>1, Zenon DEF EchHandleFinished
    <2>3. Moves(p)  BY <1>2, <2>2
    <2> QED BY <2>1, <2>2, <2>3
  <1>5. ASSUME EchHandleAlert PROVE toEc # <<>> /\ m.type = "alert" /\ Moves("peer_alert")
    BY <1>2, <1>5, Zenon DEF EchHandleAlert, EchFail
  <1> QED BY <1>1, <1>3, <1>4, <1>5

\* The kinds of this library's messages.
LEMMA MessageTypes ==
    /\ Retry1.type = "hrr" /\ Answer.type = "sh" /\ Extensions.type = "ee" /\ Cert.type = "cert"
    /\ Fin.type = "fin" /\ Fin.over = Answered
    /\ Extensions.retryConfigs => ServerState = "offered"
  BY DEF Retry1, Answer, Extensions, Cert, Fin

\* Which step waits for what.
LEMMA Guards ==
    /\ EchClientStart => ec.phase = "start"
    /\ ServerHandleEch => toEs # <<>>
    /\ (\E retry, accept, ext \in BOOLEAN : PeerHandleEch(retry, accept, ext)) => ~sc.library /\ toEs # <<>>
    /\ EchHandleRetry => ec.phase = "hello" /\ toEc # <<>> /\ Head(toEc).type = "hrr"
    /\ EchHandleServerHello => ec.phase = "hello" /\ toEc # <<>> /\ Head(toEc).type = "sh"
    /\ EchHandleEncryptedExtensions => ec.phase = "ee" /\ toEc # <<>> /\ Head(toEc).type = "ee"
    /\ EchHandleCertificate => ec.phase = "cert" /\ toEc # <<>> /\ Head(toEc).type = "cert"
    /\ EchHandleFinished => ec.phase = "fin" /\ toEc # <<>> /\ Head(toEc).type = "fin"
    /\ EchHandleAlert => toEc # <<>> /\ Head(toEc).type = "alert"
  <1>1. EchClientStart => ec.phase = "start"  BY Zenon DEF EchClientStart
  <1>2. ServerHandleEch => toEs # <<>>  BY Zenon DEF ServerHandleEch
  <1>3. ASSUME NEW retry \in BOOLEAN, NEW accept \in BOOLEAN, NEW ext \in BOOLEAN,
               PeerHandleEch(retry, accept, ext)
        PROVE ~sc.library /\ toEs # <<>>
    BY <1>3, Zenon DEF PeerHandleEch
  <1>4. EchHandleRetry => ec.phase = "hello" /\ toEc # <<>> /\ Head(toEc).type = "hrr"
    BY Zenon DEF EchHandleRetry
  <1>5. EchHandleServerHello => ec.phase = "hello" /\ toEc # <<>> /\ Head(toEc).type = "sh"
    BY Zenon DEF EchHandleServerHello
  <1>6. EchHandleEncryptedExtensions => ec.phase = "ee" /\ toEc # <<>> /\ Head(toEc).type = "ee"
    BY Zenon DEF EchHandleEncryptedExtensions
  <1>7. EchHandleCertificate => ec.phase = "cert" /\ toEc # <<>> /\ Head(toEc).type = "cert"
    BY Zenon DEF EchHandleCertificate
  <1>8. EchHandleFinished => ec.phase = "fin" /\ toEc # <<>> /\ Head(toEc).type = "fin"
    BY Zenon DEF EchHandleFinished
  <1>9. EchHandleAlert => toEc # <<>> /\ Head(toEc).type = "alert"  BY Zenon DEF EchHandleAlert
  <1> QED BY <1>1, <1>2, <1>3, <1>4, <1>5, <1>6, <1>7, <1>8, <1>9, Zenon

\* The rest of the flight is as the client expects it.
LEMMA LibraryFlight ==
    ASSUME sc \in EchScenario, EchRecords, AtFlight,
           \/ EchHandleEncryptedExtensions \/ EchHandleCertificate \/ EchHandleFinished
    PROVE EchRecords' /\ AtFlight'
  <1>1. PICK m : m = Head(toEc)  OBVIOUS
  <1>2. EchClient(ec) /\ Server2 /\ ClientEnd /\ toEs = <<>>  BY DEF EchRecords, AtFlight
  <1>3. PICK x, k, f : x = Extensions /\ k = Cert /\ f = Fin  OBVIOUS
  <1>4. \/ ec.phase = "ee" /\ toEc = <<x, k, f>>
        \/ ec.phase = "cert" /\ toEc = <<k, f>>
        \/ ec.phase = "fin" /\ toEc = <<f>>
        \/ ec.phase = (IF Ech2.state = "offered" THEN "ech_required" ELSE "done") /\ toEc = <<>>
    BY <1>3 DEF AtFlight
  <1>5. ec.ech.state = Ech2.state /\ ec.inner = Answered  BY <1>2 DEF ClientEnd
  <1>6. SUFFICES ASSUME NEW p, Moves(p),
                        \/ p = "cert" /\ Tail(toEc) = <<k, f>>
                        \/ p = "fin" /\ Tail(toEc) = <<f>>
                        \/ /\ p = IF Ech2.state = "offered" THEN "ech_required" ELSE "done"
                           /\ Tail(toEc) = <<>>
                 PROVE EchRecords' /\ AtFlight'
    <2>1. CASE EchHandleEncryptedExtensions
      <3>1. ec.phase = "ee"  BY <2>1, Guards
      <3>2. toEc = <<x, k, f>>  BY <1>4, <3>1
      <3>3. m = x /\ Tail(toEc) = <<k, f>>  BY <1>1, <3>2
      <3>4. m.retryConfigs => ec.ech.state \in {"offered", "grease"}
        <4>1. SUFFICES ASSUME m.retryConfigs PROVE Ech2.state \in {"offered", "grease"}  BY <1>5
        <4>2. ServerState = "offered"  BY <1>3, <3>3, <4>1, MessageTypes
        <4>3. ~Opened /\ OfferedEch.aead # Nil  BY <4>2 DEF ServerState
        <4>4. Ech2.state = IF RealOffer THEN "offered" ELSE OfferedEch.state  BY <4>3, Ech12
        <4>5. OfferedEch.state \in {"none", "grease"}  BY OfferedIs
        <4> QED BY <4>3, <4>4, <4>5 DEF RealOffer
      <3>5. Moves(IF m.retryConfigs /\ ec.ech.state \notin {"offered", "grease"}
                  THEN "unsupported_extension" ELSE "cert")
        BY <1>1, <1>2, <2>1, FlightSteps
      <3>6. Moves("cert")  BY <3>4, <3>5
      <3> QED BY <1>6, <3>3, <3>6
    <2>2. CASE EchHandleCertificate
      <3>1. ec.phase = "cert"  BY <2>2, Guards
      <3>2. toEc = <<k, f>>  BY <1>4, <3>1
      <3>3. Tail(toEc) = <<f>>  BY <3>2
      <3>4. Moves("fin")  BY <1>1, <1>2, <2>2, FlightSteps
      <3> QED BY <1>6, <3>3, <3>4
    <2>3. CASE EchHandleFinished
      <3>1. ec.phase = "fin"  BY <2>3, Guards
      <3>2. toEc = <<f>>  BY <1>4, <3>1
      <3>3. m = f /\ Tail(toEc) = <<>>  BY <1>1, <3>2
      <3>4. Moves(AfterFinished(ec, m))  BY <1>1, <1>2, <2>3, FlightSteps
      <3>5. m.over = ec.inner  BY <1>3, <1>5, <3>3, MessageTypes
      <3>6. AfterFinished(ec, m) = IF Ech2.state = "offered" THEN "ech_required" ELSE "done"
        BY <1>5, <3>5 DEF AfterFinished
      <3> QED BY <1>6, <3>3, <3>4, <3>6
    <2> QED BY <2>1, <2>2, <2>3
  <1>7. /\ EchClient(ec') /\ ec'.phase = p /\ ec'.ech = ec.ech /\ ec'.inner = ec.inner
        /\ toEc' = Tail(toEc) /\ toEs' = toEs /\ sc' = sc /\ es' = es
    BY <1>6 DEF Moves
  <1>8. /\ Ech2' = Ech2 /\ Answered' = Answered /\ ServerState' = ServerState /\ Cert' = k /\ Fin' = f
    BY <1>3, <1>7, SameScenario
  <1>9. Server2' /\ ClientEnd'  BY <1>2, <1>7, <1>8 DEF Server2, ClientEnd
  <1>10. EchRecords'  BY <1>7 DEF EchRecords, EchServer
  <1>11. AtFlight'  BY <1>2, <1>6, <1>7, <1>8, <1>9 DEF AtFlight
  <1> QED BY <1>10, <1>11

\* Which steps an empty channel rules out.
LEMMA NothingComes ==
    ASSUME toEc = <<>>, EchNext, sc.library
    PROVE EchClientStart \/ ServerHandleEch
  BY Guards DEF EchNext

\* With no hello on its way only the client moves.
LEMMA NothingGoes ==
    ASSUME toEs = <<>>, EchNext, ec.phase # "start"
    PROVE \/ EchHandleRetry \/ EchHandleServerHello \/ EchHandleEncryptedExtensions
          \/ EchHandleCertificate \/ EchHandleFinished \/ EchHandleAlert
  BY Guards DEF EchNext

\* Two ends of this library go from one of these places to the next.
LEMMA LibraryStep ==
    ASSUME sc \in EchScenario, sc.library, EchRecords, LibraryInv, EchNext
    PROVE EchRecords' /\ LibraryInv'
  <1>1. CASE AtStart
    <2>1. toEc = <<>> /\ toEs = <<>>  BY <1>1 DEF AtStart
    <2>2. EchClientStart  BY <2>1, NothingComes, Guards
    <2> QED BY <1>1, <2>2, LibraryStarts DEF LibraryInv
  <1>2. CASE AtHello1
    <2>1. toEc = <<>> /\ ec.phase = "hello"  BY <1>2 DEF AtHello1, Client1
    <2>2. ServerHandleEch  BY <2>1, NothingComes, Guards
    <2> QED BY <1>2, <2>2, LibraryAnswers1 DEF LibraryInv
  <1>3. CASE AtRetry
    <2>1. PICK m : m = Retry1  OBVIOUS
    <2>2. toEs = <<>> /\ ec.phase = "hello" /\ toEc = <<m>>  BY <1>3, <2>1 DEF AtRetry, Client1
    <2>3. Head(toEc) = m  BY <2>2
    <2>4. Head(toEc).type = "hrr"  BY <2>1, <2>3, MessageTypes
    <2>5. EchHandleRetry  BY <2>2, <2>4, NothingGoes, Guards
    <2> QED BY <1>3, <2>5, LibraryRetries DEF LibraryInv
  <1>4. CASE AtHello2
    <2>1. toEc = <<>> /\ ec.phase = "hello"  BY <1>4 DEF AtHello2, Client2
    <2>2. ServerHandleEch  BY <2>1, NothingComes, Guards
    <2> QED BY <1>4, <2>2, LibraryAnswers2 DEF LibraryInv
  <1>5. CASE AtAnswer
    <2>1. PICK m, x, k, f : m = Answer /\ x = Extensions /\ k = Cert /\ f = Fin  OBVIOUS
    <2>2. toEs = <<>> /\ ec.phase = "hello" /\ toEc = <<m, x, k, f>>
      BY <1>5, <2>1 DEF AtAnswer, Client1, Client2
    <2>3. Head(toEc) = m  BY <2>2
    <2>4. Head(toEc).type = "sh"  BY <2>1, <2>3, MessageTypes
    <2>5. EchHandleServerHello  BY <2>2, <2>4, NothingGoes, Guards
    <2> QED BY <1>5, <2>5, LibraryHears DEF LibraryInv
  <1>6. CASE AtFlight
    <2>1. PICK x, k, f : x = Extensions /\ k = Cert /\ f = Fin  OBVIOUS
    <2>2. /\ toEs = <<>> /\ ec.phase # "start" /\ ec.phase # "hello"
          /\ toEc = <<x, k, f>> \/ toEc = <<k, f>> \/ toEc = <<f>> \/ toEc = <<>>
      BY <1>6, <2>1 DEF AtFlight
    <2>3. x.type = "ee" /\ k.type = "cert" /\ f.type = "fin"  BY <2>1, MessageTypes
    <2>4. toEc # <<>> => Head(toEc) \in {x, k, f}
      <3>1. CASE toEc = <<x, k, f>>  BY <3>1
      <3>2. CASE toEc = <<k, f>>  BY <3>2
      <3>3. CASE toEc = <<f>>  BY <3>3
      <3> QED BY <2>2, <3>1, <3>2, <3>3
    <2>5. ~EchHandleAlert  BY <2>3, <2>4, Guards
    <2>6. EchHandleEncryptedExtensions \/ EchHandleCertificate \/ EchHandleFinished
      BY <2>2, <2>5, NothingGoes, Guards
    <2> QED BY <1>6, <2>6, LibraryFlight DEF LibraryInv
  <1>7. CASE AtRefusal
    <2>1. PICK m : m = [type |-> "alert"]  OBVIOUS
    <2>2. /\ toEs = <<>> /\ ec.phase = "hello" /\ toEc = <<m>> /\ NameRefused /\ ec.ech = Ech2
      BY <1>7, <2>1 DEF AtRefusal, Client2
    <2>3. Head(toEc) = m /\ Tail(toEc) = <<>> /\ m.type = "alert"  BY <2>1, <2>2
    <2>4. EchHandleAlert  BY <2>2, <2>3, NothingGoes, Guards
    <2>5. EchClient(ec)  BY DEF EchRecords
    <2>6. Moves("peer_alert")  BY <2>3, <2>4, <2>5, FlightSteps
    <2>7. /\ EchClient(ec') /\ ec'.phase = "peer_alert" /\ ec'.ech = Ech2
          /\ toEc' = <<>> /\ toEs' = <<>> /\ sc' = sc /\ es' = es
      BY <2>2, <2>3, <2>6 DEF Moves
    <2>8. EchRecords'  BY <2>7 DEF EchRecords, EchServer
    <2>9. AtRefused'  BY <2>2, <2>7, SameScenario DEF AtRefused
    <2> QED BY <2>8, <2>9 DEF LibraryInv
  <1>8. CASE AtRefused
    <2>1. toEs = <<>> /\ toEc = <<>> /\ ec.phase = "peer_alert"  BY <1>8 DEF AtRefused
    <2> QED BY <2>1, NothingGoes, Guards
  <1> QED BY <1>1, <1>2, <1>3, <1>4, <1>5, <1>6, <1>7, <1>8 DEF LibraryInv

---------------------------------------------------------------------------
(* Ech: the steps with a server of another make.                           *)

\* What the server sends on a hello h: a retry request or a flight; if it does
\* not accept, Finished is over the hellos as they were sent.
PeerSent(h, retry, accept) ==
    \E T, m, f :
        /\ T = Append(es.outer, h)
        /\ es'.ech.state = IF accept THEN "accepted" ELSE "offered"
        /\ retry => m.type = "hrr" /\ toEc' = <<m>> /\ es'.outer = Append(Ch1Hash(T), m)
        /\ ~retry => /\ m.type = "sh" /\ f.type = "fin"
                     /\ toEc' = <<m, [type |-> "ee", retryConfigs |-> FALSE],
                                  [type |-> "cert", name |-> PublicName], f>>
                     /\ accept \/ (m.confirm = RandomBytes /\ f.over = Append(T, m))

\* What a server of another make answers to a hello.
LEMMA PeerStepIs ==
    ASSUME EchServer(es), NEW h, h = Head(toEs), NEW retry \in BOOLEAN, NEW accept \in BOOLEAN,
           NEW ext \in BOOLEAN, PeerHandleEch(retry, accept, ext)
    PROVE EchServer(es') /\ ec' = ec /\ sc' = sc /\ toEs' = <<>> /\ PeerSent(h, retry, accept)
  <1>1. PICK T, I, WT, WI, label, m, used :
          /\ T = Append(es.outer, h)
          /\ I = Append(es.transcript, IF HasOuterEch(h) /\ OpenerKey(h.ech.id) = h.ech.payload.key
                                       THEN h.ech.payload.plain ELSE h)
          /\ WT = (IF retry THEN Ch1Hash(T) ELSE T)
          /\ WI = (IF retry THEN Ch1Hash(I) ELSE I)
          /\ label = (IF retry THEN "hrr ech accept confirmation" ELSE "ech accept confirmation")
          /\ m = [type |-> IF retry THEN "hrr" ELSE "sh",
                  confirm |-> IF accept THEN Confirmation(label, WI)
                              ELSE IF retry /\ ~ext THEN NoConfirmation ELSE RandomBytes]
          /\ used = (IF accept THEN I ELSE T)
    OBVIOUS
  <1>2. /\ es' = [es EXCEPT !.retries = IF retry THEN @ + 1 ELSE @,
                            !.phase = IF retry THEN "second" ELSE "done",
                            !.transcript = Append(WI, m),
                            !.outer = Append(WT, m),
                            !.ech.state = IF accept THEN "accepted" ELSE "offered"]
        /\ toEc' = IF retry THEN <<m>>
                   ELSE <<m, [type |-> "ee", retryConfigs |-> FALSE],
                          [type |-> "cert", name |-> PublicName],
                          [type |-> "fin", over |-> Append(used, m)]>>
        /\ toEs' = <<>> /\ sc' = sc /\ ec' = ec
    BY <1>1, Zenon DEF PeerHandleEch
  <1>3. PICK n, p, tr, ou, st, x : /\ n = (IF retry THEN es.retries + 1 ELSE es.retries)
                                   /\ p = (IF retry THEN "second" ELSE "done")
                                   /\ tr = Append(WI, m) /\ ou = Append(WT, m)
                                   /\ st = (IF accept THEN "accepted" ELSE "offered")
                                   /\ x = [es.ech EXCEPT !.state = st]
    OBVIOUS
  <1>4. es' = [es EXCEPT !.retries = n, !.phase = p, !.transcript = tr, !.outer = ou, !.ech = x]
    BY <1>2, <1>3
  <1>5. es' = [phase |-> p, ech |-> x, name |-> es.name, transcript |-> tr, outer |-> ou, retries |-> n]
    BY <1>4 DEF EchServer
  <1>6. PICK g : g = es.ech /\ EchRecord(g)  BY DEF EchServer
  <1>7. x = [state |-> st, aead |-> g.aead, id |-> g.id, public |-> g.public, first |-> g.first]
    BY <1>3, <1>6 DEF EchRecord
  <1>8. EchRecord(x) /\ x.state = st  BY <1>7 DEF EchRecord
  <1>9. EchServer(es') /\ es'.ech = x /\ es'.outer = ou  BY <1>5, <1>8 DEF EchServer
  <1>10. PICK f : f = [type |-> "fin", over |-> Append(used, m)]  OBVIOUS
  <1>11. PICK u : u = Append(used, m)  OBVIOUS
  <1>12. f.type = "fin" /\ f.over = u  BY <1>10, <1>11
  <1>13. /\ m.type = (IF retry THEN "hrr" ELSE "sh")
         /\ ~retry /\ ~accept => m.confirm = RandomBytes
    BY <1>1
  <1>14. ~accept => f.over = Append(T, m)  BY <1>1, <1>11, <1>12
  <1>15. es'.ech.state = IF accept THEN "accepted" ELSE "offered"  BY <1>3, <1>8, <1>9
  <1>16. retry => m.type = "hrr" /\ toEc' = <<m>> /\ es'.outer = Append(Ch1Hash(T), m)
    BY <1>1, <1>2, <1>3, <1>9, <1>13
  <1>17. ~retry => /\ m.type = "sh" /\ f.type = "fin"
                   /\ toEc' = <<m, [type |-> "ee", retryConfigs |-> FALSE],
                                [type |-> "cert", name |-> PublicName], f>>
                   /\ accept \/ (m.confirm = RandomBytes /\ f.over = Append(T, m))
    BY <1>2, <1>10, <1>12, <1>13, <1>14, Zenon
  <1>18. T = Append(es.outer, h)  BY <1>1
  <1>19. PeerSent(h, retry, accept)  BY <1>15, <1>16, <1>17, <1>18, Zenon DEF PeerSent
  <1> QED BY <1>2, <1>9, <1>19

\* The scenario stays, and with another server the records keep their shape.
LEMMA ScenarioStays ==
    ASSUME EchNext
    PROVE sc' = sc
  <1>1. EchClientStart => sc' = sc  BY Zenon DEF EchClientStart
  <1>2. ServerHandleEch => sc' = sc  BY Zenon DEF ServerHandleEch
  <1>3. ASSUME NEW retry \in BOOLEAN, NEW accept \in BOOLEAN, NEW ext \in BOOLEAN,
               PeerHandleEch(retry, accept, ext)
        PROVE sc' = sc
    BY <1>3, Zenon DEF PeerHandleEch
  <1>4. EchHandleRetry => sc' = sc  BY Zenon DEF EchHandleRetry
  <1>5. EchHandleServerHello => sc' = sc  BY Zenon DEF EchHandleServerHello
  <1>6. EchHandleEncryptedExtensions => sc' = sc  BY Zenon DEF EchHandleEncryptedExtensions
  <1>7. EchHandleCertificate => sc' = sc  BY Zenon DEF EchHandleCertificate
  <1>8. EchHandleFinished => sc' = sc  BY Zenon DEF EchHandleFinished
  <1>9. EchHandleAlert => sc' = sc  BY Zenon DEF EchHandleAlert
  <1> QED BY <1>1, <1>2, <1>3, <1>4, <1>5, <1>6, <1>7, <1>8, <1>9, Zenon DEF EchNext

\* The first hello, whatever is offered.
LEMMA StartIs ==
    ASSUME sc \in EchScenario, EchClient(ec), EchClientStart
    PROVE /\ \E c : EchClient(c) /\ c.ech = OfferedEch /\ SendHello(c, FALSE)
          /\ EchClient(ec') /\ es' = es /\ toEc' = toEc
  <1>1. PICK c : c = [ec EXCEPT !.ech = OfferedEch]  OBVIOUS
  <1>2. SendHello(c, FALSE) /\ es' = es /\ toEc' = toEc  BY <1>1 DEF EchClientStart
  <1>3. EchRecord(OfferedEch)  BY OfferedIs
  <1>4. c = [phase |-> ec.phase, ech |-> OfferedEch, inner |-> ec.inner, outer |-> ec.outer,
             retryConfigs |-> ec.retryConfigs]
    BY <1>1 DEF EchClient
  <1>5. EchClient(c) /\ c.ech = OfferedEch  BY <1>3, <1>4 DEF EchClient
  <1>6. EchClient(ec')  BY <1>2, <1>5, SendHelloIs
  <1> QED BY <1>2, <1>5, <1>6

\* Its steps and the client's keep the records' shapes.
LEMMA PeerRecords ==
    ASSUME sc \in EchScenario, EchRecords, ~sc.library, EchNext
    PROVE EchRecords'
  <1>1. EchClient(ec) /\ EchServer(es)  BY DEF EchRecords
  <1>2. PICK m : m = Head(toEc)  OBVIOUS
  <1>3. ASSUME EchClient(ec'), es' = es PROVE EchRecords'  BY <1>1, <1>3 DEF EchRecords
  <1>4. CASE EchClientStart  BY <1>1, <1>3, <1>4, StartIs
  <1>5. CASE ServerHandleEch
    <2>1. sc.library  BY <1>5, Zenon DEF ServerHandleEch
    <2> QED BY <2>1
  <1>6. ASSUME NEW retry \in BOOLEAN, NEW accept \in BOOLEAN, NEW ext \in BOOLEAN,
               PeerHandleEch(retry, accept, ext)
        PROVE EchRecords'
    <2>1. PICK h : h = Head(toEs)  OBVIOUS
    <2>2. EchServer(es') /\ ec' = ec  BY <1>1, <1>6, <2>1, PeerStepIs
    <2> QED BY <1>1, <2>2 DEF EchRecords
  <1>7. CASE EchHandleRetry
    <2>1. PICK c : c = Selected(Hashed(ec), m, "hrr ech accept confirmation")  OBVIOUS
    <2>2. EchClient(c) /\ es' = es /\ Retried(m, c)  BY <1>1, <1>2, <1>7, <2>1, RetryStepIs, Zenon
    <2>3. \/ EchClient(ec') \/ ec' = c
          \/ \E d : EchClient(d) /\ SendHello(d, TRUE)
      BY <2>2, Zenon DEF Retried
    <2>4. EchClient(ec')
      <3>1. ASSUME NEW d, EchClient(d), SendHello(d, TRUE) PROVE EchClient(ec')
        BY <3>1, SendHelloIs
      <3> QED BY <2>2, <2>3, <3>1
    <2> QED BY <1>3, <2>2, <2>4
  <1>8. CASE EchHandleServerHello
    <2>1. PICK c : c = Selected(ec, m, "ech accept confirmation")  OBVIOUS
    <2>2. EchClient(ec') /\ es' = es  BY <1>1, <1>2, <1>8, <2>1, HelloStepIs, Zenon
    <2> QED BY <1>3, <2>2
  <1>9. CASE \/ EchHandleEncryptedExtensions \/ EchHandleCertificate \/ EchHandleFinished
             \/ EchHandleAlert
    <2>1. \E p : Moves(p)  BY <1>1, <1>2, <1>9, FlightSteps, Zenon
    <2>2. EchClient(ec') /\ es' = es  BY <2>1 DEF Moves
    <2> QED BY <1>3, <2>2
  <1> QED BY <1>4, <1>5, <1>6, <1>7, <1>8, <1>9, Zenon DEF EchNext

\* Lists of different lengths, or with different heads, differ.
LEMMA ListsDiffer ==
    /\ \A a, x, y, z : <<a>> # <<x, y, z>>
    /\ \A a, b, x, y, z : <<a, b>> # <<x, y, z>>
    /\ \A a, b, c, x, y, z : a # x => <<a, b, c>> # <<x, y, z>>
    /\ \A a, b, c, w, x, y, z : <<a, b, c>> # <<w, x, y, z>>
    /\ \A a, b, c, d, w, x, y, z : a # w => <<a, b, c, d>> # <<w, x, y, z>>
  <1>1. \A a, x, y, z : <<a>> # <<x, y, z>>  OBVIOUS
  <1>2. \A a, b, x, y, z : <<a, b>> # <<x, y, z>>  OBVIOUS
  <1>3. \A a, b, c, x, y, z : a # x => <<a, b, c>> # <<x, y, z>>  OBVIOUS
  <1>4. \A a, b, c, w, x, y, z : <<a, b, c>> # <<w, x, y, z>>  OBVIOUS
  <1>5. \A a, b, c, d, w, x, y, z : a # w => <<a, b, c, d>> # <<w, x, y, z>>  OBVIOUS
  <1> QED BY <1>1, <1>2, <1>3, <1>4, <1>5

\* A real offer goes out.
LEMMA PeerStarts ==
    ASSUME sc \in EchScenario, EchClient(ec), Offers, EchClientStart, toEc = <<>>
    PROVE PeerInv'
  <1>1. PICK c : EchClient(c) /\ c.ech = OfferedEch /\ SendHello(c, FALSE)  BY StartIs
  <1>2. toEc' = <<>>  BY StartIs
  <1>3. c.ech.aead # Nil /\ c.ech.state = "none"  BY <1>1, OfferedIs DEF RealOffer
  <1>4. PICK h : h = OuterHello(c.ech, FALSE)  OBVIOUS
  <1>5. ec'.phase = "hello" /\ toEs' = <<h>> /\ ec'.ech.state = "offered"
    BY <1>1, <1>3, <1>4, SendHelloIs
  <1>6. PeerAsked'  BY <1>2, <1>5 DEF PeerAsked, Asking, Believes, Misled
  <1> QED BY <1>5, <1>6 DEF PeerInv

\* The server, asked, asks again or answers.
LEMMA PeerReplies ==
    ASSUME EchServer(es), ec.ech.state \in {"offered", "accepted"}, PeerAsked,
           NEW retry \in BOOLEAN, NEW accept \in BOOLEAN, NEW ext \in BOOLEAN,
           PeerHandleEch(retry, accept, ext)
    PROVE PeerInv'
  <1>1. PICK h : /\ ec.phase = "hello" /\ toEs = <<h>> /\ toEc = <<>>
                 /\ Believes => /\ \E a, b : ec.outer = <<a>> \/ ec.outer = <<a, b>>
                                /\ \E a, b : es.outer = <<a, b>>
                 /\ Misled => \E i, o, r : /\ i # o /\ ec.inner \in {<<r, h>>, <<i, r, h>>}
                                           /\ es.outer = <<o, r>>
    BY DEF PeerAsked, Asking
  <1>2. Head(toEs) = h  BY <1>1
  <1>3. ec' = ec /\ toEs' = <<>> /\ PeerSent(h, retry, accept)  BY <1>2, PeerStepIs
  <1>4. PICK T, m, f :
          /\ T = Append(es.outer, h)
          /\ es'.ech.state = IF accept THEN "accepted" ELSE "offered"
          /\ retry => m.type = "hrr" /\ toEc' = <<m>> /\ es'.outer = Append(Ch1Hash(T), m)
          /\ ~retry => /\ m.type = "sh" /\ f.type = "fin"
                       /\ toEc' = <<m, [type |-> "ee", retryConfigs |-> FALSE],
                                    [type |-> "cert", name |-> PublicName], f>>
                       /\ accept \/ (m.confirm = RandomBytes /\ f.over = Append(T, m))
    BY <1>3 DEF PeerSent
  <1>5. Believes' = Believes /\ Misled' = Misled  BY <1>3 DEF Believes, Misled
  <1>6. ASSUME NEW a, NEW b, es.outer = <<a, b>> PROVE T = <<a, b, h>>
    <2>1. PICK q : q = <<a, b, h>>  OBVIOUS
    <2>2. Append(<<a, b>>, h) = q  BY <2>1, Lists3
    <2> QED BY <1>4, <1>6, <2>1, <2>2
  <1>7. CASE retry
    <2>1. PICK x : x = [hash |-> T]  OBVIOUS
    <2>2. es'.outer = <<x, m>> /\ toEc' = <<m>> /\ m.type = "hrr"
      <3>1. Append(<<x>>, m) = <<x, m>>  BY Lists2
      <3> QED BY <1>4, <1>7, <2>1, <3>1 DEF Ch1Hash
    <2>3. Believes => ec.outer # T
      <3>1. SUFFICES ASSUME Believes PROVE ec.outer # T  OBVIOUS
      <3>2. PICK a, b, c, d : (ec.outer = <<a>> \/ ec.outer = <<a, b>>) /\ es.outer = <<c, d>>
        BY <1>1, <3>1
      <3>3. T = <<c, d, h>>  BY <1>6, <3>2
      <3> QED BY <3>2, <3>3, ListsDiffer
    <2>4. Misled => ec.inner # T
      <3>1. SUFFICES ASSUME Misled PROVE ec.inner # T  OBVIOUS
      <3>2. PICK i, o, r : i # o /\ ec.inner \in {<<r, h>>, <<i, r, h>>} /\ es.outer = <<o, r>>
        BY <1>1, <3>1
      <3>3. T = <<o, r, h>>  BY <1>6, <3>2
      <3> QED BY <3>2, <3>3, ListsDiffer
    <2>5. PeerRetries'  BY <1>1, <1>3, <1>5, <2>1, <2>2, <2>3, <2>4 DEF PeerRetries
    <2> QED BY <1>3, <2>5 DEF PeerInv
  <1>8. CASE ~retry
    <2>1. PICK e, k : /\ e = [type |-> "ee", retryConfigs |-> FALSE]
                      /\ k = [type |-> "cert", name |-> PublicName]
      OBVIOUS
    <2>2. e.type = "ee" /\ k.type = "cert"  BY <2>1
    <2>3. m.type = "sh" /\ f.type = "fin" /\ toEc' = <<m, e, k, f>>  BY <1>4, <1>8, <2>1
    <2>4. \/ es'.ech.state = "accepted"
          \/ /\ m.confirm = RandomBytes
             /\ Misled => \E i, o, r, g : /\ i # o /\ ec.inner \in {<<r, g>>, <<i, r, g>>}
                                          /\ f.over = <<o, r, g, m>>
      <3>1. CASE accept  BY <1>4, <3>1
      <3>2. CASE ~accept
        <4>1. m.confirm = RandomBytes /\ f.over = Append(T, m)  BY <1>4, <1>8, <3>2
        <4>2. ASSUME Misled
              PROVE \E i, o, r, g : /\ i # o /\ ec.inner \in {<<r, g>>, <<i, r, g>>}
                                    /\ f.over = <<o, r, g, m>>
          <5>1. PICK i, o, r : i # o /\ ec.inner \in {<<r, h>>, <<i, r, h>>} /\ es.outer = <<o, r>>
            BY <1>1, <4>2
          <5>2. T = <<o, r, h>>  BY <1>6, <5>1
          <5>3. Append(T, m) = <<o, r, h, m>>  BY <5>2, AppendThree
          <5>4. f.over = <<o, r, h, m>>  BY <4>1, <5>3
          <5> QED BY <5>1, <5>4, Zenon
        <4> QED BY <4>1, <4>2
      <3> QED BY <3>1, <3>2
    <2>6. ec'.phase = "hello" /\ ec'.inner = ec.inner /\ toEs' = <<>>  BY <1>1, <1>3
    <2>7. \/ es'.ech.state = "accepted"
          \/ /\ m.confirm = RandomBytes
             /\ Misled' => \E i, o, r, g : /\ i # o /\ ec'.inner \in {<<r, g>>, <<i, r, g>>}
                                           /\ f.over = <<o, r, g, m>>
      <3>1. CASE es'.ech.state = "accepted"  BY <3>1
      <3>2. CASE es'.ech.state # "accepted"
        <4>1. m.confirm = RandomBytes  BY <2>4, <3>2
        <4>2. SUFFICES ASSUME Misled
                       PROVE \E i, o, r, g : /\ i # o /\ ec'.inner \in {<<r, g>>, <<i, r, g>>}
                                             /\ f.over = <<o, r, g, m>>
          BY <1>5, <4>1
        <4>3. PICK i, o, r, g : i # o /\ ec.inner \in {<<r, g>>, <<i, r, g>>} /\ f.over = <<o, r, g, m>>
          BY <2>4, <3>2, <4>2
        <4>4. ec'.inner \in {<<r, g>>, <<i, r, g>>}  BY <2>6, <4>3
        <4> QED BY <4>3, <4>4, Zenon
      <3> QED BY <3>1, <3>2
    <2>5. PeerAnswers'
      <3>1. Answering(m, e, k, f)'  BY <2>2, <2>3, <2>6, <2>7 DEF Answering
      <3> QED BY <3>1 DEF PeerAnswers
    <2> QED BY <1>3, <2>5 DEF PeerInv
  <1> QED BY <1>7, <1>8

\* The client, asked again, may believe, and may have to adopt an outer
\* transcript it can no longer complete.
LEMMA PeerRetried ==
    ASSUME EchClient(ec), ec.ech.state \in {"offered", "accepted"}, PeerRetries, EchHandleRetry
    PROVE PeerInv'
  <1>1. PICK m, o : /\ ec.phase = "hello" /\ toEs = <<>> /\ toEc = <<m>> /\ m.type = "hrr"
                    /\ es.outer = <<[hash |-> o], m>>
                    /\ Believes => ec.outer # o
                    /\ Misled => ec.inner # o
    BY DEF PeerRetries
  <1>2. Head(toEc) = m /\ Tail(toEc) = <<>>  BY <1>1
  <1>3. PICK hd, c, lb : /\ hd = Hashed(ec) /\ lb = "hrr ech accept confirmation"
                         /\ c = Selected(hd, m, lb)
    OBVIOUS
  <1>4. /\ hd.phase = "hello" /\ hd.ech = ec.ech /\ hd.inner = Ch1Hash(ec.inner)
        /\ hd.outer = IF ec.outer = <<>> THEN <<>> ELSE Ch1Hash(ec.outer)
    BY <1>1, <1>3 DEF Hashed
  <1>5. EchClient(hd)  BY <1>3 DEF Hashed, EchClient
  <1>6. EchClient(c) /\ Decided(hd, m, lb, c)  BY <1>3, <1>5, SelectIs
  <1>7. toEc' = <<>> /\ es' = es /\ Retried(m, c)
    <2>1. c = Selected(Hashed(ec), m, "hrr ech accept confirmation")  BY <1>3, Zenon
    <2>2. toEc' = Tail(toEc) /\ es' = es /\ Retried(m, c)  BY <1>2, <2>1, RetryStepIs, Zenon
    <2> QED BY <1>2, <2>2
  <1>8. /\ c.phase # "hello" => ec' = c /\ toEs' = toEs
        /\ c.phase = "hello" =>
              \E d : /\ EchClient(d) /\ d.ech = c.ech /\ d.inner = Append(c.inner, m)
                     /\ d.outer = c.outer /\ SendHello(d, TRUE)
    BY <1>7 DEF Retried
  <1>9. c.ech.state \in {"offered", "accepted"} /\ c.phase \in {"hello", "illegal_parameter"}
    <2>1. CASE hd.ech.aead = Nil  BY <1>4, <1>6, <2>1 DEF Decided
    <2>2. CASE hd.ech.aead # Nil /\ m.confirm = Confirmation(lb, hd.inner)
      BY <1>4, <1>6, <2>2 DEF Decided
    <2>3. CASE hd.ech.aead # Nil /\ m.confirm # Confirmation(lb, hd.inner)
      <3>1. CASE m.confirm # NoConfirmation /\ hd.ech.state = "accepted"
        <4>1. c = [hd EXCEPT !.phase = "illegal_parameter"]
          BY <1>3, <2>3, <3>1 DEF Selected, SelectHello, EchFail
        <4> QED BY <1>4, <1>5, <4>1 DEF EchClient
      <3>2. CASE m.confirm = NoConfirmation \/ hd.ech.state # "accepted"
        BY <1>4, <1>6, <2>3, <3>2 DEF Decided
      <3> QED BY <3>1, <3>2
    <2> QED BY <2>1, <2>2, <2>3
  <1>10. CASE c.phase # "hello"
    <2>1. ec' = c /\ toEs' = <<>> /\ c.phase = "illegal_parameter"  BY <1>1, <1>8, <1>9, <1>10
    <2>2. PeerEnd'  BY <2>1 DEF PeerEnd
    <2> QED BY <1>9, <2>1, <2>2 DEF PeerInv
  <1>11. CASE c.phase = "hello"
    <2>1. PICK d : /\ EchClient(d) /\ d.ech = c.ech /\ d.inner = Append(c.inner, m)
                   /\ d.outer = c.outer /\ SendHello(d, TRUE)
      BY <1>8, <1>11
    <2>2. PICK b \in BOOLEAN : b = TRUE  OBVIOUS
    <2>3. PICK hi, ho : hi = InnerHello(d.ech, b) /\ ho = OuterHello(d.ech, b)  OBVIOUS
    <2>4. /\ ec'.phase = "hello"
          /\ d.ech.aead = Nil => toEs' = <<hi>> /\ ec'.ech = d.ech /\ ec'.inner = Append(d.inner, hi)
          /\ d.ech.aead # Nil => toEs' = <<ho>>
          /\ d.ech.aead # Nil /\ d.ech.state # "grease" =>
                /\ ec'.ech.aead = d.ech.aead /\ ec'.ech.state = d.ech.state
                /\ ec'.outer = Append(d.outer, ho)
      BY <2>1, <2>2, <2>3, SendHelloIs
    <2>5. d.ech.state \in {"offered", "accepted"}  BY <1>9, <2>1
    <2>6. PICK x : x = [hash |-> o]  OBVIOUS
    <2>7. es'.outer = <<x, m>>  BY <1>1, <1>7, <2>6
    <2>8. CASE d.ech.aead # Nil
      <3>1. hd.ech.aead # Nil /\ c.outer = hd.outer
        <4>1. CASE hd.ech.aead = Nil  BY <1>6, <2>1, <2>8, <4>1 DEF Decided
        <4>2. CASE hd.ech.aead # Nil /\ m.confirm = Confirmation(lb, hd.inner)  BY <1>6, <4>2 DEF Decided
        <4>3. CASE hd.ech.aead # Nil /\ m.confirm # Confirmation(lb, hd.inner)
          BY <1>6, <1>11, <2>1, <2>8, <4>3 DEF Decided
        <4> QED BY <4>1, <4>2, <4>3
      <3>2. \E p, q : ec'.outer = <<p>> \/ ec'.outer = <<p, q>>
        <4>1. ec'.outer = Append(hd.outer, ho)  BY <2>1, <2>4, <2>5, <2>8, <3>1
        <4>2. CASE ec.outer = <<>>
          <5>1. hd.outer = <<>>  BY <1>4, <4>2
          <5>2. Append(<<>>, ho) = <<ho>>  BY Lists1
          <5> QED BY <4>1, <5>1, <5>2
        <4>3. CASE ec.outer # <<>>
          <5>1. PICK y : y = [hash |-> ec.outer]  OBVIOUS
          <5>2. hd.outer = <<y>>  BY <1>4, <4>3, <5>1 DEF Ch1Hash
          <5>3. Append(<<y>>, ho) = <<y, ho>>  BY Lists2
          <5> QED BY <4>1, <5>2, <5>3
        <4> QED BY <4>2, <4>3
      <3>3. ec'.ech.aead # Nil /\ ec'.ech.state = d.ech.state /\ toEs' = <<ho>>  BY <2>4, <2>5, <2>8
      <3>4. Asking(ho)'  BY <1>7, <2>4, <2>7, <3>2, <3>3 DEF Asking, Misled
      <3> QED BY <2>5, <3>3, <3>4 DEF PeerInv, PeerAsked
    <2>9. CASE d.ech.aead = Nil
      <3>1. toEs' = <<hi>> /\ ec'.ech = d.ech /\ ec'.inner = Append(d.inner, hi)  BY <2>4, <2>9
      <3>2. ASSUME d.ech.state = "accepted"
            PROVE \E i, q, r : i # q /\ ec'.inner \in {<<r, hi>>, <<i, r, hi>>} /\ es'.outer = <<q, r>>
        <4>1. CASE hd.ech.aead = Nil
          <5>1. c = hd  BY <1>6, <4>1 DEF Decided
          <5>2. PICK y : y = [hash |-> ec.inner]  OBVIOUS
          <5>3. c.inner = <<y>>  BY <1>4, <5>1, <5>2 DEF Ch1Hash
          <5>4. Misled  BY <1>4, <2>1, <3>2, <4>1, <5>1 DEF Misled
          <5>5. y # x
            <6>1. y.hash = ec.inner /\ x.hash = o  BY <2>6, <5>2
            <6> QED BY <1>1, <5>4, <6>1
          <5>6. d.inner = <<y, m>>
            <6>1. Append(<<y>>, m) = <<y, m>>  BY Lists2
            <6> QED BY <2>1, <5>3, <6>1
          <5>7. ec'.inner = <<y, m, hi>>
            <6>1. Append(<<y, m>>, hi) = <<y, m, hi>>  BY Lists3
            <6> QED BY <3>1, <5>6, <6>1
          <5> QED BY <2>7, <5>5, <5>7
        <4>2. CASE hd.ech.aead # Nil
          <5>1. m.confirm # Confirmation(lb, hd.inner)
            BY <1>6, <2>1, <2>9, <4>2 DEF Decided
          <5>2. m.confirm = NoConfirmation \/ hd.ech.state # "accepted"
            BY <1>6, <1>11, <4>2, <5>1 DEF Decided
          <5>3. c.inner = hd.outer /\ c.ech.state = hd.ech.state  BY <1>6, <4>2, <5>1, <5>2 DEF Decided
          <5>4. Believes  BY <1>4, <2>1, <3>2, <4>2, <5>3 DEF Believes
          <5>5. CASE ec.outer = <<>>
            <6>1. c.inner = <<>>  BY <1>4, <5>3, <5>5
            <6>2. Append(<<>>, m) = <<m>>  BY Lists1
            <6>3. d.inner = <<m>>  BY <2>1, <6>1, <6>2
            <6>4. Append(<<m>>, hi) = <<m, hi>>  BY Lists2
            <6>5. ec'.inner = <<m, hi>>  BY <3>1, <6>3, <6>4
            <6>6. PICK i : i # x
              <7>1. 0 # x \/ 1 # x  OBVIOUS
              <7> QED BY <7>1
            <6> QED BY <2>7, <6>5, <6>6
          <5>6. CASE ec.outer # <<>>
            <6>1. PICK y : y = [hash |-> ec.outer]  OBVIOUS
            <6>2. c.inner = <<y>>  BY <1>4, <5>3, <5>6, <6>1 DEF Ch1Hash
            <6>3. y # x
              <7>1. y.hash = ec.outer /\ x.hash = o  BY <2>6, <6>1
              <7> QED BY <1>1, <5>4, <7>1
            <6>4. Append(<<y>>, m) = <<y, m>>  BY Lists2
            <6>5. d.inner = <<y, m>>  BY <2>1, <6>2, <6>4
            <6>6. Append(<<y, m>>, hi) = <<y, m, hi>>  BY Lists3
            <6>7. ec'.inner = <<y, m, hi>>  BY <3>1, <6>5, <6>6
            <6> QED BY <2>7, <6>3, <6>7
          <5> QED BY <5>5, <5>6
        <4> QED BY <4>1, <4>2
      <3>3. Asking(hi)'  BY <1>7, <2>4, <2>9, <3>1, <3>2 DEF Asking, Misled, Believes
      <3> QED BY <2>5, <3>1, <3>3 DEF PeerInv, PeerAsked
    <2> QED BY <2>8, <2>9
  <1> QED BY <1>10, <1>11

\* ServerHello: without acceptance at the other end nothing good can follow.
LEMMA PeerHears ==
    ASSUME EchClient(ec), ec.ech.state \in {"offered", "accepted"}, PeerAnswers, EchHandleServerHello
    PROVE PeerInv'
  <1>1. PICK m, e, k, f : Answering(m, e, k, f)  BY DEF PeerAnswers
  <1>2. /\ ec.phase = "hello" /\ toEs = <<>> /\ toEc = <<m, e, k, f>>
        /\ e.type = "ee" /\ k.type = "cert" /\ f.type = "fin"
    BY <1>1 DEF Answering
  <1>3. Head(toEc) = m /\ Tail(toEc) = <<e, k, f>>  BY <1>2
  <1>4. PICK c, lb : lb = "ech accept confirmation" /\ c = Selected(ec, m, lb)  OBVIOUS
  <1>5. EchClient(c) /\ Decided(ec, m, lb, c)  BY <1>4, SelectIs
  <1>6. toEc' = <<e, k, f>> /\ toEs' = <<>> /\ es' = es /\ Heard(m, c)
    <2>1. c = Selected(ec, m, "ech accept confirmation")  BY <1>4, Zenon
    <2>2. toEc' = Tail(toEc) /\ toEs' = toEs /\ es' = es /\ Heard(m, c)
      BY <1>3, <2>1, HelloStepIs, Zenon
    <2> QED BY <1>2, <1>3, <2>2
  <1>7. CASE c.phase # "hello"
    <2>1. /\ ec.ech.aead # Nil /\ m.confirm # Confirmation(lb, ec.inner)
          /\ m.confirm # NoConfirmation /\ ec.ech.state = "accepted"
      BY <1>2, <1>5, <1>7 DEF Decided
    <2>2. c = [ec EXCEPT !.phase = "illegal_parameter"]
      BY <1>4, <2>1 DEF Selected, SelectHello, EchFail
    <2>3. c.phase = "illegal_parameter" /\ c.ech = ec.ech  BY <2>2 DEF EchClient
    <2>4. ec' = c  BY <1>6, <1>7 DEF Heard
    <2>5. PeerEnd'  BY <1>6, <2>3, <2>4 DEF PeerEnd
    <2> QED BY <2>3, <2>4, <2>5 DEF PeerInv
  <1>8. CASE c.phase = "hello"
    <2>1. ec'.phase = "ee" /\ ec'.ech.state = c.ech.state /\ ec'.inner = Append(c.inner, m)
      BY <1>6, <1>8 DEF Heard
    <2>2. /\ c.ech.state \in {"offered", "accepted"}
          /\ \/ es.ech.state = "accepted" \/ c.ech.state = "offered" \/ f.over # ec'.inner
      <3>1. CASE ec.ech.aead = Nil
        <4>1. c = ec  BY <1>5, <3>1 DEF Decided
        <4>2. ASSUME es.ech.state # "accepted", c.ech.state = "accepted" PROVE f.over # ec'.inner
          <5>1. Misled  BY <3>1, <4>1, <4>2 DEF Misled
          <5>2. PICK i, o, r, h : /\ i # o /\ ec.inner \in {<<r, h>>, <<i, r, h>>}
                                  /\ f.over = <<o, r, h, m>>
            BY <1>1, <4>2, <5>1 DEF Answering
          <5>3. CASE ec.inner = <<r, h>>
            <6>1. Append(<<r, h>>, m) = <<r, h, m>>  BY Lists3
            <6>2. ec'.inner = <<r, h, m>>  BY <2>1, <4>1, <5>3, <6>1
            <6> QED BY <5>2, <6>2, ListsDiffer
          <5>4. CASE ec.inner = <<i, r, h>>
            <6>1. Append(ec.inner, m) = <<i, r, h, m>>  BY <5>4, AppendThree
            <6>2. ec'.inner = <<i, r, h, m>>  BY <2>1, <4>1, <6>1
            <6> QED BY <5>2, <6>2, ListsDiffer
          <5> QED BY <5>2, <5>3, <5>4
        <4> QED BY <4>1, <4>2
      <3>2. CASE ec.ech.aead # Nil /\ m.confirm = Confirmation(lb, ec.inner)
        <4>1. c.ech.state = "accepted"  BY <1>5, <3>2 DEF Decided
        <4>2. m.confirm # RandomBytes  BY <1>4, <3>2, ConfirmationIs
        <4>3. es.ech.state = "accepted"  BY <1>1, <4>2 DEF Answering
        <4> QED BY <4>1, <4>3
      <3>3. CASE ec.ech.aead # Nil /\ m.confirm # Confirmation(lb, ec.inner)
        <4>1. CASE m.confirm = NoConfirmation /\ ec.ech.state = "accepted"
          <5>1. m.confirm # RandomBytes  BY <4>1, ConfirmationIs
          <5>2. es.ech.state = "accepted"  BY <1>1, <5>1 DEF Answering
          <5>3. c.ech.state = ec.ech.state  BY <1>5, <3>3, <4>1 DEF Decided
          <5> QED BY <4>1, <5>2, <5>3
        <4>2. CASE m.confirm # NoConfirmation /\ ec.ech.state = "accepted"
          BY <1>5, <1>8, <3>3, <4>2 DEF Decided
        <4>3. CASE ec.ech.state = "offered"
          <5>1. c.ech.state = ec.ech.state  BY <1>5, <3>3, <4>3 DEF Decided
          <5> QED BY <4>3, <5>1
        <4> QED BY <4>1, <4>2, <4>3
      <3> QED BY <3>1, <3>2, <3>3
    <2>3. PeerFlight'
      <3>1. es'.ech.state = "accepted" \/ ec'.ech.state = "offered" \/ f.over # ec'.inner
        BY <1>6, <2>1, <2>2
      <3>2. Ending(e, k, f)'  BY <1>2, <1>6, <2>1, <3>1 DEF Ending
      <3> QED BY <3>2 DEF PeerFlight
    <2> QED BY <2>1, <2>2, <2>3 DEF PeerInv
  <1> QED BY <1>7, <1>8

\* The flight is handled to its end.
LEMMA PeerEnds ==
    ASSUME EchClient(ec), ec.ech.state \in {"offered", "accepted"}, PeerFlight,
           \/ EchHandleEncryptedExtensions \/ EchHandleCertificate \/ EchHandleFinished
    PROVE PeerInv'
  <1>1. PICK e, k, f : Ending(e, k, f)  BY DEF PeerFlight
  <1>2. PICK m : m = Head(toEc)  OBVIOUS
  <1>3. ASSUME NEW p, Moves(p), p = "unsupported_extension"
        PROVE PeerInv'
    BY <1>1, <1>3 DEF Moves, PeerEnd, PeerInv, Ending
  <1>4. CASE EchHandleEncryptedExtensions
    <2>1. ec.phase = "ee"  BY <1>4, Guards
    <2>2. toEc = <<e, k, f>>  BY <1>1, <2>1 DEF Ending
    <2>3. Tail(toEc) = <<k, f>>  BY <2>2
    <2>4. Moves(IF m.retryConfigs /\ ec.ech.state \notin {"offered", "grease"}
                THEN "unsupported_extension" ELSE "cert")
      BY <1>2, <1>4, FlightSteps
    <2>5. Moves("unsupported_extension") \/ Moves("cert")  BY <2>4
    <2>6. ASSUME Moves("cert") PROVE PeerInv'
      <3>1. Ending(e, k, f)'  BY <1>1, <2>3, <2>6 DEF Ending, Moves
      <3> QED BY <2>6, <3>1 DEF PeerFlight, PeerInv, Moves
    <2> QED BY <1>3, <2>5, <2>6
  <1>5. CASE EchHandleCertificate
    <2>1. ec.phase = "cert"  BY <1>5, Guards
    <2>2. toEc = <<k, f>>  BY <1>1, <2>1 DEF Ending
    <2>3. Tail(toEc) = <<f>>  BY <2>2
    <2>4. Moves("fin")  BY <1>2, <1>5, FlightSteps
    <2>5. Ending(e, k, f)'  BY <1>1, <2>3, <2>4 DEF Ending, Moves
    <2> QED BY <2>4, <2>5 DEF PeerFlight, PeerInv, Moves
  <1>6. CASE EchHandleFinished
    <2>1. ec.phase = "fin"  BY <1>6, Guards
    <2>2. toEc = <<f>>  BY <1>1, <2>1 DEF Ending
    <2>3. m = f  BY <1>2, <2>2
    <2>4. Moves(AfterFinished(ec, f))  BY <1>2, <1>6, <2>3, FlightSteps
    <2>5. PICK p : p = AfterFinished(ec, f)  OBVIOUS
    <2>6. /\ p \in {"decrypt_error", "ech_required", "done"}
          /\ p = "done" => f.over = ec.inner /\ ec.ech.state # "offered"
      BY <2>5 DEF AfterFinished
    <2>7. p = "done" => es.ech.state = "accepted" /\ ec.ech.state = "accepted"  BY <1>1, <2>6 DEF Ending
    <2>8. /\ ec'.phase = p /\ ec'.ech = ec.ech /\ toEs' = toEs /\ es' = es  BY <2>4, <2>5 DEF Moves
    <2>9. PeerEnd'  BY <1>1, <2>6, <2>7, <2>8 DEF PeerEnd, Ending
    <2> QED BY <2>8, <2>9 DEF PeerInv
  <1> QED BY <1>4, <1>5, <1>6

\* What is on its way to the client, by the place it is in.
LEMMA PeerPlaces ==
    /\ PeerAsked => toEc = <<>> /\ ec.phase = "hello"
    /\ PeerRetries => toEs = <<>> /\ ec.phase = "hello" /\ Head(toEc).type = "hrr"
    /\ PeerAnswers => toEs = <<>> /\ ec.phase = "hello" /\ Head(toEc).type = "sh"
    /\ PeerFlight => toEs = <<>> /\ ec.phase \in {"ee", "cert", "fin"}
                     /\ Head(toEc).type \in {"ee", "cert", "fin"}
  <1>1. PeerAsked => toEc = <<>> /\ ec.phase = "hello"  BY DEF PeerAsked, Asking
  <1>2. ASSUME PeerRetries PROVE toEs = <<>> /\ ec.phase = "hello" /\ Head(toEc).type = "hrr"
    <2>1. PICK m, o : toEs = <<>> /\ ec.phase = "hello" /\ toEc = <<m>> /\ m.type = "hrr"
      BY <1>2 DEF PeerRetries
    <2>2. Head(toEc) = m  BY <2>1
    <2> QED BY <2>1, <2>2
  <1>3. ASSUME PeerAnswers PROVE toEs = <<>> /\ ec.phase = "hello" /\ Head(toEc).type = "sh"
    <2>1. PICK m, e, k, f : Answering(m, e, k, f)  BY <1>3 DEF PeerAnswers
    <2>2. toEs = <<>> /\ ec.phase = "hello" /\ toEc = <<m, e, k, f>> /\ m.type = "sh"
      BY <2>1 DEF Answering
    <2>3. Head(toEc) = m  BY <2>2
    <2> QED BY <2>2, <2>3
  <1>4. ASSUME PeerFlight
        PROVE toEs = <<>> /\ ec.phase \in {"ee", "cert", "fin"} /\ Head(toEc).type \in {"ee", "cert", "fin"}
    <2>1. PICK e, k, f : Ending(e, k, f)  BY <1>4 DEF PeerFlight
    <2>2. /\ toEs = <<>> /\ ec.phase \in {"ee", "cert", "fin"}
          /\ e.type = "ee" /\ k.type = "cert" /\ f.type = "fin"
          /\ toEc = <<e, k, f>> \/ toEc = <<k, f>> \/ toEc = <<f>>
      BY <2>1 DEF Ending
    <2>3. Head(toEc) \in {e, k, f}
      <3>1. CASE toEc = <<e, k, f>>  BY <3>1
      <3>2. CASE toEc = <<k, f>>  BY <3>2
      <3>3. CASE toEc = <<f>>  BY <3>3
      <3> QED BY <2>2, <3>1, <3>2, <3>3
    <2> QED BY <2>2, <2>3
  <1> QED BY <1>1, <1>2, <1>3, <1>4

\* A client with a real offer and any server: one place to the next.
LEMMA PeerStep ==
    ASSUME sc \in EchScenario, EchRecords, ~sc.library, Offers, PeerInv, EchNext
    PROVE PeerInv'
  <1>1. EchClient(ec) /\ EchServer(es)  BY DEF EchRecords
  <1>2. ~ServerHandleEch  BY Zenon DEF ServerHandleEch
  <1>3. CASE ec.phase = "start" /\ toEs = <<>> /\ toEc = <<>>
    <2>1. EchClientStart  BY <1>2, <1>3, Guards DEF EchNext
    <2> QED BY <1>1, <1>3, <2>1, PeerStarts
  <1>4. CASE ec.ech.state \in {"offered", "accepted"} /\ PeerAsked
    <2>1. \E retry, accept, ext \in BOOLEAN : PeerHandleEch(retry, accept, ext)
      BY <1>2, <1>4, Guards, PeerPlaces DEF EchNext
    <2> QED BY <1>1, <1>4, <2>1, PeerReplies
  <1>5. CASE ec.ech.state \in {"offered", "accepted"} /\ PeerRetries
    <2>1. EchHandleRetry  BY <1>5, Guards, NothingGoes, PeerPlaces
    <2> QED BY <1>1, <1>5, <2>1, PeerRetried
  <1>6. CASE ec.ech.state \in {"offered", "accepted"} /\ PeerAnswers
    <2>1. EchHandleServerHello  BY <1>6, Guards, NothingGoes, PeerPlaces
    <2> QED BY <1>1, <1>6, <2>1, PeerHears
  <1>7. CASE ec.ech.state \in {"offered", "accepted"} /\ PeerFlight
    <2>1. EchHandleEncryptedExtensions \/ EchHandleCertificate \/ EchHandleFinished
      BY <1>7, Guards, NothingGoes, PeerPlaces
    <2> QED BY <1>1, <1>7, <2>1, PeerEnds
  <1>8. CASE ec.ech.state \in {"offered", "accepted"} /\ PeerEnd
    <2>1. EchHandleAlert  BY <1>8, Guards, NothingGoes DEF PeerEnd
    <2>2. PICK m : m = Head(toEc)  OBVIOUS
    <2>3. Moves("peer_alert")  BY <1>1, <2>1, <2>2, FlightSteps
    <2>4. ec'.phase = "peer_alert" /\ ec'.ech = ec.ech /\ toEs' = <<>>  BY <1>8, <2>3 DEF Moves, PeerEnd
    <2>5. PeerEnd'  BY <2>4 DEF PeerEnd
    <2> QED BY <1>8, <2>4, <2>5 DEF PeerInv
  <1> QED BY <1>3, <1>4, <1>5, <1>6, <1>7, <1>8 DEF PeerInv

---------------------------------------------------------------------------
(* Ech: the theorems.                                                      *)

\* The start, and every step.
LEMMA EchStarts == EchInit => EchInv
  <1>1. SUFFICES ASSUME EchInit PROVE EchInv  OBVIOUS
  <1>2. sc \in EchScenario  BY <1>1, EchAssumption DEF EchInit
  <1>3. /\ ec = [phase |-> "start", ech |-> NoEch, inner |-> <<>>, outer |-> <<>>, retryConfigs |-> FALSE]
        /\ es = [phase |-> "first", ech |-> NoEch, name |-> Nil, transcript |-> <<>>, outer |-> <<>>,
                 retries |-> 0]
        /\ toEs = <<>> /\ toEc = <<>>
    BY <1>1 DEF EchInit
  <1>4. EchRecord(NoEch)  BY DEF EchRecord, NoEch
  <1>5. EchRecords  BY <1>3, <1>4 DEF EchRecords, EchClient, EchServer
  <1>6. AtStart  BY <1>3 DEF AtStart, Server0
  <1>7. PeerInv  BY <1>3 DEF PeerInv
  <1> QED BY <1>2, <1>5, <1>6, <1>7 DEF EchInv, LibraryInv

\* Every step keeps the invariant.
LEMMA EchStep == EchInv /\ [EchNext]_evars => EchInv'
  <1>1. SUFFICES ASSUME EchInv, [EchNext]_evars PROVE EchInv'  OBVIOUS
  <1>2. sc \in EchScenario /\ EchRecords  BY <1>1 DEF EchInv
  <1>3. CASE EchNext
    <2>1. sc' = sc  BY <1>3, ScenarioStays
    <2>2. Offers' = Offers  BY <2>1, SameScenario
    <2>3. CASE sc.library
      <3>1. LibraryInv  BY <1>1, <2>3 DEF EchInv
      <3>2. EchRecords' /\ LibraryInv'  BY <1>2, <1>3, <2>3, <3>1, LibraryStep
      <3> QED BY <1>2, <2>1, <2>3, <3>2 DEF EchInv
    <2>4. CASE ~sc.library
      <3>1. EchRecords'  BY <1>2, <1>3, <2>4, PeerRecords
      <3>2. Offers => PeerInv'
        <4>1. Offers => PeerInv  BY <1>1, <2>4 DEF EchInv
        <4> QED BY <1>2, <1>3, <2>4, <4>1, PeerStep
      <3> QED BY <1>2, <2>1, <2>2, <2>4, <3>1, <3>2 DEF EchInv
    <2> QED BY <2>3, <2>4
  <1>4. CASE UNCHANGED evars
    <2>1. /\ sc' = sc /\ ec' = ec /\ es' = es /\ toEs' = toEs /\ toEc' = toEc  BY <1>4 DEF evars
    <2>2. EchRecords'  BY <1>2, <2>1 DEF EchRecords, EchClient, EchServer
    <2>3. LibraryInv => LibraryInv'
      <3>1. /\ Client1' = Client1 /\ Client2' = Client2 /\ Server0' = Server0 /\ Server1' = Server1
            /\ Server2' = Server2 /\ ClientEnd' = ClientEnd
        BY <2>1, SameScenario DEF Client1, Client2, Server0, Server1, Server2, ClientEnd
      <3>2. AtStart' = AtStart  BY <2>1, <3>1 DEF AtStart
      <3>3. AtHello1' = AtHello1  BY <2>1, <3>1, SameScenario DEF AtHello1
      <3>4. AtRetry' = AtRetry  BY <2>1, <3>1, SameScenario DEF AtRetry
      <3>5. AtHello2' = AtHello2  BY <2>1, <3>1, SameScenario DEF AtHello2
      <3>6. AtAnswer' = AtAnswer  BY <2>1, <3>1, SameScenario DEF AtAnswer
      <3>7. AtFlight' = AtFlight  BY <2>1, <3>1, SameScenario DEF AtFlight
      <3>8. AtRefusal' = AtRefusal  BY <2>1, <3>1, SameScenario DEF AtRefusal
      <3>9. AtRefused' = AtRefused  BY <2>1, <3>1, SameScenario DEF AtRefused
      <3> QED BY <3>2, <3>3, <3>4, <3>5, <3>6, <3>7, <3>8, <3>9 DEF LibraryInv
    <2>4. PeerInv => PeerInv'
      <3>1. Believes' = Believes /\ Misled' = Misled  BY <2>1 DEF Believes, Misled
      <3>2. PeerAsked => PeerAsked'
        <4>1. ASSUME NEW h, Asking(h) PROVE Asking(h)'
          <5>1. ec'.phase = "hello" /\ toEs' = <<h>> /\ toEc' = <<>>  BY <2>1, <4>1 DEF Asking
          <5>2. Believes => /\ \E a, b : ec'.outer = <<a>> \/ ec'.outer = <<a, b>>
                            /\ \E a, b : es'.outer = <<a, b>>
            <6>1. SUFFICES ASSUME Believes PROVE /\ \E a, b : ec.outer = <<a>> \/ ec.outer = <<a, b>>
                                                /\ \E a, b : es.outer = <<a, b>>
              BY <2>1
            <6> QED BY <4>1, <6>1 DEF Asking
          <5>3. Misled => \E i, o, r : i # o /\ ec'.inner \in {<<r, h>>, <<i, r, h>>} /\ es'.outer = <<o, r>>
            <6>1. SUFFICES ASSUME Misled
                           PROVE \E i, o, r : i # o /\ ec.inner \in {<<r, h>>, <<i, r, h>>} /\ es.outer = <<o, r>>
              BY <2>1
            <6> QED BY <4>1, <6>1 DEF Asking
          <5> QED BY <3>1, <5>1, <5>2, <5>3 DEF Asking
        <4> QED BY <4>1 DEF PeerAsked
      <3>3. PeerRetries => PeerRetries'  BY <2>1, <3>1 DEF PeerRetries
      <3>4. PeerAnswers => PeerAnswers'
        <4>1. ASSUME NEW m, NEW e, NEW k, NEW f, Answering(m, e, k, f) PROVE Answering(m, e, k, f)'
          <5>1. /\ ec'.phase = "hello" /\ toEs' = <<>> /\ toEc' = <<m, e, k, f>>
                /\ m.type = "sh" /\ e.type = "ee" /\ k.type = "cert" /\ f.type = "fin"
            BY <2>1, <4>1 DEF Answering
          <5>2. CASE es.ech.state = "accepted"
            <6>1. es'.ech.state = "accepted"  BY <2>1, <5>2
            <6> QED BY <5>1, <6>1 DEF Answering
          <5>3. CASE es.ech.state # "accepted"
            <6>1. m.confirm = RandomBytes  BY <4>1, <5>3 DEF Answering
            <6>2. Misled => \E i, o, r, h : /\ i # o /\ ec.inner \in {<<r, h>>, <<i, r, h>>}
                                           /\ f.over = <<o, r, h, m>>
              BY <4>1, <5>3 DEF Answering
            <6>3. Misled' => \E i, o, r, h : /\ i # o /\ ec'.inner \in {<<r, h>>, <<i, r, h>>}
                                            /\ f.over = <<o, r, h, m>>
              <7>1. PICK v : v = ec.inner  OBVIOUS
              <7>2. ec'.inner = v  BY <2>1, <7>1
              <7> QED BY <3>1, <6>2, <7>1, <7>2
            <6> QED BY <5>1, <6>1, <6>3 DEF Answering
          <5> QED BY <5>2, <5>3
        <4> QED BY <4>1 DEF PeerAnswers
      <3>5. PeerFlight => PeerFlight'
        <4>1. ASSUME NEW e, NEW k, NEW f, Ending(e, k, f) PROVE Ending(e, k, f)'
          BY <2>1, <4>1 DEF Ending
        <4> QED BY <4>1 DEF PeerFlight
      <3>6. PeerEnd => PeerEnd'  BY <2>1 DEF PeerEnd
      <3> QED BY <2>1, <3>2, <3>3, <3>4, <3>5, <3>6 DEF PeerInv
    <2>5. Offers' = Offers  BY <2>1, SameScenario
    <2> QED BY <1>1, <2>1, <2>2, <2>3, <2>4, <2>5 DEF EchInv
  <1> QED BY <1>1, <1>3, <1>4

\* The invariant holds throughout.
LEMMA EchInductive == EchSpec => []EchInv
  BY EchStarts, EchStep, PTL DEF EchSpec

\* How two ends of this library end: in agreement, with the flight handled.
LEMMA LibraryEnds ==
    ASSUME sc \in EchScenario, LibraryInv, ec.phase \in {"done", "ech_required"}
    PROVE /\ ec.inner = es.transcript
          /\ ec.ech.state = "accepted" <=> Opened
          /\ es.ech.state = "accepted" <=> Opened
          /\ ec.phase = "done" /\ RealOffer => Opened
  <1>1. AtFlight
    BY DEF LibraryInv, AtStart, AtHello1, AtRetry, AtHello2, AtAnswer, AtRefusal, AtRefused, Client1, Client2
  <1>2. ec.inner = Answered /\ es.transcript = Answered /\ ec.ech.state = Ech2.state /\ es.ech.state = ServerState
    BY <1>1 DEF AtFlight, ClientEnd, Server2
  <1>3. Ech2.state = IF Opened THEN "accepted" ELSE IF RealOffer THEN "offered" ELSE OfferedEch.state
    BY Ech12
  <1>4. OfferedEch.state \in {"none", "grease"}  BY OfferedIs
  <1>5. ServerState = "accepted" <=> Opened  BY ServerEch1Is
  <1>6. ec.phase = "done" => Ech2.state # "offered"  BY <1>1 DEF AtFlight
  <1> QED BY <1>2, <1>3, <1>4, <1>5, <1>6

\* Acceptance of ECH is sound (client_handle_hello, server_handle_hello,
\* client_ech_select_hello): with this library's server both ends of every
\* scenario agree on acceptance and on the transcript, and with any server, a
\* real offer completes only if the inner hello was the one answered.
THEOREM EchIsSound == EchSpec => []EchSound
  <1>1. ASSUME EchInv PROVE EchSound
    <2>1. sc \in EchScenario /\ (sc.library => LibraryInv) /\ (~sc.library /\ Offers => PeerInv)
      BY <1>1 DEF EchInv
    <2>2. EchAgreement  BY <2>1, LibraryEnds DEF EchAgreement
    <2>3. OnlyInnerCompletes
      <3>1. SUFFICES ASSUME ec.phase = "done", Offers
                     PROVE ec.ech.state = "accepted" /\ es.ech.state = "accepted"
        BY DEF OnlyInnerCompletes, Offers
      <3>2. CASE sc.library
        <4>1. RealOffer  BY <2>1, <3>1, OfferedIs
        <4> QED BY <2>1, <3>1, <3>2, <4>1, LibraryEnds
      <3>3. CASE ~sc.library
        <4>1. PeerInv  BY <2>1, <3>1, <3>3
        <4>2. ~PeerAsked /\ ~PeerRetries /\ ~PeerAnswers /\ ~PeerFlight  BY <3>1, PeerPlaces
        <4>3. PeerEnd  BY <3>1, <4>1, <4>2 DEF PeerInv
        <4> QED BY <3>1, <4>3 DEF PeerEnd
      <3> QED BY <3>2, <3>3
    <2> QED BY <2>2, <2>3 DEF EchSound
  <1> QED BY <1>1, EchInductive, PTL

\* ECH is never a reason to fail: two ends of this library, whatever either
\* knows of the other's configuration and whether there is a retry or not, end
\* in success or in ech_required, but for the name a server saved from a
\* rejected hello (server_handle_hello).
THEOREM EchAlwaysSucceeds == EchSpec => []EchSucceeds
  <1>1. ASSUME EchInv PROVE EchSucceeds
    <2>1. SUFFICES ASSUME sc.library, ~(sc.retry /\ sc.savesName /\ ec.ech.state = "offered")
                   PROVE ec.phase \in {"start", "hello", "ee", "cert", "fin", "done", "ech_required"}
      BY DEF EchSucceeds
    <2>2. sc \in EchScenario /\ LibraryInv  BY <1>1, <2>1 DEF EchInv
    <2>3. ~AtRefused
      <3>1. SUFFICES ASSUME AtRefused PROVE FALSE  OBVIOUS
      <3>2. sc.retry /\ sc.savesName /\ RealOffer /\ ~Opened /\ ec.ech.state = Ech2.state
        BY <3>1 DEF AtRefused, NameRefused
      <3>3. Ech2.state = "offered"  BY <2>2, <3>2, Ech12
      <3> QED BY <2>1, <3>2, <3>3
    <2> QED BY <2>2, <2>3 DEF LibraryInv, AtStart, AtHello1, AtRetry, AtHello2, AtAnswer, AtFlight,
                              AtRefusal, Client1, Client2
  <1> QED BY <1>1, EchInductive, PTL

---------------------------------------------------------------------------
(* Hello: recursion and lists.                                             *)

\* Induction over the natural numbers, for a set of numbers.
LEMMA UpFromZero ==
    ASSUME NEW S, 0 \in S, \A k \in Nat : k \in S => k + 1 \in S
    PROVE Nat \subseteq S
  <1>1. PICK T : T = Nat \ S  OBVIOUS
  <1>2. SUFFICES ASSUME T # {} PROVE FALSE  BY <1>1
  <1>3. T \in SUBSET Nat  BY <1>1
  <1>4. PICK m \in T : \A j \in T : m <= j  BY <1>2, <1>3, LeastExists
  <1>5. m \in Nat /\ m \notin S /\ m # 0  BY <1>1, <1>4
  <1>6. m - 1 \in Nat /\ (m - 1) + 1 = m /\ ~(m <= m - 1)  BY <1>5
  <1>7. m - 1 \in S  BY <1>1, <1>4, <1>6
  <1> QED BY <1>5, <1>6, <1>7

\* A function that is given by its first value and by a step from each value to
\* the next.
Follows(f, D, N, b, G) ==
    f \in [0 .. N -> D] /\ f[0] = b /\ \A n \in 1 .. N : f[n] = G[f[n - 1], n]
StepIn(G, D, N) == G \in [D \X (1 .. N) -> D]

\* It exists.
LEMMA StepsExist ==
    ASSUME NEW D, NEW N \in Nat, NEW b \in D, NEW G, StepIn(G, D, N)
    PROVE \E f : Follows(f, D, N, b, G)
  <1> DEFINE Q(k) == \E f \in [0 .. k -> D] : f[0] = b /\ \A n \in 1 .. k : f[n] = G[f[n - 1], n]
             S == {k \in Nat : k <= N => Q(k)}
  <1> HIDE DEF Q
  <1>0. \A k : k \in S <=> k \in Nat /\ (k <= N => Q(k))  OBVIOUS
  <1> HIDE DEF S
  <1>1. 0 \in S
    <2>1. PICK f : f = [n \in 0 .. 0 |-> b]  OBVIOUS
    <2>2. f \in [0 .. 0 -> D] /\ f[0] = b /\ \A n \in 1 .. 0 : f[n] = G[f[n - 1], n]  BY <2>1
    <2> QED BY <1>0, <2>2 DEF Q
  <1>2. ASSUME NEW k \in Nat, k \in S PROVE k + 1 \in S
    <2>1. SUFFICES ASSUME k + 1 <= N PROVE Q(k + 1)  BY <1>0
    <2>2. Q(k)  BY <1>0, <1>2, <2>1
    <2>3. PICK f \in [0 .. k -> D] : f[0] = b /\ \A n \in 1 .. k : f[n] = G[f[n - 1], n]
      BY <2>2 DEF Q
    <2>4. PICK x : x = G[f[k], k + 1]  OBVIOUS
    <2>5. k \in 0 .. k /\ k + 1 \in 1 .. N  BY <2>1
    <2>6. x \in D
      <3>1. <<f[k], k + 1>> \in D \X (1 .. N)  BY <2>3, <2>5
      <3> QED BY <2>4, <3>1 DEF StepIn
    <2>7. PICK g : g = [n \in 0 .. k + 1 |-> IF n = k + 1 THEN x ELSE f[n]]  OBVIOUS
    <2>8. g[k + 1] = x /\ \A n \in 0 .. k : g[n] = f[n]  BY <2>7
    <2>9. g \in [0 .. k + 1 -> D]
      <3>1. ASSUME NEW n \in 0 .. k + 1 PROVE g[n] \in D
        <4>1. n = k + 1 \/ n \in 0 .. k  OBVIOUS
        <4> QED BY <2>3, <2>6, <2>8, <4>1
      <3> QED BY <2>7, <3>1
    <2>10. ASSUME NEW n \in 1 .. k + 1 PROVE g[n] = G[g[n - 1], n]
      <3>1. CASE n = k + 1
        <4>1. n - 1 = k  BY <3>1
        <4> QED BY <2>4, <2>5, <2>8, <3>1, <4>1
      <3>2. CASE n # k + 1
        <4>1. n \in 1 .. k /\ n \in 0 .. k /\ n - 1 \in 0 .. k  BY <3>2
        <4> QED BY <2>3, <2>8, <4>1
      <3> QED BY <3>1, <3>2
    <2>11. g[0] = b
      <3>1. 0 \in 0 .. k  OBVIOUS
      <3> QED BY <2>3, <2>8, <3>1
    <2> QED BY <2>9, <2>10, <2>11 DEF Q
  <1>3. N \in S  BY <1>1, <1>2, UpFromZero
  <1>4. Q(N)  BY <1>0, <1>3
  <1> QED BY <1>4 DEF Q, Follows

\* The words of hellos: those of the code, and those of the contexts.
ClientWords(c) ==
    ToSet(c.suites) \cup ToSet(c.algos) \cup ToSet(c.groups) \cup ToSet(c.alpn) \cup ToSet(c.extra)
ServerWords(s) == ToSet(s.suites) \cup ToSet(s.groups)
ExtensionWords(e) == {e.type} \cup ToSet(e.list) \cup ToSet(e.aux)
WordsOfClients == UNION {ClientWords(c) : c \in ClientContexts}
WordsOfServers == UNION {ServerWords(s) : s \in ServerContexts}
WordsOfOthers == UNION {ExtensionWords(e) : e \in OtherExtensions}
Words ==
    KnownExtensions
    \cup {"tickets", "", "data", "rsa_pss", "ecdsa", "psk", "psk_dhe", "outer", "inner", "payload", "name",
          "br", "tls13", "cookie", "raw", "2", "1", "binder0", "random", "id0", "ext", "chacha", "aes", "g1", "h2"}
    \cup WordsOfClients \cup WordsOfServers \cup WordsOfOthers

\* A list is one of words if they are.
LEMMA WordList ==
    ASSUME NEW s, IsList(s), ToSet(s) \subseteq Words
    PROVE s \in Seq(Words)
  BY SeqMonotonic DEF IsList

\* So the lists of the contexts are.
LEMMA ContextWords ==
    /\ \A c \in ClientContexts :
          /\ c.suites \in Seq(Words) /\ c.algos \in Seq(Words) /\ c.groups \in Seq(Words)
          /\ c.alpn \in Seq(Words) /\ c.extra \in Seq(Words)
    /\ \A s \in ServerContexts : s.suites \in Seq(Words) /\ s.groups \in Seq(Words)
    /\ \A e \in OtherExtensions : e.type \in Words /\ e.list \in Seq(Words) /\ e.aux \in Seq(Words)
  <1>1. ASSUME NEW c \in ClientContexts
        PROVE /\ c.suites \in Seq(Words) /\ c.algos \in Seq(Words) /\ c.groups \in Seq(Words)
              /\ c.alpn \in Seq(Words) /\ c.extra \in Seq(Words)
    <2>1. /\ IsList(c.suites) /\ IsList(c.algos) /\ IsList(c.groups) /\ IsList(c.alpn) /\ IsList(c.extra)
      BY HelloAssumption
    <2>2. /\ ToSet(c.suites) \subseteq Words /\ ToSet(c.algos) \subseteq Words /\ ToSet(c.groups) \subseteq Words
          /\ ToSet(c.alpn) \subseteq Words /\ ToSet(c.extra) \subseteq Words
      <3>1. ClientWords(c) \subseteq WordsOfClients  BY DEF WordsOfClients
      <3>2. WordsOfClients \subseteq Words  BY DEF Words
      <3> QED BY <3>1, <3>2 DEF ClientWords
    <2> QED BY <2>1, <2>2, WordList
  <1>2. ASSUME NEW s \in ServerContexts PROVE s.suites \in Seq(Words) /\ s.groups \in Seq(Words)
    <2>1. IsList(s.suites) /\ IsList(s.groups)  BY HelloAssumption
    <2>2. ToSet(s.suites) \subseteq Words /\ ToSet(s.groups) \subseteq Words
      <3>1. ServerWords(s) \subseteq WordsOfServers  BY DEF WordsOfServers
      <3>2. WordsOfServers \subseteq Words  BY DEF Words
      <3> QED BY <3>1, <3>2 DEF ServerWords
    <2> QED BY <2>1, <2>2, WordList
  <1>3. ASSUME NEW e \in OtherExtensions
        PROVE e.type \in Words /\ e.list \in Seq(Words) /\ e.aux \in Seq(Words)
    <2>1. IsList(e.list) /\ IsList(e.aux)  BY HelloAssumption
    <2>2. e.type \in Words /\ ToSet(e.list) \subseteq Words /\ ToSet(e.aux) \subseteq Words
      <3>1. ExtensionWords(e) \subseteq WordsOfOthers  BY DEF WordsOfOthers
      <3>2. WordsOfOthers \subseteq Words  BY DEF Words
      <3> QED BY <3>1, <3>2 DEF ExtensionWords
    <2> QED BY <2>1, <2>2, WordList
  <1> QED BY <1>1, <1>2, <1>3

\* Words of the code.
LEMMA CodeWords ==
    /\ KnownExtensions \subseteq Words
    /\ {"tickets", "", "data", "rsa_pss", "ecdsa", "psk", "psk_dhe", "outer", "inner", "payload", "name",
        "br", "tls13", "cookie", "raw", "2", "1", "binder0", "random", "id0", "ext", "chacha", "aes", "g1", "h2"} \subseteq Words
  BY DEF Words

---------------------------------------------------------------------------
(* Hello: select_cipher.                                                   *)

\* The state of its loop after each entry of the client's list.
SelectLoop(candidates, ids, preference, chacha, hash) ==
    CHOOSE f : f = [n \in 0 .. Len(ids) |->
        IF n = 0 THEN [found |-> 0, done |-> FALSE, chacha |-> chacha]
        ELSE SelectOne(candidates, preference, hash, f[n - 1], ids[n])]

\* The places of a suite among the candidates, and the least.
Places(candidates, hash, id) ==
    {i \in DOMAIN candidates : candidates[i] = id /\ (hash = {} \/ id \in hash)}
Least(S) == CHOOSE k \in S : \A j \in S : k <= j

LEMMA LeastIs ==
    ASSUME NEW S \in SUBSET Nat, S # {}
    PROVE Least(S) \in S /\ \A j \in S : Least(S) <= j
  BY LeastExists DEF Least

\* The least of a set is what has to be shown least.
LEMMA LeastOf ==
    ASSUME NEW S \in SUBSET Nat, NEW m \in S, \A j \in S : m <= j
    PROVE Least(S) = m
  <1>1. PICK l : l = Least(S)  OBVIOUS
  <1>2. l \in S /\ \A j \in S : l <= j  BY <1>1, LeastIs
  <1>3. l <= m /\ m <= l /\ l \in Nat /\ m \in Nat  BY <1>2
  <1> QED BY <1>1, <1>3

\* The loop follows its body.
LEMMA SelectLoopIs ==
    ASSUME NEW candidates \in Seq(Words), NEW ids \in Seq(Words), NEW preference, NEW chacha, NEW hash,
           NEW f, f = SelectLoop(candidates, ids, preference, chacha, hash)
    PROVE /\ f[0] = [found |-> 0, done |-> FALSE, chacha |-> chacha]
          /\ \A n \in 1 .. Len(ids) :
                f[n] = SelectOne(candidates, preference, hash, f[n - 1], ids[n])
  <1> DEFINE B == [found |-> 0, done |-> FALSE, chacha |-> chacha]
             D == [found : Nat, done : BOOLEAN, chacha : {chacha, FALSE}]
             T(d, n) == SelectOne(candidates, preference, hash, d, ids[n])
             F(g) == [n \in 0 .. Len(ids) |-> IF n = 0 THEN B ELSE T(g[n - 1], n)]
  <1>1. Len(ids) \in Nat  BY LenProperties
  <1>2. B \in D  OBVIOUS
  <1>3. ASSUME NEW d \in D, NEW n \in 1 .. Len(ids) PROVE T(d, n) \in D
    <2>1. PICK at : at = {i \in DOMAIN candidates : candidates[i] = ids[n] /\ (hash = {} \/ ids[n] \in hash)}
      OBVIOUS
    <2>2. PICK i : i = CHOOSE k \in at : \A j \in at : k <= j  OBVIOUS
    <2>3. T(d, n) = IF d.done THEN d
                    ELSE IF at = {} THEN [d EXCEPT !.chacha = FALSE]
                    ELSE IF preference /\ ~(d.chacha /\ ids[n] = Chacha)
                         THEN LET g == IF d.found = 0 \/ i < d.found THEN i ELSE d.found
                              IN [d EXCEPT !.found = g, !.done = g = 1, !.chacha = FALSE]
                         ELSE [found |-> i, done |-> TRUE, chacha |-> FALSE]
      BY <2>1, <2>2 DEF SelectOne
    <2>4. at \in SUBSET Nat  BY <2>1, LenProperties
    <2>5. at # {} => i \in Nat
      <3>1. at # {} => Least(at) \in at  BY <2>4, LeastIs
      <3> QED BY <2>2, <2>4, <3>1 DEF Least
    <2> HIDE DEF T
    <2>7. CASE d.done  BY <2>3, <2>7
    <2>8. CASE ~d.done /\ at = {}  BY <2>3, <2>8
    <2>9. CASE ~d.done /\ at # {} /\ preference /\ ~(d.chacha /\ ids[n] = Chacha)
      <3>1. PICK g : g = IF d.found = 0 \/ i < d.found THEN i ELSE d.found  OBVIOUS
      <3>2. T(d, n) = [d EXCEPT !.found = g, !.done = (g = 1), !.chacha = FALSE]  BY <2>3, <2>9, <3>1
      <3>3. g \in Nat  BY <2>5, <2>9, <3>1
      <3> QED BY <3>2, <3>3
    <2>10. CASE ~d.done /\ at # {} /\ ~(preference /\ ~(d.chacha /\ ids[n] = Chacha))
      <3>1. T(d, n) = [found |-> i, done |-> TRUE, chacha |-> FALSE]  BY <2>3, <2>10
      <3> QED BY <2>5, <2>10, <3>1
    <2> QED BY <2>7, <2>8, <2>9, <2>10
  <1>4. \E g : g = F(g)
    <2>1. PICK G : G = [p \in D \X (1 .. Len(ids)) |-> T(p[1], p[2])]  OBVIOUS
    <2> HIDE DEF T, D, B
    <2>2. G \in [D \X (1 .. Len(ids)) -> D]  BY <1>3, <2>1
    <2>3. PICK g \in [0 .. Len(ids) -> D] : g[0] = B /\ \A n \in 1 .. Len(ids) : g[n] = G[g[n - 1], n]
      <3>1. PICK N : N = Len(ids)  OBVIOUS
      <3>2. N \in Nat /\ StepIn(G, D, N)  BY <1>1, <2>2, <3>1 DEF StepIn
      <3>3. \E g : Follows(g, D, N, B, G)  BY <1>2, <3>2, StepsExist
      <3> QED BY <3>1, <3>3 DEF Follows
    <2>4. ASSUME NEW n \in 1 .. Len(ids) PROVE g[n] = T(g[n - 1], n)
      <3>1. n - 1 \in 0 .. Len(ids)  BY <1>1
      <3>2. <<g[n - 1], n>> \in D \X (1 .. Len(ids))  BY <2>3, <3>1
      <3> QED BY <2>1, <2>3, <3>2
    <2>5. ASSUME NEW n \in 0 .. Len(ids) PROVE g[n] = IF n = 0 THEN B ELSE T(g[n - 1], n)
      <3>1. n = 0 \/ n \in 1 .. Len(ids)  BY <1>1
      <3> QED BY <2>3, <2>4, <3>1
    <2>6. g = F(g)  BY <2>3, <2>5
    <2> QED BY <2>6
  <1>5. SelectLoop(candidates, ids, preference, chacha, hash) = CHOOSE g : g = F(g)
    BY DEF SelectLoop
  <1> HIDE DEF T, B
  <1>7. f = F(f)
    <2> HIDE DEF F
    <2> QED BY <1>4, <1>5
  <1>8. f[0] = B  BY <1>1, <1>7
  <1>9. ASSUME NEW n \in 1 .. Len(ids) PROVE f[n] = T(f[n - 1], n)
    <2>1. n \in 0 .. Len(ids) /\ n # 0  BY <1>1
    <2> QED BY <1>7, <2>1
  <1> QED BY <1>8, <1>9 DEF T, B

\* The places of each entry of the client's list.
PlacesOf(candidates, hash, ids) == [m \in 1 .. Len(ids) |-> Places(candidates, hash, ids[m])]

\* What the loop has found after n entries, when the client's order counts.
ClientsChoice(pl, n, st) ==
    /\ (\A m \in 1 .. n : pl[m] = {}) => st.found = 0 /\ st.done = FALSE
    /\ \A m \in 1 .. n :
          pl[m] # {} /\ (\A k \in 1 .. m - 1 : pl[k] = {}) => st.found = Least(pl[m]) /\ st.done = TRUE

\* When the server's does.
ServersChoice(pl, n, st) ==
    \/ (\A m \in 1 .. n : pl[m] = {}) /\ st.found = 0 /\ st.done = FALSE
    \/ /\ st.done = (st.found = 1)
       /\ \E m \in 1 .. n : pl[m] # {} /\ st.found = Least(pl[m])
       /\ \A m \in 1 .. n : pl[m] # {} => st.found <= Least(pl[m])

\* ChaCha20 comes first and has priority.
ChachaFirst(pl, ids, chacha) == chacha /\ Len(ids) >= 1 /\ ids[1] = Chacha /\ pl[1] # {}

\* One entry, in terms of its places P.
EntryDone(preference, P, st, id, t) ==
    /\ st.done => t = st
    /\ ~st.done /\ P = {} => t = [st EXCEPT !.chacha = FALSE]
    /\ ~st.done /\ P # {} /\ preference /\ ~(st.chacha /\ id = Chacha) =>
          \E g : /\ g = IF st.found = 0 \/ Least(P) < st.found THEN Least(P) ELSE st.found
                 /\ t = [st EXCEPT !.found = g, !.done = (g = 1), !.chacha = FALSE]
    /\ ~st.done /\ P # {} /\ ~(preference /\ ~(st.chacha /\ id = Chacha)) =>
          t = [found |-> Least(P), done |-> TRUE, chacha |-> FALSE]

\* This is what the body of the loop does.
LEMMA SelectOneIs ==
    ASSUME NEW candidates, NEW preference, NEW hash, NEW st, NEW id, NEW P, P = Places(candidates, hash, id)
    PROVE EntryDone(preference, P, st, id, SelectOne(candidates, preference, hash, st, id))
  <1>1. SelectOne(candidates, preference, hash, st, id) =
            IF st.done THEN st
            ELSE IF P = {} THEN [st EXCEPT !.chacha = FALSE]
            ELSE IF preference /\ ~(st.chacha /\ id = Chacha)
                 THEN LET g == IF st.found = 0 \/ Least(P) < st.found THEN Least(P) ELSE st.found
                      IN [st EXCEPT !.found = g, !.done = g = 1, !.chacha = FALSE]
                 ELSE [found |-> Least(P), done |-> TRUE, chacha |-> FALSE]
    BY DEF SelectOne, Places, Least
  <1> QED BY <1>1 DEF EntryDone

\* Places are positive numbers.
LEMMA PlacesAre ==
    ASSUME NEW candidates \in Seq(Words), NEW ids \in Seq(Words), NEW hash, NEW pl,
           pl = PlacesOf(candidates, hash, ids)
    PROVE /\ pl \in [1 .. Len(ids) -> SUBSET (Nat \ {0})]
          /\ \A m \in 1 .. Len(ids) : pl[m] = Places(candidates, hash, ids[m])
          /\ \A m \in 1 .. Len(ids) : pl[m] # {} => Least(pl[m]) \in Nat \ {0}
  <1>1. \A m \in 1 .. Len(ids) : pl[m] = Places(candidates, hash, ids[m])  BY DEF PlacesOf
  <1>2. ASSUME NEW id PROVE Places(candidates, hash, id) \subseteq Nat \ {0}
    <2>1. DOMAIN candidates \subseteq Nat \ {0}  BY LenProperties
    <2> QED BY <2>1 DEF Places
  <1>3. pl \in [1 .. Len(ids) -> SUBSET (Nat \ {0})]  BY <1>2 DEF PlacesOf
  <1>4. ASSUME NEW m \in 1 .. Len(ids), pl[m] # {} PROVE Least(pl[m]) \in Nat \ {0}
    <2>1. pl[m] \in SUBSET (Nat \ {0}) /\ pl[m] \in SUBSET Nat  BY <1>3
    <2>2. Least(pl[m]) \in pl[m]  BY <1>4, <2>1, LeastIs
    <2> QED BY <2>1, <2>2
  <1> QED BY <1>1, <1>3, <1>4

\* The first of several places, none of them earlier.
LEMMA FirstOf ==
    ASSUME NEW n \in Nat, NEW pl, \E m \in 1 .. n : pl[m] # {}
    PROVE \E m \in 1 .. n : pl[m] # {} /\ \A k \in 1 .. m - 1 : pl[k] = {}
  <1>1. PICK M : M = {m \in 1 .. n : pl[m] # {}}  OBVIOUS
  <1>2. M \in SUBSET Nat /\ M # {}  BY <1>1
  <1>3. PICK m \in M : \A j \in M : m <= j  BY <1>2, LeastExists
  <1>4. m \in 1 .. n /\ pl[m] # {}  BY <1>1, <1>3
  <1>5. ASSUME NEW k \in 1 .. m - 1 PROVE pl[k] = {}
    <2>1. k \in 1 .. n /\ ~(m <= k)  BY <1>4
    <2> QED BY <1>1, <1>3, <2>1
  <1> QED BY <1>4, <1>5

\* One entry more, when the client's order counts.
LEMMA ClientsStep ==
    ASSUME NEW pl, NEW n \in Nat, NEW st, NEW t, ClientsChoice(pl, n, st), st.done \in BOOLEAN,
           st.done => t = st,
           ~st.done /\ pl[n + 1] = {} => t.found = st.found /\ t.done = st.done,
           ~st.done /\ pl[n + 1] # {} /\ (\A m \in 1 .. n : pl[m] = {}) =>
               t.found = Least(pl[n + 1]) /\ t.done = TRUE
    PROVE ClientsChoice(pl, n + 1, t)
  <1>1. \A m : m \in 1 .. n + 1 <=> m \in 1 .. n \/ m = n + 1  OBVIOUS
  <1>2. 1 .. (n + 1) - 1 = 1 .. n  OBVIOUS
  <1>3. CASE st.done
    <2>1. PICK m \in 1 .. n : pl[m] # {}  BY <1>3 DEF ClientsChoice
    <2>2. t = st  BY <1>3
    <2> QED BY <1>1, <1>2, <2>1, <2>2 DEF ClientsChoice
  <1>4. CASE ~st.done
    <2>1. \A m \in 1 .. n : pl[m] = {}
      <3>1. SUFFICES ASSUME \E m \in 1 .. n : pl[m] # {} PROVE FALSE  OBVIOUS
      <3>2. PICK m \in 1 .. n : pl[m] # {} /\ \A k \in 1 .. m - 1 : pl[k] = {}  BY <3>1, FirstOf
      <3> QED BY <1>4, <3>2 DEF ClientsChoice
    <2>2. st.found = 0 /\ st.done = FALSE  BY <2>1 DEF ClientsChoice
    <2>3. CASE pl[n + 1] = {}
      <3>1. t.found = 0 /\ t.done = FALSE  BY <1>4, <2>2, <2>3
      <3> QED BY <1>1, <2>1, <2>3, <3>1 DEF ClientsChoice
    <2>4. CASE pl[n + 1] # {}
      <3>1. t.found = Least(pl[n + 1]) /\ t.done = TRUE  BY <1>4, <2>1, <2>4
      <3> QED BY <1>1, <2>1, <2>4, <3>1 DEF ClientsChoice
    <2> QED BY <2>3, <2>4
  <1> QED BY <1>3, <1>4

\* One entry more, when the server's does.
LEMMA ServersStep ==
    ASSUME NEW pl, NEW n \in Nat, NEW st, NEW t, ServersChoice(pl, n, st), st.done \in BOOLEAN,
           \A m \in 1 .. n + 1 : pl[m] # {} => Least(pl[m]) \in Nat \ {0},
           st.done => t = st,
           ~st.done /\ pl[n + 1] = {} => t.found = st.found /\ t.done = st.done,
           ~st.done /\ pl[n + 1] # {} =>
               /\ t.found = IF st.found = 0 \/ Least(pl[n + 1]) < st.found THEN Least(pl[n + 1]) ELSE st.found
               /\ t.done = (t.found = 1)
    PROVE ServersChoice(pl, n + 1, t)
  <1>1. \A m : m \in 1 .. n + 1 <=> m \in 1 .. n \/ m = n + 1  OBVIOUS
  <1>2. PICK l : l = Least(pl[n + 1])  OBVIOUS
  <1>3. pl[n + 1] # {} => l \in Nat \ {0}  BY <1>1, <1>2
  <1>4. CASE (\A m \in 1 .. n : pl[m] = {}) /\ st.found = 0 /\ st.done = FALSE
    <2>1. CASE pl[n + 1] = {}
      <3>1. t.found = 0 /\ t.done = FALSE  BY <1>4, <2>1
      <3> QED BY <1>1, <1>4, <2>1, <3>1 DEF ServersChoice
    <2>2. CASE pl[n + 1] # {}
      <3>1. t.found = l /\ t.done = (t.found = 1)  BY <1>2, <1>4, <2>2
      <3>2. l <= l  BY <1>3, <2>2
      <3>3. \A m \in 1 .. n + 1 : pl[m] # {} => m = n + 1  BY <1>1, <1>4
      <3> QED BY <1>1, <1>2, <2>2, <3>1, <3>2, <3>3 DEF ServersChoice
    <2> QED BY <2>1, <2>2
  <1>5. CASE ~((\A m \in 1 .. n : pl[m] = {}) /\ st.found = 0 /\ st.done = FALSE)
    <2>1. /\ st.done = (st.found = 1)
          /\ \E m \in 1 .. n : pl[m] # {} /\ st.found = Least(pl[m])
          /\ \A m \in 1 .. n : pl[m] # {} => st.found <= Least(pl[m])
      BY <1>5 DEF ServersChoice
    <2>2. PICK a \in 1 .. n : pl[a] # {} /\ st.found = Least(pl[a])  BY <2>1
    <2>3. a \in 1 .. n + 1 /\ st.found \in Nat \ {0}  BY <1>1, <2>2
    <2>4. CASE st.done
      <3>1. t = st /\ st.found = 1  BY <2>1, <2>4
      <3>2. pl[n + 1] # {} => 1 <= l  BY <1>3
      <3>3. \A m \in 1 .. n + 1 : pl[m] # {} => st.found <= Least(pl[m])  BY <1>1, <1>2, <2>1, <3>1, <3>2
      <3> QED BY <2>1, <2>2, <2>3, <3>1, <3>3 DEF ServersChoice
    <2>5. CASE ~st.done /\ pl[n + 1] = {}
      <3>1. t.found = st.found /\ t.done = st.done  BY <2>5
      <3> QED BY <1>1, <2>1, <2>2, <2>3, <2>5, <3>1 DEF ServersChoice
    <2>6. CASE ~st.done /\ pl[n + 1] # {}
      <3>1. t.found = (IF l < st.found THEN l ELSE st.found) /\ t.done = (t.found = 1)  BY <1>2, <2>3, <2>6
      <3>2. \A m \in 1 .. n + 1 : pl[m] # {} => t.found <= Least(pl[m])
        <4>1. TAKE m \in 1 .. n + 1
        <4>2. HAVE pl[m] # {}
        <4>3. Least(pl[m]) \in Nat  BY <4>2
        <4>4. CASE m = n + 1  BY <1>2, <1>3, <2>3, <2>6, <3>1, <4>4
        <4>5. CASE m \in 1 .. n
          <5>1. st.found <= Least(pl[m])  BY <2>1, <4>2, <4>5
          <5>2. t.found <= st.found  BY <1>3, <2>3, <2>6, <3>1
          <5>3. t.found \in Nat  BY <1>3, <2>3, <2>6, <3>1
          <5> QED BY <2>3, <4>3, <5>1, <5>2, <5>3
        <4> QED BY <1>1, <4>4, <4>5
      <3>3. \E m \in 1 .. n + 1 : pl[m] # {} /\ t.found = Least(pl[m])
        <4>1. CASE l < st.found  BY <1>1, <1>2, <2>6, <3>1, <4>1
        <4>2. CASE ~(l < st.found)  BY <2>2, <2>3, <3>1, <4>2
        <4> QED BY <4>1, <4>2
      <3> QED BY <3>1, <3>2, <3>3 DEF ServersChoice
    <2> QED BY <2>4, <2>5, <2>6
  <1> QED BY <1>4, <1>5

\* What has been chosen at the end of the loop.
LEMMA SelectLoopEnds ==
    ASSUME NEW candidates \in Seq(Words), NEW ids \in Seq(Words), NEW preference, NEW chacha, NEW hash,
           NEW pl, pl = PlacesOf(candidates, hash, ids),
           NEW f, f = SelectLoop(candidates, ids, preference, chacha, hash),
           NEW own, own = (preference /\ ~ChachaFirst(pl, ids, chacha))
    PROVE IF own THEN ServersChoice(pl, Len(ids), f[Len(ids)]) ELSE ClientsChoice(pl, Len(ids), f[Len(ids)])
  <1> DEFINE N == Len(ids)
             Choice(n) == IF own THEN ServersChoice(pl, n, f[n]) ELSE ClientsChoice(pl, n, f[n])
             Holds(n) == /\ f[n].done \in BOOLEAN
                         /\ n >= 1 => f[n].chacha = FALSE
                         /\ DOMAIN f[n] = {"found", "done", "chacha"}
                         /\ Choice(n)
             S == {n \in Nat : n <= N => Holds(n)}
  <1>1. N \in Nat  BY LenProperties
  <1>2. /\ f[0] = [found |-> 0, done |-> FALSE, chacha |-> chacha]
        /\ \A n \in 1 .. N : f[n] = SelectOne(candidates, preference, hash, f[n - 1], ids[n])
    BY SelectLoopIs
  <1>3. /\ \A m \in 1 .. N : pl[m] = Places(candidates, hash, ids[m])
        /\ \A m \in 1 .. N : pl[m] # {} => Least(pl[m]) \in Nat \ {0}
    BY PlacesAre
  <1> HIDE DEF N
  <1>4. Holds(0)
    <2>1. \A m \in 1 .. 0 : FALSE  OBVIOUS
    <2> QED BY <1>2, <2>1 DEF ServersChoice, ClientsChoice
  <1>5. ASSUME NEW n \in Nat, n + 1 <= N, Holds(n) PROVE Holds(n + 1)
    <2>1. n + 1 \in 1 .. N /\ (n + 1) - 1 = n /\ n + 1 >= 1  BY <1>1, <1>5
    <2>2. PICK st, t, id : st = f[n] /\ t = f[n + 1] /\ id = ids[n + 1]  OBVIOUS
    <2>3. PICK P : P = pl[n + 1]  OBVIOUS
    <2>4. t = SelectOne(candidates, preference, hash, st, id) /\ P = Places(candidates, hash, id)
      BY <1>2, <1>3, <2>1, <2>2, <2>3
    <2>5. /\ st.done => t = st
          /\ ~st.done /\ P = {} => t = [st EXCEPT !.chacha = FALSE]
          /\ ~st.done /\ P # {} /\ preference /\ ~(st.chacha /\ id = Chacha) =>
                \E g : /\ g = IF st.found = 0 \/ Least(P) < st.found THEN Least(P) ELSE st.found
                       /\ t = [st EXCEPT !.found = g, !.done = (g = 1), !.chacha = FALSE]
          /\ ~st.done /\ P # {} /\ ~(preference /\ ~(st.chacha /\ id = Chacha)) =>
                t = [found |-> Least(P), done |-> TRUE, chacha |-> FALSE]
      <3>1. EntryDone(preference, P, st, id, t)  BY <2>4, SelectOneIs
      <3> QED BY <3>1 DEF EntryDone
    <2>6. /\ st.done \in BOOLEAN /\ DOMAIN st = {"found", "done", "chacha"}
          /\ n >= 1 => st.chacha = FALSE
          /\ IF own THEN ServersChoice(pl, n, st) ELSE ClientsChoice(pl, n, st)
      BY <1>5, <2>2
    <2>7. n = 0 => st.chacha = chacha /\ st.done = FALSE  BY <1>2, <2>2
    <2>8. st.done => n >= 1
      <3>1. n = 0 \/ n >= 1  OBVIOUS
      <3> QED BY <2>7, <3>1
    <2>9. t.done \in BOOLEAN /\ t.chacha = FALSE /\ DOMAIN t = {"found", "done", "chacha"}
      <3>1. CASE st.done  BY <2>5, <2>6, <2>8, <3>1
      <3>2. CASE ~st.done /\ P = {}
        <4>1. t = [st EXCEPT !.chacha = FALSE]  BY <2>5, <3>2
        <4> QED BY <2>6, <4>1
      <3>3. CASE ~st.done /\ P # {} /\ preference /\ ~(st.chacha /\ id = Chacha)
        <4>1. PICK g : t = [st EXCEPT !.found = g, !.done = (g = 1), !.chacha = FALSE]  BY <2>5, <3>3
        <4> QED BY <2>6, <4>1
      <3>4. CASE ~st.done /\ P # {} /\ ~(preference /\ ~(st.chacha /\ id = Chacha))
        <4>1. t = [found |-> Least(P), done |-> TRUE, chacha |-> FALSE]  BY <2>5, <3>4
        <4> QED BY <4>1
      <3> QED BY <3>1, <3>2, <3>3, <3>4
    <2>10. ~st.done /\ P = {} => t.found = st.found /\ t.done = st.done  BY <2>5, <2>6
    <2>11. CASE own
      <3>1. P # {} => ~(st.chacha /\ id = Chacha)
        <4>1. CASE n = 0
          <5>1. st.chacha = chacha /\ id = ids[1] /\ P = pl[1] /\ N >= 1  BY <1>1, <1>5, <2>2, <2>3, <2>7, <4>1
          <5> QED BY <2>11, <5>1 DEF ChachaFirst, N
        <4>2. CASE n >= 1  BY <2>6, <4>2
        <4> QED BY <4>1, <4>2
      <3>2. ~st.done /\ P # {} =>
               /\ t.found = IF st.found = 0 \/ Least(P) < st.found THEN Least(P) ELSE st.found
               /\ t.done = (t.found = 1)
        <4>1. HAVE ~st.done /\ P # {}
        <4>2. preference  BY <2>11
        <4>3. PICK g : /\ g = IF st.found = 0 \/ Least(P) < st.found THEN Least(P) ELSE st.found
                       /\ t = [st EXCEPT !.found = g, !.done = (g = 1), !.chacha = FALSE]
          BY <2>5, <3>1, <4>1, <4>2
        <4>4. t.found = g /\ t.done = (g = 1)  BY <2>6, <4>3
        <4> QED BY <4>3, <4>4
      <3>3. \A m \in 1 .. n + 1 : pl[m] # {} => Least(pl[m]) \in Nat \ {0}
        <4>1. \A m \in 1 .. n + 1 : m \in 1 .. N  BY <1>1, <1>5
        <4> QED BY <1>3, <4>1
      <3>4. ServersChoice(pl, n, st)  BY <2>6, <2>11
      <3>5. ServersChoice(pl, n + 1, t)
        BY <2>3, <2>5, <2>6, <2>10, <3>2, <3>3, <3>4, ServersStep
      <3> QED BY <2>2, <2>9, <2>11, <3>5
    <2>12. CASE ~own
      <3>1. ~st.done /\ P # {} /\ (\A m \in 1 .. n : pl[m] = {}) => t.found = Least(P) /\ t.done = TRUE
        <4>1. HAVE ~st.done /\ P # {} /\ (\A m \in 1 .. n : pl[m] = {})
        <4>2. ~(preference /\ ~(st.chacha /\ id = Chacha))
          <5>1. CASE ~preference  BY <5>1
          <5>2. CASE preference
            <6>1. chacha /\ ids[1] = Chacha /\ pl[1] # {}  BY <2>12, <5>2 DEF ChachaFirst
            <6>2. n = 0 \/ 1 \in 1 .. n  OBVIOUS
            <6>3. n = 0  BY <4>1, <6>1, <6>2
            <6>4. st.chacha = chacha /\ id = ids[1]  BY <2>2, <2>7, <6>3
            <6> QED BY <6>1, <6>4
          <5> QED BY <5>1, <5>2
        <4>3. t = [found |-> Least(P), done |-> TRUE, chacha |-> FALSE]  BY <2>5, <4>1, <4>2
        <4> QED BY <4>3
      <3>2. ClientsChoice(pl, n, st)  BY <2>6, <2>12
      <3>3. ClientsChoice(pl, n + 1, t)  BY <2>3, <2>5, <2>6, <2>10, <3>1, <3>2, ClientsStep
      <3> QED BY <2>2, <2>9, <2>12, <3>3
    <2> QED BY <2>11, <2>12
  <1> HIDE DEF Holds
  <1>6. 0 \in S  BY <1>4
  <1>7. ASSUME NEW n \in Nat, n \in S PROVE n + 1 \in S
    <2>1. SUFFICES ASSUME n + 1 <= N PROVE Holds(n + 1)  OBVIOUS
    <2>2. n <= N  BY <1>1, <2>1
    <2> QED BY <1>5, <1>7, <2>1, <2>2
  <1>8. N \in S  BY <1>1, <1>6, <1>7, UpFromZero
  <1>9. Holds(N)  BY <1>1, <1>8
  <1> QED BY <1>9 DEF Holds, N

\* PolicySuite, for any lists.
Policy(own, ids, preference, chacha, hash) ==
    LET ok == {i \in DOMAIN own : own[i] \in ToSet(ids) /\ (hash = {} \/ own[i] \in hash)}
        best == CHOOSE i \in ok : \A j \in ok : i <= j
        theirs == CHOOSE n \in DOMAIN ids : /\ \E i \in ok : own[i] = ids[n]
                                            /\ \A m \in 1..(n - 1) : \A i \in ok : own[i] # ids[m]
    IN IF ok = {} THEN 0
       ELSE IF preference /\ ~(chacha /\ theirs = 1 /\ ids[1] = Chacha) THEN best
       ELSE CHOOSE i \in ok : own[i] = ids[theirs] /\ \A j \in ok : own[j] = own[i] => i <= j

\* The loop chooses what the policy calls for, whatever the lists are.
LEMMA SelectByPolicy ==
    ASSUME NEW own \in Seq(Words), NEW ids \in Seq(Words), NEW preference, NEW chacha, NEW hash
    PROVE SelectCipher(own, ids, preference, chacha, hash) = Policy(own, ids, preference, chacha, hash)
  <1>1. PICK N, pl, f, found : /\ N = Len(ids) /\ pl = PlacesOf(own, hash, ids)
                               /\ f = SelectLoop(own, ids, preference, chacha, hash)
                               /\ found = SelectCipher(own, ids, preference, chacha, hash)
    OBVIOUS
  <1>2. PICK ok : ok = {i \in DOMAIN own : own[i] \in ToSet(ids) /\ (hash = {} \/ own[i] \in hash)}  OBVIOUS
  <1>3. N \in Nat /\ DOMAIN ids = 1 .. N /\ DOMAIN own \subseteq Nat  BY <1>1, LenProperties
  <1>4. ok \in SUBSET Nat  BY <1>2, <1>3
  <1>5. /\ \A m \in 1 .. N : pl[m] \in SUBSET Nat
        /\ \A m \in 1 .. N : \A i : i \in pl[m] <=> i \in ok /\ own[i] = ids[m]
    <2>1. /\ pl \in [1 .. N -> SUBSET (Nat \ {0})]
          /\ \A m \in 1 .. N : pl[m] = Places(own, hash, ids[m])
      BY <1>1, PlacesAre
    <2>2. ASSUME NEW m \in 1 .. N, NEW i PROVE i \in pl[m] <=> i \in ok /\ own[i] = ids[m]
      <3>1. ids[m] \in ToSet(ids)  BY <1>3 DEF ToSet
      <3> QED BY <1>2, <2>1, <3>1 DEF Places
    <2> QED BY <2>1, <2>2
  <1>6. \A i \in ok : \E m \in 1 .. N : i \in pl[m]
    <2>1. TAKE i \in ok
    <2>2. own[i] \in ToSet(ids)  BY <1>2
    <2>3. PICK m \in 1 .. N : own[i] = ids[m]  BY <1>3, <2>2 DEF ToSet
    <2> QED BY <1>5, <2>3
  <1>7. found = f[N].found
    <2>1. SelectCipher(own, ids, preference, chacha, hash)
              = SelectLoop(own, ids, preference, chacha, hash)[Len(ids)].found
      BY DEF SelectCipher, SelectLoop
    <2> QED BY <1>1, <2>1
  <1>8. PICK mine : mine = (preference /\ ~ChachaFirst(pl, ids, chacha))  OBVIOUS
  <1>9. IF mine THEN ServersChoice(pl, N, f[N]) ELSE ClientsChoice(pl, N, f[N])
    BY <1>1, <1>8, SelectLoopEnds
  <1>10. PICK theirs : theirs = CHOOSE n \in DOMAIN ids :
                            /\ \E i \in ok : own[i] = ids[n]
                            /\ \A m \in 1..(n - 1) : \A i \in ok : own[i] # ids[m]
    OBVIOUS
  <1>11. Policy(own, ids, preference, chacha, hash) =
            IF ok = {} THEN 0
            ELSE IF preference /\ ~(chacha /\ theirs = 1 /\ ids[1] = Chacha) THEN Least(ok)
            ELSE CHOOSE i \in ok : own[i] = ids[theirs] /\ \A j \in ok : own[j] = own[i] => i <= j
    BY <1>2, <1>10 DEF Policy, Least
  <1>12. CASE ok = {}
    <2>1. \A m \in 1 .. N : pl[m] = {}  BY <1>5, <1>12
    <2>2. f[N].found = 0  BY <1>9, <2>1 DEF ServersChoice, ClientsChoice
    <2> QED BY <1>1, <1>7, <1>11, <1>12, <2>2
  <1>13. CASE ok # {}
    <2>1. PICK a \in 1 .. N : pl[a] # {} /\ \A k \in 1 .. a - 1 : pl[k] = {}
      <3>1. \E m \in 1 .. N : pl[m] # {}  BY <1>6, <1>13
      <3> QED BY <1>3, <3>1, FirstOf
    <2>2. theirs = a
      <3> DEFINE Fits(n) == /\ \E i \in ok : own[i] = ids[n]
                            /\ \A m \in 1..(n - 1) : \A i \in ok : own[i] # ids[m]
      <3>1. Fits(a)
        <4>1. \A m \in 1 .. a - 1 : m \in 1 .. N  BY <1>3, <2>1
        <4> QED BY <1>5, <2>1, <4>1
      <3>2. ASSUME NEW n \in DOMAIN ids, Fits(n) PROVE n = a
        <4>1. n \in 1 .. N /\ pl[n] # {}  BY <1>3, <1>5, <3>2
        <4>2. ~(n \in 1 .. a - 1)  BY <2>1, <4>1
        <4>3. ~(a \in 1 .. n - 1)  BY <3>1, <3>2
        <4> QED BY <1>3, <2>1, <4>1, <4>2, <4>3
      <3>3. a \in DOMAIN ids  BY <1>3, <2>1
      <3>4. theirs = CHOOSE n \in DOMAIN ids : Fits(n)  BY <1>10
      <3> HIDE DEF Fits
      <3> QED BY <3>1, <3>2, <3>3, <3>4
    <2>3. theirs = 1 <=> pl[1] # {}
      <3>1. a = 1 \/ 1 \in 1 .. a - 1  BY <1>3, <2>1
      <3> QED BY <2>1, <2>2, <3>1
    <2>4. (preference /\ ~(chacha /\ theirs = 1 /\ ids[1] = Chacha)) <=> mine
      <3>1. N >= 1  BY <1>3, <2>1
      <3> QED BY <1>1, <1>8, <2>3, <3>1 DEF ChachaFirst
    <2>5. CASE mine
      <3>1. Policy(own, ids, preference, chacha, hash) = Least(ok)  BY <1>11, <1>13, <2>4, <2>5
      <3>2. ServersChoice(pl, N, f[N])  BY <1>9, <2>5
      <3>3. /\ \E m \in 1 .. N : pl[m] # {} /\ f[N].found = Least(pl[m])
            /\ \A m \in 1 .. N : pl[m] # {} => f[N].found <= Least(pl[m])
        BY <2>1, <3>2 DEF ServersChoice
      <3>4. PICK m \in 1 .. N : pl[m] # {} /\ found = Least(pl[m])  BY <1>7, <3>3
      <3>5. found \in pl[m]  BY <1>5, <3>4, LeastIs
      <3>6. found \in ok  BY <1>5, <3>5
      <3>7. ASSUME NEW j \in ok PROVE found <= j
        <4>1. PICK k \in 1 .. N : j \in pl[k]  BY <1>6
        <4>2. pl[k] \in SUBSET Nat /\ pl[k] # {}  BY <1>5, <4>1
        <4>3. Least(pl[k]) \in pl[k] /\ Least(pl[k]) <= j  BY <4>1, <4>2, LeastIs
        <4>4. found <= Least(pl[k])  BY <1>7, <3>3, <4>2
        <4>5. found \in Nat /\ Least(pl[k]) \in Nat /\ j \in Nat  BY <1>4, <3>6, <4>2, <4>3
        <4> QED BY <4>3, <4>4, <4>5
      <3>8. Least(ok) = found  BY <1>4, <3>6, <3>7, LeastOf
      <3> QED BY <1>1, <3>1, <3>8
    <2>6. CASE ~mine
      <3> DEFINE Fits(i) == own[i] = ids[theirs] /\ \A j \in ok : own[j] = own[i] => i <= j
      <3>1. Policy(own, ids, preference, chacha, hash) = CHOOSE i \in ok : Fits(i)
        BY <1>11, <1>13, <2>4, <2>6
      <3>2. ClientsChoice(pl, N, f[N])  BY <1>9, <2>6
      <3>3. found = Least(pl[a])  BY <1>7, <2>1, <3>2 DEF ClientsChoice
      <3>4. found \in pl[a] /\ \A j \in pl[a] : found <= j  BY <1>5, <2>1, <3>3, LeastIs
      <3>5. found \in ok /\ own[found] = ids[a]  BY <1>5, <3>4
      <3>6. Fits(found)  BY <1>5, <2>2, <3>4, <3>5
      <3>7. ASSUME NEW i \in ok, Fits(i) PROVE i = found
        <4>1. own[i] = own[found]  BY <2>2, <3>5, <3>7
        <4>2. i <= found /\ found <= i  BY <3>5, <3>6, <3>7, <4>1
        <4>3. i \in Nat /\ found \in Nat  BY <1>4, <3>5
        <4> QED BY <4>2, <4>3
      <3> HIDE DEF Fits
      <3>8. (CHOOSE i \in ok : Fits(i)) = found  BY <3>5, <3>6, <3>7
      <3> QED BY <1>1, <3>1, <3>8
    <2> QED BY <2>5, <2>6
  <1> QED BY <1>12, <1>13

---------------------------------------------------------------------------
(* Hello: the extensions a client writes.                                  *)

ExtensionType == [type : Words, list : Seq(Words), aux : Seq(Words)]

\* s lists the extensions E, of which no two have the same type; T is a set
\* the types are in.
Lists(s, E, T) ==
    /\ s \in Seq(ExtensionType)
    /\ ToSet(s) = E
    /\ \A e \in E : e.type \in T
    /\ \A i, j \in DOMAIN s : s[i].type = s[j].type => i = j

Part(condition, ext) == IF condition THEN {ext} ELSE {}

\* Two lists one after the other.
LEMMA ListsCat ==
    ASSUME NEW s, NEW t, NEW E, NEW F, NEW T, NEW U, Lists(s, E, T), Lists(t, F, U), T \cap U = {}
    PROVE Lists(s \o t, E \cup F, T \cup U)
  <1>1. s \in Seq(ExtensionType) /\ t \in Seq(ExtensionType)  BY DEF Lists
  <1>2. PICK n, m, u : n = Len(s) /\ m = Len(t) /\ u = s \o t  OBVIOUS
  <1>3. n \in Nat /\ m \in Nat /\ DOMAIN s = 1 .. n /\ DOMAIN t = 1 .. m  BY <1>1, <1>2, LenProperties
  <1>4. /\ u \in Seq(ExtensionType) /\ Len(u) = n + m
        /\ \A i \in 1 .. n + m : u[i] = IF i <= n THEN s[i] ELSE t[i - n]
    BY <1>1, <1>2, ConcatProperties
  <1>5. DOMAIN u = 1 .. n + m  BY <1>4, LenProperties
  <1>6. \A i \in 1 .. n : i \in 1 .. n + m /\ u[i] = s[i]  BY <1>3, <1>4
  <1>7. \A i \in 1 .. m : n + i \in 1 .. n + m /\ u[n + i] = t[i]
    <2>1. TAKE i \in 1 .. m
    <2>2. n + i \in 1 .. n + m /\ ~(n + i <= n) /\ (n + i) - n = i  BY <1>3
    <2> QED BY <1>4, <2>2
  <1>8. \A i \in 1 .. n + m : i \in 1 .. n \/ \E k \in 1 .. m : i = n + k
    <2>1. TAKE i \in 1 .. n + m
    <2>2. i \in 1 .. n \/ (i - n \in 1 .. m /\ i = n + (i - n))  BY <1>3
    <2> QED BY <2>2
  <1>9. ToSet(u) = ToSet(s) \cup ToSet(t)
    <2>1. ASSUME NEW x PROVE x \in ToSet(u) <=> x \in ToSet(s) \/ x \in ToSet(t)
      <3>1. x \in ToSet(u) <=> \E i \in 1 .. n + m : x = u[i]  BY <1>5 DEF ToSet
      <3>2. x \in ToSet(s) <=> \E i \in 1 .. n : x = s[i]  BY <1>3 DEF ToSet
      <3>3. x \in ToSet(t) <=> \E i \in 1 .. m : x = t[i]  BY <1>3 DEF ToSet
      <3> QED BY <1>6, <1>7, <1>8, <3>1, <3>2, <3>3
    <2> QED BY <2>1
  <1>10. \A i \in 1 .. n : s[i] \in E /\ s[i].type \in T  BY <1>3 DEF Lists, ToSet
  <1>11. \A i \in 1 .. m : t[i] \in F /\ t[i].type \in U  BY <1>3 DEF Lists, ToSet
  <1>12. ASSUME NEW i \in 1 .. n + m, NEW j \in 1 .. n + m, u[i].type = u[j].type PROVE i = j
    <2>1. CASE i \in 1 .. n /\ j \in 1 .. n
      <3>1. s[i].type = s[j].type  BY <1>6, <1>12, <2>1
      <3> QED BY <1>3, <2>1, <3>1 DEF Lists
    <2>2. CASE i \in 1 .. n /\ ~(j \in 1 .. n)
      <3>1. PICK k \in 1 .. m : j = n + k  BY <1>8, <2>2
      <3> QED BY <1>6, <1>7, <1>10, <1>11, <1>12, <2>2, <3>1
    <2>3. CASE ~(i \in 1 .. n) /\ j \in 1 .. n
      <3>1. PICK k \in 1 .. m : i = n + k  BY <1>8, <2>3
      <3> QED BY <1>6, <1>7, <1>10, <1>11, <1>12, <2>3, <3>1
    <2>4. CASE ~(i \in 1 .. n) /\ ~(j \in 1 .. n)
      <3>1. PICK k \in 1 .. m, l \in 1 .. m : i = n + k /\ j = n + l  BY <1>8, <2>4
      <3>2. t[k].type = t[l].type  BY <1>7, <1>12, <3>1
      <3>3. k = l  BY <1>3, <3>2 DEF Lists
      <3> QED BY <3>1, <3>3
    <2> QED BY <2>1, <2>2, <2>3, <2>4
  <1>13. ToSet(s) = E /\ ToSet(t) = F /\ (\A e \in E : e.type \in T) /\ (\A e \in F : e.type \in U)
    BY DEF Lists
  <1>14. ToSet(u) = E \cup F /\ \A e \in E \cup F : e.type \in T \cup U  BY <1>9, <1>13
  <1> QED BY <1>2, <1>4, <1>5, <1>12, <1>14 DEF Lists

\* A list of one or none.
LEMMA ListsIf ==
    ASSUME NEW condition, NEW ext \in ExtensionType, NEW type, ext.type = type
    PROVE Lists(If(condition, ext), Part(condition, ext), {type})
  <1>1. CASE condition
    <2>1. PICK s : s = <<ext>>  OBVIOUS
    <2>2. s \in Seq(ExtensionType) /\ DOMAIN s = 1 .. 1 /\ s[1] = ext  BY <2>1
    <2>3. ToSet(s) = {ext}  BY <2>2 DEF ToSet
    <2>4. If(condition, ext) = s /\ Part(condition, ext) = {ext}  BY <1>1, <2>1 DEF If, Part
    <2> QED BY <2>2, <2>3, <2>4 DEF Lists
  <1>2. CASE ~condition
    <2>1. PICK s : s = <<>>  OBVIOUS
    <2>2. s \in Seq(ExtensionType) /\ DOMAIN s = {}  BY <2>1
    <2>3. ToSet(s) = {}  BY <2>2 DEF ToSet
    <2>4. If(condition, ext) = s /\ Part(condition, ext) = {}  BY <1>2, <2>1 DEF If, Part
    <2> QED BY <2>2, <2>3, <2>4 DEF Lists
  <1> QED BY <1>1, <1>2

\* A list of one.
LEMMA ListsOne ==
    ASSUME NEW ext \in ExtensionType, NEW type, ext.type = type
    PROVE Lists(<<ext>>, {ext}, {type})
  BY ListsIf DEF If, Part

\* The extensions behind the key share, as a set.
FurtherSet(c, mode, second, cookie) ==
    Part(c.sni, Ext("sni", Hosts))
    \cup Part(c.alpn # <<>>, Ext("alpn", c.alpn))
    \cup Part(c.decompress, Ext("compress", <<"br">>))
    \cup {Ext("versions", <<"tls13">>), Ext("sigalgs", SignatureAlgorithms(c)), Ext("groups", c.groups)}
    \cup Part(cookie # <<>>, Ext("cookie", cookie))
    \cup Part(c.raw, Ext("certtype", <<"raw">>))
    \cup Part(c.save /\ c.tickets, Ext("tickets", <<"2", "1">>))
    \cup ToSet(AdditionalExtensions(c))
    \cup Part(c.save \/ c.psk # "none", Ext("modes", KeModes(c)))
    \cup Part(c.psk # "none" /\ c.early /\ ~second, Ext("early", <<>>))
    \cup Part(c.psk # "none", [type |-> "psk", list |-> <<OfferedIdentity(c, mode)>>, aux |-> <<"binder0">>])

LEMMA IdentityIs ==
    ASSUME NEW c, NEW mode
    PROVE OfferedIdentity(c, mode) \in {"random", "ext", "id0"} /\ OfferedIdentity(c, mode) \in Words
  BY CodeWords DEF OfferedIdentity

ExtraTypes == Words \ (KnownExtensions \cup {"tickets"})
FurtherTypes ==
    {"sni", "alpn", "compress", "versions", "sigalgs", "groups", "cookie", "certtype", "tickets",
     "modes", "early", "psk"} \cup ExtraTypes

\* The additional extensions are a list of them.
LEMMA AdditionalIs ==
    ASSUME NEW c \in ClientContexts
    PROVE /\ Lists(AdditionalExtensions(c), ToSet(AdditionalExtensions(c)), ExtraTypes)
          /\ \A e \in ToSet(AdditionalExtensions(c)) : e.list = <<"data">> /\ e.aux = <<>>
  <1>0. /\ c.extra \in Seq(Words) /\ ToSet(c.extra) \cap (KnownExtensions \cup {"tickets"}) = {}
        /\ \A i, j \in DOMAIN c.extra : c.extra[i] = c.extra[j] => i = j
    BY HelloAssumption, ContextWords
  <1>1. /\ c.extra \in Seq(ExtraTypes)
        /\ \A i, j \in DOMAIN c.extra : c.extra[i] = c.extra[j] => i = j
    <2>1. c.extra \in Seq(ToSet(c.extra))  BY HelloAssumption DEF IsList
    <2>2. Len(c.extra) \in Nat /\ DOMAIN c.extra = 1 .. Len(c.extra) /\ \A i \in DOMAIN c.extra : c.extra[i] \in Words
      BY <1>0, LenProperties, ElementOfSeq
    <2>3. ToSet(c.extra) \subseteq ExtraTypes  BY <1>0, <2>2 DEF ToSet, ExtraTypes
    <2> QED BY <1>0, <2>1, <2>3, SeqMonotonic
  <1>2. PICK n, s : n = Len(c.extra) /\ s = AdditionalExtensions(c)  OBVIOUS
  <1>3. n \in Nat /\ DOMAIN c.extra = 1 .. n /\ \A i \in 1 .. n : c.extra[i] \in ExtraTypes
    BY <1>1, <1>2, LenProperties, ElementOfSeq
  <1>4. s = [i \in 1 .. n |-> [type |-> c.extra[i], list |-> <<"data">>, aux |-> <<>>]]
    BY <1>2, <1>3 DEF AdditionalExtensions, Ext
  <1>5. \A i \in 1 .. n : /\ s[i] = [type |-> c.extra[i], list |-> <<"data">>, aux |-> <<>>]
                          /\ s[i].type = c.extra[i] /\ s[i].list = <<"data">> /\ s[i].aux = <<>>
    BY <1>4
  <1>6. ASSUME NEW i \in 1 .. n PROVE s[i] \in ExtensionType /\ s[i].type \in ExtraTypes
    <2>1. c.extra[i] \in Words /\ c.extra[i] \in ExtraTypes  BY <1>3 DEF ExtraTypes
    <2>2. <<"data">> \in Seq(Words) /\ <<>> \in Seq(Words)
      <3>1. "data" \in Words  BY CodeWords
      <3> QED BY <3>1
    <2>3. [type |-> c.extra[i], list |-> <<"data">>, aux |-> <<>>] \in ExtensionType
      <3>1. PICK x, l, a : x = c.extra[i] /\ l = <<"data">> /\ a = <<>>  OBVIOUS
      <3>2. x \in Words /\ l \in Seq(Words) /\ a \in Seq(Words)  BY <2>1, <2>2, <3>1
      <3>3. [type |-> x, list |-> l, aux |-> a] \in ExtensionType  BY <3>2 DEF ExtensionType
      <3> QED BY <3>1, <3>3
    <2>4. s[i] = [type |-> c.extra[i], list |-> <<"data">>, aux |-> <<>>] /\ s[i].type = c.extra[i]  BY <1>5
    <2> QED BY <2>1, <2>3, <2>4
  <1>7. DOMAIN s = 1 .. n  BY <1>4
  <1>8. s \in Seq(ExtensionType)
    <2>1. s \in [1 .. n -> ExtensionType]  BY <1>4, <1>6, <1>7
    <2> QED BY <1>3, <2>1
  <1>9. \A e \in ToSet(s) : \E i \in 1 .. n : e = s[i]  BY <1>7 DEF ToSet
  <1>10. \A i, j \in DOMAIN s : s[i].type = s[j].type => i = j  BY <1>1, <1>3, <1>5, <1>7
  <1>11. \A e \in ToSet(s) : e.type \in ExtraTypes /\ e.list = <<"data">> /\ e.aux = <<>>
    <2>1. TAKE e \in ToSet(s)
    <2>2. PICK i \in 1 .. n : e = s[i]  BY <1>9
    <2>3. s[i].type \in ExtraTypes  BY <1>6
    <2>4. s[i].list = <<"data">> /\ s[i].aux = <<>>  BY <1>5
    <2> QED BY <2>2, <2>3, <2>4
  <1> QED BY <1>2, <1>8, <1>10, <1>11 DEF Lists

\* Short lists of strings.
LEMMA StringLists ==
    ASSUME NEW a \in Words, NEW b \in Words
    PROVE <<>> \in Seq(Words) /\ <<a>> \in Seq(Words) /\ <<a, b>> \in Seq(Words)
  OBVIOUS

LEMMA ExtIs ==
    ASSUME NEW type \in Words, NEW list \in Seq(Words)
    PROVE Ext(type, list) \in ExtensionType /\ Ext(type, list).type = type
          /\ Ext(type, list).list = list /\ Ext(type, list).aux = <<>>
  BY StringLists DEF Ext, ExtensionType

\* FurtherExtensions lists them, and pre_shared_key comes last.
LEMMA FurtherIs ==
    ASSUME NEW c \in ClientContexts, NEW mode, NEW second, NEW cookie \in Seq(Words)
    PROVE /\ Lists(FurtherExtensions(c, mode, second, cookie), FurtherSet(c, mode, second, cookie), FurtherTypes)
          /\ c.psk # "none" => LET s == FurtherExtensions(c, mode, second, cookie)
                               IN Len(s) \in Nat \ {0} /\ s[Len(s)].type = "psk"
  <1> DEFINE psk == [type |-> "psk", list |-> <<OfferedIdentity(c, mode)>>, aux |-> <<"binder0">>]
             e1 == Ext("sni", Hosts)
             e2 == Ext("alpn", c.alpn)
             e3 == Ext("compress", <<"br">>)
             e4 == Ext("versions", <<"tls13">>)
             e5 == Ext("sigalgs", SignatureAlgorithms(c))
             e6 == Ext("groups", c.groups)
             e7 == Ext("cookie", cookie)
             e8 == Ext("certtype", <<"raw">>)
             e9 == Ext("tickets", <<"2", "1">>)
             e11 == Ext("modes", KeModes(c))
             e12 == Ext("early", <<>>)
             s1 == If(c.sni, e1)
             s2 == If(c.alpn # <<>>, e2)
             s3 == If(c.decompress, e3)
             s4 == <<e4, e5, e6>>
             s5 == If(cookie # <<>>, e7)
             s6 == If(c.raw, e8)
             s7 == If(c.save /\ c.tickets, e9)
             s8 == AdditionalExtensions(c)
             s9 == If(c.save \/ c.psk # "none", e11)
             s10 == If(c.psk # "none" /\ c.early /\ ~second, e12)
             s11 == If(c.psk # "none", psk)
             E1 == Part(c.sni, e1)
             E2 == Part(c.alpn # <<>>, e2)
             E3 == Part(c.decompress, e3)
             E4 == {e4, e5, e6}
             E5 == Part(cookie # <<>>, e7)
             E6 == Part(c.raw, e8)
             E7 == Part(c.save /\ c.tickets, e9)
             E8 == ToSet(AdditionalExtensions(c))
             E9 == Part(c.save \/ c.psk # "none", e11)
             E10 == Part(c.psk # "none" /\ c.early /\ ~second, e12)
             E11 == Part(c.psk # "none", psk)
             T2 == {"sni"} \cup {"alpn"}
             T3 == T2 \cup {"compress"}
             T4 == T3 \cup {"versions", "sigalgs", "groups"}
             T5 == T4 \cup {"cookie"}
             T6 == T5 \cup {"certtype"}
             T7 == T6 \cup {"tickets"}
             T8 == T7 \cup ExtraTypes
             T9 == T8 \cup {"modes"}
             T10 == T9 \cup {"early"}
             T11 == T10 \cup {"psk"}
             p2 == s1 \o s2
             p3 == p2 \o s3
             p4 == p3 \o s4
             p5 == p4 \o s5
             p6 == p5 \o s6
             p7 == p6 \o s7
             p8 == p7 \o s8
             p9 == p8 \o s9
             p10 == p9 \o s10
             p11 == p10 \o s11
             U2 == E1 \cup E2
             U3 == U2 \cup E3
             U4 == U3 \cup E4
             U5 == U4 \cup E5
             U6 == U5 \cup E6
             U7 == U6 \cup E7
             U8 == U7 \cup E8
             U9 == U8 \cup E9
             U10 == U9 \cup E10
             U11 == U10 \cup E11
  <1>1. c.algos \in Seq(Words) /\ c.groups \in Seq(Words)  BY ContextWords
  <1>2. c.alpn \in Seq(Words)  BY ContextWords
  <1>3. Hosts \in Seq(Words) /\ SignatureAlgorithms(c) \in Seq(Words) /\ KeModes(c) \in Seq(Words)
    BY <1>1, CodeWords, StringLists DEF Hosts, SignatureAlgorithms, KeModes
  <1>4. /\ <<"br">> \in Seq(Words) /\ <<"tls13">> \in Seq(Words)
        /\ <<"raw">> \in Seq(Words) /\ <<"2", "1">> \in Seq(Words) /\ <<>> \in Seq(Words)
        /\ <<"binder0">> \in Seq(Words) /\ <<OfferedIdentity(c, mode)>> \in Seq(Words)
    BY CodeWords, IdentityIs, StringLists
  <1>5. /\ e1 \in ExtensionType /\ e1.type = "sni" /\ e2 \in ExtensionType /\ e2.type = "alpn"
        /\ e3 \in ExtensionType /\ e3.type = "compress" /\ e4 \in ExtensionType /\ e4.type = "versions"
        /\ e5 \in ExtensionType /\ e5.type = "sigalgs" /\ e6 \in ExtensionType /\ e6.type = "groups"
        /\ e7 \in ExtensionType /\ e7.type = "cookie" /\ e8 \in ExtensionType /\ e8.type = "certtype"
        /\ e9 \in ExtensionType /\ e9.type = "tickets" /\ e11 \in ExtensionType /\ e11.type = "modes"
        /\ e12 \in ExtensionType /\ e12.type = "early"
    <2>1. {"sni", "alpn", "compress", "versions", "sigalgs", "groups", "cookie", "certtype", "tickets", "modes",
           "early"} \subseteq Words
      BY CodeWords DEF KnownExtensions
    <2> QED BY <1>1, <1>2, <1>3, <1>4, <2>1, ExtIs
  <1>6. psk \in ExtensionType /\ psk.type = "psk"
    <2>1. "psk" \in Words  BY CodeWords
    <2> QED BY <1>4, <2>1 DEF ExtensionType
  <1>7. FurtherExtensions(c, mode, second, cookie) = p11  BY DEF FurtherExtensions
  <1>8. FurtherSet(c, mode, second, cookie) = U11  BY DEF FurtherSet
  <1>9. T11 = FurtherTypes  BY DEF FurtherTypes
  <1> HIDE DEF e1, e2, e3, e4, e5, e6, e7, e8, e9, e11, e12, psk
  <1>10. /\ Lists(s1, E1, {"sni"}) /\ Lists(s2, E2, {"alpn"}) /\ Lists(s3, E3, {"compress"})
         /\ Lists(s5, E5, {"cookie"}) /\ Lists(s6, E6, {"certtype"}) /\ Lists(s7, E7, {"tickets"})
         /\ Lists(s9, E9, {"modes"}) /\ Lists(s10, E10, {"early"}) /\ Lists(s11, E11, {"psk"})
    BY <1>5, <1>6, ListsIf
  <1>11. Lists(s4, E4, {"versions", "sigalgs", "groups"})
    <2>1. PICK s : s = s4  OBVIOUS
    <2>2. s \in Seq(ExtensionType) /\ DOMAIN s = 1 .. 3 /\ s[1] = e4 /\ s[2] = e5 /\ s[3] = e6  BY <1>5, <2>1
    <2>3. ToSet(s) = {e4, e5, e6}
      <3>1. ToSet(s) = {s[i] : i \in 1 .. 3}  BY <2>2 DEF ToSet
      <3>2. 1 .. 3 = {1, 2, 3}  OBVIOUS
      <3> QED BY <2>2, <3>1, <3>2
    <2>4. \A i, j \in 1 .. 3 : s[i].type = s[j].type => i = j
      <3>1. 1 .. 3 = {1, 2, 3}  OBVIOUS
      <3> QED BY <1>5, <2>2, <3>1
    <2> QED BY <1>5, <2>1, <2>2, <2>3, <2>4 DEF Lists
  <1>12. Lists(s8, E8, ExtraTypes)  BY AdditionalIs
  <1> HIDE DEF s1, s2, s3, s4, s5, s6, s7, s8, s9, s10, s11, E1, E2, E3, E4, E5, E6, E7, E8, E9, E10, E11
  <1>20. /\ T2 \cap {"compress"} = {} /\ T3 \cap {"versions", "sigalgs", "groups"} = {}
         /\ T4 \cap {"cookie"} = {} /\ T5 \cap {"certtype"} = {} /\ T6 \cap {"tickets"} = {}
         /\ T7 \cap ExtraTypes = {} /\ T8 \cap {"modes"} = {} /\ T9 \cap {"early"} = {}
         /\ T10 \cap {"psk"} = {} /\ {"sni"} \cap {"alpn"} = {}
    BY DEF ExtraTypes, KnownExtensions
  <1> HIDE DEF T2, T3, T4, T5, T6, T7, T8, T9, T10, T11
  <1>22. Lists(p2, U2, T2)  BY <1>10, <1>20, ListsCat DEF T2
  <1> HIDE DEF p2, U2
  <1>23. Lists(p3, U3, T3)  BY <1>10, <1>20, <1>22, ListsCat DEF T3
  <1> HIDE DEF p3, U3
  <1>24. Lists(p4, U4, T4)  BY <1>11, <1>20, <1>23, ListsCat DEF T4
  <1> HIDE DEF p4, U4
  <1>25. Lists(p5, U5, T5)  BY <1>10, <1>20, <1>24, ListsCat DEF T5
  <1> HIDE DEF p5, U5
  <1>26. Lists(p6, U6, T6)  BY <1>10, <1>20, <1>25, ListsCat DEF T6
  <1> HIDE DEF p6, U6
  <1>27. Lists(p7, U7, T7)  BY <1>10, <1>20, <1>26, ListsCat DEF T7
  <1> HIDE DEF p7, U7
  <1>28. Lists(p8, U8, T8)  BY <1>12, <1>20, <1>27, ListsCat DEF T8
  <1> HIDE DEF p8, U8
  <1>29. Lists(p9, U9, T9)  BY <1>10, <1>20, <1>28, ListsCat DEF T9
  <1> HIDE DEF p9, U9
  <1>30. Lists(p10, U10, T10)  BY <1>10, <1>20, <1>29, ListsCat DEF T10
  <1> HIDE DEF p10, U10
  <1>31. Lists(p11, U11, T11)  BY <1>10, <1>20, <1>30, ListsCat DEF T11
  <1>32. c.psk # "none" => Len(p11) \in Nat \ {0} /\ p11[Len(p11)].type = "psk"
    <2>1. HAVE c.psk # "none"
    <2>2. s11 = <<psk>>  BY <2>1 DEF s11, If
    <2>3. p10 \in Seq(ExtensionType) /\ s11 \in Seq(ExtensionType) /\ Len(s11) = 1 /\ s11[1] = psk
      BY <1>6, <1>30, <2>2 DEF Lists
    <2>4. PICK n : n = Len(p10)  OBVIOUS
    <2>5. n \in Nat  BY <2>3, <2>4, LenProperties
    <2>6. /\ Len(p11) = n + 1
          /\ \A i \in 1 .. n + 1 : p11[i] = IF i <= n THEN p10[i] ELSE s11[i - n]
      <3>1. PICK v, w : v = p10 /\ w = s11  OBVIOUS
      <3>2. /\ Len(v \o w) = Len(v) + Len(w)
            /\ \A i \in 1 .. Len(v) + Len(w) : (v \o w)[i] = IF i <= Len(v) THEN v[i] ELSE w[i - Len(v)]
        BY <2>3, <3>1, ConcatProperties
      <3> QED BY <2>3, <2>4, <3>1, <3>2
    <2>7. n + 1 \in 1 .. n + 1 /\ ~(n + 1 <= n) /\ (n + 1) - n = 1 /\ n + 1 \in Nat \ {0}  BY <2>5
    <2>8. p11[n + 1] = psk  BY <2>3, <2>6, <2>7
    <2> HIDE DEF p11
    <2> QED BY <1>6, <2>6, <2>7, <2>8
  <1> QED BY <1>7, <1>8, <1>9, <1>31, <1>32

---------------------------------------------------------------------------
(* Hello: decode_client_hello.                                             *)

HelloType ==
    [sni : Seq(Words), alpn : Seq(Words), certTypes : Seq(Words), compress : Seq(Words),
     groups : Seq(Words), hasGroups : BOOLEAN, sigalgs : Seq(Words), shares : Seq(Words),
     hasShares : BOOLEAN, version : Words, cookie : Seq(Words), ids : Seq(Words), binders : Seq(Words),
     hashEnd : BOOLEAN, last : BOOLEAN, modes : SUBSET Words, early : BOOLEAN, status : BOOLEAN,
     tickets : Seq(Words), ech : Words, unknown : Seq(Words)]

LEMMA NoHelloTyped == NoHello \in HelloType
  <1>1. "" \in Words  BY CodeWords
  <1>2. <<>> \in Seq(Words)  BY <1>1, StringLists
  <1>3. PICK l, w : l = <<>> /\ w = ""  OBVIOUS
  <1>4. l \in Seq(Words) /\ w \in Words  BY <1>1, <1>2, <1>3
  <1> QED BY <1>3, <1>4 DEF NoHello, HelloType

\* What fits in the slots.
LEMMA CappedIs ==
    ASSUME NEW list \in Seq(Words)
    PROVE /\ Capped(list) \in Seq(Words)
          /\ Len(Capped(list)) = IF Len(list) < ListCapacity THEN Len(list) ELSE ListCapacity
          /\ list # <<>> => Capped(list) # <<>> /\ Capped(list)[1] = list[1]
  <1>1. PICK n, m : n = Len(list) /\ m = IF n < ListCapacity THEN n ELSE ListCapacity  OBVIOUS
  <1>0. ListCapacity \in Nat \ {0}  BY HelloAssumption
  <1>2. n \in Nat /\ m \in Nat /\ m <= n /\ (n # 0 => m # 0)
    BY <1>0, <1>1, LenProperties
  <1>3. Capped(list) = SubSeq(list, 1, m)  BY <1>1 DEF Capped
  <1>4. PICK s : s = SubSeq(list, 1, m)  OBVIOUS
  <1>5. s \in Seq(Words) /\ Len(s) = m /\ \A i \in 1 .. m : s[i] = list[i]
    <2>1. 1 \in 1 .. n + 1 /\ m \in 0 .. n /\ m \in 1 - 1 .. n  BY <1>2
    <2> QED BY <1>1, <1>2, <1>4, <2>1, SubSeqProperties
  <1>6. list # <<>> => s # <<>> /\ s[1] = list[1]
    <2>1. HAVE list # <<>>
    <2>2. n # 0  BY <1>1, <2>1, EmptySeq
    <2>3. 1 \in 1 .. m  BY <1>2, <2>2
    <2>4. s # <<>>  BY <1>2, <1>5, <2>2, EmptySeq
    <2> QED BY <1>5, <2>3, <2>4
  <1> QED BY <1>1, <1>3, <1>4, <1>5, <1>6

\* One type more in the slots for the extensions collected.
LEMMA CappedAppend ==
    ASSUME NEW list \in Seq(Words), NEW w \in Words
    PROVE Capped(Append(list, w)) \in Seq(Words) /\ ToSet(Capped(Append(list, w))) \subseteq ToSet(list) \cup {w}
  <1>1. PICK t : t = Append(list, w)  OBVIOUS
  <1>2. /\ t \in Seq(Words) /\ Len(t) = Len(list) + 1 /\ t[Len(list) + 1] = w
        /\ \A i \in 1 .. Len(list) : t[i] = list[i]
    BY <1>1, AppendProperties
  <1>3. Len(list) \in Nat /\ DOMAIN list = 1 .. Len(list)  BY LenProperties
  <1>4. PICK s, m : s = Capped(t) /\ m = IF Len(t) < ListCapacity THEN Len(t) ELSE ListCapacity  OBVIOUS
  <1>5. s \in Seq(Words) /\ Len(s) = m  BY <1>2, <1>4, CappedIs
  <1>6. ListCapacity \in Nat  BY HelloAssumption
  <1>7. m \in Nat /\ m <= Len(list) + 1  BY <1>2, <1>3, <1>4, <1>6
  <1>8. \A i \in 1 .. m : s[i] = t[i]
    <2>1. s = SubSeq(t, 1, m)  BY <1>4 DEF Capped
    <2>2. \A i \in 1 .. m : t[i] \in Words  BY <1>2, <1>3, <1>7, ElementOfSeq
    <2>3. 1 \in Int /\ m \in Int  BY <1>7
    <2>4. \A i \in 1 .. m - 1 + 1 : s[i] = t[1 + i - 1]  BY <2>1, <2>2, <2>3, SubSeqProperties
    <2> QED BY <1>7, <2>4
  <1>9. DOMAIN s = 1 .. m  BY <1>5, LenProperties
  <1>10. ASSUME NEW i \in 1 .. m PROVE s[i] \in ToSet(list) \cup {w}
    <2>1. i \in 1 .. Len(list) \/ i = Len(list) + 1  BY <1>3, <1>7
    <2> QED BY <1>2, <1>3, <1>8, <2>1 DEF ToSet
  <1>11. ToSet(s) \subseteq ToSet(list) \cup {w}  BY <1>9, <1>10 DEF ToSet
  <1> QED BY <1>1, <1>4, <1>5, <1>11

\* The types the decoder has a case for.
OwnCases ==
    {"sni", "alpn", "certtype", "compress", "groups", "sigalgs", "share", "versions", "cookie", "psk", "modes",
     "early", "status", "tickets", "ech"}

\* psk_dhe_ke, if it is among the modes.
DheMode(modes) == modes \cap {"psk_dhe"}

\* What the fields are once e is decoded.
DecodedAs(e, ch, d) ==
    /\ d \in HelloType
    /\ d.last <=> e.type = "psk"
    /\ d.hashEnd <=> ch.hashEnd \/ e.type = "psk"
    /\ d.early <=> ch.early \/ e.type = "early"
    /\ d.hasGroups <=> ch.hasGroups \/ e.type = "groups"
    /\ d.hasShares <=> ch.hasShares \/ e.type = "share"
    /\ d.groups = IF e.type = "groups" THEN e.list ELSE ch.groups
    /\ d.cookie = IF e.type = "cookie" THEN e.list ELSE ch.cookie
    /\ DheMode(d.modes) = IF e.type = "modes" THEN DheMode(ToSet(e.list)) ELSE DheMode(ch.modes)
    /\ d.shares = IF e.type = "share" THEN e.list ELSE ch.shares
    /\ d.version = IF e.type = "versions" THEN IF "tls13" \in ToSet(e.list) THEN "tls13" ELSE "" ELSE ch.version
    /\ d.sni = IF e.type = "sni" THEN <<e.list[Len(e.list)]>> ELSE ch.sni
    /\ d.certTypes = IF e.type = "certtype" THEN Capped(e.list) ELSE ch.certTypes
    /\ d.ids = IF e.type = "psk" THEN Capped(e.list) ELSE ch.ids
    /\ d.binders = IF e.type = "psk" THEN Capped(e.aux) ELSE ch.binders
    /\ d.ech = IF e.type = "ech" THEN e.list[1] ELSE ch.ech
    /\ ToSet(d.unknown) \subseteq ToSet(ch.unknown) \cup {e.type}

\* The switch over the type does that.
LEMMA DecodedIs ==
    ASSUME hserver \in ServerContexts, NEW e \in ExtensionType, NEW ch \in HelloType, WellFormed(e)
    PROVE DecodedAs(e, ch, Decoded(e, ch))
  <1>0. e.type \in Words /\ e.list \in Seq(Words) /\ e.aux \in Seq(Words)  BY DEF ExtensionType
  <1>1. hserver.wants \cap OwnCases = {}
    <2>1. hserver.wants \cap (KnownExtensions \cup {"tickets"}) = {}  BY HelloAssumption
    <2> QED BY <2>1 DEF KnownExtensions, OwnCases
  <1>2. Capped(e.list) \in Seq(Words) /\ Capped(e.aux) \in Seq(Words)  BY <1>0, CappedIs
  <1>3. e.type \in NonEmpty => Len(e.list) \in Nat \ {0} /\ e.list[1] \in Words /\ e.list[Len(e.list)] \in Words
    <2>1. HAVE e.type \in NonEmpty
    <2>2. e.list # <<>>  BY <2>1 DEF WellFormed
    <2>3. Len(e.list) \in Nat \ {0} /\ DOMAIN e.list = 1 .. Len(e.list)  BY <1>0, <2>2, LenProperties, EmptySeq
    <2>4. 1 \in DOMAIN e.list /\ Len(e.list) \in DOMAIN e.list  BY <2>3
    <2> QED BY <1>0, <2>3, <2>4, ElementOfSeq
  <1>4. ToSet(e.list) \in SUBSET Words
    <2>1. DOMAIN e.list = 1 .. Len(e.list) /\ \A i \in 1 .. Len(e.list) : e.list[i] \in Words
      BY <1>0, LenProperties, ElementOfSeq
    <2> QED BY <2>1 DEF ToSet
  <1>5. "tls13" \in Words /\ "" \in Words  BY CodeWords
  <1>10. CASE e.type = "sni"
    <2>1. PICK v1 : v1 = <<e.list[Len(e.list)]>>  OBVIOUS
    <2>2. Decoded(e, ch) = [[ch EXCEPT !.last = FALSE] EXCEPT !.sni = v1]
      BY <2>1, <1>1, <1>10 DEF Decoded, OwnCases
    <2>3. v1 \in Seq(Words)  BY <1>0, <1>2, <1>3, <1>4, <1>5, <1>10, <2>1, StringLists DEF NonEmpty
    <2> QED BY <1>10, <2>1, <2>2, <2>3 DEF HelloType, DecodedAs
  <1>11. CASE e.type = "alpn"
    <2>1. PICK v1 : v1 = Capped(e.list)  OBVIOUS
    <2>2. Decoded(e, ch) = [[ch EXCEPT !.last = FALSE] EXCEPT !.alpn = v1]
      BY <2>1, <1>1, <1>11 DEF Decoded, OwnCases
    <2>3. v1 \in Seq(Words)  BY <1>0, <1>2, <1>3, <1>4, <1>5, <1>11, <2>1, StringLists DEF NonEmpty
    <2> QED BY <1>11, <2>1, <2>2, <2>3 DEF HelloType, DecodedAs
  <1>12. CASE e.type = "certtype"
    <2>1. PICK v1 : v1 = Capped(e.list)  OBVIOUS
    <2>2. Decoded(e, ch) = [[ch EXCEPT !.last = FALSE] EXCEPT !.certTypes = v1]
      BY <2>1, <1>1, <1>12 DEF Decoded, OwnCases
    <2>3. v1 \in Seq(Words)  BY <1>0, <1>2, <1>3, <1>4, <1>5, <1>12, <2>1, StringLists DEF NonEmpty
    <2> QED BY <1>12, <2>1, <2>2, <2>3 DEF HelloType, DecodedAs
  <1>13. CASE e.type = "compress"
    <2>1. PICK v1 : v1 = Capped(e.list)  OBVIOUS
    <2>2. Decoded(e, ch) = [[ch EXCEPT !.last = FALSE] EXCEPT !.compress = v1]
      BY <2>1, <1>1, <1>13 DEF Decoded, OwnCases
    <2>3. v1 \in Seq(Words)  BY <1>0, <1>2, <1>3, <1>4, <1>5, <1>13, <2>1, StringLists DEF NonEmpty
    <2> QED BY <1>13, <2>1, <2>2, <2>3 DEF HelloType, DecodedAs
  <1>14. CASE e.type = "groups"
    <2>1. PICK v1 : v1 = e.list  OBVIOUS
    <2>2. Decoded(e, ch) = [[ch EXCEPT !.last = FALSE] EXCEPT !.groups = v1, !.hasGroups = TRUE]
      BY <2>1, <1>1, <1>14 DEF Decoded, OwnCases
    <2>3. v1 \in Seq(Words)  BY <1>0, <1>2, <1>3, <1>4, <1>5, <1>14, <2>1, StringLists DEF NonEmpty
    <2> QED BY <1>14, <2>1, <2>2, <2>3 DEF HelloType, DecodedAs
  <1>15. CASE e.type = "sigalgs"
    <2>1. PICK v1 : v1 = Capped(e.list)  OBVIOUS
    <2>2. Decoded(e, ch) = [[ch EXCEPT !.last = FALSE] EXCEPT !.sigalgs = v1]
      BY <2>1, <1>1, <1>15 DEF Decoded, OwnCases
    <2>3. v1 \in Seq(Words)  BY <1>0, <1>2, <1>3, <1>4, <1>5, <1>15, <2>1, StringLists DEF NonEmpty
    <2> QED BY <1>15, <2>1, <2>2, <2>3 DEF HelloType, DecodedAs
  <1>16. CASE e.type = "share"
    <2>1. PICK v1 : v1 = e.list  OBVIOUS
    <2>2. Decoded(e, ch) = [[ch EXCEPT !.last = FALSE] EXCEPT !.shares = v1, !.hasShares = TRUE]
      BY <2>1, <1>1, <1>16 DEF Decoded, OwnCases
    <2>3. v1 \in Seq(Words)  BY <1>0, <1>2, <1>3, <1>4, <1>5, <1>16, <2>1, StringLists DEF NonEmpty
    <2> QED BY <1>16, <2>1, <2>2, <2>3 DEF HelloType, DecodedAs
  <1>17. CASE e.type = "versions"
    <2>1. PICK v1 : v1 = (IF "tls13" \in ToSet(e.list) THEN "tls13" ELSE "")  OBVIOUS
    <2>2. Decoded(e, ch) = [[ch EXCEPT !.last = FALSE] EXCEPT !.version = v1]
      BY <2>1, <1>1, <1>17 DEF Decoded, OwnCases
    <2>3. v1 \in Words  BY <1>0, <1>2, <1>3, <1>4, <1>5, <1>17, <2>1, StringLists DEF NonEmpty
    <2> QED BY <1>17, <2>1, <2>2, <2>3 DEF HelloType, DecodedAs
  <1>18. CASE e.type = "cookie"
    <2>2. Decoded(e, ch) = [[ch EXCEPT !.last = FALSE] EXCEPT !.cookie = e.list]
      BY <1>1, <1>18 DEF Decoded, OwnCases
    <2> QED BY <1>0, <1>18, <2>2 DEF HelloType, DecodedAs
  <1>19. CASE e.type = "psk"
    <2>1. PICK v1, v2 : v1 = Capped(e.list) /\ v2 = Capped(e.aux)  OBVIOUS
    <2>2. Decoded(e, ch) = [[ch EXCEPT !.last = FALSE] EXCEPT !.ids = v1, !.binders = v2, !.hashEnd = TRUE, !.last = TRUE]
      BY <2>1, <1>1, <1>19 DEF Decoded, OwnCases
    <2>3. v1 \in Seq(Words) /\ v2 \in Seq(Words)  BY <1>0, <1>2, <1>3, <1>4, <1>5, <1>19, <2>1, StringLists DEF NonEmpty
    <2>4. PICK d : d = [[ch EXCEPT !.last = FALSE] EXCEPT !.ids = v1, !.binders = v2, !.hashEnd = TRUE, !.last = TRUE]
      OBVIOUS
    <2>5. d \in HelloType  BY <2>3, <2>4 DEF HelloType
    <2>6. /\ d.last = TRUE /\ d.hashEnd = TRUE /\ d.ids = v1 /\ d.binders = v2
          /\ d.early = ch.early /\ d.cookie = ch.cookie /\ d.hasGroups = ch.hasGroups /\ d.hasShares = ch.hasShares
          /\ d.groups = ch.groups /\ d.shares = ch.shares /\ d.version = ch.version /\ d.sni = ch.sni
          /\ d.certTypes = ch.certTypes /\ d.ech = ch.ech /\ d.unknown = ch.unknown
          /\ d.modes = ch.modes
      BY <2>4 DEF HelloType
    <2>7. DecodedAs(e, ch, d)  BY <1>19, <2>1, <2>5, <2>6 DEF DecodedAs
    <2> QED BY <2>2, <2>4, <2>7
  <1>20. CASE e.type = "modes"
    <2>1. PICK v1 : v1 = ToSet(e.list) \cap {"psk", "psk_dhe"}  OBVIOUS
    <2>2. Decoded(e, ch) = [[ch EXCEPT !.last = FALSE] EXCEPT !.modes = v1]
      BY <2>1, <1>1, <1>20 DEF Decoded, OwnCases
    <2>3. v1 \in SUBSET Words  BY <1>0, <1>2, <1>3, <1>4, <1>5, <1>20, <2>1, StringLists DEF NonEmpty
    <2>4. DheMode(v1) = DheMode(ToSet(e.list))  BY <2>1 DEF DheMode
    <2> QED BY <1>20, <2>2, <2>3, <2>4 DEF HelloType, DecodedAs
  <1>21. CASE e.type = "early"
    <2>2. Decoded(e, ch) = [[ch EXCEPT !.last = FALSE] EXCEPT !.early = TRUE]
      BY <1>1, <1>21 DEF Decoded, OwnCases
    <2> QED BY <1>21, <2>2 DEF HelloType, DecodedAs
  <1>22. CASE e.type = "status"
    <2>2. Decoded(e, ch) = [[ch EXCEPT !.last = FALSE] EXCEPT !.status = TRUE]
      BY <1>1, <1>22 DEF Decoded, OwnCases
    <2> QED BY <1>22, <2>2 DEF HelloType, DecodedAs
  <1>23. CASE e.type = "tickets"
    <2>1. PICK v1 : v1 = e.list  OBVIOUS
    <2>2. Decoded(e, ch) = [[ch EXCEPT !.last = FALSE] EXCEPT !.tickets = v1]
      BY <2>1, <1>1, <1>23 DEF Decoded, OwnCases
    <2>3. v1 \in Seq(Words)  BY <1>0, <1>2, <1>3, <1>4, <1>5, <1>23, <2>1, StringLists DEF NonEmpty
    <2> QED BY <1>23, <2>1, <2>2, <2>3 DEF HelloType, DecodedAs
  <1>24. CASE e.type = "ech"
    <2>1. PICK v1 : v1 = e.list[1]  OBVIOUS
    <2>2. Decoded(e, ch) = [[ch EXCEPT !.last = FALSE] EXCEPT !.ech = v1]
      BY <2>1, <1>1, <1>24 DEF Decoded, OwnCases
    <2>3. v1 \in Words  BY <1>0, <1>2, <1>3, <1>4, <1>5, <1>24, <2>1, StringLists DEF NonEmpty
    <2> QED BY <1>24, <2>1, <2>2, <2>3 DEF HelloType, DecodedAs
  <1>25. CASE e.type \notin OwnCases /\ e.type \in hserver.wants
    <2>1. PICK v1 : v1 = Capped(Append(ch.unknown, e.type))  OBVIOUS
    <2>2. Decoded(e, ch) = [[ch EXCEPT !.last = FALSE] EXCEPT !.unknown = v1]
      <3>1. ([ch EXCEPT !.last = FALSE]).unknown = ch.unknown  BY DEF HelloType
      <3> QED BY <2>1, <1>25, <3>1 DEF Decoded, OwnCases
    <2>3. v1 \in Seq(Words) /\ ToSet(v1) \subseteq ToSet(ch.unknown) \cup {e.type}
      <3>1. ch.unknown \in Seq(Words)  BY DEF HelloType
      <3> QED BY <1>0, <2>1, <3>1, CappedAppend
    <2> QED BY <1>25, <2>2, <2>3 DEF HelloType, DecodedAs, OwnCases
  <1>26. CASE e.type \notin OwnCases /\ e.type \notin hserver.wants
    <2>1. Decoded(e, ch) = [ch EXCEPT !.last = FALSE]  BY <1>26 DEF Decoded, OwnCases
    <2> QED BY <1>26, <2>1 DEF HelloType, DecodedAs, OwnCases
  <1> QED BY <1>10, <1>11, <1>12, <1>13, <1>14, <1>15, <1>16, <1>17, <1>18, <1>19,
             <1>20, <1>21, <1>22, <1>23, <1>24, <1>25, <1>26 DEF OwnCases

\* What a hello's extensions say, one by one.
TypesOf(E) == [i \in 1 .. Len(E) |-> E[i].type]
ListsOf(E) == [i \in 1 .. Len(E) |-> E[i].list]
LastsOf(E) == [i \in 1 .. Len(E) |-> <<E[i].list[Len(E[i].list)]>>]
CappedOf(E) == [i \in 1 .. Len(E) |-> Capped(E[i].list)]
FirstsOf(E) == [i \in 1 .. Len(E) |-> E[i].list[1]]
DheOf(E) == [i \in 1 .. Len(E) |-> DheMode(ToSet(E[i].list))]
VersionsOf(E) == [i \in 1 .. Len(E) |-> IF "tls13" \in ToSet(E[i].list) THEN "tls13" ELSE ""]

\* Among the first n extensions, of the types T, there is one of type t; a field
\* has the value W of the extension of type t, or its default; no type of the
\* table comes twice.
Flag(flag, T, n, t) == flag <=> \E i \in 1 .. n : T[i] = t
Given(v, W, T, n, t, default) ==
    /\ \A i \in 1 .. n : T[i] = t => v = W[i]
    /\ (\A i \in 1 .. n : T[i] # t) => v = default
Distinct(T, n) == \A i, j \in 1 .. n : T[i] = T[j] /\ T[i] \in KnownExtensions => i = j
Seen(T, n) == {T[i] : i \in 1 .. n}

\* One extension more.
LEMMA FlagStep ==
    ASSUME NEW n \in Nat, NEW T, NEW t, NEW old, NEW new, Flag(old, T, n, t), new <=> old \/ T[n + 1] = t
    PROVE Flag(new, T, n + 1, t)
  <1>1. \A i : i \in 1 .. n + 1 <=> i \in 1 .. n \/ i = n + 1  OBVIOUS
  <1>2. (\E i \in 1 .. n + 1 : T[i] = t) <=> (\E i \in 1 .. n : T[i] = t) \/ T[n + 1] = t  BY <1>1
  <1> QED BY <1>2 DEF Flag

LEMMA GivenStep ==
    ASSUME NEW n \in Nat, NEW T, NEW W, NEW t, NEW old, NEW new, NEW default, Given(old, W, T, n, t, default),
           T[n + 1] = t => \A i \in 1 .. n : T[i] # t,
           new = IF T[n + 1] = t THEN W[n + 1] ELSE old
    PROVE Given(new, W, T, n + 1, t, default)
  <1>1. \A i : i \in 1 .. n + 1 <=> i \in 1 .. n \/ i = n + 1  OBVIOUS
  <1>2. CASE T[n + 1] = t  BY <1>1, <1>2 DEF Given
  <1>3. CASE T[n + 1] # t  BY <1>1, <1>3 DEF Given
  <1> QED BY <1>2, <1>3

LEMMA SeenStep ==
    ASSUME NEW n \in Nat, NEW T
    PROVE Seen(T, n + 1) = Seen(T, n) \cup {T[n + 1]}
  <1>1. \A i : i \in 1 .. n + 1 <=> i \in 1 .. n \/ i = n + 1  OBVIOUS
  <1> QED BY <1>1 DEF Seen

LEMMA DistinctStep ==
    ASSUME NEW n \in Nat, NEW T, Distinct(T, n), T[n + 1] \in KnownExtensions => \A i \in 1 .. n : T[i] # T[n + 1]
    PROVE Distinct(T, n + 1)
  <1>1. \A i : i \in 1 .. n + 1 <=> i \in 1 .. n \/ i = n + 1  OBVIOUS
  <1> QED BY <1>1 DEF Distinct

\* The decoder's state after n extensions of E.
UpTo(E, n, seen, ch) ==
    LET T == TypesOf(E)
    IN /\ n \in 0 .. Len(E) /\ ch \in HelloType
       /\ seen = Seen(T, n) \cap KnownExtensions
       /\ Distinct(T, n)
       /\ ch.last <=> n > 0 /\ T[n] = "psk"
       /\ Flag(ch.hashEnd, T, n, "psk") /\ Flag(ch.early, T, n, "early")
       /\ Flag(ch.hasGroups, T, n, "groups") /\ Flag(ch.hasShares, T, n, "share")
       /\ Len(ch.ids) = Len(ch.binders)
       /\ Given(ch.groups, ListsOf(E), T, n, "groups", <<>>)
       /\ Given(ch.cookie, ListsOf(E), T, n, "cookie", <<>>)
       /\ Given(ch.ids, CappedOf(E), T, n, "psk", <<>>)
       /\ Given(DheMode(ch.modes), DheOf(E), T, n, "modes", {})
       /\ Given(ch.shares, ListsOf(E), T, n, "share", <<>>)
       /\ Given(ch.version, VersionsOf(E), T, n, "versions", "")
       /\ Given(ch.sni, LastsOf(E), T, n, "sni", <<>>)
       /\ Given(ch.certTypes, CappedOf(E), T, n, "certtype", <<>>)
       /\ Given(ch.ech, FirstsOf(E), T, n, "ech", "")
       /\ ToSet(ch.unknown) \subseteq Seen(T, n)

\* Before the first.
LEMMA UpToStart ==
    ASSUME NEW E \in Seq(ExtensionType)
    PROVE UpTo(E, 0, {}, NoHello)
  <1>1. Len(E) \in Nat /\ 0 \in 0 .. Len(E)  BY LenProperties
  <1>2. PICK T : T = TypesOf(E)  OBVIOUS
  <1>3. \A i \in 1 .. 0 : FALSE  OBVIOUS
  <1>4. Seen(T, 0) = {} /\ Distinct(T, 0)  BY <1>3 DEF Seen, Distinct
  <1>5. PICK ch : ch = NoHello  OBVIOUS
  <1>6. /\ ch.last = FALSE /\ ch.hashEnd = FALSE /\ ch.early = FALSE /\ ch.cookie = <<>>
        /\ ch.hasGroups = FALSE /\ ch.hasShares = FALSE /\ ch.ids = <<>> /\ ch.binders = <<>>
        /\ ch.groups = <<>> /\ ch.shares = <<>> /\ ch.version = "" /\ ch.sni = <<>>
        /\ ch.certTypes = <<>> /\ ch.ech = "" /\ ch.unknown = <<>> /\ DheMode(ch.modes) = {}
    BY <1>5 DEF NoHello, DheMode
  <1>7. ch \in HelloType  BY <1>5, NoHelloTyped
  <1>8. \A flag, t : ~flag => Flag(flag, T, 0, t)  BY <1>3 DEF Flag
  <1>9. \A v, W, t : Given(v, W, T, 0, t, v)  BY <1>3 DEF Given
  <1>10. ToSet(ch.unknown) = {}
    <2>1. PICK l : l = <<>>  OBVIOUS
    <2>2. DOMAIN l = {}  BY <2>1
    <2>3. ToSet(l) = {}  BY <2>2 DEF ToSet
    <2> QED BY <1>6, <2>1, <2>3
  <1>11. /\ Flag(ch.hashEnd, T, 0, "psk") /\ Flag(ch.early, T, 0, "early")
         /\ Flag(ch.hasGroups, T, 0, "groups") /\ Flag(ch.hasShares, T, 0, "share")
    BY <1>6, <1>8
  <1>12. /\ Given(ch.cookie, ListsOf(E), T, 0, "cookie", <<>>) /\ Given(ch.ids, CappedOf(E), T, 0, "psk", <<>>)
         /\ Given(DheMode(ch.modes), DheOf(E), T, 0, "modes", {})
         /\ Given(ch.groups, ListsOf(E), T, 0, "groups", <<>>) /\ Given(ch.shares, ListsOf(E), T, 0, "share", <<>>)
         /\ Given(ch.version, VersionsOf(E), T, 0, "versions", "") /\ Given(ch.sni, LastsOf(E), T, 0, "sni", <<>>)
         /\ Given(ch.certTypes, CappedOf(E), T, 0, "certtype", <<>>) /\ Given(ch.ech, FirstsOf(E), T, 0, "ech", "")
    BY <1>6, <1>9
  <1>13. {} = Seen(T, 0) \cap KnownExtensions /\ Len(ch.ids) = Len(ch.binders) /\ ToSet(ch.unknown) \subseteq Seen(T, 0)
    BY <1>4, <1>6, <1>10
  <1>14. ch.last <=> 0 > 0 /\ T[0] = "psk"
    <2>1. ~(0 > 0)  OBVIOUS
    <2>2. ~ch.last  BY <1>6
    <2> QED BY <2>1, <2>2
  <1>15. UpTo(E, 0, {}, ch)  BY <1>1, <1>2, <1>4, <1>7, <1>11, <1>12, <1>13, <1>14 DEF UpTo
  <1> QED BY <1>5, <1>15

\* One extension more, if none of the three checks stops.
LEMMA UpToStep ==
    ASSUME hserver \in ServerContexts, NEW E \in Seq(ExtensionType), NEW n, NEW seen, NEW ch, UpTo(E, n, seen, ch),
           n < Len(E), NEW e, e = E[n + 1],
           TestAndSet(seen, e.type).ok, WellFormed(e), Legal(e, ch)
    PROVE UpTo(E, n + 1, TestAndSet(seen, e.type).seen, Decoded(e, ch))
  <1>1. PICK T : T = TypesOf(E)  OBVIOUS
  <1>2. PICK d, t : d = Decoded(e, ch) /\ t = TestAndSet(seen, e.type).seen  OBVIOUS
  <1>3. Len(E) \in Nat /\ n \in Nat /\ n + 1 \in 1 .. Len(E) /\ n + 1 \in 0 .. Len(E)
    <2>1. n \in 0 .. Len(E)  BY DEF UpTo
    <2>2. Len(E) \in Nat  BY LenProperties
    <2> QED BY <2>1, <2>2
  <1>4. e \in ExtensionType  BY <1>3, ElementOfSeq
  <1>5. ch \in HelloType  BY DEF UpTo
  <1>6. DecodedAs(e, ch, d)  BY <1>2, <1>4, <1>5, DecodedIs
  <1>7. /\ T[n + 1] = e.type /\ ListsOf(E)[n + 1] = e.list /\ CappedOf(E)[n + 1] = Capped(e.list)
        /\ LastsOf(E)[n + 1] = <<e.list[Len(e.list)]>> /\ FirstsOf(E)[n + 1] = e.list[1]
        /\ VersionsOf(E)[n + 1] = IF "tls13" \in ToSet(e.list) THEN "tls13" ELSE ""
        /\ DheOf(E)[n + 1] = DheMode(ToSet(e.list))
    BY <1>1, <1>3 DEF TypesOf, ListsOf, CappedOf, LastsOf, FirstsOf, VersionsOf, DheOf
  <1>8. seen = Seen(T, n) \cap KnownExtensions /\ Distinct(T, n) /\ ToSet(ch.unknown) \subseteq Seen(T, n)
    BY <1>1 DEF UpTo
  <1>9. e.type \in KnownExtensions => \A i \in 1 .. n : T[i] # e.type
    <2>1. e.type \in KnownExtensions => e.type \notin seen  BY DEF TestAndSet
    <2> QED BY <1>8, <2>1 DEF Seen
  <1>10. t = Seen(T, n + 1) \cap KnownExtensions
    <2>1. t = seen \cup ({e.type} \cap KnownExtensions)  BY <1>2 DEF TestAndSet
    <2>2. Seen(T, n + 1) = Seen(T, n) \cup {e.type}  BY <1>3, <1>7, SeenStep
    <2> QED BY <1>8, <2>1, <2>2
  <1>11. Distinct(T, n + 1)  BY <1>3, <1>7, <1>8, <1>9, DistinctStep
  <1>12. d.last <=> n + 1 > 0 /\ T[n + 1] = "psk"
    <2>1. n + 1 > 0  BY <1>3
    <2>2. d.last <=> T[n + 1] = "psk"  BY <1>6, <1>7 DEF DecodedAs
    <2> QED BY <2>1, <2>2
  <1>13. /\ Flag(d.hashEnd, T, n + 1, "psk") /\ Flag(d.early, T, n + 1, "early")
         /\ Flag(d.hasGroups, T, n + 1, "groups") /\ Flag(d.hasShares, T, n + 1, "share")
    <2>1. /\ Flag(ch.hashEnd, T, n, "psk") /\ Flag(ch.early, T, n, "early")
          /\ Flag(ch.hasGroups, T, n, "groups") /\ Flag(ch.hasShares, T, n, "share")
      BY <1>1 DEF UpTo
    <2>2. /\ d.hashEnd <=> ch.hashEnd \/ T[n + 1] = "psk"
          /\ d.early <=> ch.early \/ T[n + 1] = "early"
          /\ d.hasGroups <=> ch.hasGroups \/ T[n + 1] = "groups"
          /\ d.hasShares <=> ch.hasShares \/ T[n + 1] = "share"
      BY <1>6, <1>7 DEF DecodedAs
    <2> QED BY <1>3, <2>1, <2>2, FlagStep
  <1>14. /\ Given(d.groups, ListsOf(E), T, n + 1, "groups", <<>>) /\ Given(d.shares, ListsOf(E), T, n + 1, "share", <<>>)
         /\ Given(d.version, VersionsOf(E), T, n + 1, "versions", "") /\ Given(d.sni, LastsOf(E), T, n + 1, "sni", <<>>)
         /\ Given(d.certTypes, CappedOf(E), T, n + 1, "certtype", <<>>) /\ Given(d.ech, FirstsOf(E), T, n + 1, "ech", "")
         /\ Given(d.cookie, ListsOf(E), T, n + 1, "cookie", <<>>) /\ Given(d.ids, CappedOf(E), T, n + 1, "psk", <<>>)
         /\ Given(DheMode(d.modes), DheOf(E), T, n + 1, "modes", {})
    <2>1. /\ Given(ch.groups, ListsOf(E), T, n, "groups", <<>>) /\ Given(ch.shares, ListsOf(E), T, n, "share", <<>>)
          /\ Given(ch.version, VersionsOf(E), T, n, "versions", "") /\ Given(ch.sni, LastsOf(E), T, n, "sni", <<>>)
          /\ Given(ch.certTypes, CappedOf(E), T, n, "certtype", <<>>) /\ Given(ch.ech, FirstsOf(E), T, n, "ech", "")
          /\ Given(ch.cookie, ListsOf(E), T, n, "cookie", <<>>) /\ Given(ch.ids, CappedOf(E), T, n, "psk", <<>>)
          /\ Given(DheMode(ch.modes), DheOf(E), T, n, "modes", {})
      BY <1>1 DEF UpTo
    <2>2. \A k \in {"groups", "share", "versions", "sni", "certtype", "ech", "cookie", "psk", "modes"} :
             T[n + 1] = k => \A i \in 1 .. n : T[i] # k
      BY <1>7, <1>9 DEF KnownExtensions
    <2>3. /\ d.groups = IF T[n + 1] = "groups" THEN ListsOf(E)[n + 1] ELSE ch.groups
          /\ d.shares = IF T[n + 1] = "share" THEN ListsOf(E)[n + 1] ELSE ch.shares
          /\ d.version = IF T[n + 1] = "versions" THEN VersionsOf(E)[n + 1] ELSE ch.version
          /\ d.sni = IF T[n + 1] = "sni" THEN LastsOf(E)[n + 1] ELSE ch.sni
          /\ d.certTypes = IF T[n + 1] = "certtype" THEN CappedOf(E)[n + 1] ELSE ch.certTypes
          /\ d.ech = IF T[n + 1] = "ech" THEN FirstsOf(E)[n + 1] ELSE ch.ech
          /\ d.cookie = IF T[n + 1] = "cookie" THEN ListsOf(E)[n + 1] ELSE ch.cookie
          /\ d.ids = IF T[n + 1] = "psk" THEN CappedOf(E)[n + 1] ELSE ch.ids
          /\ DheMode(d.modes) = IF T[n + 1] = "modes" THEN DheOf(E)[n + 1] ELSE DheMode(ch.modes)
      BY <1>6, <1>7 DEF DecodedAs
    <2>4. Given(d.groups, ListsOf(E), T, n + 1, "groups", <<>>)  BY <1>3, <2>1, <2>2, <2>3, GivenStep
    <2>5. Given(d.shares, ListsOf(E), T, n + 1, "share", <<>>)  BY <1>3, <2>1, <2>2, <2>3, GivenStep
    <2>6. Given(d.version, VersionsOf(E), T, n + 1, "versions", "")  BY <1>3, <2>1, <2>2, <2>3, GivenStep
    <2>7. Given(d.sni, LastsOf(E), T, n + 1, "sni", <<>>)  BY <1>3, <2>1, <2>2, <2>3, GivenStep
    <2>8. Given(d.certTypes, CappedOf(E), T, n + 1, "certtype", <<>>)  BY <1>3, <2>1, <2>2, <2>3, GivenStep
    <2>9. Given(d.ech, FirstsOf(E), T, n + 1, "ech", "")  BY <1>3, <2>1, <2>2, <2>3, GivenStep
    <2>10. Given(d.cookie, ListsOf(E), T, n + 1, "cookie", <<>>)  BY <1>3, <2>1, <2>2, <2>3, GivenStep
    <2>11. Given(d.ids, CappedOf(E), T, n + 1, "psk", <<>>)  BY <1>3, <2>1, <2>2, <2>3, GivenStep
    <2>12. Given(DheMode(d.modes), DheOf(E), T, n + 1, "modes", {})  BY <1>3, <2>1, <2>2, <2>3, GivenStep
    <2> QED BY <2>4, <2>5, <2>6, <2>7, <2>8, <2>9, <2>10, <2>11, <2>12
  <1>15. ToSet(d.unknown) \subseteq Seen(T, n + 1)
    <2>1. Seen(T, n + 1) = Seen(T, n) \cup {e.type}  BY <1>3, <1>7, SeenStep
    <2>2. ToSet(d.unknown) \subseteq ToSet(ch.unknown) \cup {e.type}  BY <1>6 DEF DecodedAs
    <2> QED BY <1>8, <2>1, <2>2
  <1>16. Len(d.ids) = Len(d.binders)
    <2>1. CASE e.type = "psk"
      <3>1. Len(e.list) = Len(e.aux)  BY <2>1 DEF Legal
      <3>2. e.list \in Seq(Words) /\ e.aux \in Seq(Words)  BY <1>4 DEF ExtensionType
      <3>3. Len(Capped(e.list)) = Len(Capped(e.aux))  BY <3>1, <3>2, CappedIs
      <3> QED BY <1>6, <2>1, <3>3 DEF DecodedAs
    <2>2. CASE e.type # "psk"
      <3>1. Len(ch.ids) = Len(ch.binders)  BY DEF UpTo
      <3> QED BY <1>6, <2>2, <3>1 DEF DecodedAs
    <2> QED BY <2>1, <2>2
  <1>17. d \in HelloType  BY <1>6 DEF DecodedAs
  <1>18. UpTo(E, n + 1, t, d)
    BY <1>1, <1>3, <1>10, <1>11, <1>12, <1>13, <1>14, <1>15, <1>16, <1>17 DEF UpTo
  <1> QED BY <1>2, <1>18

---------------------------------------------------------------------------
(* Hello: rebuild_ch_inner.                                                *)

RebuildState == [out : Seq(ExtensionType), rest : Seq(ExtensionType), bad : BOOLEAN]

\* The places of the extensions of a type.
TypePlaces(s, type) == {i \in DOMAIN s : s[i].type = type}

\* The one extension of the type is copied.
Copied(st, type, t) ==
    ~st.bad /\ type # "ech" => \A i \in DOMAIN st.rest : TypePlaces(st.rest, type) = {i} =>
        /\ t.out = Append(st.out, st.rest[i])
        /\ t.bad = FALSE

\* One reference.
LEMMA TakeReferenceIs ==
    ASSUME NEW st \in RebuildState, NEW type, NEW t, t = TakeReference(st, type)
    PROVE t \in RebuildState /\ Copied(st, type, t)
  <1>1. PICK at : at = TypePlaces(st.rest, type)  OBVIOUS
  <1>2. PICK i : i = Least(at)  OBVIOUS
  <1>3. t = IF st.bad \/ type = "ech" \/ at = {} THEN [st EXCEPT !.bad = TRUE]
            ELSE [st EXCEPT !.out = Append(st.out, st.rest[i]), !.rest = SubSeq(st.rest, i + 1, Len(st.rest))]
    BY <1>1, <1>2 DEF TakeReference, TypePlaces, Least, RebuildState
  <1>4. st.out \in Seq(ExtensionType) /\ st.rest \in Seq(ExtensionType) /\ st.bad \in BOOLEAN  BY DEF RebuildState
  <1>5. PICK n : n = Len(st.rest)  OBVIOUS
  <1>6. n \in Nat /\ DOMAIN st.rest = 1 .. n  BY <1>4, <1>5, LenProperties
  <1>7. at \in SUBSET Nat /\ at \subseteq 1 .. n  BY <1>1, <1>6 DEF TypePlaces
  <1>8. CASE st.bad \/ type = "ech" \/ at = {}
    <2>1. t = [st EXCEPT !.bad = TRUE]  BY <1>3, <1>8
    <2>2. t \in RebuildState  BY <2>1 DEF RebuildState
    <2>3. ~st.bad /\ type # "ech" => \A k \in DOMAIN st.rest : TypePlaces(st.rest, type) # {k}  BY <1>1, <1>8
    <2> QED BY <2>2, <2>3 DEF Copied
  <1>9. CASE ~st.bad /\ type # "ech" /\ at # {}
    <2>1. i \in at /\ i \in 1 .. n  BY <1>2, <1>7, <1>9, LeastIs
    <2>2. PICK a, b : a = Append(st.out, st.rest[i]) /\ b = SubSeq(st.rest, i + 1, n)  OBVIOUS
    <2>3. t = [st EXCEPT !.out = a, !.rest = b]  BY <1>3, <1>5, <1>9, <2>2
    <2>4. a \in Seq(ExtensionType)
      <3>1. st.rest[i] \in ExtensionType  BY <1>4, <1>5, <2>1, ElementOfSeq
      <3> QED BY <1>4, <2>2, <3>1, AppendProperties
    <2>5. b \in Seq(ExtensionType)
      <3>1. \A k \in i + 1 .. n : st.rest[k] \in ExtensionType
        <4>1. \A k \in i + 1 .. n : k \in 1 .. n  BY <1>6, <2>1
        <4> QED BY <1>4, <1>5, <4>1, ElementOfSeq
      <3>2. i + 1 \in Int /\ n \in Int  BY <1>6, <2>1
      <3> QED BY <2>2, <3>1, <3>2, SubSeqProperties
    <2>6. t \in RebuildState /\ t.out = a /\ t.bad = st.bad  BY <2>3, <2>4, <2>5 DEF RebuildState
    <2>7. \A k \in DOMAIN st.rest : TypePlaces(st.rest, type) = {k} => k = i  BY <1>1, <2>1
    <2>8. t.bad = FALSE  BY <1>4, <1>9, <2>6
    <2> QED BY <2>2, <2>6, <2>7, <2>8 DEF Copied
  <1> QED BY <1>8, <1>9

\* The references of one outer_extensions.
LEMMA TakeReferencesFollow ==
    ASSUME NEW st \in RebuildState, NEW types \in Seq(Words)
    PROVE \E f \in [0 .. Len(types) -> RebuildState] :
             /\ f[0] = st
             /\ \A n \in 1 .. Len(types) : f[n] = TakeReference(f[n - 1], types[n])
             /\ TakeReferences(st, types) = f[Len(types)]
  <1> DEFINE B == st
             D == RebuildState
             T(d, n) == TakeReference(d, types[n])
             F(g) == [n \in 0 .. Len(types) |-> IF n = 0 THEN B ELSE T(g[n - 1], n)]
  <1>1. Len(types) \in Nat  BY LenProperties
  <1>2. B \in D  OBVIOUS
  <1>3. ASSUME NEW d \in D, NEW n \in 1 .. Len(types) PROVE T(d, n) \in D
    BY <1>3, TakeReferenceIs
  <1>4. PICK f : f = CHOOSE g : g = F(g)  OBVIOUS
  <1>5. TakeReferences(st, types) = f[Len(types)]  BY <1>4 DEF TakeReferences
  <1> HIDE DEF T, D, B
  <1>6. \E g \in [0 .. Len(types) -> D] : g = F(g)
    <2>1. PICK G : G = [p \in D \X (1 .. Len(types)) |-> T(p[1], p[2])]  OBVIOUS
    <2>2. G \in [D \X (1 .. Len(types)) -> D]  BY <1>3, <2>1
    <2>3. PICK g \in [0 .. Len(types) -> D] : g[0] = B /\ \A n \in 1 .. Len(types) : g[n] = G[g[n - 1], n]
      <3>1. PICK N : N = Len(types)  OBVIOUS
      <3>2. N \in Nat /\ StepIn(G, D, N)  BY <1>1, <2>2, <3>1 DEF StepIn
      <3>3. \E g : Follows(g, D, N, B, G)  BY <1>2, <3>2, StepsExist
      <3> QED BY <3>1, <3>3 DEF Follows
    <2>4. ASSUME NEW n \in 1 .. Len(types) PROVE g[n] = T(g[n - 1], n)
      <3>1. n - 1 \in 0 .. Len(types)  BY <1>1
      <3>2. <<g[n - 1], n>> \in D \X (1 .. Len(types))  BY <2>3, <3>1
      <3> QED BY <2>1, <2>3, <3>2
    <2>5. ASSUME NEW n \in 0 .. Len(types) PROVE g[n] = IF n = 0 THEN B ELSE T(g[n - 1], n)
      <3>1. n = 0 \/ n \in 1 .. Len(types)  BY <1>1
      <3> QED BY <2>3, <2>4, <3>1
    <2>6. g = F(g)  BY <2>3, <2>5
    <2> QED BY <2>3, <2>6
  <1>7. f = F(f)
    <2> HIDE DEF F
    <2> QED BY <1>4, <1>6
  <1>8. f[0] = B  BY <1>1, <1>7
  <1>9. ASSUME NEW n \in 1 .. Len(types) PROVE f[n] = T(f[n - 1], n)
    <2>1. n \in 0 .. Len(types) /\ n # 0  BY <1>1
    <2> QED BY <1>7, <2>1
  <1>10. f \in [0 .. Len(types) -> D]
    <2>1. PICK S : S = {k \in Nat : k <= Len(types) => f[k] \in D}  OBVIOUS
    <2>2. \A k : k \in S <=> k \in Nat /\ (k <= Len(types) => f[k] \in D)  BY <2>1
    <2>3. 0 \in S  BY <1>2, <1>8, <2>2
    <2>4. ASSUME NEW k \in Nat, k \in S PROVE k + 1 \in S
      <3>1. SUFFICES ASSUME k + 1 <= Len(types) PROVE f[k + 1] \in D  BY <2>2
      <3>2. f[k] \in D  BY <1>1, <2>2, <2>4, <3>1
      <3>3. k + 1 \in 1 .. Len(types) /\ (k + 1) - 1 = k  BY <1>1, <3>1
      <3>4. f[k + 1] = T(f[k], k + 1)  BY <1>9, <3>3
      <3> QED BY <1>3, <3>2, <3>3, <3>4
    <2>5. Nat \subseteq S  BY <2>3, <2>4, UpFromZero
    <2>6. \A n \in 0 .. Len(types) : f[n] \in D  BY <1>1, <2>2, <2>5
    <2>7. \E h : f = [n \in 0 .. Len(types) |-> h[n]]
      <3>1. PICK h : h = [n \in 0 .. Len(types) |-> IF n = 0 THEN B ELSE T(f[n - 1], n)]  OBVIOUS
      <3>2. h = [n \in 0 .. Len(types) |-> h[n]]  BY <3>1
      <3> QED BY <1>7, <3>1, <3>2
    <2> QED BY <2>6, <2>7
  <1> QED BY <1>5, <1>8, <1>9, <1>10 DEF T, B, D

LEMMA TakeReferencesIn ==
    ASSUME NEW st \in RebuildState, NEW types \in Seq(Words)
    PROVE /\ TakeReferences(st, types) \in RebuildState
          /\ Len(types) = 1 => TakeReferences(st, types) = TakeReference(st, types[1])
  <1>1. PICK f \in [0 .. Len(types) -> RebuildState] :
             /\ f[0] = st
             /\ \A n \in 1 .. Len(types) : f[n] = TakeReference(f[n - 1], types[n])
             /\ TakeReferences(st, types) = f[Len(types)]
    BY TakeReferencesFollow
  <1>2. Len(types) \in Nat /\ Len(types) \in 0 .. Len(types)  BY LenProperties
  <1>3. Len(types) = 1 => f[1] = TakeReference(f[0], types[1])
    <2>1. HAVE Len(types) = 1
    <2>2. 1 \in 1 .. Len(types) /\ 1 - 1 = 0  BY <2>1
    <2> QED BY <1>1, <2>2
  <1> QED BY <1>1, <1>2, <1>3

\* One extension of the encoded hello.
LEMMA RebuildOneIn ==
    ASSUME NEW st \in RebuildState, NEW ext \in ExtensionType
    PROVE RebuildOne(st, ext) \in RebuildState
  <1>1. CASE ext.type # "outer_extensions"
    <2>1. PICK a : a = Append(st.out, ext)  OBVIOUS
    <2>2. a \in Seq(ExtensionType)
      <3>1. st.out \in Seq(ExtensionType)  BY DEF RebuildState
      <3> QED BY <2>1, <3>1, AppendProperties
    <2>3. RebuildOne(st, ext) = [st EXCEPT !.out = a]  BY <1>1, <2>1 DEF RebuildOne, RebuildState
    <2> QED BY <2>2, <2>3 DEF RebuildState
  <1>2. CASE ext.type = "outer_extensions" /\ ext.list = <<>>
    <2>1. RebuildOne(st, ext) = [st EXCEPT !.bad = TRUE]  BY <1>2 DEF RebuildOne
    <2> QED BY <2>1 DEF RebuildState
  <1>3. CASE ext.type = "outer_extensions" /\ ext.list # <<>>
    <2>1. RebuildOne(st, ext) = TakeReferences(st, ext.list)  BY <1>3 DEF RebuildOne
    <2>2. ext.list \in Seq(Words)  BY DEF ExtensionType
    <2> QED BY <2>1, <2>2, TakeReferencesIn
  <1> QED BY <1>1, <1>2, <1>3

\* All of them.
LEMMA RebuildFollows ==
    ASSUME NEW exts \in Seq(ExtensionType), NEW outer \in Seq(ExtensionType)
    PROVE \E f \in [0 .. Len(exts) -> RebuildState] :
             /\ f[0] = [out |-> <<>>, rest |-> outer, bad |-> FALSE]
             /\ \A n \in 1 .. Len(exts) : f[n] = RebuildOne(f[n - 1], exts[n])
             /\ RebuildExtensions(exts, outer) = f[Len(exts)]
  <1> DEFINE B == [out |-> <<>>, rest |-> outer, bad |-> FALSE]
             D == RebuildState
             T(d, n) == RebuildOne(d, exts[n])
             F(g) == [n \in 0 .. Len(exts) |-> IF n = 0 THEN B ELSE T(g[n - 1], n)]
  <1>1. Len(exts) \in Nat  BY LenProperties
  <1>2. B \in D  
    <2>1. PICK l : l = <<>>  OBVIOUS
    <2>2. l \in Seq(ExtensionType)  BY <2>1
    <2>3. [out |-> l, rest |-> outer, bad |-> FALSE] \in RebuildState  BY <2>2 DEF RebuildState
    <2> QED BY <2>1, <2>3
  <1>3. ASSUME NEW d \in D, NEW n \in 1 .. Len(exts) PROVE T(d, n) \in D
    <2>1. exts[n] \in ExtensionType  BY <1>1, ElementOfSeq
    <2> QED BY <1>3, <2>1, RebuildOneIn
  <1>4. PICK f : f = CHOOSE g : g = F(g)  OBVIOUS
  <1>5. RebuildExtensions(exts, outer) = f[Len(exts)]  BY <1>4 DEF RebuildExtensions
  <1> HIDE DEF T, D, B
  <1>6. \E g \in [0 .. Len(exts) -> D] : g = F(g)
    <2>1. PICK G : G = [p \in D \X (1 .. Len(exts)) |-> T(p[1], p[2])]  OBVIOUS
    <2>2. G \in [D \X (1 .. Len(exts)) -> D]  BY <1>3, <2>1
    <2>3. PICK g \in [0 .. Len(exts) -> D] : g[0] = B /\ \A n \in 1 .. Len(exts) : g[n] = G[g[n - 1], n]
      <3>1. PICK N : N = Len(exts)  OBVIOUS
      <3>2. N \in Nat /\ StepIn(G, D, N)  BY <1>1, <2>2, <3>1 DEF StepIn
      <3>3. \E g : Follows(g, D, N, B, G)  BY <1>2, <3>2, StepsExist
      <3> QED BY <3>1, <3>3 DEF Follows
    <2>4. ASSUME NEW n \in 1 .. Len(exts) PROVE g[n] = T(g[n - 1], n)
      <3>1. n - 1 \in 0 .. Len(exts)  BY <1>1
      <3>2. <<g[n - 1], n>> \in D \X (1 .. Len(exts))  BY <2>3, <3>1
      <3> QED BY <2>1, <2>3, <3>2
    <2>5. ASSUME NEW n \in 0 .. Len(exts) PROVE g[n] = IF n = 0 THEN B ELSE T(g[n - 1], n)
      <3>1. n = 0 \/ n \in 1 .. Len(exts)  BY <1>1
      <3> QED BY <2>3, <2>4, <3>1
    <2>6. g = F(g)  BY <2>3, <2>5
    <2> QED BY <2>3, <2>6
  <1>7. f = F(f)
    <2> HIDE DEF F
    <2> QED BY <1>4, <1>6
  <1>8. f[0] = B  BY <1>1, <1>7
  <1>9. ASSUME NEW n \in 1 .. Len(exts) PROVE f[n] = T(f[n - 1], n)
    <2>1. n \in 0 .. Len(exts) /\ n # 0  BY <1>1
    <2> QED BY <1>7, <2>1
  <1>10. f \in [0 .. Len(exts) -> D]
    <2>1. PICK S : S = {k \in Nat : k <= Len(exts) => f[k] \in D}  OBVIOUS
    <2>2. \A k : k \in S <=> k \in Nat /\ (k <= Len(exts) => f[k] \in D)  BY <2>1
    <2>3. 0 \in S  BY <1>2, <1>8, <2>2
    <2>4. ASSUME NEW k \in Nat, k \in S PROVE k + 1 \in S
      <3>1. SUFFICES ASSUME k + 1 <= Len(exts) PROVE f[k + 1] \in D  BY <2>2
      <3>2. f[k] \in D  BY <1>1, <2>2, <2>4, <3>1
      <3>3. k + 1 \in 1 .. Len(exts) /\ (k + 1) - 1 = k  BY <1>1, <3>1
      <3>4. f[k + 1] = T(f[k], k + 1)  BY <1>9, <3>3
      <3> QED BY <1>3, <3>2, <3>3, <3>4
    <2>5. Nat \subseteq S  BY <2>3, <2>4, UpFromZero
    <2>6. \A n \in 0 .. Len(exts) : f[n] \in D  BY <1>1, <2>2, <2>5
    <2>7. \E h : f = [n \in 0 .. Len(exts) |-> h[n]]
      <3>1. PICK h : h = [n \in 0 .. Len(exts) |-> IF n = 0 THEN B ELSE T(f[n - 1], n)]  OBVIOUS
      <3>2. h = [n \in 0 .. Len(exts) |-> h[n]]  BY <3>1
      <3> QED BY <1>7, <3>1, <3>2
    <2> QED BY <2>6, <2>7
  <1> QED BY <1>5, <1>8, <1>9, <1>10 DEF T, B, D

\* The first extensions a client writes: the ECH marker and the key share.
EchExt(mode) == IF mode = "outer" THEN Ext("ech", <<"outer", "payload">>) ELSE Ext("ech", <<"inner">>)
ShareExt(mode, share) == IF mode = "encoded" THEN Ext("outer_extensions", <<"share">>) ELSE Ext("share", share)
EncodeSet(c, mode, share, second, cookie) ==
    Part(mode = "outer" \/ c.ech, EchExt(mode)) \cup {ShareExt(mode, share)} \cup FurtherSet(c, mode, second, cookie)

LEMMA FirstExtensions ==
    ASSUME NEW mode, NEW share \in Seq(Words)
    PROVE /\ EchExt(mode) \in ExtensionType /\ EchExt(mode).type = "ech"
          /\ ShareExt(mode, share) \in ExtensionType
          /\ ShareExt(mode, share).type = IF mode = "encoded" THEN "outer_extensions" ELSE "share"
          /\ ShareExt(mode, share).list = IF mode = "encoded" THEN <<"share">> ELSE share
  <1>1. {"ech", "share", "outer_extensions", "outer", "payload", "inner"} \subseteq Words
    BY CodeWords DEF KnownExtensions
  <1>2. /\ <<"outer", "payload">> \in Seq(Words) /\ <<"inner">> \in Seq(Words) /\ <<"share">> \in Seq(Words)
    BY <1>1, StringLists
  <1>3. EchExt(mode) \in ExtensionType /\ EchExt(mode).type = "ech"
    BY <1>1, <1>2, ExtIs DEF EchExt
  <1>4. CASE mode = "encoded"
    BY <1>1, <1>2, <1>3, <1>4, ExtIs DEF ShareExt
  <1>5. CASE mode # "encoded"
    BY <1>1, <1>2, <1>3, <1>5, ExtIs DEF ShareExt
  <1> QED BY <1>4, <1>5

\* s are the extensions in one of the three forms, r those behind the share.
EncodedAs(c, mode, share, second, cookie, s, r) ==
    /\ Lists(s, EncodeSet(c, mode, share, second, cookie), {"ech", "share", "outer_extensions"} \cup FurtherTypes)
    /\ Len(s) \in Nat \ {0}
    /\ c.psk # "none" => s[Len(s)].type = "psk"
    /\ mode = "outer" \/ c.ech =>
          /\ Len(s) = Len(r) + 2 /\ s[1] = EchExt(mode) /\ s[2] = ShareExt(mode, share)
          /\ \A i \in 1 .. Len(r) : s[i + 2] = r[i]

\* EncodeExtensions in its three forms.
LEMMA EncodeIs ==
    ASSUME NEW c \in ClientContexts, NEW mode, NEW share \in Seq(Words), NEW second,
           NEW cookie \in Seq(Words), NEW s, s = EncodeExtensions(c, mode, share, second, cookie),
           NEW r, r = FurtherExtensions(c, mode, second, cookie)
    PROVE EncodedAs(c, mode, share, second, cookie, s, r)
  <1>1. PICK a, x : a = If(mode = "outer" \/ c.ech, EchExt(mode)) /\ x = <<ShareExt(mode, share)>>  OBVIOUS
  <1>2. If(mode = "outer", Ext("ech", <<"outer", "payload">>)) \o If(mode # "outer" /\ c.ech, Ext("ech", <<"inner">>)) = a
    <2>0. PICK v, w : v = Ext("ech", <<"outer", "payload">>) /\ w = Ext("ech", <<"inner">>)  OBVIOUS
    <2>4. /\ \A y : <<y>> \o <<>> = <<y>> /\ <<>> \o <<y>> = <<y>>
          /\ <<>> \o <<>> = <<>>
      <3>1. ASSUME NEW y PROVE <<y>> \o <<>> = <<y>> /\ <<>> \o <<y>> = <<y>>
        <4>1. <<y>> \in Seq({y})  OBVIOUS
        <4> QED BY <4>1, ConcatEmptySeq
      <3> QED BY <3>1
    <2>1. CASE mode = "outer"  BY <1>1, <2>0, <2>1, <2>4 DEF If, EchExt
    <2>2. CASE mode # "outer" /\ c.ech  BY <1>1, <2>0, <2>2, <2>4 DEF If, EchExt
    <2>3. CASE mode # "outer" /\ ~c.ech  BY <1>1, <2>3, <2>4 DEF If
    <2> QED BY <2>1, <2>2, <2>3
  <1>3. s = (a \o x) \o r  BY <1>1, <1>2 DEF EncodeExtensions, ShareExt
  <1>4. Lists(a, Part(mode = "outer" \/ c.ech, EchExt(mode)), {"ech"})  BY <1>1, FirstExtensions, ListsIf
  <1>5. Lists(x, {ShareExt(mode, share)}, {"share", "outer_extensions"})
    <2>1. PICK t : t = IF mode = "encoded" THEN "outer_extensions" ELSE "share"  OBVIOUS
    <2>2. Lists(x, {ShareExt(mode, share)}, {t})  BY <1>1, <2>1, FirstExtensions, ListsOne
    <2>3. t \in {"share", "outer_extensions"}  BY <2>1
    <2> QED BY <2>2, <2>3 DEF Lists
  <1>6. Lists(r, FurtherSet(c, mode, second, cookie), FurtherTypes)  BY FurtherIs
  <1>7. /\ {"ech"} \cap {"share", "outer_extensions"} = {}
        /\ ({"ech"} \cup {"share", "outer_extensions"}) \cap FurtherTypes = {}
    BY DEF FurtherTypes, ExtraTypes, KnownExtensions
  <1>8. Lists(a \o x, Part(mode = "outer" \/ c.ech, EchExt(mode)) \cup {ShareExt(mode, share)},
              {"ech"} \cup {"share", "outer_extensions"})
    BY <1>4, <1>5, <1>7, ListsCat
  <1>9. Lists(s, EncodeSet(c, mode, share, second, cookie),
              ({"ech"} \cup {"share", "outer_extensions"}) \cup FurtherTypes)
    <2>1. PICK p, E, T : p = a \o x /\ T = {"ech"} \cup {"share", "outer_extensions"}
                         /\ E = Part(mode = "outer" \/ c.ech, EchExt(mode)) \cup {ShareExt(mode, share)}
      OBVIOUS
    <2>2. Lists(p \o r, E \cup FurtherSet(c, mode, second, cookie), T \cup FurtherTypes)
      BY <1>6, <1>7, <1>8, <2>1, ListsCat
    <2> QED BY <1>3, <2>1, <2>2 DEF EncodeSet
  <1>10. {"ech"} \cup {"share", "outer_extensions"} = {"ech", "share", "outer_extensions"}  OBVIOUS
  <1>11. /\ a \in Seq(ExtensionType) /\ x \in Seq(ExtensionType) /\ r \in Seq(ExtensionType) /\ s \in Seq(ExtensionType)
    BY <1>4, <1>5, <1>6, <1>9 DEF Lists
  <1>12. PICK p, k, n : p = a \o x /\ k = Len(a) /\ n = Len(r)  OBVIOUS
  <1>13. k \in Nat /\ n \in Nat  BY <1>11, <1>12, LenProperties
  <1>14. Len(x) = 1 /\ x[1] = ShareExt(mode, share)  BY <1>1
  <1>15. /\ p \in Seq(ExtensionType) /\ Len(p) = k + 1
         /\ \A i \in 1 .. k + 1 : p[i] = IF i <= k THEN a[i] ELSE x[i - k]
    <2>1. /\ a \o x \in Seq(ExtensionType) /\ Len(a \o x) = Len(a) + Len(x)
          /\ \A i \in 1 .. Len(a) + Len(x) : (a \o x)[i] = IF i <= Len(a) THEN a[i] ELSE x[i - Len(a)]
      BY <1>11, ConcatProperties
    <2> QED BY <1>12, <1>14, <2>1
  <1>16. /\ Len(s) = k + 1 + n
         /\ \A i \in 1 .. k + 1 + n : s[i] = IF i <= k + 1 THEN p[i] ELSE r[i - (k + 1)]
    <2>1. s = p \o r  BY <1>3, <1>12
    <2>2. /\ Len(p \o r) = Len(p) + Len(r)
          /\ \A i \in 1 .. Len(p) + Len(r) : (p \o r)[i] = IF i <= Len(p) THEN p[i] ELSE r[i - Len(p)]
      BY <1>11, <1>15, ConcatProperties
    <2> QED BY <1>12, <1>15, <2>1, <2>2
  <1>17. Len(s) \in Nat \ {0}  BY <1>13, <1>16
  <1>18. c.psk # "none" => s[Len(s)].type = "psk"
    <2>1. HAVE c.psk # "none"
    <2>2. n \in Nat \ {0} /\ r[n].type = "psk"  BY <1>12, <2>1, FurtherIs
    <2>3. k + 1 + n \in 1 .. k + 1 + n /\ ~(k + 1 + n <= k + 1) /\ (k + 1 + n) - (k + 1) = n  BY <1>13, <2>2
    <2>4. s[k + 1 + n] = r[n]  BY <1>16, <2>3
    <2> QED BY <1>16, <2>2, <2>4
  <1>19. mode = "outer" \/ c.ech =>
            /\ Len(s) = n + 2 /\ s[1] = EchExt(mode) /\ s[2] = ShareExt(mode, share)
            /\ \A i \in 1 .. n : s[i + 2] = r[i]
    <2>1. HAVE mode = "outer" \/ c.ech
    <2>2. a = <<EchExt(mode)>>  BY <1>1, <2>1 DEF If
    <2>3. k = 1 /\ a[1] = EchExt(mode)  BY <1>12, <2>2
    <2>4. p[1] = a[1] /\ p[2] = x[1]
      <3>1. 1 \in 1 .. k + 1 /\ 2 \in 1 .. k + 1 /\ 1 <= k /\ ~(2 <= k) /\ 2 - k = 1  BY <2>3
      <3> QED BY <1>15, <3>1
    <2>5. s[1] = p[1] /\ s[2] = p[2] /\ Len(s) = n + 2
      <3>1. 1 \in 1 .. k + 1 + n /\ 2 \in 1 .. k + 1 + n /\ 1 <= k + 1 /\ 2 <= k + 1 /\ k + 1 + n = n + 2
        BY <1>13, <2>3
      <3> QED BY <1>16, <3>1
    <2>6. ASSUME NEW i \in 1 .. n PROVE s[i + 2] = r[i]
      <3>1. i + 2 \in 1 .. k + 1 + n /\ ~(i + 2 <= k + 1) /\ (i + 2) - (k + 1) = i  BY <1>13, <2>3
      <3> QED BY <1>16, <3>1
    <2> QED BY <1>14, <2>3, <2>4, <2>5, <2>6
  <1> QED BY <1>9, <1>10, <1>12, <1>17, <1>18, <1>19 DEF EncodedAs

\* The encoded inner extensions and the outer ones give the inner ones back.
LEMMA RebuildsInner ==
    ASSUME NEW c \in ClientContexts, c.ech, NEW share \in Seq(Words), NEW second, NEW cookie \in Seq(Words),
           NEW r, r = RebuildExtensions(EncodeExtensions(c, "encoded", share, second, cookie),
                                        EncodeExtensions(c, "outer", share, second, cookie))
    PROVE r.bad = FALSE /\ r.out = EncodeExtensions(c, "inner", share, second, cookie)
  <1>1. PICK I, X, O, R : /\ I = EncodeExtensions(c, "inner", share, second, cookie)
                          /\ X = EncodeExtensions(c, "encoded", share, second, cookie)
                          /\ O = EncodeExtensions(c, "outer", share, second, cookie)
                          /\ R = FurtherExtensions(c, "inner", second, cookie)
    OBVIOUS
  <1>2. FurtherExtensions(c, "encoded", second, cookie) = R  BY <1>1 DEF FurtherExtensions, OfferedIdentity
  <1>3. PICK n : n = Len(R)  OBVIOUS
  <1>4. Lists(R, FurtherSet(c, "inner", second, cookie), FurtherTypes)  BY <1>1, FurtherIs
  <1>5. R \in Seq(ExtensionType) /\ n \in Nat /\ DOMAIN R = 1 .. n  BY <1>3, <1>4, LenProperties DEF Lists
  <1>6. /\ Len(I) = n + 2 /\ I[1] = EchExt("inner") /\ I[2] = ShareExt("inner", share)
        /\ \A i \in 1 .. n : I[i + 2] = R[i]
    <2>1. PICK mode : mode = "inner"  OBVIOUS
    <2>2. EncodedAs(c, mode, share, second, cookie, I, R)  BY <1>1, <2>1, EncodeIs
    <2> QED BY <1>3, <2>1, <2>2 DEF EncodedAs
  <1>7. /\ Len(X) = n + 2 /\ X[1] = EchExt("encoded") /\ X[2] = ShareExt("encoded", share)
        /\ \A i \in 1 .. n : X[i + 2] = R[i]
    <2>1. PICK mode, R2 : mode = "encoded" /\ R2 = FurtherExtensions(c, "encoded", second, cookie)  OBVIOUS
    <2>2. /\ Len(X) = Len(R2) + 2 /\ X[1] = EchExt(mode) /\ X[2] = ShareExt(mode, share)
          /\ \A i \in 1 .. Len(R2) : X[i + 2] = R2[i]
      <3>1. EncodedAs(c, mode, share, second, cookie, X, R2)  BY <1>1, <2>1, EncodeIs
      <3> QED BY <3>1 DEF EncodedAs
    <2> QED BY <1>2, <1>3, <2>1, <2>2
  <1>8. Lists(O, EncodeSet(c, "outer", share, second, cookie), {"ech", "share", "outer_extensions"} \cup FurtherTypes)
        /\ Len(O) \in Nat \ {0} /\ Len(O) >= 2 /\ O[2] = ShareExt("outer", share)
    <2>1. PICK mode, R2 : mode = "outer" /\ R2 = FurtherExtensions(c, "outer", second, cookie)  OBVIOUS
    <2>2. /\ Lists(O, EncodeSet(c, mode, share, second, cookie), {"ech", "share", "outer_extensions"} \cup FurtherTypes)
          /\ Len(O) \in Nat \ {0} /\ Len(O) = Len(R2) + 2 /\ O[2] = ShareExt(mode, share)
      <3>1. EncodedAs(c, mode, share, second, cookie, O, R2)  BY <1>1, <2>1, EncodeIs
      <3> QED BY <2>1, <3>1 DEF EncodedAs
    <2>3. Lists(R2, FurtherSet(c, "outer", second, cookie), FurtherTypes)  BY <2>1, FurtherIs
    <2>4. Len(R2) \in Nat  BY <2>3, LenProperties DEF Lists
    <2> QED BY <2>1, <2>2, <2>4
  <1>9. I \in Seq(ExtensionType) /\ X \in Seq(ExtensionType) /\ O \in Seq(ExtensionType)
    <2>1. EncodedAs(c, "inner", share, second, cookie, I, R)  BY <1>1, EncodeIs
    <2>2. EncodedAs(c, "encoded", share, second, cookie, X, R)  BY <1>1, <1>2, EncodeIs
    <2> QED BY <1>8, <2>1, <2>2 DEF Lists, EncodedAs
  <1>10. PICK f \in [0 .. Len(X) -> RebuildState] :
             /\ f[0] = [out |-> <<>>, rest |-> O, bad |-> FALSE]
             /\ \A k \in 1 .. Len(X) : f[k] = RebuildOne(f[k - 1], X[k])
             /\ RebuildExtensions(X, O) = f[Len(X)]
    BY <1>9, RebuildFollows
  <1>11. PICK w, v : w = EchExt("inner") /\ v = ShareExt("inner", share)  OBVIOUS
  <1>12. /\ w \in ExtensionType /\ w.type = "ech" /\ EchExt("encoded") = w
         /\ v \in ExtensionType /\ v.type = "share" /\ ShareExt("outer", share) = v
         /\ ShareExt("encoded", share).type = "outer_extensions" /\ ShareExt("encoded", share).list = <<"share">>
    <2>1. w \in ExtensionType /\ w.type = "ech" /\ v \in ExtensionType /\ v.type = "share"
      BY <1>11, FirstExtensions
    <2>2. EchExt("encoded") = w /\ ShareExt("outer", share) = v  BY <1>11 DEF EchExt, ShareExt
    <2>3. ShareExt("encoded", share).type = "outer_extensions" /\ ShareExt("encoded", share).list = <<"share">>
      BY FirstExtensions
    <2> QED BY <2>1, <2>2, <2>3
  <1>13. f[1].out = <<w>> /\ f[1].rest = O /\ f[1].bad = FALSE
    <2>1. 1 \in 1 .. Len(X) /\ 1 - 1 = 0 /\ 0 \in 0 .. Len(X)  BY <1>5, <1>7
    <2>2. f[1] = RebuildOne(f[0], w)  BY <1>7, <1>10, <1>12, <2>1
    <2>3. w.type # "outer_extensions"  BY <1>12
    <2>4. f[1] = [f[0] EXCEPT !.out = Append(f[0].out, w)]  BY <1>10, <2>2, <2>3 DEF RebuildOne
    <2>5. Append(<<>>, w) = <<w>>  OBVIOUS
    <2>6. PICK l : l = <<>>  OBVIOUS
    <2>7. f[0] = [out |-> l, rest |-> O, bad |-> FALSE]  BY <1>10, <2>6
    <2>8. PICK a : a = Append(l, w)  OBVIOUS
    <2>9. f[1] = [f[0] EXCEPT !.out = a]  BY <2>4, <2>7, <2>8
    <2>10. f[1].out = a /\ f[1].rest = O /\ f[1].bad = FALSE
      <3>1. PICK b : b = f[0]  OBVIOUS
      <3>0. b \in RebuildState  BY <1>10, <2>1, <3>1
      <3>4. b = [out |-> l, rest |-> O, bad |-> FALSE]  BY <2>7, <3>1
      <3>5. b.rest = O  BY <3>4
      <3>6. b.bad = FALSE  BY <3>4
      <3>2. b \in RebuildState /\ b.rest = O /\ b.bad = FALSE  BY <3>0, <3>5, <3>6
      <3>3. f[1] = [b EXCEPT !.out = a]  BY <2>9, <3>1
      <3> QED BY <3>2, <3>3 DEF RebuildState
    <2> QED BY <2>5, <2>6, <2>8, <2>10
  <1>14. f[2].out = <<w, v>> /\ f[2].bad = FALSE
    <2>1. 2 \in 1 .. Len(X) /\ 2 - 1 = 1 /\ 1 \in 0 .. Len(X)  BY <1>5, <1>7
    <2>2. PICK y : y = ShareExt("encoded", share)  OBVIOUS
    <2>3. f[2] = RebuildOne(f[1], y)  BY <1>7, <1>10, <2>1, <2>2
    <2>4. PICK l : l = <<"share">>  OBVIOUS
    <2>5. l # <<>> /\ Len(l) = 1 /\ l[1] = "share"  BY <2>4
    <2>6. RebuildOne(f[1], y) = TakeReferences(f[1], l)  BY <1>12, <2>2, <2>4, <2>5 DEF RebuildOne
    <2>7. "share" \in Words /\ l \in Seq(Words)
      <3>1. "share" \in Words  BY CodeWords DEF KnownExtensions
      <3> QED BY <2>4, <3>1, StringLists
    <2>8. f[1] \in RebuildState  BY <1>10, <2>1
    <2>9. TakeReferences(f[1], l) = TakeReference(f[1], "share")  BY <2>5, <2>7, <2>8, TakeReferencesIn
    <2>10. f[1].rest = O /\ f[1].out = <<w>> /\ ~f[1].bad  BY <1>13
    <2>11. 2 \in DOMAIN O /\ DOMAIN O = 1 .. Len(O)  BY <1>8, <1>9, LenProperties
    <2>12. O[2] = v /\ v.type = "share"  BY <1>8, <1>12
    <2>13. TypePlaces(O, "share") = {2}
      <3>1. \A i, j \in DOMAIN O : O[i].type = O[j].type => i = j  BY <1>8 DEF Lists
      <3>2. \A i \in DOMAIN O : O[i].type = "share" => i = 2  BY <2>11, <2>12, <3>1
      <3> QED BY <2>11, <2>12, <3>2 DEF TypePlaces
    <2>14. PICK t : t = TakeReference(f[1], "share")  OBVIOUS
    <2>15. t.out = Append(f[1].out, f[1].rest[2]) /\ t.bad = FALSE
      <3>1. PICK st, k : st = f[1] /\ k = "share"  OBVIOUS
      <3>2. Copied(st, k, t)  BY <2>8, <2>14, <3>1, TakeReferenceIs
      <3>3. 2 \in DOMAIN st.rest /\ TypePlaces(st.rest, k) = {2} /\ ~st.bad /\ k # "ech"
        BY <2>10, <2>11, <2>13, <3>1
      <3> QED BY <3>1, <3>2, <3>3 DEF Copied
    <2>16. Append(<<w>>, v) = <<w, v>>  BY Lists2
    <2> QED BY <2>3, <2>6, <2>9, <2>10, <2>12, <2>14, <2>15, <2>16
  <1> DEFINE Agrees(s, k) == s \in Seq(ExtensionType) /\ Len(s) = k /\ \A j \in 1 .. k : s[j] = I[j]
  <1>15. Agrees(f[2].out, 2)
    <2>1. PICK s : s = <<w, v>>  OBVIOUS
    <2>2. s \in Seq(ExtensionType) /\ Len(s) = 2 /\ s[1] = w /\ s[2] = v  BY <1>12, <2>1
    <2>3. \A j \in 1 .. 2 : j = 1 \/ j = 2  OBVIOUS
    <2>4. \A j \in 1 .. 2 : s[j] = I[j]  BY <1>6, <1>11, <2>2, <2>3
    <2> QED BY <1>14, <2>1, <2>2, <2>4
  <1>16. PICK S : S = {k \in Nat : k <= n => Agrees(f[k + 2].out, k + 2) /\ f[k + 2].bad = FALSE}  OBVIOUS
  <1> HIDE DEF Agrees
  <1>17. \A k : k \in S <=> k \in Nat /\ (k <= n => Agrees(f[k + 2].out, k + 2) /\ f[k + 2].bad = FALSE)  BY <1>16
  <1>18. 0 \in S
    <2>1. 0 + 2 = 2 /\ 0 \in Nat  OBVIOUS
    <2> QED BY <1>14, <1>15, <1>17, <2>1
  <1>19. ASSUME NEW k \in Nat, k \in S PROVE k + 1 \in S
    <2>1. SUFFICES ASSUME k + 1 <= n PROVE Agrees(f[k + 3].out, k + 3) /\ f[k + 3].bad = FALSE
      <3>1. (k + 1) + 2 = k + 3 /\ k + 1 \in Nat  OBVIOUS
      <3> QED BY <1>17, <2>1, <3>1
    <2>2. k <= n  BY <1>5, <2>1
    <2>3. PICK s : s = f[k + 2].out  OBVIOUS
    <2>4. Agrees(s, k + 2) /\ f[k + 2].bad = FALSE  BY <1>17, <1>19, <2>2, <2>3
    <2>5. k + 3 \in 1 .. Len(X) /\ (k + 3) - 1 = k + 2 /\ k + 2 \in 0 .. Len(X) /\ k + 1 \in 1 .. n /\ (k + 1) + 2 = k + 3
      BY <1>5, <1>7, <2>1
    <2>6. X[k + 3] = R[k + 1] /\ I[k + 3] = R[k + 1]  BY <1>6, <1>7, <2>5
    <2>7. PICK x : x = R[k + 1]  OBVIOUS
    <2>8. x \in ExtensionType  BY <1>3, <1>5, <2>5, <2>7, ElementOfSeq
    <2>9. x.type # "outer_extensions"
      <3>1. x \in ToSet(R)  BY <1>5, <2>5, <2>7 DEF ToSet
      <3>2. x.type \in FurtherTypes  BY <1>4, <3>1 DEF Lists
      <3> QED BY <3>2 DEF FurtherTypes, ExtraTypes, KnownExtensions
    <2>10. f[k + 3] = RebuildOne(f[k + 2], x)  BY <1>10, <2>5, <2>6, <2>7
    <2>11. f[k + 2] \in RebuildState  BY <1>10, <2>5
    <2>12. f[k + 3] = [f[k + 2] EXCEPT !.out = Append(s, x)]  BY <2>3, <2>9, <2>10, <2>11 DEF RebuildOne, RebuildState
    <2>13. PICK a : a = Append(s, x)  OBVIOUS
    <2>14. f[k + 3].out = a /\ f[k + 3].bad = FALSE  BY <2>4, <2>11, <2>12, <2>13 DEF RebuildState
    <2>15. s \in Seq(ExtensionType) /\ Len(s) = k + 2 /\ \A j \in 1 .. k + 2 : s[j] = I[j]  BY <2>4 DEF Agrees
    <2>16. a \in Seq(ExtensionType) /\ Len(a) = k + 3 /\ a[k + 3] = x /\ \A j \in 1 .. k + 2 : a[j] = s[j]
      <3>1. /\ a \in Seq(ExtensionType) /\ Len(a) = Len(s) + 1 /\ a[Len(s) + 1] = x
            /\ \A j \in 1 .. Len(s) : a[j] = s[j]
        BY <2>8, <2>13, <2>15, AppendProperties
      <3>2. (k + 2) + 1 = k + 3  OBVIOUS
      <3> QED BY <2>15, <3>1, <3>2
    <2>17. \A j \in 1 .. k + 3 : j = k + 3 \/ j \in 1 .. k + 2  OBVIOUS
    <2>18. \A j \in 1 .. k + 3 : a[j] = I[j]  BY <2>6, <2>7, <2>15, <2>16, <2>17
    <2> QED BY <2>14, <2>16, <2>18 DEF Agrees
  <1>20. n \in S
    <2>1. Nat \subseteq S  BY <1>18, <1>19, UpFromZero
    <2> QED BY <1>5, <2>1
  <1>21. Agrees(f[n + 2].out, n + 2) /\ f[n + 2].bad = FALSE  BY <1>5, <1>17, <1>20
  <1>22. r = f[n + 2]  BY <1>1, <1>7, <1>10
  <1>23. r.out = I
    <2>1. PICK s : s = r.out  OBVIOUS
    <2>2. s \in Seq(ExtensionType) /\ Len(s) = n + 2 /\ \A j \in 1 .. n + 2 : s[j] = I[j]
      BY <1>21, <1>22, <2>1 DEF Agrees
    <2>3. s = I  BY <1>6, <1>9, <2>2, SeqEqual
    <2> QED BY <2>1, <2>3
  <1> QED BY <1>1, <1>21, <1>22, <1>23

HelloRecord ==
    [version : Nat, session : BOOLEAN, suites : Seq(Words), compression : Seq(Nat), exts : Seq(ExtensionType)]

\* h is a client's hello with the extensions s.
IsHello(h, c, mode, s) ==
    /\ h \in HelloRecord /\ h.version = 772 /\ h.suites = c.suites /\ h.compression = <<0>>
    /\ h.exts = s
    /\ h.session <=> mode # "encoded"

LEMMA EncodedHello ==
    ASSUME NEW c \in ClientContexts, NEW mode, NEW share \in Seq(Words), NEW second,
           NEW cookie \in Seq(Words), NEW h, h = EncodeClientHello(c, mode, share, second, cookie)
    PROVE IsHello(h, c, mode, EncodeExtensions(c, mode, share, second, cookie))
  <1>1. PICK x, y, z, b : /\ x = EncodeExtensions(c, mode, share, second, cookie) /\ y = c.suites /\ z = <<0>>
                          /\ b = (mode # "encoded")
    OBVIOUS
  <1>2. y \in Seq(Words) /\ z \in Seq(Nat) /\ b \in BOOLEAN  BY <1>1, ContextWords
  <1>3. x \in Seq(ExtensionType)
    <2>1. PICK r : r = FurtherExtensions(c, mode, second, cookie)  OBVIOUS
    <2>2. EncodedAs(c, mode, share, second, cookie, x, r)  BY <1>1, <2>1, EncodeIs
    <2> QED BY <2>2 DEF EncodedAs, Lists
  <1>4. h = [version |-> 772, session |-> b, suites |-> y, compression |-> z, exts |-> x]
    BY <1>1 DEF EncodeClientHello
  <1>5. h \in HelloRecord  BY <1>2, <1>3, <1>4 DEF HelloRecord
  <1>6. h.version = 772 /\ h.suites = y /\ h.compression = z /\ h.exts = x  BY <1>4
  <1>7. h.session = b  BY <1>4
  <1>8. b <=> mode # "encoded"  BY <1>1
  <1>9. h.session <=> mode # "encoded"  BY <1>7, <1>8
  <1>10. IsHello(h, c, mode, x)  BY <1>1, <1>5, <1>6, <1>9 DEF IsHello
  <1> QED BY <1>1, <1>10

\* The form a server gets to decode: the inner one, or the outer one of an ECH
\* it does not open.
Form(c, inner) == IF ~inner /\ c.ech THEN "outer" ELSE "inner"

\* What arrives is that form of what the client means.
LEMMA ArrivingIs ==
    ASSUME NEW c \in ClientContexts, NEW inner, inner => c.ech, NEW share \in Seq(Words), NEW second,
           NEW cookie \in Seq(Words)
    PROVE /\ Arriving(c, inner, share, second, cookie).bad = FALSE
          /\ Arriving(c, inner, share, second, cookie).hello =
                EncodeClientHello(c, Form(c, inner), share, second, cookie)
  <1>1. CASE ~inner
    <2>1. PICK h : h = EncodeClientHello(c, IF c.ech THEN "outer" ELSE "inner", share, second, cookie)  OBVIOUS
    <2>2. Arriving(c, inner, share, second, cookie) = [bad |-> FALSE, hello |-> h]  BY <1>1, <2>1 DEF Arriving
    <2>3. Form(c, inner) = IF c.ech THEN "outer" ELSE "inner"  BY <1>1 DEF Form
    <2>4. ([bad |-> FALSE, hello |-> h]).hello = h  OBVIOUS
    <2>5. ([bad |-> FALSE, hello |-> h]).bad = FALSE  OBVIOUS
    <2> QED BY <2>1, <2>2, <2>3, <2>4, <2>5
  <1>2. CASE inner
    <2>1. c.ech /\ Form(c, inner) = "inner"  BY <1>2 DEF Form
    <2>2. PICK x, o, i, r :
             /\ x = EncodeClientHello(c, "encoded", share, second, cookie)
             /\ o = EncodeClientHello(c, "outer", share, second, cookie)
             /\ i = EncodeClientHello(c, "inner", share, second, cookie)
             /\ r = RebuildExtensions(EncodeExtensions(c, "encoded", share, second, cookie),
                                      EncodeExtensions(c, "outer", share, second, cookie))
      OBVIOUS
    <2>3. r.bad = FALSE /\ r.out = EncodeExtensions(c, "inner", share, second, cookie)  BY <2>1, <2>2, RebuildsInner
    <2>4. /\ x \in HelloRecord /\ x.version = 772 /\ x.suites = c.suites /\ x.compression = <<0>>
          /\ x.exts = EncodeExtensions(c, "encoded", share, second, cookie) /\ ~x.session
      <3>1. IsHello(x, c, "encoded", EncodeExtensions(c, "encoded", share, second, cookie))
        BY <2>2, EncodedHello
      <3> QED BY <3>1 DEF IsHello
    <2>5. /\ o \in HelloRecord /\ o.exts = EncodeExtensions(c, "outer", share, second, cookie) /\ o.session
      <3>1. IsHello(o, c, "outer", EncodeExtensions(c, "outer", share, second, cookie))
        BY <2>2, EncodedHello
      <3> QED BY <3>1 DEF IsHello
    <2>6. /\ i \in HelloRecord /\ i.version = 772 /\ i.suites = c.suites /\ i.compression = <<0>>
          /\ i.exts = EncodeExtensions(c, "inner", share, second, cookie) /\ i.session
      <3>1. IsHello(i, c, "inner", EncodeExtensions(c, "inner", share, second, cookie))
        BY <2>2, EncodedHello
      <3> QED BY <3>1 DEF IsHello
    <2>7. PICK g : g = [x EXCEPT !.session = o.session, !.exts = r.out]  OBVIOUS
    <2>8. Arriving(c, inner, share, second, cookie) = [bad |-> x.session \/ r.bad, hello |-> g]
      BY <1>2, <2>2, <2>4, <2>5, <2>7 DEF Arriving, RebuildChInner
    <2>9. g = i
      <3>1. o.session = TRUE /\ i.session = TRUE  BY <2>5, <2>6 DEF HelloRecord
      <3>2. g = [x EXCEPT !.session = TRUE, !.exts = i.exts]  BY <2>3, <2>6, <2>7, <3>1
      <3>3. x = [version |-> x.version, session |-> x.session, suites |-> x.suites, compression |-> x.compression,
                 exts |-> x.exts]
        BY <2>4 DEF HelloRecord
      <3>4. i = [version |-> i.version, session |-> i.session, suites |-> i.suites, compression |-> i.compression,
                 exts |-> i.exts]
        BY <2>6 DEF HelloRecord
      <3>5. PICK p, q, u, d, e : p = x.version /\ q = x.suites /\ u = x.compression /\ d = x.exts /\ e = i.exts  OBVIOUS
      <3>6. x = [version |-> p, session |-> x.session, suites |-> q, compression |-> u, exts |-> d]  BY <3>3, <3>5
      <3>7. i = [version |-> p, session |-> TRUE, suites |-> q, compression |-> u, exts |-> e]
        BY <2>4, <2>6, <3>1, <3>4, <3>5
      <3>8. g = [version |-> p, session |-> TRUE, suites |-> q, compression |-> u, exts |-> e]  BY <3>2, <3>5, <3>6
      <3> QED BY <3>7, <3>8
    <2>10. (x.session \/ r.bad) = FALSE  BY <2>3, <2>4
    <2>11. \A b : ([bad |-> b, hello |-> g]).hello = g /\ ([bad |-> b, hello |-> g]).bad = b  OBVIOUS
    <2> QED BY <2>1, <2>2, <2>8, <2>9, <2>10, <2>11
  <1> QED BY <1>1, <1>2

\* Another client's hello, bare or rebuilt, is a message too.
LEMMA RebuiltTyped ==
    ASSUME NEW x \in HelloRecord, NEW o \in HelloRecord
    PROVE RebuildChInner(x, o).hello \in HelloRecord
  <1>1. x.exts \in Seq(ExtensionType) /\ o.exts \in Seq(ExtensionType) /\ o.session \in BOOLEAN  BY DEF HelloRecord
  <1>2. PICK r : r = RebuildExtensions(x.exts, o.exts)  OBVIOUS
  <1>3. r \in RebuildState
    <2>1. PICK a, b : a = x.exts /\ b = o.exts  OBVIOUS
    <2>2. \E f \in [0 .. Len(a) -> RebuildState] : RebuildExtensions(a, b) = f[Len(a)]
      BY <1>1, <2>1, RebuildFollows
    <2>3. Len(a) \in 0 .. Len(a)  BY <1>1, <2>1, LenProperties
    <2> QED BY <1>2, <2>1, <2>2, <2>3
  <1>4. PICK g : g = [x EXCEPT !.session = o.session, !.exts = r.out]  OBVIOUS
  <1>5. r.out \in Seq(ExtensionType)  BY <1>3 DEF RebuildState
  <1>6. g \in HelloRecord  BY <1>1, <1>4, <1>5 DEF HelloRecord
  <1>7. RebuildChInner(x, o) = [bad |-> x.session \/ r.bad, hello |-> g]  BY <1>2, <1>4 DEF RebuildChInner
  <1>8. \A b : ([bad |-> b, hello |-> g]).hello = g  OBVIOUS
  <1> QED BY <1>6, <1>7, <1>8

LEMMA OtherTyped ==
    ASSUME NEW v \in Nat, NEW z \in Seq(Nat), NEW x \in Seq(ExtensionType)
    PROVE OtherHello(v, z, x) \in HelloRecord
  <1>1. Chacha \in Words /\ "aes" \in Words  BY CodeWords DEF Chacha
  <1>2. PICK y : y = <<Chacha, "aes">>  OBVIOUS
  <1>3. y \in Seq(Words)  BY <1>1, <1>2, StringLists
  <1>4. OtherHello(v, z, x) = [version |-> v, session |-> FALSE, suites |-> y, compression |-> z, exts |-> x]
    BY <1>2 DEF OtherHello
  <1> QED BY <1>3, <1>4 DEF HelloRecord

\* With other suites it stays one.
LEMMA HelloChanged ==
    ASSUME NEW o \in HelloRecord, NEW y \in Seq(Words)
    PROVE /\ [o EXCEPT !.suites = y] \in HelloRecord /\ [o EXCEPT !.suites = y].exts = o.exts
  <1>1. o = [version |-> o.version, session |-> o.session, suites |-> o.suites, compression |-> o.compression,
             exts |-> o.exts]
    BY DEF HelloRecord
  <1>2. /\ o.version \in Nat /\ o.session \in BOOLEAN /\ o.suites \in Seq(Words) /\ o.compression \in Seq(Nat)
        /\ o.exts \in Seq(ExtensionType)
    BY DEF HelloRecord
  <1>3. PICK a, b, c, d, e : /\ a = o.version /\ b = o.session /\ c = o.suites /\ d = o.compression /\ e = o.exts
    OBVIOUS
  <1>4. o = [version |-> a, session |-> b, suites |-> c, compression |-> d, exts |-> e]  BY <1>1, <1>3
  <1>8. [o EXCEPT !.suites = y] = [version |-> a, session |-> b, suites |-> y, compression |-> d, exts |-> e]  BY <1>4
  <1>9. \A p \in Nat, q \in BOOLEAN, r \in Seq(Words), t \in Seq(Nat), w \in Seq(ExtensionType) :
           [version |-> p, session |-> q, suites |-> r, compression |-> t, exts |-> w] \in HelloRecord
    BY DEF HelloRecord
  <1>10. ([version |-> a, session |-> b, suites |-> y, compression |-> d, exts |-> e]).exts = e  OBVIOUS
  <1> QED BY <1>2, <1>3, <1>8, <1>9, <1>10

LEMMA OthersTyped ==
    ASSUME NEW h \in OtherHellos
    PROVE h \in HelloRecord
  <1>0. <<0>> \in Seq(Nat) /\ <<>> \in Seq(Nat) /\ <<>> \in Seq(ExtensionType)  OBVIOUS
  <1>1. CASE h \in {OtherHello(768, <<0>>, <<>>), OtherHello(769, <<0>>, <<>>), OtherHello(772, <<>>, <<>>)}
    <2>1. PICK a, b, d, y, z, x : a = 768 /\ b = 769 /\ d = 772 /\ y = <<0>> /\ z = <<>> /\ x = <<>>  OBVIOUS
    <2>2. a \in Nat /\ b \in Nat /\ d \in Nat /\ y \in Seq(Nat) /\ z \in Seq(Nat) /\ x \in Seq(ExtensionType)
      BY <1>0, <2>1
    <2>3. OtherHello(a, y, x) \in HelloRecord /\ OtherHello(b, y, x) \in HelloRecord /\ OtherHello(d, z, x) \in HelloRecord
      BY <2>2, OtherTyped
    <2>4. h \in {OtherHello(a, y, x), OtherHello(b, y, x), OtherHello(d, z, x)}  BY <1>1, <2>1
    <2> QED BY <2>3, <2>4
  <1>2. CASE h \in {OtherHello(772, <<0>>, <<Ext("versions", <<"tls13">>)>> \o s) :
                       s \in SeqOf(OtherExtensions, MaxExtensions)}
    <2>1. PICK s \in SeqOf(OtherExtensions, MaxExtensions) :
             h = OtherHello(772, <<0>>, <<Ext("versions", <<"tls13">>)>> \o s)
      BY <1>2
    <2>2. PICK m \in 0 .. MaxExtensions : s \in [1 .. m -> OtherExtensions]  BY <2>1 DEF SeqOf
    <2>3. m \in Nat
      <3>1. MaxExtensions \in Nat  BY HelloAssumption
      <3> QED BY <2>2, <3>1
    <2>4. OtherExtensions \subseteq ExtensionType
      <3>1. ASSUME NEW e \in OtherExtensions PROVE e \in ExtensionType
        <4>1. e = [type |-> e.type, list |-> e.list, aux |-> e.aux]  BY HelloAssumption
        <4>2. e.type \in Words /\ e.list \in Seq(Words) /\ e.aux \in Seq(Words)  BY ContextWords
        <4>3. PICK t, l, a : t = e.type /\ l = e.list /\ a = e.aux  OBVIOUS
        <4>4. [type |-> t, list |-> l, aux |-> a] \in ExtensionType  BY <4>2, <4>3 DEF ExtensionType
        <4> QED BY <4>1, <4>3, <4>4
      <3> QED BY <3>1
    <2>5. s \in [1 .. m -> ExtensionType]  BY <2>2, <2>4
    <2>6. s \in Seq(ExtensionType)  BY <2>3, <2>5, SeqDef
    <2>7. PICK v : v = Ext("versions", <<"tls13">>)  OBVIOUS
    <2>8. v \in ExtensionType
      <3>1. "versions" \in Words /\ "tls13" \in Words  BY CodeWords DEF KnownExtensions
      <3>2. <<"tls13">> \in Seq(Words)  BY <3>1, StringLists
      <3> QED BY <2>7, <3>1, <3>2, ExtIs
    <2>9. PICK x : x = <<v>> \o s  OBVIOUS
    <2>10. x \in Seq(ExtensionType)
      <3>1. <<v>> \in Seq(ExtensionType)  BY <2>8
      <3> QED BY <2>6, <2>9, <3>1, ConcatProperties
    <2>11. PICK d, y : d = 772 /\ y = <<0>>  OBVIOUS
    <2>12. d \in Nat /\ y \in Seq(Nat)  BY <1>0, <2>11
    <2>13. h = OtherHello(d, y, x)  BY <2>1, <2>7, <2>9, <2>11
    <2> QED BY <2>10, <2>12, <2>13, OtherTyped
  <1> DEFINE A == {OtherHello(768, <<0>>, <<>>), OtherHello(769, <<0>>, <<>>), OtherHello(772, <<>>, <<>>)}
             B == {OtherHello(772, <<0>>, <<Ext("versions", <<"tls13">>)>> \o s) :
                       s \in SeqOf(OtherExtensions, MaxExtensions)}
  <1>3. OtherHellos = A \cup B  BY DEF OtherHellos
  <1>4. (h \in A => h \in HelloRecord) /\ (h \in B => h \in HelloRecord)  BY <1>1, <1>2
  <1> HIDE DEF A, B
  <1> QED BY <1>3, <1>4

LEMMA OuterTyped == OtherOuter \in HelloRecord
  <1>1. {"ech", "share", "alpn", "groups", "outer", "payload", "g1", "h2", "aes"} \subseteq Words
    BY CodeWords DEF KnownExtensions
  <1>2. PICK a, b, c, d : /\ a = Ext("ech", <<"outer", "payload">>) /\ b = Ext("share", <<"g1">>)
                          /\ c = Ext("alpn", <<"h2">>) /\ d = Ext("groups", <<"g1">>)
    OBVIOUS
  <1>3. <<"outer", "payload">> \in Seq(Words) /\ <<"g1">> \in Seq(Words) /\ <<"h2">> \in Seq(Words) /\ <<"aes">> \in Seq(Words)
    BY <1>1, StringLists
  <1>4. a \in ExtensionType /\ b \in ExtensionType /\ c \in ExtensionType /\ d \in ExtensionType
    BY <1>1, <1>2, <1>3, ExtIs
  <1>5. PICK x, y, z : x = <<a, b, c, d>> /\ y = <<"aes">> /\ z = <<0>>  OBVIOUS
  <1>6. x \in Seq(ExtensionType) /\ y \in Seq(Words) /\ z \in Seq(Nat)  BY <1>3, <1>4, <1>5
  <1>7. OtherOuter = [version |-> 772, session |-> TRUE, suites |-> y, compression |-> z, exts |-> x]
    BY <1>2, <1>5 DEF OtherOuter
  <1> QED BY <1>6, <1>7 DEF HelloRecord

---------------------------------------------------------------------------
(* Hello: the steps of a server.                                           *)

ServerTyped(v) ==
    v \in [second : BOOLEAN, inner : BOOLEAN, suite : {v.suite}, name : Seq(Words), retries : Nat,
           cookie : Seq(Words), group : Seq(Words)]

\* A hello that was decoded to its end and passed check_client_hello_constraints.
Checked(inner, h, seen, ch) ==
    /\ UpTo(h.exts, Len(h.exts), seen, ch)
    /\ ch.version = "tls13" /\ h.compression = <<0>>
    /\ ch.hashEnd => ch.last
    /\ ch.early => ch.hashEnd
    /\ inner <=> ch.ech = "inner"

HelloTyped ==
    /\ hserver \in ServerContexts
    /\ hclient \in ClientContexts \/ hclient = [library |-> FALSE]
    /\ hin \in HelloRecord
    /\ ServerTyped(hsrv)
    /\ hclient \in ClientContexts /\ hsrv.inner => hclient.ech

DecodeInv ==
    /\ hstep = "fields" => hpos = 0 /\ hseen = {} /\ hch = NoHello
    /\ hstep = "decode" => UpTo(hin.exts, hpos, hseen, hch)
    /\ hstep \in {"negotiate", "retry", "ok", "psk"} => Checked(hsrv.inner, hin, hseen, hch)

\* The first entry that is in a set.
LEMMA FirstInIs ==
    ASSUME NEW list \in Seq(Words), NEW S, NEW f, f = FirstIn(list, S)
    PROVE \/ f = <<>> /\ ToSet(list) \cap S = {}
          \/ \E x \in ToSet(list) \cap S : f = <<x>>
  <1>1. PICK at : at = {i \in DOMAIN list : list[i] \in S}  OBVIOUS
  <1>2. f = IF at = {} THEN <<>> ELSE <<list[Least(at)]>>  BY <1>1 DEF FirstIn, Least
  <1>3. CASE at = {}
    <2>1. ToSet(list) \cap S = {}  BY <1>1, <1>3 DEF ToSet
    <2> QED BY <1>2, <1>3, <2>1
  <1>4. CASE at # {}
    <2>1. at \in SUBSET Nat  BY <1>1, LenProperties
    <2>2. Least(at) \in at  BY <1>4, <2>1, LeastIs
    <2>3. list[Least(at)] \in ToSet(list) \cap S  BY <1>1, <2>2 DEF ToSet
    <2> QED BY <1>2, <1>4, <2>3
  <1> QED BY <1>3, <1>4

\* What Negotiate goes by and what it leaves in hsrv.
ChosenSuite ==
    SelectCipher(hserver.suites, hin.suites, hserver.preference, hserver.chacha, hserver.pskSuites)
ChosenGroup == SelectNegotiatedGroup(hserver.groups, hch.groups)
Stateless == hserver.cookieKey /\ ~hsrv.inner
NewCookie == IF Stateless THEN ChosenGroup ELSE <<>>
Noted == [hsrv EXCEPT !.suite = ChosenSuite, !.name = SavedName(hch)]
Goes == Refusal(hch) = "" /\ ChosenSuite # 0 /\ (hsrv.second => ChosenSuite = hsrv.suite)

NegotiateAs ==
    \/ Refusal(hch) # "" /\ hstep' = Refusal(hch) /\ hsrv' = hsrv
    \/ /\ Refusal(hch) = "" /\ (ChosenSuite = 0 \/ (hsrv.second /\ ChosenSuite # hsrv.suite))
       /\ hstep' = "handshake_failure" /\ hsrv' = Noted
    \/ Goes /\ CookieReturned(hch) /\ hch.cookie # Share(hch) /\ hstep' = "handshake_failure" /\ hsrv' = Noted
    \/ /\ Goes /\ ~NeedsRetry(hch) /\ (CookieReturned(hch) => hch.cookie = Share(hch))
       /\ hstep' = KeyExchange(hch, hsrv.second \/ CookieReturned(hch)) /\ hsrv' = Noted
    \/ Goes /\ NeedsRetry(hch) /\ ~hch.hasGroups /\ hstep' = "missing_extension" /\ hsrv' = Noted
    \/ Goes /\ NeedsRetry(hch) /\ ChosenGroup = <<>> /\ hstep' = "handshake_failure" /\ hsrv' = Noted
    \/ /\ Goes /\ NeedsRetry(hch) /\ hch.hasGroups /\ ChosenGroup # <<>> /\ hstep' = "retry"
       /\ hsrv' = [IF Stateless THEN [Noted EXCEPT !.suite = 0, !.name = <<>>] ELSE [Noted EXCEPT !.second = TRUE]
                   EXCEPT !.retries = @ + 1, !.cookie = NewCookie,
                          !.group = IF Share(hch) = <<>> THEN <<ChosenGroup[1]>> ELSE <<>>]

LEMMA NegotiateIs ==
    ASSUME Negotiate
    PROVE NegotiateAs
  BY DEF Negotiate, NegotiateAs, Goes, Noted, ChosenSuite, ChosenGroup, Stateless, NewCookie

\* The suite and the name are noted, the rest stays.
NotedAs(v) ==
    /\ ServerTyped(v)
    /\ v.suite = ChosenSuite /\ v.name = SavedName(hch)
    /\ v.second = hsrv.second /\ v.inner = hsrv.inner /\ v.retries = hsrv.retries
    /\ v.cookie = hsrv.cookie /\ v.group = hsrv.group

LEMMA NotedIs ==
    ASSUME ServerTyped(hsrv), hch \in HelloType
    PROVE NotedAs(Noted)
  <1>1. PICK s, n, v : s = ChosenSuite /\ n = SavedName(hch) /\ v = [hsrv EXCEPT !.suite = s, !.name = n]  OBVIOUS
  <1>2. /\ hsrv.second \in BOOLEAN /\ hsrv.inner \in BOOLEAN /\ hsrv.name \in Seq(Words) /\ hsrv.retries \in Nat
        /\ hsrv.cookie \in Seq(Words) /\ hsrv.group \in Seq(Words) /\ hch.sni \in Seq(Words)
    BY DEF ServerTyped, HelloType
  <1>3. n \in Seq(Words)  BY <1>1, <1>2 DEF SavedName
  <1>4. v.suite = s /\ v.name = n /\ v.retries = hsrv.retries /\ v.group = hsrv.group  BY <1>1 DEF ServerTyped
  <1>5. v.second = hsrv.second /\ v.inner = hsrv.inner /\ v.cookie = hsrv.cookie  BY <1>1 DEF ServerTyped
  <1>6. v \in [second : BOOLEAN, inner : BOOLEAN, suite : {s}, name : Seq(Words), retries : Nat,
               cookie : Seq(Words), group : Seq(Words)]
    BY <1>1, <1>2, <1>3 DEF ServerTyped
  <1>7. ServerTyped(v)  BY <1>4, <1>6 DEF ServerTyped
  <1>8. NotedAs(v)  BY <1>1, <1>4, <1>5, <1>7 DEF NotedAs
  <1> QED BY <1>1, <1>8 DEF Noted

\* A retry is noted too, in the cookie alone if there is a key for it.
RetriedAs(v) ==
    /\ ServerTyped(v)
    /\ v.inner = hsrv.inner /\ v.retries = hsrv.retries + 1
    /\ v.second <=> hsrv.second \/ ~Stateless
    /\ v.cookie = NewCookie
    /\ ~Stateless => v.suite = ChosenSuite /\ v.name = SavedName(hch)
    /\ v.group = IF Share(hch) = <<>> THEN <<ChosenGroup[1]>> ELSE <<>>

LEMMA RetriedIs ==
    ASSUME ServerTyped(hsrv), hch \in HelloType, hserver \in ServerContexts, ChosenGroup # <<>>, NEW v,
           v = [IF Stateless THEN [Noted EXCEPT !.suite = 0, !.name = <<>>] ELSE [Noted EXCEPT !.second = TRUE]
                EXCEPT !.retries = @ + 1, !.cookie = NewCookie,
                       !.group = IF Share(hch) = <<>> THEN <<ChosenGroup[1]>> ELSE <<>>]
    PROVE RetriedAs(v)
  <1>1. PICK w : w = Noted  OBVIOUS
  <1>2. NotedAs(w)  BY <1>1, NotedIs
  <1>3. PICK u : u = IF Stateless THEN [w EXCEPT !.suite = 0, !.name = <<>>] ELSE [w EXCEPT !.second = TRUE]  OBVIOUS
  <1>4. PICK g : g = IF Share(hch) = <<>> THEN <<ChosenGroup[1]>> ELSE <<>>  OBVIOUS
  <1>5. PICK t : t = Stateless  OBVIOUS
  <1>6. PICK q : q = NewCookie  OBVIOUS
  <1>7. v = [u EXCEPT !.retries = u.retries + 1, !.cookie = q, !.group = g]  BY <1>1, <1>3, <1>4, <1>6
  <1>8. g \in Seq(Words) /\ q \in Seq(Words)
    <2>1. hch.groups \in Seq(Words)  BY DEF HelloType
    <2>2. PICK x \in ToSet(hch.groups) \cap ToSet(hserver.groups) : ChosenGroup = <<x>>
      BY <2>1, FirstInIs DEF ChosenGroup, SelectNegotiatedGroup
    <2>3. x \in Words
      <3>1. DOMAIN hch.groups = 1 .. Len(hch.groups) /\ \A i \in 1 .. Len(hch.groups) : hch.groups[i] \in Words
        BY <2>1, LenProperties, ElementOfSeq
      <3> QED BY <2>2, <3>1 DEF ToSet
    <2>4. <<ChosenGroup[1]>> = <<x>>  BY <2>2
    <2>5. ChosenGroup = <<x>> /\ <<x>> \in Seq(Words) /\ <<>> \in Seq(Words)  BY <2>2, <2>3, StringLists
    <2> QED BY <1>4, <1>6, <2>4, <2>5 DEF NewCookie
  <1>9. w \in [second : BOOLEAN, inner : BOOLEAN, suite : {w.suite}, name : Seq(Words), retries : Nat,
               cookie : Seq(Words), group : Seq(Words)]
    BY <1>2 DEF NotedAs, ServerTyped
  <1>10. /\ u \in [second : BOOLEAN, inner : BOOLEAN, suite : {u.suite}, name : Seq(Words), retries : Nat,
                   cookie : Seq(Words), group : Seq(Words)]
         /\ u.inner = w.inner /\ u.retries = w.retries
         /\ u.second <=> w.second \/ ~t
         /\ ~t => u.suite = w.suite /\ u.name = w.name
    <2>1. CASE t
      <3>1. PICK l : l = <<>>  OBVIOUS
      <3>2. l \in Seq(Words)  BY <3>1
      <3>3. u = [w EXCEPT !.suite = 0, !.name = l]  BY <1>3, <1>5, <2>1, <3>1
      <3>4. u.suite = 0 /\ u.inner = w.inner /\ u.retries = w.retries /\ u.second = w.second  BY <1>9, <3>3
      <3>5. u \in [second : BOOLEAN, inner : BOOLEAN, suite : {0}, name : Seq(Words), retries : Nat,
                   cookie : Seq(Words), group : Seq(Words)]
        BY <1>9, <3>2, <3>3
      <3> QED BY <2>1, <3>4, <3>5
    <2>2. CASE ~t
      <3>1. u = [w EXCEPT !.second = TRUE]  BY <1>3, <1>5, <2>2
      <3>2. u.suite = w.suite /\ u.inner = w.inner /\ u.retries = w.retries /\ u.second = TRUE /\ u.name = w.name
        BY <1>9, <3>1
      <3>3. u \in [second : BOOLEAN, inner : BOOLEAN, suite : {w.suite}, name : Seq(Words), retries : Nat,
                   cookie : Seq(Words), group : Seq(Words)]
        BY <1>9, <3>1
      <3> QED BY <2>2, <3>2, <3>3
    <2> QED BY <2>1, <2>2
  <1>11. /\ v.inner = u.inner /\ v.retries = u.retries + 1 /\ v.second = u.second
         /\ v.suite = u.suite /\ v.name = u.name /\ v.group = g
    BY <1>7, <1>10
  <1>12. v.cookie = NewCookie  BY <1>6, <1>7, <1>10
  <1>13. v \in [second : BOOLEAN, inner : BOOLEAN, suite : {u.suite}, name : Seq(Words), retries : Nat,
                cookie : Seq(Words), group : Seq(Words)]
    <2>1. PICK k : k = u.retries + 1  OBVIOUS
    <2>2. u.retries \in Nat  BY <1>10
    <2>3. k \in Nat  BY <2>1, <2>2
    <2>4. v = [u EXCEPT !.retries = k, !.cookie = q, !.group = g]  BY <1>7, <2>1
    <2>5. u \in [second : BOOLEAN, inner : BOOLEAN, suite : {u.suite}, name : Seq(Words), retries : Nat,
                 cookie : Seq(Words), group : Seq(Words)]
      BY <1>10
    <2> QED BY <1>8, <2>3, <2>4, <2>5
  <1>14. ServerTyped(v)  BY <1>11, <1>13 DEF ServerTyped
  <1>15. /\ v.inner = hsrv.inner /\ v.retries = hsrv.retries + 1
         /\ v.second <=> hsrv.second \/ ~t
         /\ ~t => v.suite = ChosenSuite /\ v.name = SavedName(hch)
    BY <1>2, <1>10, <1>11 DEF NotedAs
  <1> QED BY <1>4, <1>5, <1>11, <1>12, <1>14, <1>15 DEF RetriedAs

\* The answers a server can end with.
LEMMA Outcomes ==
    /\ Refusal(hch) \in {"", "unsupported_certificate", "decode_error", "handshake_failure"}
    /\ \A second : KeyExchange(hch, second) \in {"psk", "ok", "handshake_failure", "missing_extension", "unknown_psk_identity"}
    /\ Constraints(hch) \in {"illegal", "protocol_version", "negotiate"}
  BY DEF Refusal, KeyExchange, Constraints

\* Any step but the one of a client.
LEMMA DecodeFieldsKeeps ==
    ASSUME HelloTyped, DecodeInv, DecodeFields
    PROVE HelloTyped' /\ DecodeInv'
  <1>1. /\ hstep = "fields" /\ hstep' \in {"protocol_version", "decode_error", "decode"}
        /\ hclient' = hclient /\ hserver' = hserver /\ hin' = hin /\ hpos' = hpos /\ hseen' = hseen /\ hch' = hch
        /\ hsrv' = hsrv
    BY DEF DecodeFields
  <1>2. HelloTyped'  BY <1>1 DEF HelloTyped
  <1>3. hin.exts \in Seq(ExtensionType)  BY DEF HelloTyped, HelloRecord
  <1>4. hpos = 0 /\ hseen = {} /\ hch = NoHello  BY <1>1 DEF DecodeInv
  <1>5. UpTo(hin.exts, hpos, hseen, hch)
    <2>1. PICK E : E = hin.exts  OBVIOUS
    <2>2. UpTo(E, 0, {}, NoHello)  BY <1>3, <2>1, UpToStart
    <2> QED BY <1>4, <2>1, <2>2
  <1>6. UpTo(hin.exts, hpos, hseen, hch)'  BY <1>1, <1>5
  <1>7. DecodeInv'  BY <1>1, <1>6 DEF DecodeInv
  <1> QED BY <1>2, <1>7

LEMMA DecodeExtensionKeeps ==
    ASSUME HelloTyped, DecodeInv, DecodeExtension
    PROVE HelloTyped' /\ DecodeInv'
  <1>1. PICK e : e = hin.exts[hpos + 1]  OBVIOUS
  <1>2. /\ hstep = "decode" /\ hpos < Len(hin.exts)
        /\ hclient' = hclient /\ hserver' = hserver /\ hin' = hin /\ hsrv' = hsrv
        /\ \/ hstep' \in {"illegal", "decode_error"}
           \/ /\ hstep' = hstep /\ TestAndSet(hseen, e.type).ok /\ WellFormed(e) /\ Legal(e, hch)
              /\ hpos' = hpos + 1 /\ hseen' = TestAndSet(hseen, e.type).seen /\ hch' = Decoded(e, hch)
    BY <1>1 DEF DecodeExtension
  <1>3. HelloTyped'  BY <1>2 DEF HelloTyped
  <1>4. hin.exts \in Seq(ExtensionType) /\ hserver \in ServerContexts  BY DEF HelloTyped, HelloRecord
  <1>5. UpTo(hin.exts, hpos, hseen, hch)  BY <1>2 DEF DecodeInv
  <1>6. CASE hstep' \in {"illegal", "decode_error"}  BY <1>3, <1>6 DEF DecodeInv
  <1>7. CASE /\ hstep' = hstep /\ TestAndSet(hseen, e.type).ok /\ WellFormed(e) /\ Legal(e, hch)
             /\ hpos' = hpos + 1 /\ hseen' = TestAndSet(hseen, e.type).seen /\ hch' = Decoded(e, hch)
    <2>1. PICK E : E = hin.exts  OBVIOUS
    <2>2. UpTo(E, hpos + 1, TestAndSet(hseen, e.type).seen, Decoded(e, hch))
      BY <1>1, <1>2, <1>4, <1>5, <1>7, <2>1, UpToStep
    <2>4. hin'.exts = E  BY <1>2, <2>1
    <2>5. UpTo(E, hpos', hseen', hch')  BY <1>7, <2>2
    <2>6. UpTo(hin.exts, hpos, hseen, hch)'  BY <2>4, <2>5
    <2>7. DecodeInv'  BY <1>2, <1>7, <2>6 DEF DecodeInv
    <2> QED BY <1>3, <2>7
  <1> QED BY <1>2, <1>6, <1>7

\* The server's own mode, if it is narrower, changes no other field.
LEMMA ModesOnly ==
    ASSUME NEW E, NEW n, NEW seen, NEW ch, UpTo(E, n, seen, ch), NEW m \in SUBSET Words,
           DheMode(m) = DheMode(ch.modes), NEW d, d = [ch EXCEPT !.modes = m]
    PROVE UpTo(E, n, seen, d) /\ d.version = ch.version /\ (d.hashEnd <=> ch.hashEnd) /\ (d.last <=> ch.last)
          /\ (d.early <=> ch.early) /\ d.ech = ch.ech
  <1>1. ch \in HelloType  BY DEF UpTo
  <1>2. d \in HelloType  BY <1>1 DEF HelloType
  <1>3. /\ d.groups = ch.groups /\ d.shares = ch.shares /\ d.version = ch.version /\ d.sni = ch.sni
        /\ d.certTypes = ch.certTypes /\ d.ech = ch.ech /\ d.unknown = ch.unknown /\ d.ids = ch.ids /\ d.binders = ch.binders
    BY <1>1 DEF HelloType
  <1>4. /\ d.last = ch.last /\ d.hashEnd = ch.hashEnd /\ d.early = ch.early /\ d.cookie = ch.cookie
        /\ d.hasGroups = ch.hasGroups /\ d.hasShares = ch.hasShares /\ DheMode(d.modes) = DheMode(ch.modes)
    BY <1>1 DEF HelloType
  <1>5. UpTo(E, n, seen, d)  BY <1>2, <1>3, <1>4 DEF UpTo
  <1> QED BY <1>3, <1>4, <1>5

LEMMA CheckConstraintsKeeps ==
    ASSUME HelloTyped, DecodeInv, CheckConstraints
    PROVE HelloTyped' /\ DecodeInv'
  <1>1. /\ hstep = "decode" /\ hpos = Len(hin.exts) /\ hstep' = Constraints(hch)
        /\ hclient' = hclient /\ hserver' = hserver /\ hin' = hin /\ hpos' = hpos /\ hseen' = hseen /\ hsrv' = hsrv
        /\ hch' = [hch EXCEPT !.modes = IF hserver.dheOnly THEN hch.modes \ {"psk"} ELSE hch.modes]
    BY DEF CheckConstraints
  <1>2. HelloTyped'  BY <1>1 DEF HelloTyped
  <1>3. UpTo(hin.exts, hpos, hseen, hch)  BY <1>1 DEF DecodeInv
  <1>4. hch \in HelloType  BY <1>3 DEF UpTo
  <1>5. PICK m : m = IF hserver.dheOnly THEN hch.modes \ {"psk"} ELSE hch.modes  OBVIOUS
  <1>6. m \in SUBSET Words /\ DheMode(m) = DheMode(hch.modes)  BY <1>4, <1>5 DEF HelloType, DheMode
  <1>7. PICK E, n, seen, ch, d : E = hin.exts /\ n = hpos /\ seen = hseen /\ ch = hch /\ d = hch'  OBVIOUS
  <1>8. d = [ch EXCEPT !.modes = m]  BY <1>1, <1>5, <1>7
  <1>9. UpTo(E, n, seen, d) /\ d.version = ch.version /\ (d.hashEnd <=> ch.hashEnd) /\ (d.last <=> ch.last)
        /\ (d.early <=> ch.early) /\ d.ech = ch.ech
    BY <1>3, <1>6, <1>7, <1>8, ModesOnly
  <1>10. ASSUME Constraints(ch) = "negotiate" PROVE Checked(hsrv.inner, hin, seen, d)
    <2>1. /\ ch.version = "tls13" /\ hin.compression = <<0>>
          /\ ch.hashEnd => ch.last
          /\ ch.early => ch.hashEnd
          /\ hsrv.inner <=> ch.ech = "inner"
      BY <1>10 DEF Constraints
    <2> QED BY <1>1, <1>7, <1>9, <2>1 DEF Checked
  <1>11. hstep' \in {"illegal", "protocol_version", "negotiate"}  BY <1>1, Outcomes
  <1>12. hstep' = "negotiate" => Checked(hsrv.inner, hin, hseen, hch)'
    <2>1. HAVE hstep' = "negotiate"
    <2>2. Checked(hsrv.inner, hin, seen, d)  BY <1>1, <1>7, <1>10, <2>1
    <2> QED BY <1>1, <1>7, <2>2
  <1>13. DecodeInv'  BY <1>11, <1>12 DEF DecodeInv
  <1> QED BY <1>2, <1>13

LEMMA NegotiateKeeps ==
    ASSUME HelloTyped, DecodeInv, Negotiate
    PROVE HelloTyped' /\ DecodeInv'
  <1>1. /\ hstep = "negotiate"
        /\ hclient' = hclient /\ hserver' = hserver /\ hin' = hin /\ hpos' = hpos /\ hseen' = hseen /\ hch' = hch
    BY DEF Negotiate
  <1>2. Checked(hsrv.inner, hin, hseen, hch)  BY <1>1 DEF DecodeInv
  <1>3. ServerTyped(hsrv) /\ hserver \in ServerContexts  BY DEF HelloTyped
  <1>4. hch \in HelloType  BY <1>2 DEF Checked, UpTo
  <1>5. NotedAs(Noted)  BY <1>3, <1>4, NotedIs
  <1>6. NegotiateAs  BY NegotiateIs
  <1>7. ServerTyped(hsrv') /\ hsrv'.inner = hsrv.inner /\ hstep' \notin {"fields", "decode", "negotiate"}
    <2>1. CASE hsrv' = hsrv /\ hstep' = Refusal(hch) /\ Refusal(hch) # ""
      BY <1>3, <2>1, Outcomes
    <2>2. CASE hsrv' = Noted /\ hstep' \in {"handshake_failure", "missing_extension", "ok", "psk", "unknown_psk_identity"}
      <3>1. NotedAs(hsrv')  BY <1>5, <2>2
      <3> QED BY <2>2, <3>1 DEF NotedAs
    <2>3. CASE /\ ChosenGroup # <<>> /\ hstep' = "retry"
               /\ hsrv' = [IF Stateless THEN [Noted EXCEPT !.suite = 0, !.name = <<>>] ELSE [Noted EXCEPT !.second = TRUE]
                           EXCEPT !.retries = @ + 1, !.cookie = NewCookie,
                                  !.group = IF Share(hch) = <<>> THEN <<ChosenGroup[1]>> ELSE <<>>]
      <3>1. RetriedAs(hsrv')  BY <1>3, <1>4, <2>3, RetriedIs
      <3> QED BY <2>3, <3>1 DEF RetriedAs
    <2>4. \A second : KeyExchange(hch, second) \in {"psk", "ok", "handshake_failure", "missing_extension", "unknown_psk_identity"}  BY Outcomes
    <2> QED BY <1>6, <2>1, <2>2, <2>3, <2>4 DEF NegotiateAs
  <1>8. HelloTyped'  BY <1>1, <1>7 DEF HelloTyped
  <1>9. Checked(hsrv.inner, hin, hseen, hch)'  BY <1>1, <1>2, <1>7
  <1>10. DecodeInv'  BY <1>7, <1>9 DEF DecodeInv
  <1> QED BY <1>8, <1>10

\* The first share is a list of words.
LEMMA FirstShareIs ==
    ASSUME NEW c \in ClientContexts
    PROVE /\ FirstShare(c) \in Seq(Words)
          /\ FirstShare(c) # <<>> => \E x \in ToSet(c.groups) : FirstShare(c) = <<x>>
  <1>1. c.groups \in Seq(Words)  BY ContextWords
  <1>2. c.groups # <<>>  BY HelloAssumption
  <1>3. 1 \in DOMAIN c.groups /\ 1 \in 1 .. Len(c.groups)
    <2>1. Len(c.groups) \in Nat \ {0} /\ DOMAIN c.groups = 1 .. Len(c.groups)  BY <1>1, <1>2, LenProperties, EmptySeq
    <2> QED BY <2>1
  <1>4. PICK x : x = c.groups[1]  OBVIOUS
  <1>5. x \in Words /\ x \in ToSet(c.groups)  BY <1>1, <1>3, <1>4, ElementOfSeq DEF ToSet
  <1>6. <<>> \in Seq(Words) /\ <<x>> \in Seq(Words)  BY <1>5, StringLists
  <1>7. CASE c.psk = "ticket"
    <2>1. PICK y : y = c.ticketGroup  OBVIOUS
    <2>2. y \in ToSet(c.groups)  BY <1>7, <2>1, HelloAssumption
    <2>3. y \in Words
      <3>1. DOMAIN c.groups = 1 .. Len(c.groups) /\ \A i \in 1 .. Len(c.groups) : c.groups[i] \in Words
        BY <1>1, LenProperties, ElementOfSeq
      <3> QED BY <2>2, <3>1 DEF ToSet
    <2>4. FirstShare(c) = <<y>> /\ <<y>> \in Seq(Words)  BY <1>7, <2>1, <2>3, StringLists DEF FirstShare
    <2> QED BY <2>2, <2>4
  <1>8. CASE c.psk # "ticket"
    <2>1. FirstShare(c) = IF c.negotiateFirst THEN <<>> ELSE <<x>>  BY <1>4, <1>8 DEF FirstShare
    <2> QED BY <1>5, <1>6, <2>1
  <1> QED BY <1>7, <1>8

\* What a client of this library answers to a retry.
SecondShare == IF hsrv.group # <<>> THEN hsrv.group ELSE FirstShare(hclient)
NextHello == EncodeClientHello(hclient, Form(hclient, hsrv.inner), SecondShare, TRUE, hsrv.cookie)

LEMMA ClientRetryIs ==
    ASSUME HelloTyped, ClientRetry
    PROVE /\ hstep = "retry" /\ hclient \in ClientContexts /\ SecondShare \in Seq(Words)
          /\ hclient' = hclient /\ hserver' = hserver /\ hsrv' = hsrv
          /\ \/ /\ (hsrv.group # <<>> /\ hsrv.group[1] \notin ToSet(hclient.groups)) \/ SecondShare = <<>>
                /\ hstep' = "client_illegal" /\ hin' = hin
             \/ /\ SecondShare # <<>>
                /\ hin' = NextHello /\ hstep' = "fields" /\ hpos' = 0 /\ hseen' = {} /\ hch' = NoHello
  <1>1. hstep = "retry" /\ hclient.library /\ hclient' = hclient /\ hserver' = hserver /\ hsrv' = hsrv
    BY DEF ClientRetry
  <1>2. hclient \in ClientContexts
    <2>1. ~([library |-> FALSE]).library  OBVIOUS
    <2>2. hclient \in ClientContexts \/ hclient = [library |-> FALSE]  BY DEF HelloTyped
    <2> QED BY <1>1, <2>1, <2>2
  <1>3. SecondShare \in Seq(Words)
    <2>1. hsrv.group \in Seq(Words)  BY DEF HelloTyped, ServerTyped
    <2> QED BY <1>2, <2>1, FirstShareIs DEF SecondShare
  <1>4. PICK a : a = Arriving(hclient, hsrv.inner, SecondShare, TRUE, hsrv.cookie)  OBVIOUS
  <1>5. a.bad = FALSE /\ a.hello = NextHello
    <2>1. PICK c, i, s, t, k : c = hclient /\ i = hsrv.inner /\ s = SecondShare /\ t = TRUE /\ k = hsrv.cookie  OBVIOUS
    <2>2. c \in ClientContexts /\ (i => c.ech) /\ s \in Seq(Words) /\ k \in Seq(Words)
      BY <1>2, <1>3, <2>1 DEF HelloTyped, ServerTyped
    <2>3. /\ Arriving(c, i, s, t, k).bad = FALSE
          /\ Arriving(c, i, s, t, k).hello = EncodeClientHello(c, Form(c, i), s, t, k)
      BY <2>2, ArrivingIs
    <2> QED BY <1>4, <2>1, <2>3 DEF NextHello
  <1>6. IF (hsrv.group # <<>> /\ hsrv.group[1] \notin ToSet(hclient.groups)) \/ SecondShare = <<>>
        THEN hstep' = "client_illegal" /\ UNCHANGED <<hin, hpos, hseen, hch>>
        ELSE /\ hin' = a.hello
             /\ hstep' = IF a.bad THEN "illegal" ELSE "fields"
             /\ hpos' = 0 /\ hseen' = {} /\ hch' = NoHello
    BY <1>4 DEF ClientRetry, SecondShare
  <1>7. CASE (hsrv.group # <<>> /\ hsrv.group[1] \notin ToSet(hclient.groups)) \/ SecondShare = <<>>
    BY <1>1, <1>2, <1>3, <1>6, <1>7
  <1>8. CASE ~((hsrv.group # <<>> /\ hsrv.group[1] \notin ToSet(hclient.groups)) \/ SecondShare = <<>>)
    <2>1. hin' = a.hello /\ hstep' = (IF a.bad THEN "illegal" ELSE "fields") /\ hpos' = 0 /\ hseen' = {} /\ hch' = NoHello
      BY <1>6, <1>8
    <2>2. hin' = NextHello /\ hstep' = "fields"  BY <1>5, <2>1
    <2> QED BY <1>1, <1>2, <1>3, <1>8, <2>1, <2>2
  <1> QED BY <1>7, <1>8

LEMMA ClientRetryKeeps ==
    ASSUME HelloTyped, DecodeInv, ClientRetry
    PROVE HelloTyped' /\ DecodeInv'
  <1>1. /\ hstep = "retry" /\ hclient \in ClientContexts /\ SecondShare \in Seq(Words)
        /\ hclient' = hclient /\ hserver' = hserver /\ hsrv' = hsrv
        /\ \/ hstep' = "client_illegal" /\ hin' = hin
           \/ hin' = NextHello /\ hstep' = "fields" /\ hpos' = 0 /\ hseen' = {} /\ hch' = NoHello
    BY ClientRetryIs
  <1>2. NextHello \in HelloRecord
    <2>1. PICK c, m, s, t, k : c = hclient /\ m = Form(hclient, hsrv.inner) /\ s = SecondShare /\ t = TRUE /\ k = hsrv.cookie
      OBVIOUS
    <2>3. k \in Seq(Words)  BY <2>1 DEF HelloTyped, ServerTyped
    <2>2. IsHello(EncodeClientHello(c, m, s, t, k), c, m, EncodeExtensions(c, m, s, t, k))  BY <1>1, <2>1, <2>3, EncodedHello
    <2> QED BY <2>1, <2>2 DEF NextHello, IsHello
  <1>3. hin' \in HelloRecord  BY <1>1, <1>2 DEF HelloTyped
  <1>4. HelloTyped'  BY <1>1, <1>3 DEF HelloTyped
  <1>5. DecodeInv'  BY <1>1 DEF DecodeInv
  <1> QED BY <1>4, <1>5

LEMMA OtherRetryKeeps ==
    ASSUME HelloTyped, DecodeInv, OtherRetry
    PROVE HelloTyped' /\ DecodeInv'
  <1>1. /\ hstep' = "fields" /\ hpos' = 0 /\ hseen' = {} /\ hch' = NoHello
        /\ hclient' = hclient /\ hserver' = hserver /\ hsrv' = hsrv
    BY DEF OtherRetry
  <1>2. PICK suites \in {hin.suites, <<Chacha>>} : hin' = [hin EXCEPT !.suites = suites]  BY DEF OtherRetry
  <1>3. suites \in Seq(Words)
    <2>1. hin.suites \in Seq(Words)  BY DEF HelloTyped, HelloRecord
    <2>2. Chacha \in Words  BY CodeWords DEF Chacha
    <2>3. <<Chacha>> \in Seq(Words)  BY <2>2, StringLists
    <2> QED BY <1>2, <2>1, <2>3
  <1>4. hin' \in HelloRecord
    <2>1. PICK h : h = hin  OBVIOUS
    <2>2. [h EXCEPT !.suites = suites] \in HelloRecord  BY <1>3, <2>1, HelloChanged DEF HelloTyped
    <2> QED BY <1>2, <2>1, <2>2
  <1>5. HelloTyped'  BY <1>1, <1>4 DEF HelloTyped
  <1>6. DecodeInv'  BY <1>1 DEF DecodeInv
  <1> QED BY <1>5, <1>6

\* The first flight.
LEMMA ServerBegins ==
    ASSUME NEW inner \in BOOLEAN,
           hsrv = [second |-> FALSE, inner |-> inner, suite |-> 0, name |-> <<>>, retries |-> 0, cookie |-> <<>>,
                   group |-> <<>>]
    PROVE ServerTyped(hsrv) /\ hsrv.inner = inner /\ ~hsrv.second /\ hsrv.retries = 0
  <1>1. PICK l, v : l = <<>> /\ v = hsrv  OBVIOUS
  <1>2. v = [second |-> FALSE, inner |-> inner, suite |-> 0, name |-> l, retries |-> 0, cookie |-> l, group |-> l]
    BY <1>1
  <1>3. l \in Seq(Words)  BY <1>1
  <1>4. v.inner = inner  BY <1>2
  <1>5. v.suite = 0 /\ v.retries = 0  BY <1>2
  <1>6. v.second = FALSE  BY <1>2
  <1>7. v \in [second : BOOLEAN, inner : BOOLEAN, suite : {0}, name : Seq(Words), retries : Nat,
               cookie : Seq(Words), group : Seq(Words)]
    BY <1>2, <1>3
  <1>8. ServerTyped(v)  BY <1>5, <1>7 DEF ServerTyped
  <1> QED BY <1>1, <1>4, <1>5, <1>6, <1>8

LEMMA HelloBegun ==
    ASSUME HelloInit
    PROVE /\ HelloTyped /\ DecodeInv /\ ~hsrv.second /\ hsrv.retries = 0
          /\ hclient \in ClientContexts =>
                hstep = "fields" /\ hin = EncodeClientHello(hclient, Form(hclient, hsrv.inner), FirstShare(hclient), FALSE, <<>>)
          /\ hstep \in {"fields", "illegal"}
  <1>1. hserver \in ServerContexts /\ hpos = 0 /\ hseen = {} /\ hch = NoHello  BY DEF HelloInit
  <1>2. ASSUME NEW inner \in {FALSE, hclient.ech}, hclient \in ClientContexts,
               HelloBegins(Arriving(hclient, inner, FirstShare(hclient), FALSE, <<>>), inner)
        PROVE /\ HelloTyped /\ DecodeInv /\ ~hsrv.second /\ hsrv.retries = 0 /\ hstep = "fields"
              /\ hin = EncodeClientHello(hclient, Form(hclient, hsrv.inner), FirstShare(hclient), FALSE, <<>>)
    <2>1. inner \in BOOLEAN /\ (inner => hclient.ech)
      <3>1. hclient.ech \in BOOLEAN  BY <1>2, HelloAssumption
      <3> QED BY <1>2, <3>1
    <2>2. PICK a, c, s, f, g : /\ a = Arriving(hclient, inner, FirstShare(hclient), FALSE, <<>>)
                               /\ c = hclient /\ s = FirstShare(hclient) /\ f = FALSE /\ g = <<>>
      OBVIOUS
    <2>3. c \in ClientContexts /\ s \in Seq(Words) /\ (inner => c.ech) /\ g \in Seq(Words)
      BY <1>2, <2>1, <2>2, FirstShareIs
    <2>4. /\ Arriving(c, inner, s, f, g).bad = FALSE
          /\ Arriving(c, inner, s, f, g).hello = EncodeClientHello(c, Form(c, inner), s, f, g)
      <3>1. PICK i : i = inner  OBVIOUS
      <3>2. i => c.ech  BY <2>3, <3>1
      <3>3. /\ Arriving(c, i, s, f, g).bad = FALSE
            /\ Arriving(c, i, s, f, g).hello = EncodeClientHello(c, Form(c, i), s, f, g)
        BY <2>3, <3>2, ArrivingIs
      <3> QED BY <3>1, <3>3
    <2>5. IsHello(EncodeClientHello(c, Form(c, inner), s, f, g), c, Form(c, inner), EncodeExtensions(c, Form(c, inner), s, f, g))
      BY <2>3, EncodedHello
    <2>6. /\ hin = a.hello /\ hstep = IF a.bad THEN "illegal" ELSE "fields"
          /\ hsrv = [second |-> FALSE, inner |-> inner, suite |-> 0, name |-> <<>>, retries |-> 0, cookie |-> <<>>,
                     group |-> <<>>]
      BY <1>2, <2>2 DEF HelloBegins
    <2>7. hin = EncodeClientHello(c, Form(c, inner), s, f, g) /\ hstep = "fields" /\ hin \in HelloRecord
      BY <2>2, <2>4, <2>5, <2>6 DEF IsHello
    <2>8. ServerTyped(hsrv) /\ hsrv.inner = inner /\ ~hsrv.second /\ hsrv.retries = 0  BY <2>1, <2>6, ServerBegins
    <2>9. HelloTyped  BY <1>1, <1>2, <2>1, <2>7, <2>8 DEF HelloTyped
    <2>10. DecodeInv  BY <1>1, <2>7 DEF DecodeInv
    <2> QED BY <2>2, <2>7, <2>8, <2>9, <2>10
  <1>3. ASSUME NEW inner \in BOOLEAN, NEW a, a.hello \in HelloRecord, hclient = [library |-> FALSE], HelloBegins(a, inner)
        PROVE /\ HelloTyped /\ DecodeInv /\ ~hsrv.second /\ hsrv.retries = 0 /\ hclient \notin ClientContexts
              /\ hstep \in {"fields", "illegal"}
    <2>1. /\ hin = a.hello /\ hstep = IF a.bad THEN "illegal" ELSE "fields"
          /\ hsrv = [second |-> FALSE, inner |-> inner, suite |-> 0, name |-> <<>>, retries |-> 0, cookie |-> <<>>,
                     group |-> <<>>]
      BY <1>3 DEF HelloBegins
    <2>2. ServerTyped(hsrv) /\ ~hsrv.second /\ hsrv.retries = 0  BY <1>3, <2>1, ServerBegins
    <2>3. hclient \notin ClientContexts
      <3>1. ~([library |-> FALSE]).library  OBVIOUS
      <3>2. \A c \in ClientContexts : c.library  BY HelloAssumption
      <3> QED BY <1>3, <3>1, <3>2
    <2>4. HelloTyped  BY <1>1, <1>3, <2>1, <2>2, <2>3 DEF HelloTyped
    <2>5. DecodeInv  BY <1>1, <2>1 DEF DecodeInv
    <2> QED BY <2>1, <2>2, <2>3, <2>4, <2>5
  <1>4. CASE /\ hclient \in ClientContexts
             /\ \E inner \in {FALSE, hclient.ech} :
                   HelloBegins(Arriving(hclient, inner, FirstShare(hclient), FALSE, <<>>), inner)
    BY <1>2, <1>4
  <1>5. CASE /\ hclient = [library |-> FALSE]
             /\ \E h \in OtherHellos :
                   \/ HelloBegins([bad |-> FALSE, hello |-> h], FALSE)
                   \/ HelloBegins(RebuildChInner(h, OtherOuter), TRUE)
    <2>1. PICK h \in OtherHellos : \/ HelloBegins([bad |-> FALSE, hello |-> h], FALSE)
                                   \/ HelloBegins(RebuildChInner(h, OtherOuter), TRUE)
      BY <1>5
    <2>2. h \in HelloRecord  BY OthersTyped
    <2>3. ([bad |-> FALSE, hello |-> h]).hello = h  OBVIOUS
    <2>4. RebuildChInner(h, OtherOuter).hello \in HelloRecord  BY <2>2, OuterTyped, RebuiltTyped
    <2>5. PICK a, b : a = [bad |-> FALSE, hello |-> h] /\ b = RebuildChInner(h, OtherOuter)  OBVIOUS
    <2>6. CASE HelloBegins(a, FALSE)  BY <1>3, <1>5, <2>2, <2>3, <2>5, <2>6
    <2>7. CASE HelloBegins(b, TRUE)  BY <1>3, <1>5, <2>4, <2>5, <2>7
    <2> QED BY <2>1, <2>5, <2>6, <2>7
  <1> QED BY <1>4, <1>5 DEF HelloInit

\* Every step keeps both.
LEMMA DecodeKept ==
    ASSUME HelloTyped, DecodeInv, [HelloNext]_hvars
    PROVE HelloTyped' /\ DecodeInv'
  <1>1. CASE UNCHANGED hvars
    <2>1. hclient' = hclient /\ hserver' = hserver /\ hin' = hin /\ hpos' = hpos /\ hseen' = hseen /\ hch' = hch
          /\ hsrv' = hsrv /\ hstep' = hstep
      BY <1>1 DEF hvars
    <2>2. HelloTyped'  BY <2>1 DEF HelloTyped
    <2>3. DecodeInv'  BY <2>1 DEF DecodeInv
    <2> QED BY <2>2, <2>3
  <1> QED BY <1>1, DecodeFieldsKeeps, DecodeExtensionKeeps, CheckConstraintsKeeps, NegotiateKeeps, ClientRetryKeeps,
             OtherRetryKeeps DEF HelloNext

LEMMA WellFormedThen ==
    ASSUME HelloTyped, DecodeInv
    PROVE AcceptedIsWellFormed
  <1>1. SUFFICES ASSUME Accepted PROVE AcceptedIsWellFormed  BY DEF AcceptedIsWellFormed
  <1>2. Checked(hsrv.inner, hin, hseen, hch)  BY <1>1 DEF Accepted, DecodeInv
  <1>3. PICK E, n, T : E = hin.exts /\ n = Len(hin.exts) /\ T = TypesOf(hin.exts)  OBVIOUS
  <1>4. E \in Seq(ExtensionType) /\ n \in Nat /\ DOMAIN E = 1 .. n  BY <1>3, LenProperties DEF HelloTyped, HelloRecord
  <1>5. T = [i \in DOMAIN hin.exts |-> hin.exts[i].type] /\ DOMAIN T = 1 .. n  BY <1>3, <1>4 DEF TypesOf
  <1>6. UpTo(E, n, hseen, hch)  BY <1>2, <1>3 DEF Checked
  <1>7. /\ Distinct(T, n) /\ (hch.last <=> n > 0 /\ T[n] = "psk") /\ Flag(hch.hashEnd, T, n, "psk")
        /\ Flag(hch.early, T, n, "early") /\ Len(hch.ids) = Len(hch.binders)
    BY <1>3, <1>6 DEF UpTo
  <1>8. \A t : t \in ToSet(T) <=> \E i \in 1 .. n : T[i] = t  BY <1>5 DEF ToSet
  <1>9. \A i, j \in DOMAIN T : T[i] = T[j] /\ T[i] \in KnownExtensions => i = j  BY <1>5, <1>7 DEF Distinct
  <1>10. Len(T) = n
    <2>1. T \in Seq({T[i] : i \in 1 .. n})
      <3>1. T = [i \in 1 .. n |-> T[i]]  BY <1>4, <1>5
      <3>2. T \in [1 .. n -> {T[i] : i \in 1 .. n}]  BY <3>1
      <3> QED BY <1>4, <3>2, SeqDef
    <2>2. DOMAIN T = 1 .. Len(T) /\ Len(T) \in Nat  BY <2>1, LenProperties
    <2> QED BY <1>4, <1>5, <2>2
  <1>11. "psk" \in ToSet(T) => T[Len(T)] = "psk"
    <2>1. HAVE "psk" \in ToSet(T)
    <2>2. hch.hashEnd  BY <1>7, <1>8, <2>1 DEF Flag
    <2>3. hch.last  BY <1>2, <2>2 DEF Checked
    <2> QED BY <1>7, <1>10, <2>3
  <1>12. "early" \in ToSet(T) => "psk" \in ToSet(T)
    <2>1. HAVE "early" \in ToSet(T)
    <2>2. hch.early  BY <1>7, <1>8, <2>1 DEF Flag
    <2>3. hch.hashEnd  BY <1>2, <2>2 DEF Checked
    <2> QED BY <1>7, <1>8, <2>3 DEF Flag
  <1>13. hsrv.inner <=> hch.ech = "inner"  BY <1>2 DEF Checked
  <1> HIDE DEF Accepted
  <1> QED BY <1>5, <1>7, <1>9, <1>11, <1>12, <1>13 DEF AcceptedIsWellFormed

\* A ClientHello that decode_client_hello and check_client_hello_constraints let
\* through names no extension of the table twice, has pre_shared_key last if at
\* all, early data only with it, as many binders as identities, and the inner
\* ECH marker exactly if it came out of an encrypted one: for hellos of any
\* client and length, rebuilt or not, in the first flight and after a retry.
THEOREM HelloWellFormed == HelloSpec => []AcceptedIsWellFormed
  <1> DEFINE Inv == HelloTyped /\ DecodeInv
  <1>1. HelloInit => Inv  BY HelloBegun
  <1>2. Inv /\ [HelloNext]_hvars => Inv'  BY DecodeKept
  <1>3. Inv => AcceptedIsWellFormed  BY WellFormedThen
  <1> QED BY <1>1, <1>2, <1>3, PTL DEF HelloSpec

---------------------------------------------------------------------------
(* Hello: a client of this library.                                        *)

PskExtension(c, mode) == [type |-> "psk", list |-> <<OfferedIdentity(c, mode)>>, aux |-> <<"binder0">>]

\* The extensions of a hello one by one.
LEMMA EncodeMembers ==
    ASSUME NEW c, NEW mode, mode # "encoded", NEW share, NEW second, NEW cookie,
           NEW e \in EncodeSet(c, mode, share, second, cookie)
    PROVE \/ (mode = "outer" \/ c.ech) /\ e = EchExt(mode)
          \/ e = Ext("share", share)
          \/ c.sni /\ e = Ext("sni", Hosts)
          \/ c.alpn # <<>> /\ e = Ext("alpn", c.alpn)
          \/ c.decompress /\ e = Ext("compress", <<"br">>)
          \/ e = Ext("versions", <<"tls13">>)
          \/ e = Ext("sigalgs", SignatureAlgorithms(c))
          \/ e = Ext("groups", c.groups)
          \/ cookie # <<>> /\ e = Ext("cookie", cookie)
          \/ c.raw /\ e = Ext("certtype", <<"raw">>)
          \/ c.save /\ c.tickets /\ e = Ext("tickets", <<"2", "1">>)
          \/ e \in ToSet(AdditionalExtensions(c))
          \/ (c.save \/ c.psk # "none") /\ e = Ext("modes", KeModes(c))
          \/ c.psk # "none" /\ c.early /\ ~second /\ e = Ext("early", <<>>)
          \/ c.psk # "none" /\ e = PskExtension(c, mode)
  <1>1. \A condition, x : e \in Part(condition, x) => condition /\ e = x  BY DEF Part
  <1>2. \/ e \in Part(mode = "outer" \/ c.ech, EchExt(mode))
        \/ e = ShareExt(mode, share)
        \/ e \in FurtherSet(c, mode, second, cookie)
    BY DEF EncodeSet
  <1>3. ShareExt(mode, share) = Ext("share", share)  BY DEF ShareExt
  <1>4. CASE e \in FurtherSet(c, mode, second, cookie)
    <2>1. \/ e \in Part(c.sni, Ext("sni", Hosts))
          \/ e \in Part(c.alpn # <<>>, Ext("alpn", c.alpn))
          \/ e \in Part(c.decompress, Ext("compress", <<"br">>))
          \/ e \in {Ext("versions", <<"tls13">>), Ext("sigalgs", SignatureAlgorithms(c)), Ext("groups", c.groups)}
          \/ e \in Part(cookie # <<>>, Ext("cookie", cookie))
          \/ e \in Part(c.raw, Ext("certtype", <<"raw">>))
          \/ e \in Part(c.save /\ c.tickets, Ext("tickets", <<"2", "1">>))
          \/ e \in ToSet(AdditionalExtensions(c))
          \/ e \in Part(c.save \/ c.psk # "none", Ext("modes", KeModes(c)))
          \/ e \in Part(c.psk # "none" /\ c.early /\ ~second, Ext("early", <<>>))
          \/ e \in Part(c.psk # "none", PskExtension(c, mode))
      BY <1>4 DEF FurtherSet, PskExtension
    <2>2. /\ e \in Part(c.sni, Ext("sni", Hosts)) => c.sni /\ e = Ext("sni", Hosts)
          /\ e \in Part(c.alpn # <<>>, Ext("alpn", c.alpn)) => c.alpn # <<>> /\ e = Ext("alpn", c.alpn)
          /\ e \in Part(c.decompress, Ext("compress", <<"br">>)) => c.decompress /\ e = Ext("compress", <<"br">>)
          /\ e \in Part(cookie # <<>>, Ext("cookie", cookie)) => cookie # <<>> /\ e = Ext("cookie", cookie)
          /\ e \in Part(c.raw, Ext("certtype", <<"raw">>)) => c.raw /\ e = Ext("certtype", <<"raw">>)
          /\ e \in Part(c.save /\ c.tickets, Ext("tickets", <<"2", "1">>)) =>
                c.save /\ c.tickets /\ e = Ext("tickets", <<"2", "1">>)
          /\ e \in Part(c.save \/ c.psk # "none", Ext("modes", KeModes(c))) =>
                (c.save \/ c.psk # "none") /\ e = Ext("modes", KeModes(c))
          /\ e \in Part(c.psk # "none" /\ c.early /\ ~second, Ext("early", <<>>)) =>
                c.psk # "none" /\ c.early /\ ~second /\ e = Ext("early", <<>>)
          /\ e \in Part(c.psk # "none", PskExtension(c, mode)) => c.psk # "none" /\ e = PskExtension(c, mode)
      BY DEF Part
    <2>3. e \in {Ext("versions", <<"tls13">>), Ext("sigalgs", SignatureAlgorithms(c)), Ext("groups", c.groups)} =>
             e = Ext("versions", <<"tls13">>) \/ e = Ext("sigalgs", SignatureAlgorithms(c)) \/ e = Ext("groups", c.groups)
      OBVIOUS
    <2> QED BY <2>1, <2>2, <2>3
  <1>5. e \in Part(mode = "outer" \/ c.ech, EchExt(mode)) => (mode = "outer" \/ c.ech) /\ e = EchExt(mode)  BY DEF Part
  <1> QED BY <1>2, <1>3, <1>4, <1>5

\* An extension the decoder takes, whatever came before it.
Sound(e, cookie) ==
    /\ e.type \in KnownExtensions => e.type \in AllowedInHello
    /\ WellFormed(e)
    /\ e.type = "sni" => \A i \in DOMAIN e.list : e.list[i] # "nul"
    /\ e.type = "cookie" => cookie # <<>>
    /\ e.type = "psk" => Len(e.list) = Len(e.aux)
    /\ e.type = "ech" => e.list[1] \in {"inner", "outer"}

\* Of a type without rules it is sound.
LEMMA SoundPlain ==
    ASSUME NEW e, NEW cookie, e.type \notin NonEmpty \cup {"tickets", "outer_extensions"}
    PROVE Sound(e, cookie)
  BY DEF Sound, NonEmpty, WellFormed, AllowedInHello

\* Of one that has to carry something it is if it does.
LEMMA SoundList ==
    ASSUME NEW e, NEW cookie, e.type \in {"compress", "sigalgs", "versions", "modes"}, e.list # <<>>
    PROVE Sound(e, cookie)
  BY DEF Sound, NonEmpty, WellFormed, AllowedInHello

\* All that a client of this library writes is sound.
LEMMA EncodedSound ==
    ASSUME NEW c \in ClientContexts, NEW mode, mode # "encoded", NEW share \in Seq(Words), NEW second,
           NEW cookie \in Seq(Words), NEW e \in EncodeSet(c, mode, share, second, cookie)
    PROVE Sound(e, cookie)
  <1>0. \A t, l : Ext(t, l).type = t /\ Ext(t, l).list = l /\ Ext(t, l).aux = <<>>  BY DEF Ext
  <1>1. CASE e = EchExt(mode)
    <2>1. CASE mode = "outer"
      <3>1. e.type = "ech" /\ e.list = <<"outer", "payload">>  BY <1>0, <1>1, <2>1 DEF EchExt
      <3>2. e.list # <<>> /\ Len(e.list) = 2 /\ e.list[1] = "outer"  BY <3>1
      <3> QED BY <3>1, <3>2 DEF Sound, NonEmpty, WellFormed, AllowedInHello
    <2>2. CASE mode # "outer"
      <3>1. e.type = "ech" /\ e.list = <<"inner">>  BY <1>0, <1>1, <2>2 DEF EchExt
      <3>2. e.list # <<>> /\ Len(e.list) = 1 /\ e.list[1] = "inner"  BY <3>1
      <3> QED BY <3>1, <3>2 DEF Sound, NonEmpty, WellFormed, AllowedInHello
    <2> QED BY <2>1, <2>2
  <1>2. CASE e = Ext("share", share)
    <2>1. e.type = "share"  BY <1>0, <1>2
    <2>2. e.type \notin NonEmpty \cup {"tickets", "outer_extensions"}  BY <2>1 DEF NonEmpty
    <2> QED BY <2>2, SoundPlain
  <1>3. CASE e = Ext("sni", Hosts)
    <2>1. e.type = "sni" /\ e.list = <<"name">>  BY <1>0, <1>3 DEF Hosts
    <2>2. e.list # <<>> /\ \A i \in DOMAIN e.list : e.list[i] = "name"  BY <2>1
    <2> QED BY <2>1, <2>2 DEF Sound, NonEmpty, WellFormed, AllowedInHello
  <1>4. CASE c.alpn # <<>> /\ e = Ext("alpn", c.alpn)
    <2>1. e.type = "alpn" /\ e.list = c.alpn /\ e.list # <<>>  BY <1>0, <1>4
    <2>2. \A i \in DOMAIN e.list : e.list[i] # ""
      <3>1. "" \notin ToSet(c.alpn)  BY HelloAssumption
      <3> QED BY <2>1, <3>1 DEF ToSet
    <2> QED BY <2>1, <2>2 DEF Sound, NonEmpty, WellFormed, AllowedInHello
  <1>5. CASE e = Ext("compress", <<"br">>)
    <2>1. e.type = "compress" /\ e.list = <<"br">>  BY <1>0, <1>5
    <2>2. e.list # <<>>  BY <2>1
    <2>4. e.type \in {"compress", "sigalgs", "versions", "modes"}  BY <2>1
    <2> QED BY <2>2, <2>4, SoundList
  <1>6. CASE e = Ext("versions", <<"tls13">>)
    <2>1. e.type = "versions" /\ e.list = <<"tls13">>  BY <1>0, <1>6
    <2>2. e.list # <<>>  BY <2>1
    <2>4. e.type \in {"compress", "sigalgs", "versions", "modes"}  BY <2>1
    <2> QED BY <2>2, <2>4, SoundList
  <1>7. CASE e = Ext("sigalgs", SignatureAlgorithms(c))
    <2>1. e.type = "sigalgs" /\ e.list = SignatureAlgorithms(c)  BY <1>0, <1>7
    <2>2. <<"rsa_pss", "ecdsa">> # <<>>  OBVIOUS
    <2>3. e.list # <<>>  BY <2>1, <2>2 DEF SignatureAlgorithms
    <2>4. e.type \in {"compress", "sigalgs", "versions", "modes"}  BY <2>1
    <2> QED BY <2>3, <2>4, SoundList
  <1>8. CASE e = Ext("groups", c.groups)
    <2>1. e.type = "groups"  BY <1>0, <1>8
    <2>2. e.type \notin NonEmpty \cup {"tickets", "outer_extensions"}  BY <2>1 DEF NonEmpty
    <2> QED BY <2>2, SoundPlain
  <1>9. CASE cookie # <<>> /\ e = Ext("cookie", cookie)
    <2>1. e.type = "cookie" /\ e.list # <<>> /\ cookie # <<>>  BY <1>0, <1>9
    <2> QED BY <2>1 DEF Sound, NonEmpty, WellFormed, AllowedInHello
  <1>10. CASE e = Ext("certtype", <<"raw">>)
    <2>1. e.type = "certtype" /\ e.list = <<"raw">>  BY <1>0, <1>10
    <2>2. e.list # <<>> /\ e.list # <<"x509">>  BY <2>1
    <2> QED BY <2>1, <2>2 DEF Sound, NonEmpty, WellFormed, AllowedInHello
  <1>11. CASE e = Ext("tickets", <<"2", "1">>)
    <2>1. e.type = "tickets" /\ e.list = <<"2", "1">>  BY <1>0, <1>11
    <2>2. Len(e.list) = 2  BY <2>1
    <2> QED BY <2>1, <2>2 DEF Sound, NonEmpty, WellFormed, KnownExtensions
  <1>12. CASE e \in ToSet(AdditionalExtensions(c))
    <2>1. Lists(AdditionalExtensions(c), ToSet(AdditionalExtensions(c)), ExtraTypes)  BY AdditionalIs
    <2>2. e.type \in ExtraTypes  BY <1>12, <2>1 DEF Lists
    <2>3. e.type \notin NonEmpty \cup {"tickets", "outer_extensions"}
      BY <2>2 DEF NonEmpty, ExtraTypes, KnownExtensions
    <2> QED BY <2>3, SoundPlain
  <1>13. CASE e = Ext("modes", KeModes(c))
    <2>1. e.type = "modes" /\ e.list = KeModes(c)  BY <1>0, <1>13
    <2>2. <<"psk_dhe">> # <<>> /\ <<"psk", "psk_dhe">> # <<>>  OBVIOUS
    <2>3. e.list # <<>>  BY <2>1, <2>2 DEF KeModes
    <2>4. e.type \in {"compress", "sigalgs", "versions", "modes"}  BY <2>1
    <2> QED BY <2>3, <2>4, SoundList
  <1>14. CASE e = Ext("early", <<>>)
    <2>1. e.type = "early"  BY <1>0, <1>14
    <2>2. e.type \notin NonEmpty \cup {"tickets", "outer_extensions"}  BY <2>1 DEF NonEmpty
    <2> QED BY <2>2, SoundPlain
  <1>15. CASE e = PskExtension(c, mode)
    <2>1. PICK w : w \in {"random", "ext", "id0"} /\ e.type = "psk" /\ e.list = <<w>> /\ e.aux = <<"binder0">>
      BY <1>15, IdentityIs DEF PskExtension
    <2>2. e.list # <<>> /\ e.aux # <<>> /\ Len(e.list) = 1 /\ Len(e.aux) = 1 /\ \A i \in DOMAIN e.list : e.list[i] = w
      BY <2>1
    <2>3. w # ""  BY <2>1
    <2> QED BY <2>1, <2>2, <2>3 DEF Sound, NonEmpty, WellFormed, AllowedInHello
  <1> QED BY <1>1, <1>2, <1>3, <1>4, <1>5, <1>6, <1>7, <1>8, <1>9, <1>10, <1>11, <1>12, <1>13, <1>14, <1>15, EncodeMembers

\* The decoder gets through all of it.
LEMMA EncodedDecodes ==
    ASSUME NEW c \in ClientContexts, NEW mode, mode # "encoded", NEW share \in Seq(Words), NEW second,
           NEW cookie \in Seq(Words), NEW E, E = EncodeExtensions(c, mode, share, second, cookie), cookie # <<>> => hserver.cookieKey,
           NEW n, NEW seen, NEW ch, UpTo(E, n, seen, ch), n < Len(E), NEW e, e = E[n + 1]
    PROVE TestAndSet(seen, e.type).ok /\ WellFormed(e) /\ Legal(e, ch)
  <1>1. EncodedAs(c, mode, share, second, cookie, E, FurtherExtensions(c, mode, second, cookie))
    <2>1. PICK r : r = FurtherExtensions(c, mode, second, cookie)  OBVIOUS
    <2>2. EncodedAs(c, mode, share, second, cookie, E, r)  BY <2>1, EncodeIs
    <2> QED BY <2>1, <2>2
  <1>2. PICK T : T = TypesOf(E)  OBVIOUS
  <1>3. E \in Seq(ExtensionType) /\ ToSet(E) = EncodeSet(c, mode, share, second, cookie)
        /\ \A i, j \in DOMAIN E : E[i].type = E[j].type => i = j
    BY <1>1 DEF EncodedAs, Lists
  <1>4. Len(E) \in Nat /\ DOMAIN E = 1 .. Len(E)  BY <1>3, LenProperties
  <1>5. n \in 0 .. Len(E) /\ seen = Seen(T, n) \cap KnownExtensions /\ ToSet(ch.unknown) \subseteq Seen(T, n)
    BY <1>2 DEF UpTo
  <1>6. n + 1 \in DOMAIN E /\ (\A i \in 1 .. n : i \in DOMAIN E /\ i # n + 1)  BY <1>4, <1>5
  <1>7. e \in EncodeSet(c, mode, share, second, cookie)  BY <1>3, <1>6 DEF ToSet
  <1>8. Sound(e, cookie)  BY <1>7, EncodedSound
  <1>9. e.type \notin Seen(T, n)
    <2>1. \A i \in 1 .. n : T[i] = E[i].type  BY <1>2, <1>4, <1>6 DEF TypesOf
    <2>2. \A i \in 1 .. n : E[i].type # e.type  BY <1>3, <1>6
    <2> QED BY <2>1, <2>2 DEF Seen
  <1>10. TestAndSet(seen, e.type).ok
    <2>1. e.type \notin seen  BY <1>5, <1>9
    <2>2. e.type \in KnownExtensions => e.type \in AllowedInHello  BY <1>8 DEF Sound
    <2>3. e.type \notin KnownExtensions \/ (e.type \in AllowedInHello /\ e.type \notin seen)  BY <2>1, <2>2
    <2> QED BY <2>3 DEF TestAndSet
  <1>11. Legal(e, ch)
    <2>1. e.type \notin ToSet(ch.unknown)  BY <1>5, <1>9
    <2> QED BY <1>8, <2>1 DEF Legal, Sound
  <1> QED BY <1>8, <1>10, <1>11 DEF Sound

\* Who is there, by type, and with what.
Meant(c, mode, share, second, cookie, S) ==
    \A e \in S : /\ e.type = "ech" => (mode = "outer" \/ c.ech) /\ e.list[1] = IF mode = "outer" THEN "outer" ELSE "inner"
                 /\ e.type = "share" => e.list = share
                 /\ e.type = "sni" => c.sni /\ e.list = Hosts
                 /\ e.type = "versions" => e.list = <<"tls13">>
                 /\ e.type = "groups" => e.list = c.groups
                 /\ e.type = "cookie" => cookie # <<>> /\ e.list = cookie
                 /\ e.type = "certtype" => c.raw /\ e.list = <<"raw">>
                 /\ e.type = "early" => c.psk # "none" /\ c.early /\ ~second
                 /\ e.type = "psk" => c.psk # "none" /\ e.list = <<OfferedIdentity(c, mode)>>
                 /\ e.type = "modes" => e.list = KeModes(c)
There(c, mode, cookie, S) ==
    /\ mode = "outer" \/ c.ech => \E e \in S : e.type = "ech"
    /\ \E e \in S : e.type = "share"
    /\ \E e \in S : e.type = "versions"
    /\ \E e \in S : e.type = "groups"
    /\ c.sni => \E e \in S : e.type = "sni"
    /\ c.raw => \E e \in S : e.type = "certtype"
    /\ cookie # <<>> => \E e \in S : e.type = "cookie"
    /\ c.psk # "none" => \E e \in S : e.type = "psk"
    /\ c.psk # "none" => \E e \in S : e.type = "modes"

\* That is how it is for the extensions of a hello.
LEMMA EncodedTypes ==
    ASSUME NEW c \in ClientContexts, NEW mode, mode # "encoded", NEW share \in Seq(Words), NEW second,
           NEW cookie \in Seq(Words), NEW S, S = EncodeSet(c, mode, share, second, cookie)
    PROVE Meant(c, mode, share, second, cookie, S) /\ There(c, mode, cookie, S)
  <1>0. \A t, l : Ext(t, l).type = t /\ Ext(t, l).list = l  BY DEF Ext
  <1>1. ASSUME NEW e \in S
        PROVE /\ e.type = "ech" => (mode = "outer" \/ c.ech) /\ e.list[1] = IF mode = "outer" THEN "outer" ELSE "inner"
              /\ e.type = "share" => e.list = share
              /\ e.type = "sni" => c.sni /\ e.list = Hosts
              /\ e.type = "versions" => e.list = <<"tls13">>
              /\ e.type = "groups" => e.list = c.groups
              /\ e.type = "cookie" => cookie # <<>> /\ e.list = cookie
              /\ e.type = "certtype" => c.raw /\ e.list = <<"raw">>
              /\ e.type = "early" => c.psk # "none" /\ c.early /\ ~second
              /\ e.type = "psk" => c.psk # "none" /\ e.list = <<OfferedIdentity(c, mode)>>
              /\ e.type = "modes" => e.list = KeModes(c)
    <2>1. EchExt(mode).type = "ech" /\ EchExt(mode).list[1] = IF mode = "outer" THEN "outer" ELSE "inner"
      BY <1>0 DEF EchExt
    <2>2. PskExtension(c, mode).type = "psk" /\ PskExtension(c, mode).list = <<OfferedIdentity(c, mode)>>  BY DEF PskExtension
    <2>3. \A x \in ToSet(AdditionalExtensions(c)) : x.type \in ExtraTypes
      <3>1. Lists(AdditionalExtensions(c), ToSet(AdditionalExtensions(c)), ExtraTypes)  BY AdditionalIs
      <3> QED BY <3>1 DEF Lists
    <2>4. CASE (mode = "outer" \/ c.ech) /\ e = EchExt(mode)  BY <2>1, <2>4
    <2>5. CASE c.psk # "none" /\ e = PskExtension(c, mode)  BY <2>2, <2>5
    <2>6. CASE e \in ToSet(AdditionalExtensions(c))
      <3>1. e.type \in ExtraTypes  BY <2>3, <2>6
      <3> QED BY <3>1 DEF ExtraTypes, KnownExtensions
    <2>7. CASE \/ e = Ext("share", share)
               \/ c.sni /\ e = Ext("sni", Hosts)
               \/ c.alpn # <<>> /\ e = Ext("alpn", c.alpn)
               \/ c.decompress /\ e = Ext("compress", <<"br">>)
      BY <1>0, <2>7
    <2>8. CASE \/ e = Ext("versions", <<"tls13">>)
               \/ e = Ext("sigalgs", SignatureAlgorithms(c))
               \/ e = Ext("groups", c.groups)
               \/ cookie # <<>> /\ e = Ext("cookie", cookie)
      BY <1>0, <2>8
    <2>9. CASE \/ c.raw /\ e = Ext("certtype", <<"raw">>)
               \/ c.save /\ c.tickets /\ e = Ext("tickets", <<"2", "1">>)
               \/ (c.save \/ c.psk # "none") /\ e = Ext("modes", KeModes(c))
               \/ c.psk # "none" /\ c.early /\ ~second /\ e = Ext("early", <<>>)
      BY <1>0, <2>9
    <2> QED BY <2>4, <2>5, <2>6, <2>7, <2>8, <2>9, EncodeMembers
  <1>2. \A condition, x : condition => x \in Part(condition, x)  BY DEF Part
  <1>3. mode = "outer" \/ c.ech => EchExt(mode) \in S  BY DEF EncodeSet, Part
  <1>4. Ext("share", share) \in S  BY DEF EncodeSet, ShareExt
  <1>5. FurtherSet(c, mode, second, cookie) \subseteq S  BY DEF EncodeSet
  <1>6. Ext("versions", <<"tls13">>) \in S /\ Ext("groups", c.groups) \in S  BY <1>5 DEF FurtherSet
  <1>7. c.sni => Ext("sni", Hosts) \in S
    <2>1. Part(c.sni, Ext("sni", Hosts)) \subseteq S  BY <1>5 DEF FurtherSet
    <2> QED BY <2>1 DEF Part
  <1>8. c.raw => Ext("certtype", <<"raw">>) \in S
    <2>1. Part(c.raw, Ext("certtype", <<"raw">>)) \subseteq S  BY <1>5 DEF FurtherSet
    <2> QED BY <2>1 DEF Part
  <1>9. cookie # <<>> => Ext("cookie", cookie) \in S
    <2>1. Part(cookie # <<>>, Ext("cookie", cookie)) \subseteq S  BY <1>5 DEF FurtherSet
    <2> QED BY <2>1 DEF Part
  <1>15. c.psk # "none" => Ext("modes", KeModes(c)) \in S
    <2>1. Part(c.save \/ c.psk # "none", Ext("modes", KeModes(c))) \subseteq S  BY <1>5 DEF FurtherSet
    <2> QED BY <2>1 DEF Part
  <1>10. c.psk # "none" => PskExtension(c, mode) \in S
    <2>1. Part(c.psk # "none", PskExtension(c, mode)) \subseteq S  BY <1>5 DEF FurtherSet, PskExtension
    <2> QED BY <2>1 DEF Part
  <1>11. EchExt(mode).type = "ech"  BY <1>0 DEF EchExt
  <1>12. PskExtension(c, mode).type = "psk"  BY DEF PskExtension
  <1>13. Meant(c, mode, share, second, cookie, S)  BY <1>1 DEF Meant
  <1>14. There(c, mode, cookie, S)  BY <1>0, <1>3, <1>4, <1>6, <1>7, <1>8, <1>9, <1>10, <1>11, <1>12, <1>15 DEF There
  <1> QED BY <1>13, <1>14

\* The notes at the end, in terms of the extensions there are.
LEMMA FlagBy ==
    ASSUME NEW E \in Seq(ExtensionType), NEW flag, NEW t, Flag(flag, TypesOf(E), Len(E), t)
    PROVE flag <=> \E e \in ToSet(E) : e.type = t
  <1>1. Len(E) \in Nat /\ DOMAIN E = 1 .. Len(E)  BY LenProperties
  <1>2. \A i \in 1 .. Len(E) : TypesOf(E)[i] = E[i].type /\ E[i] \in ToSet(E)  BY <1>1 DEF TypesOf, ToSet
  <1>3. \A e \in ToSet(E) : \E i \in 1 .. Len(E) : E[i] = e  BY <1>1 DEF ToSet
  <1>4. flag <=> \E i \in 1 .. Len(E) : TypesOf(E)[i] = t  BY DEF Flag
  <1> QED BY <1>2, <1>3, <1>4

LEMMA GivenBy ==
    ASSUME NEW E \in Seq(ExtensionType), NEW v, NEW W, NEW t, NEW default, Given(v, W, TypesOf(E), Len(E), t, default)
    PROVE /\ (\A e \in ToSet(E) : e.type # t) => v = default
          /\ (\E e \in ToSet(E) : e.type = t) => \E i \in 1 .. Len(E) : E[i] \in ToSet(E) /\ E[i].type = t /\ v = W[i]
  <1>1. Len(E) \in Nat /\ DOMAIN E = 1 .. Len(E)  BY LenProperties
  <1>2. \A i \in 1 .. Len(E) : TypesOf(E)[i] = E[i].type /\ E[i] \in ToSet(E)  BY <1>1 DEF TypesOf, ToSet
  <1>3. \A e \in ToSet(E) : \E i \in 1 .. Len(E) : E[i] = e  BY <1>1 DEF ToSet
  <1>4. (\A i \in 1 .. Len(E) : TypesOf(E)[i] = t => v = W[i])
        /\ ((\A i \in 1 .. Len(E) : TypesOf(E)[i] # t) => v = default)
    BY DEF Given
  <1>5. (\A e \in ToSet(E) : e.type # t) => v = default  BY <1>2, <1>4
  <1>6. ASSUME NEW e \in ToSet(E), e.type = t
        PROVE \E i \in 1 .. Len(E) : E[i] \in ToSet(E) /\ E[i].type = t /\ v = W[i]
    <2>1. PICK i \in 1 .. Len(E) : E[i] = e  BY <1>3
    <2> QED BY <1>2, <1>4, <1>6, <2>1
  <1> QED BY <1>5, <1>6

LEMMA CappedHolds ==
    ASSUME NEW l \in Seq(Words), l # <<>>
    PROVE l[1] \in ToSet(Capped(l))
  <1>1. PICK k : k = Capped(l)  OBVIOUS
  <1>2. k \in Seq(Words) /\ k # <<>> /\ k[1] = l[1]  BY <1>1, CappedIs
  <1>3. Len(k) \in Nat /\ DOMAIN k = 1 .. Len(k)  BY <1>2, LenProperties
  <1>4. Len(k) # 0  BY <1>2, EmptySeq
  <1>5. 1 \in DOMAIN k  BY <1>3, <1>4
  <1>6. k[1] \in ToSet(k)  BY <1>5 DEF ToSet
  <1> QED BY <1>1, <1>2, <1>6

\* What a server knows of a hello of this library once it has decoded it.
Understood(c, mode, share, second, cookie, ch) ==
    /\ ch \in HelloType /\ ch.version = "tls13"
    /\ ch.hashEnd => ch.last
    /\ ch.early => ch.hashEnd /\ ~second
    /\ ch.cookie = cookie
    /\ c.psk # "none" => ch.hashEnd /\ "psk_dhe" \in ch.modes /\ OfferedIdentity(c, mode) \in ToSet(ch.ids)
    /\ ch.hasGroups /\ ch.hasShares
    /\ ch.groups = c.groups /\ ch.shares = share
    /\ ch.sni = IF c.sni THEN Hosts ELSE <<>>
    /\ IF c.raw THEN "raw" \in ToSet(ch.certTypes) ELSE ch.certTypes = <<>>
    /\ ch.ech = IF mode = "outer" THEN "outer" ELSE IF c.ech THEN "inner" ELSE ""

LEMMA DecodedHello ==
    ASSUME NEW c \in ClientContexts, NEW mode, mode # "encoded", NEW share \in Seq(Words), NEW second,
           NEW cookie \in Seq(Words), NEW E, E = EncodeExtensions(c, mode, share, second, cookie),
           NEW seen, NEW ch, UpTo(E, Len(E), seen, ch)
    PROVE Understood(c, mode, share, second, cookie, ch)
  <1>1. EncodedAs(c, mode, share, second, cookie, E, FurtherExtensions(c, mode, second, cookie))
    <2>1. PICK r : r = FurtherExtensions(c, mode, second, cookie)  OBVIOUS
    <2>2. EncodedAs(c, mode, share, second, cookie, E, r)  BY <2>1, EncodeIs
    <2> QED BY <2>1, <2>2
  <1>2. PICK S : S = EncodeSet(c, mode, share, second, cookie)  OBVIOUS
  <1>3. E \in Seq(ExtensionType) /\ ToSet(E) = S /\ Len(E) \in Nat \ {0}
    BY <1>1, <1>2 DEF EncodedAs, Lists
  <1>4. DOMAIN E = 1 .. Len(E)  BY <1>3, LenProperties
  <1>5. ch \in HelloType  BY DEF UpTo
  <1>0. Meant(c, mode, share, second, cookie, S) /\ There(c, mode, cookie, S)  BY <1>2, EncodedTypes
  <1>6. /\ \A e \in S : /\ e.type = "ech" => (mode = "outer" \/ c.ech) /\ e.list[1] = IF mode = "outer" THEN "outer" ELSE "inner"
                        /\ e.type = "share" => e.list = share
                        /\ e.type = "sni" => c.sni /\ e.list = Hosts
                        /\ e.type = "versions" => e.list = <<"tls13">>
                        /\ e.type = "groups" => e.list = c.groups
                        /\ e.type = "cookie" => cookie # <<>> /\ e.list = cookie
                        /\ e.type = "certtype" => c.raw /\ e.list = <<"raw">>
                        /\ e.type = "early" => c.psk # "none" /\ c.early /\ ~second
                        /\ e.type = "psk" => c.psk # "none" /\ e.list = <<OfferedIdentity(c, mode)>>
                        /\ e.type = "modes" => e.list = KeModes(c)
    BY <1>0 DEF Meant
  <1>7. /\ mode = "outer" \/ c.ech => \E e \in S : e.type = "ech"
        /\ \E e \in S : e.type = "share"
        /\ \E e \in S : e.type = "versions"
        /\ \E e \in S : e.type = "groups"
        /\ c.sni => \E e \in S : e.type = "sni"
        /\ c.raw => \E e \in S : e.type = "certtype"
        /\ cookie # <<>> => \E e \in S : e.type = "cookie"
        /\ c.psk # "none" => \E e \in S : e.type = "psk"
        /\ c.psk # "none" => \E e \in S : e.type = "modes"
    BY <1>0 DEF There
  <1>8. ch.version = "tls13"
    <2>0. PICK d : d = ""  OBVIOUS
    <2>1. Given(ch.version, VersionsOf(E), TypesOf(E), Len(E), "versions", d)  BY <2>0 DEF UpTo
    <2>2. PICK i \in 1 .. Len(E) : E[i] \in S /\ E[i].type = "versions" /\ ch.version = VersionsOf(E)[i]
      BY <1>3, <1>7, <2>1, GivenBy
    <2>3. E[i].list = <<"tls13">>  BY <1>6, <2>2
    <2>4. VersionsOf(E)[i] = IF "tls13" \in ToSet(E[i].list) THEN "tls13" ELSE ""  BY DEF VersionsOf
    <2>5. "tls13" \in ToSet(<<"tls13">>)  BY DEF ToSet
    <2> QED BY <2>2, <2>3, <2>4, <2>5
  <1>9. ch.hashEnd <=> \E e \in S : e.type = "psk"
    <2>1. Flag(ch.hashEnd, TypesOf(E), Len(E), "psk")  BY DEF UpTo
    <2> QED BY <1>3, <2>1, FlagBy
  <1>10. ch.early <=> \E e \in S : e.type = "early"
    <2>1. Flag(ch.early, TypesOf(E), Len(E), "early")  BY DEF UpTo
    <2> QED BY <1>3, <2>1, FlagBy
  <1>11. Given(ch.cookie, ListsOf(E), TypesOf(E), Len(E), "cookie", <<>>)  BY DEF UpTo
  <1>12. ch.hasGroups <=> \E e \in S : e.type = "groups"
    <2>1. Flag(ch.hasGroups, TypesOf(E), Len(E), "groups")  BY DEF UpTo
    <2> QED BY <1>3, <2>1, FlagBy
  <1>13. ch.hasShares <=> \E e \in S : e.type = "share"
    <2>1. Flag(ch.hasShares, TypesOf(E), Len(E), "share")  BY DEF UpTo
    <2> QED BY <1>3, <2>1, FlagBy
  <1>14. ch.hashEnd => ch.last
    <2>1. c.psk # "none" => E[Len(E)].type = "psk"  BY <1>1 DEF EncodedAs
    <2>2. TypesOf(E)[Len(E)] = E[Len(E)].type  BY <1>3 DEF TypesOf
    <2>3. ch.last <=> Len(E) > 0 /\ TypesOf(E)[Len(E)] = "psk"  BY DEF UpTo
    <2>4. Len(E) > 0  BY <1>3
    <2>5. ch.hashEnd => c.psk # "none"  BY <1>6, <1>9
    <2> QED BY <2>1, <2>2, <2>3, <2>4, <2>5
  <1>15. ch.early => ch.hashEnd /\ ~second
    <2>1. ch.early => c.psk # "none" /\ ~second  BY <1>6, <1>10
    <2> QED BY <1>7, <1>9, <2>1
  <1>16. ch.cookie = cookie
    <2>1. CASE cookie # <<>>
      <3>1. PICK i \in 1 .. Len(E) : E[i] \in S /\ E[i].type = "cookie" /\ ch.cookie = ListsOf(E)[i]
        BY <1>3, <1>7, <1>11, <2>1, GivenBy
      <3>2. ListsOf(E)[i] = E[i].list  BY DEF ListsOf
      <3> QED BY <1>6, <3>1, <3>2
    <2>2. CASE cookie = <<>>
      <3>1. \A e \in ToSet(E) : e.type # "cookie"  BY <1>3, <1>6, <2>2
      <3> QED BY <1>3, <1>11, <2>2, <3>1, GivenBy
    <2> QED BY <2>1, <2>2
  <1>22. ASSUME c.psk # "none" PROVE "psk_dhe" \in ch.modes
    <2>1. Given(DheMode(ch.modes), DheOf(E), TypesOf(E), Len(E), "modes", {})  BY DEF UpTo
    <2>2. PICK i \in 1 .. Len(E) : E[i] \in S /\ E[i].type = "modes" /\ DheMode(ch.modes) = DheOf(E)[i]
      BY <1>3, <1>7, <1>22, <2>1, GivenBy
    <2>3. DheOf(E)[i] = DheMode(ToSet(E[i].list))  BY DEF DheOf
    <2>4. E[i].list = KeModes(c)  BY <1>6, <2>2
    <2>5. "psk_dhe" \in ToSet(<<"psk_dhe">>) /\ "psk_dhe" \in ToSet(<<"psk", "psk_dhe">>)
      <3>1. PICK a, b : a = <<"psk_dhe">> /\ b = <<"psk", "psk_dhe">>  OBVIOUS
      <3>2. 1 \in DOMAIN a /\ a[1] = "psk_dhe" /\ 2 \in DOMAIN b /\ b[2] = "psk_dhe"  BY <3>1
      <3>3. "psk_dhe" \in ToSet(a) /\ "psk_dhe" \in ToSet(b)  BY <3>2 DEF ToSet
      <3> QED BY <3>1, <3>3
    <2>6. "psk_dhe" \in ToSet(KeModes(c))  BY <2>5 DEF KeModes
    <2> QED BY <2>2, <2>3, <2>4, <2>6 DEF DheMode
  <1>23. ASSUME c.psk # "none" PROVE OfferedIdentity(c, mode) \in ToSet(ch.ids)
    <2>1. PICK w : w = OfferedIdentity(c, mode)  OBVIOUS
    <2>2. Given(ch.ids, CappedOf(E), TypesOf(E), Len(E), "psk", <<>>)  BY DEF UpTo
    <2>3. PICK i \in 1 .. Len(E) : E[i] \in S /\ E[i].type = "psk" /\ ch.ids = CappedOf(E)[i]
      BY <1>3, <1>7, <1>23, <2>2, GivenBy
    <2>4. CappedOf(E)[i] = Capped(E[i].list) /\ E[i].list = <<w>>  BY <1>6, <2>1, <2>3 DEF CappedOf
    <2>5. PICK l : l = E[i].list  OBVIOUS
    <2>6. l \in Seq(Words) /\ l # <<>> /\ l[1] = w
      <3>1. w \in Words  BY <2>1, IdentityIs
      <3> QED BY <2>4, <2>5, <3>1
    <2>7. w \in ToSet(Capped(l))  BY <2>6, CappedHolds
    <2> QED BY <2>1, <2>3, <2>4, <2>5, <2>7
  <1>17. ch.groups = c.groups
    <2>1. Given(ch.groups, ListsOf(E), TypesOf(E), Len(E), "groups", <<>>)  BY DEF UpTo
    <2>2. PICK i \in 1 .. Len(E) : E[i] \in S /\ E[i].type = "groups" /\ ch.groups = ListsOf(E)[i]
      BY <1>3, <1>7, <2>1, GivenBy
    <2>3. ListsOf(E)[i] = E[i].list  BY DEF ListsOf
    <2> QED BY <1>6, <2>2, <2>3
  <1>18. ch.shares = share
    <2>1. Given(ch.shares, ListsOf(E), TypesOf(E), Len(E), "share", <<>>)  BY DEF UpTo
    <2>2. PICK i \in 1 .. Len(E) : E[i] \in S /\ E[i].type = "share" /\ ch.shares = ListsOf(E)[i]
      BY <1>3, <1>7, <2>1, GivenBy
    <2>3. ListsOf(E)[i] = E[i].list  BY DEF ListsOf
    <2> QED BY <1>6, <2>2, <2>3
  <1>19. ch.sni = IF c.sni THEN Hosts ELSE <<>>
    <2>1. Given(ch.sni, LastsOf(E), TypesOf(E), Len(E), "sni", <<>>)  BY DEF UpTo
    <2>2. CASE c.sni
      <3>1. PICK i \in 1 .. Len(E) : E[i] \in S /\ E[i].type = "sni" /\ ch.sni = LastsOf(E)[i]
        BY <1>3, <1>7, <2>1, <2>2, GivenBy
      <3>2. LastsOf(E)[i] = <<E[i].list[Len(E[i].list)]>>  BY DEF LastsOf
      <3>3. E[i].list = Hosts  BY <1>6, <3>1
      <3>4. Hosts[Len(Hosts)] = "name"  BY DEF Hosts
      <3> QED BY <2>2, <3>1, <3>2, <3>3, <3>4 DEF Hosts
    <2>3. CASE ~c.sni
      <3>1. \A e \in ToSet(E) : e.type # "sni"  BY <1>3, <1>6, <2>3
      <3> QED BY <1>3, <2>1, <2>3, <3>1, GivenBy
    <2> QED BY <2>2, <2>3
  <1>20. IF c.raw THEN "raw" \in ToSet(ch.certTypes) ELSE ch.certTypes = <<>>
    <2>1. Given(ch.certTypes, CappedOf(E), TypesOf(E), Len(E), "certtype", <<>>)  BY DEF UpTo
    <2>2. CASE c.raw
      <3>1. PICK i \in 1 .. Len(E) : E[i] \in S /\ E[i].type = "certtype" /\ ch.certTypes = CappedOf(E)[i]
        BY <1>3, <1>7, <2>1, <2>2, GivenBy
      <3>2. CappedOf(E)[i] = Capped(E[i].list)  BY DEF CappedOf
      <3>3. E[i].list = <<"raw">>  BY <1>6, <3>1
      <3>4. PICK l : l = E[i].list  OBVIOUS
      <3>5. l \in Seq(Words)
        <4>1. "raw" \in Words  BY CodeWords
        <4> QED BY <3>3, <3>4, <4>1
      <3>6. l # <<>> /\ l[1] = "raw"  BY <3>3, <3>4
      <3>7. l[1] \in ToSet(Capped(l))  BY <3>5, <3>6, CappedHolds
      <3> QED BY <2>2, <3>1, <3>2, <3>4, <3>6, <3>7
    <2>3. CASE ~c.raw
      <3>1. \A e \in ToSet(E) : e.type # "certtype"  BY <1>3, <1>6, <2>3
      <3> QED BY <1>3, <2>1, <2>3, <3>1, GivenBy
    <2> QED BY <2>2, <2>3
  <1>21. ch.ech = IF mode = "outer" THEN "outer" ELSE IF c.ech THEN "inner" ELSE ""
    <2>0. PICK d : d = ""  OBVIOUS
    <2>1. Given(ch.ech, FirstsOf(E), TypesOf(E), Len(E), "ech", d)  BY <2>0 DEF UpTo
    <2>2. CASE mode = "outer" \/ c.ech
      <3>1. PICK i \in 1 .. Len(E) : E[i] \in S /\ E[i].type = "ech" /\ ch.ech = FirstsOf(E)[i]
        BY <1>3, <1>7, <2>1, <2>2, GivenBy
      <3>2. FirstsOf(E)[i] = E[i].list[1]  BY DEF FirstsOf
      <3> QED BY <1>6, <2>2, <3>1, <3>2
    <2>3. CASE ~(mode = "outer" \/ c.ech)
      <3>1. \A e \in ToSet(E) : e.type # "ech"  BY <1>3, <1>6, <2>3
      <3>2. ch.ech = d  BY <1>3, <2>1, <3>1, GivenBy
      <3> QED BY <2>0, <2>3, <3>2
    <2> QED BY <2>2, <2>3
  <1>24. c.psk # "none" => ch.hashEnd  BY <1>7, <1>9
  <1> QED
    BY <1>5, <1>7, <1>8, <1>12, <1>13, <1>14, <1>15, <1>16, <1>17, <1>18, <1>19, <1>20, <1>21, <1>22, <1>23, <1>24
    DEF Understood

\* The choice of a suite is that of the policy.
LEMMA ChosenByPolicy ==
    ASSUME HelloTyped
    PROVE ChosenSuite = PolicySuite
  <1>1. PICK own, ids, p, z, h : own = hserver.suites /\ ids = hin.suites /\ p = hserver.preference
                                 /\ z = hserver.chacha /\ h = hserver.pskSuites
    OBVIOUS
  <1>2. own \in Seq(Words)  BY <1>1, ContextWords DEF HelloTyped
  <1>3. ids \in Seq(Words)  BY <1>1 DEF HelloTyped, HelloRecord
  <1>4. SelectCipher(own, ids, p, z, h) = Policy(own, ids, p, z, h)  BY <1>2, <1>3, SelectByPolicy
  <1>5. ChosenSuite = SelectCipher(own, ids, p, z, h)  BY <1>1 DEF ChosenSuite
  <1>6. PolicySuite = Policy(own, ids, p, z, h)  BY <1>1 DEF PolicySuite, Policy
  <1> QED BY <1>4, <1>5, <1>6

\* A hello of the client in flight: with which share, in which flight, with a
\* cookie or without.
Flies(share, second, cookie) ==
    /\ share \in Seq(Words) /\ cookie \in Seq(Words) /\ (cookie # <<>> => hserver.cookieKey /\ ~hsrv.inner)
    /\ hin = EncodeClientHello(hclient, Form(hclient, hsrv.inner), share, second, cookie)

\* Its fields, and what the server makes of it.
LEMMA FliesIs ==
    ASSUME hclient \in ClientContexts, NEW share, NEW second, NEW cookie, Flies(share, second, cookie)
    PROVE /\ hin.version = 772 /\ hin.compression = <<0>> /\ hin.suites = hclient.suites
          /\ hin.exts = EncodeExtensions(hclient, Form(hclient, hsrv.inner), share, second, cookie)
          /\ Form(hclient, hsrv.inner) # "encoded"
  <1>1. PICK c, m, h : c = hclient /\ m = Form(hclient, hsrv.inner) /\ h = hin  OBVIOUS
  <1>2. h = EncodeClientHello(c, m, share, second, cookie) /\ share \in Seq(Words) /\ cookie \in Seq(Words)
    BY <1>1 DEF Flies
  <1>3. IsHello(h, c, m, EncodeExtensions(c, m, share, second, cookie))  BY <1>1, <1>2, EncodedHello
  <1>4. m # "encoded"  BY <1>1 DEF Form
  <1> QED BY <1>1, <1>3, <1>4 DEF IsHello

LEMMA FliesDecoded ==
    ASSUME hclient \in ClientContexts, NEW share, NEW second, NEW cookie, Flies(share, second, cookie),
           UpTo(hin.exts, Len(hin.exts), hseen, hch)
    PROVE Understood(hclient, Form(hclient, hsrv.inner), share, second, cookie, hch)
  <1>1. PICK c, m, E : c = hclient /\ m = Form(hclient, hsrv.inner) /\ E = hin.exts  OBVIOUS
  <1>2. E = EncodeExtensions(c, m, share, second, cookie) /\ m # "encoded"  BY <1>1, FliesIs
  <1>3. share \in Seq(Words) /\ cookie \in Seq(Words)  BY DEF Flies
  <1>4. UpTo(E, Len(E), hseen, hch)  BY <1>1
  <1>5. Understood(c, m, share, second, cookie, hch)  BY <1>1, <1>2, <1>3, <1>4, DecodedHello
  <1> QED BY <1>1, <1>5

\* The server decodes it to the end, and then goes on to negotiate.
LEMMA FliesThrough ==
    ASSUME HelloTyped, DecodeInv, hclient \in ClientContexts, NEW share, NEW second, NEW cookie, Flies(share, second, cookie)
    PROVE /\ DecodeFields => hstep' = "decode"
          /\ DecodeExtension => hstep' = "decode"
          /\ CheckConstraints => hstep' = "negotiate"
  <1>1. DecodeFields => hstep' = "decode"
    <2>1. hin.version = 772 /\ hin.compression = <<0>>  BY FliesIs
    <2>2. ~(hin.version < 769) /\ hin.compression # <<>>  BY <2>1
    <2> QED BY <2>2 DEF DecodeFields
  <1>2. ASSUME DecodeExtension PROVE hstep' = "decode"
    <2>1. PICK c, m, E, n, e : c = hclient /\ m = Form(hclient, hsrv.inner) /\ E = hin.exts /\ n = hpos /\ e = hin.exts[hpos + 1]
      OBVIOUS
    <2>2. hstep = "decode" /\ n < Len(E)  BY <1>2, <2>1 DEF DecodeExtension
    <2>3. UpTo(E, n, hseen, hch)  BY <2>1, <2>2 DEF DecodeInv
    <2>4. E = EncodeExtensions(c, m, share, second, cookie) /\ m # "encoded"  BY <2>1, FliesIs
    <2>5. share \in Seq(Words) /\ cookie \in Seq(Words) /\ (cookie # <<>> => hserver.cookieKey)  BY DEF Flies
    <2>6. c \in ClientContexts /\ e = E[n + 1]  BY <2>1
    <2>7. TestAndSet(hseen, e.type).ok /\ WellFormed(e) /\ Legal(e, hch)
      BY <2>2, <2>3, <2>4, <2>5, <2>6, EncodedDecodes
    <2>8. hstep' = hstep  BY <1>2, <2>1, <2>7 DEF DecodeExtension
    <2> QED BY <2>2, <2>8
  <1>3. ASSUME CheckConstraints PROVE hstep' = "negotiate"
    <2>1. hstep = "decode" /\ hpos = Len(hin.exts) /\ hstep' = Constraints(hch)  BY <1>3 DEF CheckConstraints
    <2>2. UpTo(hin.exts, Len(hin.exts), hseen, hch)  BY <2>1 DEF DecodeInv
    <2>3. Understood(hclient, Form(hclient, hsrv.inner), share, second, cookie, hch)  BY <2>2, FliesDecoded
    <2>4. hin.compression = <<0>>  BY FliesIs
    <2>5. hsrv.inner => hclient.ech  BY DEF HelloTyped
    <2>6. hch.ech = IF Form(hclient, hsrv.inner) = "outer" THEN "outer" ELSE IF hclient.ech THEN "inner" ELSE ""
      BY <2>3 DEF Understood
    <2>7. hsrv.inner <=> hch.ech = "inner"  BY <2>5, <2>6 DEF Form
    <2>8. hch.version = "tls13" /\ (hch.hashEnd => hch.last) /\ (hch.early => hch.hashEnd)  BY <2>3 DEF Understood
    <2> QED BY <2>1, <2>4, <2>7, <2>8 DEF Constraints
  <1> QED BY <1>1, <1>2, <1>3

\* What the two ends may have in common, and what excuses a failure.
Common == ToSet(hclient.groups) \cap ToSet(hserver.groups)
Excused == PolicySuite = 0 \/ Common = {} \/ hclient.raw # hserver.raw \/ KeyNotAgreed \/ CookieOfAnotherGroup

\* The suite for this client, and the names the server may have noted.
SuiteForClient ==
    SelectCipher(hserver.suites, hclient.suites, hserver.preference, hserver.chacha, hserver.pskSuites)
OwnName == IF hclient.sni THEN Hosts ELSE <<>>
FirstHello == EncodeClientHello(hclient, Form(hclient, hsrv.inner), FirstShare(hclient), FALSE, <<>>)

\* A retry asks for something the client can give and the server can use; what
\* the server has noted until the answer comes is what it will find again.
AskedOnce ==
    /\ hsrv.cookie # <<>> => hserver.cookieKey /\ ~hsrv.inner
    /\ hsrv.second <=> hsrv.cookie = <<>>
    /\ hsrv.cookie # <<>> => hsrv.cookie = SecondShare \/ CookieOfAnotherGroup
    /\ \E x \in Common : SecondShare = <<x>>
    /\ hsrv.second => hsrv.suite = SuiteForClient /\ hsrv.name \in {<<>>, OwnName}

FirstFlight == hsrv.retries = 0 /\ hstep # "retry" /\ ~hsrv.second /\ hsrv.name \in {<<>>, OwnName} /\ hin = FirstHello
Retrying == hsrv.retries = 1 /\ hstep = "retry" /\ AskedOnce /\ hin = FirstHello
SecondFlight == hsrv.retries = 1 /\ hstep # "retry" /\ AskedOnce /\ hin = NextHello

HelloGoes == {"fields", "decode", "negotiate", "retry", "ok", "psk"}
LibraryHelloInv ==
    hclient \in ClientContexts => (hstep \in HelloGoes \/ Excused) /\ (FirstFlight \/ Retrying \/ SecondFlight)

\* What none of the two ends' steps changes.
LEMMA ExcusedStays ==
    ASSUME hclient' = hclient, hserver' = hserver, hin' = hin, hsrv'.inner = hsrv.inner
    PROVE (Excused' <=> Excused) /\ (CookieOfAnotherGroup' <=> CookieOfAnotherGroup)
  <1>1. PolicySuite' = PolicySuite /\ Common' = Common  BY DEF PolicySuite, Common
  <1>2. KeyNotAgreed' <=> KeyNotAgreed  BY DEF KeyNotAgreed
  <1>3. CookieOfAnotherGroup' <=> CookieOfAnotherGroup  BY DEF CookieOfAnotherGroup
  <1> QED BY <1>1, <1>2, <1>3 DEF Excused

LEMMA FirstFlies ==
    ASSUME hclient \in ClientContexts, hin = FirstHello
    PROVE Flies(FirstShare(hclient), FALSE, <<>>)
  <1>1. <<>> \in Seq(Words)  OBVIOUS
  <1> QED BY <1>1, FirstShareIs DEF Flies, FirstHello

LEMMA SecondFlies ==
    ASSUME HelloTyped, hclient \in ClientContexts, hin = NextHello, AskedOnce
    PROVE Flies(SecondShare, TRUE, hsrv.cookie)
  <1>1. SecondShare \in Seq(Words)
    <2>1. hsrv.group \in Seq(Words)  BY DEF HelloTyped, ServerTyped
    <2> QED BY <2>1, FirstShareIs DEF SecondShare
  <1>2. hsrv.cookie # <<>> => hserver.cookieKey /\ ~hsrv.inner  BY DEF AskedOnce
  <1>3. hsrv.cookie \in Seq(Words)  BY DEF HelloTyped, ServerTyped
  <1> QED BY <1>1, <1>2, <1>3 DEF Flies, NextHello

\* Some hello of the client is in flight.
LEMMA SomeFlies ==
    ASSUME HelloTyped, hclient \in ClientContexts, LibraryHelloInv
    PROVE \E share, second, cookie : Flies(share, second, cookie)
  <1>1. hin = FirstHello \/ (hin = NextHello /\ AskedOnce)  BY DEF LibraryHelloInv, FirstFlight, Retrying, SecondFlight
  <1>2. CASE hin = FirstHello
    <2>1. Flies(FirstShare(hclient), FALSE, <<>>)  BY <1>2, FirstFlies
    <2> QED BY <2>1
  <1>3. CASE hin = NextHello /\ AskedOnce
    <2>1. Flies(SecondShare, TRUE, hsrv.cookie)  BY <1>3, SecondFlies
    <2> QED BY <2>1
  <1> QED BY <1>1, <1>2, <1>3

\* The steps that only decode it.
LEMMA DecodingKeepsLibrary ==
    ASSUME HelloTyped, DecodeInv, LibraryHelloInv, DecodeFields \/ DecodeExtension \/ CheckConstraints
    PROVE LibraryHelloInv'
  <1>1. hclient' = hclient /\ hserver' = hserver /\ hin' = hin /\ hsrv' = hsrv /\ hstep # "retry"
    BY DEF DecodeFields, DecodeExtension, CheckConstraints
  <1>2. SUFFICES ASSUME hclient \in ClientContexts
                 PROVE hstep' \in HelloGoes /\ (FirstFlight' \/ SecondFlight')
    BY <1>1 DEF LibraryHelloInv
  <1>3. PICK share, second, cookie : Flies(share, second, cookie)  BY <1>2, SomeFlies
  <1>4. hstep' \in {"decode", "negotiate"}  BY <1>2, <1>3, FliesThrough
  <1>5. FirstFlight \/ SecondFlight  BY <1>1, <1>2 DEF LibraryHelloInv, Retrying
  <1>6. CASE FirstFlight
    <2>1. FirstFlight'  BY <1>1, <1>4, <1>6 DEF FirstFlight, FirstHello, OwnName
    <2> QED BY <1>4, <2>1 DEF HelloGoes
  <1>7. CASE SecondFlight
    <2>3. CookieOfAnotherGroup' <=> CookieOfAnotherGroup  BY <1>1, ExcusedStays
    <2>1. AskedOnce'  BY <1>1, <1>7, <2>3 DEF SecondFlight, AskedOnce, Common, SecondShare, SuiteForClient, OwnName
    <2>2. SecondFlight'  BY <1>1, <1>4, <1>7, <2>1 DEF SecondFlight, NextHello, SecondShare
    <2> QED BY <1>4, <2>2 DEF HelloGoes
  <1> QED BY <1>5, <1>6, <1>7

\* The group a retry would ask for, and the share that will do, if the server
\* has understood the client.
LEMMA GroupInCommon ==
    ASSUME HelloTyped, hclient \in ClientContexts, hch.groups = hclient.groups
    PROVE \/ ChosenGroup = <<>> /\ Common = {}
          \/ \E x \in Common : ChosenGroup = <<x>>
  <1>1. PICK l, S, f : l = hclient.groups /\ S = ToSet(hserver.groups) /\ f = FirstIn(hclient.groups, ToSet(hserver.groups))
    OBVIOUS
  <1>2. l \in Seq(Words)  BY <1>1, ContextWords
  <1>3. f = FirstIn(l, S)  BY <1>1
  <1>4. \/ f = <<>> /\ ToSet(l) \cap S = {}
        \/ \E x \in ToSet(l) \cap S : f = <<x>>
    BY <1>2, <1>3, FirstInIs
  <1>5. ChosenGroup = f /\ Common = ToSet(l) \cap S  BY <1>1 DEF ChosenGroup, SelectNegotiatedGroup, Common
  <1> QED BY <1>4, <1>5

LEMMA ShareInCommon ==
    ASSUME HelloTyped, hch.hasShares, hch.shares \in Seq(Words)
    PROVE \/ Share(hch) = <<>> /\ ToSet(hch.shares) \cap ToSet(hserver.groups) = {}
          \/ \E x \in ToSet(hch.shares) \cap ToSet(hserver.groups) : Share(hch) = <<x>>
  <1>1. PICK l, S, f : l = hch.shares /\ S = ToSet(hserver.groups) /\ f = FirstIn(hch.shares, ToSet(hserver.groups))
    OBVIOUS
  <1>2. l \in Seq(Words) /\ f = FirstIn(l, S)  BY <1>1
  <1>3. \/ f = <<>> /\ ToSet(l) \cap S = {}
        \/ \E x \in ToSet(l) \cap S : f = <<x>>
    BY <1>2, FirstInIs
  <1>4. Share(hch) = f  BY <1>1 DEF Share, SelectKeyShare
  <1> QED BY <1>1, <1>3, <1>4

\* A client of the same kind of certificate is not refused.
LEMMA NotRefused ==
    ASSUME NEW mode, NEW share, NEW second, NEW cookie, Understood(hclient, mode, share, second, cookie, hch),
           hclient.raw = hserver.raw,
           hsrv.second => second /\ hsrv.name \in {<<>>, OwnName}
    PROVE Refusal(hch) = ""
  <1>1. CASE ~hsrv.second
    <2>1. IF hclient.raw THEN "raw" \in ToSet(hch.certTypes) ELSE hch.certTypes = <<>>  BY DEF Understood
    <2>2. CASE hclient.raw
      <3>1. hserver.raw /\ "raw" \in ToSet(hch.certTypes)  BY <2>1, <2>2
      <3> QED BY <1>1, <3>1 DEF Refusal, CertificateTypeExists
    <2>3. CASE ~hclient.raw
      <3>1. ~hserver.raw /\ hch.certTypes = <<>>  BY <2>1, <2>3
      <3> QED BY <1>1, <3>1 DEF Refusal, CertificateTypeExists
    <2> QED BY <2>2, <2>3
  <1>2. CASE hsrv.second
    <2>1. ~hch.early /\ hch.sni = OwnName  BY <1>2 DEF Understood, OwnName
    <2>2. hsrv.name \in {<<>>, OwnName}  BY <1>2
    <2> QED BY <1>2, <2>1, <2>2 DEF Refusal
  <1> QED BY <1>1, <1>2

\* A suite not found, or nothing else to find.
LEMMA SuiteOrExcused ==
    ASSUME HelloTyped, hclient \in ClientContexts, hin.suites = hclient.suites
    PROVE /\ ChosenSuite = SuiteForClient
          /\ ChosenSuite = 0 => Excused
  BY ChosenByPolicy DEF ChosenSuite, SuiteForClient, Excused

\* Once there is a share the key exchange succeeds, unless an external key is
\* insisted on that is not agreed on.
LEMMA ShareSuffices ==
    ASSUME hclient \in ClientContexts, NEW share, NEW flight, NEW cookie,
           Understood(hclient, Form(hclient, hsrv.inner), share, flight, cookie, hch), Share(hch) # <<>>, NEW second
    PROVE KeyExchange(hch, second) \in {"ok", "psk"} \/ Excused
  <1>1. CASE hserver.psk # "external"  BY <1>1 DEF KeyExchange
  <1>2. CASE hserver.psk = "external" /\ ~KeyNotAgreed
    <2>1. hclient.psk = "external" /\ ~(hclient.ech /\ ~hsrv.inner) /\ ~hserver.clientAuth  BY <1>2 DEF KeyNotAgreed
    <2>2. OfferedIdentity(hclient, Form(hclient, hsrv.inner)) = "ext"  BY <2>1 DEF Form, OfferedIdentity
    <2>3. hch.hashEnd /\ hch.modes # {} /\ "ext" \in ToSet(hch.ids) /\ hch.ids \in Seq(Words)
      BY <2>1, <2>2 DEF Understood, HelloType
    <2>4. PICK K, f : K = KnownIdentities(second) /\ f = FirstIn(hch.ids, K)  OBVIOUS
    <2>5. K = {"ext"}  BY <1>2, <2>4 DEF KnownIdentities
    <2>6. f # <<>>
      <3>1. PICK l : l = hch.ids  OBVIOUS
      <3>2. l \in Seq(Words) /\ f = FirstIn(l, K) /\ ToSet(l) \cap K # {}  BY <2>3, <2>4, <2>5, <3>1
      <3>3. PICK x : f = <<x>>  BY <3>2, FirstInIs
      <3> QED BY <3>3
    <2>7. PskChosen(hch, second)  BY <2>1, <2>3, <2>4, <2>6 DEF PskChosen
    <2> QED BY <2>7 DEF KeyExchange
  <1>3. CASE KeyNotAgreed  BY <1>3 DEF Excused
  <1> QED BY <1>1, <1>2, <1>3

\* And it succeeds with that key alone.
LEMMA KeyInsisted ==
    ASSUME hch \in HelloType, Negotiate
    PROVE KeyInsistedOn'
  <1>1. hserver' = hserver /\ hch' = hch  BY DEF Negotiate
  <1>2. SUFFICES ASSUME hstep' \in {"ok", "psk"}, hserver.psk = "external"
                 PROVE "ext" \in ToSet(hch.ids) /\ ~hserver.clientAuth
    BY <1>1 DEF KeyInsistedOn, Accepted
  <1>3. \E second : hstep' = KeyExchange(hch, second)
    <2>1. NegotiateAs  BY NegotiateIs
    <2>2. hstep' = KeyExchange(hch, hsrv.second \/ CookieReturned(hch))  BY <1>2, <2>1, Outcomes DEF NegotiateAs
    <2> QED BY <2>2
  <1>4. PICK second : hstep' = KeyExchange(hch, second)  BY <1>3
  <1>5. PskChosen(hch, second)  BY <1>2, <1>4 DEF KeyExchange
  <1>6. PICK K, f : K = KnownIdentities(second) /\ f = FirstIn(hch.ids, K)  OBVIOUS
  <1>7. K = {"ext"}  BY <1>2, <1>6 DEF KnownIdentities
  <1>8. f # <<>> /\ ~hserver.clientAuth /\ hch.ids \in Seq(Words)  BY <1>5, <1>6 DEF PskChosen, HelloType
  <1> QED BY <1>6, <1>7, <1>8, FirstInIs

\* What is left as it is when the server has come to an end.
LEMMA NotedKeeps ==
    ASSUME HelloTyped, hch \in HelloType, hclient' = hclient, hserver' = hserver, hin' = hin, hstep = "negotiate",
           hsrv' = hsrv \/ hsrv' = Noted, hstep' # "retry",
           hclient \in ClientContexts, hch.sni = OwnName, hin.suites = hclient.suites,
           FirstFlight \/ SecondFlight
    PROVE FirstFlight' \/ SecondFlight'
  <1>1. ServerTyped(hsrv) /\ NotedAs(Noted)  BY NotedIs DEF HelloTyped
  <1>2. /\ hsrv'.second = hsrv.second /\ hsrv'.inner = hsrv.inner /\ hsrv'.retries = hsrv.retries
        /\ hsrv'.cookie = hsrv.cookie /\ hsrv'.group = hsrv.group
        /\ hsrv'.name = hsrv.name \/ hsrv'.name = SavedName(hch)
        /\ hsrv'.suite = hsrv.suite \/ hsrv'.suite = ChosenSuite
    BY <1>1 DEF NotedAs
  <1>3. OwnName' = OwnName /\ SuiteForClient' = SuiteForClient /\ Common' = Common /\ SecondShare' = SecondShare
    BY <1>2 DEF OwnName, SuiteForClient, Common, SecondShare
  <1>8. CookieOfAnotherGroup' <=> CookieOfAnotherGroup  BY <1>2, ExcusedStays
  <1>4. hsrv.name \in {<<>>, OwnName} => hsrv'.name \in {<<>>, OwnName}  BY <1>2 DEF SavedName
  <1>5. ChosenSuite = SuiteForClient  BY SuiteOrExcused
  <1>6. CASE FirstFlight
    <2>1. FirstHello' = FirstHello  BY <1>2 DEF FirstHello
    <2>2. FirstFlight'  BY <1>2, <1>3, <1>4, <1>6, <2>1 DEF FirstFlight
    <2> QED BY <2>2
  <1>7. CASE SecondFlight
    <2>1. NextHello' = NextHello  BY <1>2, <1>3 DEF NextHello
    <2>2. AskedOnce  BY <1>7 DEF SecondFlight
    <2>3. AskedOnce'
      <3>1. (hsrv.cookie # <<>> => hserver.cookieKey /\ ~hsrv.inner)'  BY <1>2, <2>2 DEF AskedOnce
      <3>2. (hsrv.second <=> hsrv.cookie = <<>>)'  BY <1>2, <2>2 DEF AskedOnce
      <3>5. (hsrv.cookie # <<>> => hsrv.cookie = SecondShare \/ CookieOfAnotherGroup)'
        BY <1>2, <1>3, <1>8, <2>2 DEF AskedOnce
      <3>3. (\E x \in Common : SecondShare = <<x>>)'  BY <1>3, <2>2 DEF AskedOnce
      <3>4. (hsrv.second => hsrv.suite = SuiteForClient /\ hsrv.name \in {<<>>, OwnName})'
        BY <1>2, <1>3, <1>4, <1>5, <2>2 DEF AskedOnce
      <3> QED BY <3>1, <3>2, <3>3, <3>4, <3>5 DEF AskedOnce
    <2>4. SecondFlight'  BY <1>2, <1>7, <2>1, <2>3 DEF SecondFlight
    <2> QED BY <2>4
  <1> QED BY <1>6, <1>7

LEMMA InnerStays ==
    ASSUME HelloTyped, hch \in HelloType, Negotiate
    PROVE hsrv'.inner = hsrv.inner
  <1>1. NegotiateAs /\ NotedAs(Noted)  BY NegotiateIs, NotedIs DEF HelloTyped
  <1>2. CASE /\ ChosenGroup # <<>>
             /\ hsrv' = [IF Stateless THEN [Noted EXCEPT !.suite = 0, !.name = <<>>] ELSE [Noted EXCEPT !.second = TRUE]
                         EXCEPT !.retries = @ + 1, !.cookie = NewCookie,
                                !.group = IF Share(hch) = <<>> THEN <<ChosenGroup[1]>> ELSE <<>>]
    <2>1. RetriedAs(hsrv')  BY <1>2, RetriedIs DEF HelloTyped
    <2> QED BY <2>1 DEF RetriedAs
  <1>3. CASE hsrv' = hsrv \/ hsrv' = Noted  BY <1>1, <1>3 DEF NotedAs
  <1> QED BY <1>1, <1>2, <1>3 DEF NegotiateAs

\* The server negotiates with the client's first hello: it agrees, is excused,
\* or asks for what the client has.
LEMMA NegotiateFirst ==
    ASSUME HelloTyped, DecodeInv, hclient \in ClientContexts, FirstFlight, Negotiate
    PROVE (hstep' \in HelloGoes \/ Excused') /\ (FirstFlight' \/ Retrying')
  <1>1. /\ hstep = "negotiate"
        /\ hclient' = hclient /\ hserver' = hserver /\ hin' = hin
    BY DEF Negotiate
  <1>2. hin = FirstHello /\ ~hsrv.second /\ hsrv.retries = 0 /\ hsrv.name \in {<<>>, OwnName}  BY DEF FirstFlight
  <1>3. PICK m, s, k, q : m = Form(hclient, hsrv.inner) /\ s = FirstShare(hclient) /\ k = FALSE /\ q = <<>>  OBVIOUS
  <1>4. Flies(s, k, q)  BY <1>2, <1>3, FirstFlies
  <1>5. UpTo(hin.exts, Len(hin.exts), hseen, hch)  BY <1>1 DEF DecodeInv, Checked
  <1>6. Understood(hclient, m, s, k, q, hch)  BY <1>3, <1>4, <1>5, FliesDecoded
  <1>7. /\ hch \in HelloType /\ hch.cookie = <<>> /\ hch.hasGroups /\ hch.hasShares /\ hch.groups = hclient.groups /\ hch.shares = s
        /\ hch.sni = OwnName
    BY <1>3, <1>6 DEF Understood, OwnName
  <1>8. hin.suites = hclient.suites  BY <1>4, FliesIs
  <1>9. Excused' <=> Excused
    <2>1. hsrv'.inner = hsrv.inner  BY <1>7, InnerStays
    <2> QED BY <1>1, <2>1, ExcusedStays
  <1>10. NegotiateAs  BY NegotiateIs
  <1>11. hclient.raw = hserver.raw => Refusal(hch) = ""  BY <1>2, <1>6, NotRefused
  <1>12. ChosenSuite = SuiteForClient /\ (ChosenSuite = 0 => Excused)  BY <1>8, SuiteOrExcused
  <1>13. \/ ChosenGroup = <<>> /\ Common = {}
         \/ \E x \in Common : ChosenGroup = <<x>>
    BY <1>7, GroupInCommon
  <1>14. s \in Seq(Words)  BY <1>4 DEF Flies
  <1>15. \/ Share(hch) = <<>>
         \/ \E x \in ToSet(s) \cap ToSet(hserver.groups) : Share(hch) = <<x>>
    BY <1>7, <1>14, ShareInCommon
  <1>16. CASE hsrv' = hsrv /\ Refusal(hch) # "" /\ hstep' = Refusal(hch)
    <2>1. hstep' # "retry"  BY <1>16, Outcomes
    <2>2. FirstFlight' \/ SecondFlight'  BY <1>1, <1>7, <1>8, <1>16, <2>1, NotedKeeps
    <2>5. hsrv'.retries = 0  BY <1>2, <1>16
    <2>3. ~SecondFlight'  BY <2>5 DEF SecondFlight
    <2>4. Excused  BY <1>11, <1>16 DEF Excused
    <2> QED BY <1>9, <2>2, <2>3, <2>4
  <1>17. ASSUME hsrv' = Noted, hstep' # "retry", hstep' \in {"ok", "psk"} \/ Excused
         PROVE (hstep' \in HelloGoes \/ Excused') /\ FirstFlight'
    <2>1. FirstFlight' \/ SecondFlight'  BY <1>1, <1>7, <1>8, <1>17, NotedKeeps
    <2>2. hsrv'.retries = 0
      <3>1. NotedAs(Noted)  BY <1>7, NotedIs DEF HelloTyped
      <3> QED BY <1>2, <1>17, <3>1 DEF NotedAs
    <2>3. ~SecondFlight'  BY <2>2 DEF SecondFlight
    <2> QED BY <1>9, <1>17, <2>1, <2>3 DEF HelloGoes
  <1>18. CASE hsrv' = Noted /\ hstep' = "handshake_failure" /\ (ChosenSuite = 0 \/ (hsrv.second /\ ChosenSuite # hsrv.suite))
    <2>1. Excused  BY <1>2, <1>12, <1>18
    <2> QED BY <1>17, <1>18, <2>1
  <1>22. ~CookieReturned(hch)  BY <1>7 DEF CookieReturned
  <1>19. CASE Goes /\ ~NeedsRetry(hch) /\ hstep' = KeyExchange(hch, hsrv.second \/ CookieReturned(hch)) /\ hsrv' = Noted
    <2>1. hserver.groups = <<>> \/ Share(hch) # <<>>  BY <1>2, <1>7, <1>19, <1>22 DEF NeedsRetry
    <2>2. hstep' \in {"psk", "ok", "handshake_failure", "missing_extension", "unknown_psk_identity"}  BY <1>19, Outcomes
    <2>3. CASE hserver.groups = <<>>
      <3>1. ToSet(hserver.groups) = {}  BY <2>3 DEF ToSet
      <3>2. Excused  BY <3>1 DEF Excused, Common
      <3> QED BY <1>17, <1>19, <2>2, <3>2
    <2>4. CASE Share(hch) # <<>>
      <3>1. hstep' \in {"ok", "psk"} \/ Excused  BY <1>3, <1>6, <1>19, <2>4, ShareSuffices
      <3> QED BY <1>17, <1>19, <2>2, <3>1
    <2> QED BY <2>1, <2>3, <2>4
  <1>20. CASE Goes /\ NeedsRetry(hch) /\ ChosenGroup = <<>> /\ hstep' = "handshake_failure" /\ hsrv' = Noted
    <2>1. Excused  BY <1>13, <1>20 DEF Excused
    <2> QED BY <1>17, <1>20, <2>1
  <1>21. CASE /\ Goes /\ NeedsRetry(hch) /\ hch.hasGroups /\ ChosenGroup # <<>> /\ hstep' = "retry"
              /\ hsrv' = [IF Stateless THEN [Noted EXCEPT !.suite = 0, !.name = <<>>] ELSE [Noted EXCEPT !.second = TRUE]
                          EXCEPT !.retries = @ + 1, !.cookie = NewCookie,
                                 !.group = IF Share(hch) = <<>> THEN <<ChosenGroup[1]>> ELSE <<>>]
    <2>1. RetriedAs(hsrv')  BY <1>7, <1>21, RetriedIs DEF HelloTyped
    <2>2. /\ hsrv'.inner = hsrv.inner /\ hsrv'.retries = 1
          /\ hsrv'.second <=> ~Stateless
          /\ hsrv'.cookie = NewCookie
          /\ ~Stateless => hsrv'.suite = ChosenSuite /\ hsrv'.name = SavedName(hch)
          /\ hsrv'.group = IF Share(hch) = <<>> THEN <<ChosenGroup[1]>> ELSE <<>>
      BY <1>2, <2>1 DEF RetriedAs
    <2>3. FirstHello' = FirstHello  BY <1>1, <2>2 DEF FirstHello
    <2>4. Common' = Common /\ SuiteForClient' = SuiteForClient /\ OwnName' = OwnName
      BY <1>1 DEF Common, SuiteForClient, OwnName
    <2>5. PICK x \in Common : ChosenGroup = <<x>>  BY <1>13, <1>21
    <2>6. /\ \E y \in Common : SecondShare' = <<y>>
          /\ Share(hch) = <<>> => SecondShare' = ChosenGroup
          /\ Share(hch) # <<>> => SecondShare' = s /\ ToSet(s) \cap ToSet(hserver.groups) # {}
      <3>1. CASE Share(hch) = <<>>
        <4>1. hsrv'.group = <<x>>  BY <2>2, <2>5, <3>1
        <4>2. <<x>> # <<>>  OBVIOUS
        <4>3. SecondShare' = <<x>>  BY <4>1, <4>2 DEF SecondShare
        <4> QED BY <2>5, <3>1, <4>3
      <3>2. CASE Share(hch) # <<>>
        <4>1. PICK z \in ToSet(s) \cap ToSet(hserver.groups) : Share(hch) = <<z>>  BY <1>15, <3>2
        <4>2. SecondShare' = s  BY <1>1, <1>3, <2>2, <3>2 DEF SecondShare
        <4>3. s # <<>>  BY <4>1 DEF ToSet
        <4>4. PICK y \in ToSet(hclient.groups) : s = <<y>>  BY <1>3, <4>3, FirstShareIs
        <4>5. y = z  BY <4>1, <4>4 DEF ToSet
        <4>6. y \in Common  BY <4>1, <4>4, <4>5 DEF Common
        <4> QED BY <3>2, <4>1, <4>2, <4>4, <4>6
      <3> QED BY <3>1, <3>2
    <2>7. SavedName(hch) \in {<<>>, OwnName}  BY <1>2, <1>7 DEF SavedName
    <2>8. AskedOnce'
      <3>1. (hsrv.cookie # <<>> => hserver.cookieKey /\ ~hsrv.inner)'  BY <1>1, <2>2 DEF NewCookie, Stateless
      <3>2. (hsrv.second <=> hsrv.cookie = <<>>)'  BY <1>21, <2>2 DEF NewCookie
      <3>5. (hsrv.cookie # <<>> => hsrv.cookie = SecondShare \/ CookieOfAnotherGroup)'
        <4>1. SUFFICES ASSUME hsrv'.cookie # <<>>, hsrv'.cookie # SecondShare' PROVE CookieOfAnotherGroup'  OBVIOUS
        <4>2. Stateless /\ hsrv'.cookie = ChosenGroup  BY <2>2, <4>1 DEF NewCookie
        <4>3. Share(hch) # <<>> /\ ChosenGroup # s /\ ToSet(s) \cap ToSet(hserver.groups) # {}  BY <2>6, <4>1, <4>2
        <4>4. hserver.enforceRetry  BY <1>21, <4>3 DEF NeedsRetry
        <4>5. CookieOfAnotherGroup
          BY <1>3, <1>7, <4>2, <4>3, <4>4 DEF CookieOfAnotherGroup, Stateless, ChosenGroup
        <4> QED BY <1>1, <2>2, <4>5, ExcusedStays
      <3>3. (\E y \in Common : SecondShare = <<y>>)'  BY <2>4, <2>6
      <3>4. (hsrv.second => hsrv.suite = SuiteForClient /\ hsrv.name \in {<<>>, OwnName})'
        BY <1>12, <2>2, <2>4, <2>7
      <3> QED BY <3>1, <3>2, <3>3, <3>4, <3>5 DEF AskedOnce
    <2>9. Retrying'  BY <1>1, <1>2, <1>21, <2>2, <2>3, <2>8 DEF Retrying
    <2> QED BY <1>21, <2>9 DEF HelloGoes
  <1> QED BY <1>7, <1>10, <1>16, <1>18, <1>19, <1>20, <1>21, <1>22 DEF NegotiateAs

\* With its second hello it agrees or is excused, and asks for nothing more.
LEMMA NegotiateSecond ==
    ASSUME HelloTyped, DecodeInv, hclient \in ClientContexts, SecondFlight, Negotiate
    PROVE (hstep' \in HelloGoes \/ Excused') /\ SecondFlight'
  <1>1. /\ hstep = "negotiate"
        /\ hclient' = hclient /\ hserver' = hserver /\ hin' = hin
    BY DEF Negotiate
  <1>2. hin = NextHello /\ hsrv.retries = 1 /\ AskedOnce  BY DEF SecondFlight
  <1>3. PICK m, s, k, q : m = Form(hclient, hsrv.inner) /\ s = SecondShare /\ k = TRUE /\ q = hsrv.cookie  OBVIOUS
  <1>4. Flies(s, k, q)  BY <1>2, <1>3, SecondFlies
  <1>5. UpTo(hin.exts, Len(hin.exts), hseen, hch)  BY <1>1 DEF DecodeInv, Checked
  <1>6. Understood(hclient, m, s, k, q, hch)  BY <1>3, <1>4, <1>5, FliesDecoded
  <1>7. /\ hch \in HelloType /\ hch.hasGroups /\ hch.hasShares /\ hch.shares = s
        /\ hch.sni = OwnName
    BY <1>3, <1>6 DEF Understood, OwnName
  <1>8. hin.suites = hclient.suites  BY <1>4, FliesIs
  <1>9. Excused' <=> Excused
    <2>1. hsrv'.inner = hsrv.inner  BY <1>7, InnerStays
    <2> QED BY <1>1, <2>1, ExcusedStays
  <1>10. NegotiateAs  BY NegotiateIs
  <1>11. hclient.raw = hserver.raw => Refusal(hch) = ""
    <2>1. hsrv.second => hsrv.name \in {<<>>, OwnName}  BY <1>2 DEF AskedOnce
    <2> QED BY <1>3, <1>6, <2>1, NotRefused
  <1>12. ChosenSuite = SuiteForClient /\ (ChosenSuite = 0 => Excused)  BY <1>8, SuiteOrExcused
  <1>13. hsrv.second => hsrv.suite = ChosenSuite  BY <1>2, <1>12 DEF AskedOnce
  <1>14. Share(hch) # <<>> /\ Share(hch) = s
    <2>1. PICK x \in Common : s = <<x>>  BY <1>2, <1>3 DEF AskedOnce
    <2>2. x \in ToSet(s) /\ x \in ToSet(hserver.groups)  BY <2>1 DEF ToSet, Common
    <2>3. s \in Seq(Words)  BY <1>4 DEF Flies
    <2>4. PICK z \in ToSet(s) \cap ToSet(hserver.groups) : Share(hch) = <<z>>  BY <1>7, <2>2, <2>3, ShareInCommon
    <2>5. z = x  BY <2>1, <2>4 DEF ToSet
    <2> QED BY <2>1, <2>4, <2>5
  <1>20. hch.cookie = hsrv.cookie  BY <1>3, <1>6 DEF Understood
  <1>15. ~NeedsRetry(hch)
    <2>1. hsrv.second \/ hch.cookie # <<>>  BY <1>2, <1>20 DEF AskedOnce
    <2> QED BY <1>14, <2>1 DEF NeedsRetry, CookieReturned
  <1>16. ASSUME hsrv' = hsrv \/ hsrv' = Noted, hstep' # "retry", hstep' \in {"ok", "psk"} \/ Excused
         PROVE (hstep' \in HelloGoes \/ Excused') /\ SecondFlight'
    <2>1. FirstFlight' \/ SecondFlight'  BY <1>1, <1>7, <1>8, <1>16, NotedKeeps
    <2>2. hsrv'.retries = 1
      <3>1. NotedAs(Noted)  BY <1>7, NotedIs DEF HelloTyped
      <3> QED BY <1>2, <1>16, <3>1 DEF NotedAs
    <2>3. ~FirstFlight'  BY <2>2 DEF FirstFlight
    <2> QED BY <1>9, <1>16, <2>1, <2>3 DEF HelloGoes
  <1>17. CASE hsrv' = hsrv /\ Refusal(hch) # "" /\ hstep' = Refusal(hch)
    <2>1. hstep' # "retry"  BY <1>17, Outcomes
    <2>2. Excused  BY <1>11, <1>17 DEF Excused
    <2> QED BY <1>16, <1>17, <2>1, <2>2
  <1>18. CASE hsrv' = Noted /\ hstep' = "handshake_failure" /\ (ChosenSuite = 0 \/ (hsrv.second /\ ChosenSuite # hsrv.suite))
    <2>1. Excused  BY <1>12, <1>13, <1>18
    <2> QED BY <1>16, <1>18, <2>1
  <1>19. CASE hstep' = KeyExchange(hch, hsrv.second \/ CookieReturned(hch)) /\ hsrv' = Noted
    <2>1. hstep' \in {"ok", "psk"} \/ Excused  BY <1>3, <1>6, <1>14, <1>19, ShareSuffices
    <2>2. hstep' # "retry"  BY <1>19, Outcomes
    <2> QED BY <1>16, <1>19, <2>1, <2>2
  <1>21. CASE CookieReturned(hch) /\ hch.cookie # Share(hch) /\ hstep' = "handshake_failure" /\ hsrv' = Noted
    <2>1. hsrv.cookie # <<>> /\ hsrv.cookie # SecondShare  BY <1>3, <1>14, <1>20, <1>21 DEF CookieReturned
    <2>2. Excused  BY <1>2, <2>1 DEF AskedOnce, Excused
    <2> QED BY <1>16, <1>21, <2>2
  <1> QED BY <1>10, <1>15, <1>17, <1>18, <1>19, <1>21 DEF NegotiateAs

\* The client can always give what it is asked for.
LEMMA ClientRetryGives ==
    ASSUME HelloTyped, LibraryHelloInv, ClientRetry
    PROVE LibraryHelloInv'
  <1>1. /\ hstep = "retry" /\ hclient \in ClientContexts
        /\ hclient' = hclient /\ hserver' = hserver /\ hsrv' = hsrv
        /\ \/ /\ (hsrv.group # <<>> /\ hsrv.group[1] \notin ToSet(hclient.groups)) \/ SecondShare = <<>>
              /\ hstep' = "client_illegal" /\ hin' = hin
           \/ hin' = NextHello /\ hstep' = "fields"
    BY ClientRetryIs
  <1>2. Retrying  BY <1>1 DEF LibraryHelloInv, FirstFlight, SecondFlight
  <1>3. PICK x \in Common : SecondShare = <<x>>  BY <1>2 DEF Retrying, AskedOnce
  <1>4. SecondShare # <<>>  BY <1>3
  <1>5. hsrv.group # <<>> => hsrv.group[1] \in ToSet(hclient.groups)  BY <1>3 DEF SecondShare, Common
  <1>6. hin' = NextHello /\ hstep' = "fields"  BY <1>1, <1>4, <1>5
  <1>9. CookieOfAnotherGroup' <=> CookieOfAnotherGroup  BY <1>1 DEF CookieOfAnotherGroup
  <1>7. AskedOnce'  BY <1>1, <1>2, <1>9 DEF Retrying, AskedOnce, Common, SecondShare, SuiteForClient, OwnName
  <1>8. SecondFlight'  BY <1>1, <1>2, <1>6, <1>7 DEF Retrying, SecondFlight, NextHello, SecondShare
  <1> QED BY <1>6, <1>8 DEF LibraryHelloInv, HelloGoes

\* A client of another make: the server asks it once at most, as it remembers
\* having asked.
RetriesInv ==
    hclient = [library |-> FALSE] =>
        \/ hsrv.retries = 0
        \/ hsrv.retries = 1 /\ (hstep \in {"fields", "decode", "negotiate"} => hsrv.second)

SuiteInv == Accepted => hsrv.suite = ChosenSuite

LEMMA NegotiateRemembers ==
    ASSUME HelloTyped, DecodeInv, RetriesInv, Negotiate
    PROVE RetriesInv' /\ SuiteInv' /\ KeyInsistedOn'
  <1>1. hstep = "negotiate" /\ hclient' = hclient /\ hserver' = hserver /\ hin' = hin  BY DEF Negotiate
  <1>2. hch \in HelloType  BY <1>1 DEF DecodeInv, Checked, UpTo
  <1>3. NotedAs(Noted)  BY <1>2, NotedIs DEF HelloTyped
  <1>4. NegotiateAs  BY NegotiateIs
  <1>5. KeyInsistedOn'  BY <1>2, KeyInsisted
  <1>6. ChosenSuite' = ChosenSuite  BY <1>1 DEF ChosenSuite
  <1>7. CASE hsrv' = hsrv /\ Refusal(hch) # "" /\ hstep' = Refusal(hch)
    <2>1. hstep' \in {"unsupported_certificate", "decode_error", "handshake_failure"}  BY <1>7, Outcomes
    <2>2. hsrv'.retries = hsrv.retries /\ hsrv'.second = hsrv.second  BY <1>7
    <2>3. RetriesInv'  BY <1>1, <2>1, <2>2 DEF RetriesInv
    <2> QED BY <1>5, <2>1, <2>3 DEF SuiteInv, Accepted
  <1>8. CASE hsrv' = Noted /\ hstep' \in {"psk", "ok", "handshake_failure", "missing_extension", "unknown_psk_identity"}
    <2>1. hsrv'.retries = hsrv.retries /\ hsrv'.second = hsrv.second /\ hsrv'.suite = ChosenSuite
      BY <1>3, <1>8 DEF NotedAs
    <2>2. RetriesInv'  BY <1>1, <1>8, <2>1 DEF RetriesInv
    <2> QED BY <1>5, <1>6, <2>1, <2>2 DEF SuiteInv
  <1>9. CASE /\ NeedsRetry(hch) /\ ChosenGroup # <<>> /\ hstep' = "retry"
             /\ hsrv' = [IF Stateless THEN [Noted EXCEPT !.suite = 0, !.name = <<>>] ELSE [Noted EXCEPT !.second = TRUE]
                         EXCEPT !.retries = @ + 1, !.cookie = NewCookie,
                                !.group = IF Share(hch) = <<>> THEN <<ChosenGroup[1]>> ELSE <<>>]
    <2>1. RetriedAs(hsrv')  BY <1>2, <1>9, RetriedIs DEF HelloTyped
    <2>2. hsrv'.retries = hsrv.retries + 1  BY <2>1 DEF RetriedAs
    <2>3. ~hsrv.second  BY <1>9 DEF NeedsRetry
    <2>4. RetriesInv'  BY <1>1, <1>9, <2>2, <2>3 DEF RetriesInv
    <2> QED BY <1>5, <1>9, <2>4 DEF SuiteInv, Accepted
  <1>10. \A second : KeyExchange(hch, second) \in {"psk", "ok", "handshake_failure", "missing_extension", "unknown_psk_identity"}  BY Outcomes
  <1> QED BY <1>4, <1>7, <1>8, <1>9, <1>10, <1>5 DEF NegotiateAs

LEMMA OtherStepsRemember ==
    ASSUME HelloTyped, RetriesInv,
           DecodeFields \/ DecodeExtension \/ CheckConstraints \/ ClientRetry \/ OtherRetry
    PROVE RetriesInv' /\ SuiteInv' /\ KeyInsistedOn'
  <1>1. hclient' = hclient /\ hsrv' = hsrv
    BY DEF DecodeFields, DecodeExtension, CheckConstraints, ClientRetry, OtherRetry
  <1>2. CASE DecodeFields \/ DecodeExtension \/ CheckConstraints
    <2>1. hstep \in {"fields", "decode"}  BY <1>2 DEF DecodeFields, DecodeExtension, CheckConstraints
    <2>2. hstep' \in {"protocol_version", "decode_error", "illegal", "decode", "negotiate"}
      <3>1. CASE DecodeFields  BY <3>1 DEF DecodeFields
      <3>2. CASE DecodeExtension  BY <3>2 DEF DecodeExtension
      <3>3. CASE CheckConstraints  BY <3>3, Outcomes DEF CheckConstraints
      <3> QED BY <1>2, <3>1, <3>2, <3>3
    <2>3. RetriesInv'  BY <1>1, <2>1 DEF RetriesInv
    <2> QED BY <2>2, <2>3 DEF SuiteInv, KeyInsistedOn, Accepted
  <1>3. CASE ClientRetry
    <2>1. hclient \in ClientContexts /\ hstep' \in {"client_illegal", "fields"}  BY <1>3, ClientRetryIs
    <2>2. hclient # [library |-> FALSE]
      <3>1. hclient.library  BY <1>3 DEF ClientRetry
      <3>2. ~([library |-> FALSE]).library  OBVIOUS
      <3> QED BY <3>1, <3>2
    <2> QED BY <1>1, <2>1, <2>2 DEF RetriesInv, SuiteInv, KeyInsistedOn, Accepted
  <1>4. CASE OtherRetry
    <2>1. hsrv.retries = 1 /\ hsrv.second /\ hstep' = "fields"  BY <1>4 DEF OtherRetry
    <2>2. hsrv'.retries = 1 /\ hsrv'.second  BY <1>1, <2>1
    <2> QED BY <2>1, <2>2 DEF RetriesInv, SuiteInv, KeyInsistedOn, Accepted
  <1> QED BY <1>2, <1>3, <1>4

\* The strengthening, and that every step keeps it.
NegotiationInv == HelloTyped /\ DecodeInv /\ LibraryHelloInv /\ RetriesInv /\ SuiteInv /\ KeyInsistedOn

LEMMA NegotiationBegins ==
    ASSUME HelloInit
    PROVE NegotiationInv
  <1>1. /\ HelloTyped /\ DecodeInv /\ ~hsrv.second /\ hsrv.retries = 0
        /\ hclient \in ClientContexts =>
              hstep = "fields" /\ hin = EncodeClientHello(hclient, Form(hclient, hsrv.inner), FirstShare(hclient), FALSE, <<>>)
        /\ hstep \in {"fields", "illegal"}
    BY HelloBegun
  <1>2. hsrv.name = <<>>
    <2>1. ASSUME NEW a, NEW inner, HelloBegins(a, inner) PROVE hsrv.name = <<>>  BY <2>1 DEF HelloBegins
    <2>2. \E a, inner : HelloBegins(a, inner)
      <3>1. CASE \E inner \in {FALSE, hclient.ech} :
                   HelloBegins(Arriving(hclient, inner, FirstShare(hclient), FALSE, <<>>), inner)
        BY <3>1
      <3>2. CASE \E h \in OtherHellos : \/ HelloBegins([bad |-> FALSE, hello |-> h], FALSE)
                                       \/ HelloBegins(RebuildChInner(h, OtherOuter), TRUE)
        BY <3>2
      <3> QED BY <3>1, <3>2 DEF HelloInit
    <2> QED BY <2>1, <2>2
  <1>3. hclient \in ClientContexts => FirstFlight  BY <1>1, <1>2 DEF FirstFlight, FirstHello
  <1>4. LibraryHelloInv  BY <1>1, <1>3 DEF LibraryHelloInv, HelloGoes
  <1>5. RetriesInv /\ SuiteInv /\ KeyInsistedOn  BY <1>1 DEF RetriesInv, SuiteInv, KeyInsistedOn, Accepted
  <1> QED BY <1>1, <1>4, <1>5 DEF NegotiationInv

LEMMA NegotiationKept ==
    ASSUME NegotiationInv, [HelloNext]_hvars
    PROVE NegotiationInv'
  <1>1. HelloTyped /\ DecodeInv /\ LibraryHelloInv /\ RetriesInv /\ SuiteInv /\ KeyInsistedOn  BY DEF NegotiationInv
  <1>2. HelloTyped' /\ DecodeInv'  BY <1>1, DecodeKept
  <1>3. CASE UNCHANGED hvars
    <2>1. hclient' = hclient /\ hserver' = hserver /\ hin' = hin /\ hpos' = hpos /\ hseen' = hseen /\ hch' = hch
          /\ hsrv' = hsrv /\ hstep' = hstep
      BY <1>3 DEF hvars
    <2>4. SecondShare' = SecondShare /\ SuiteForClient' = SuiteForClient /\ OwnName' = OwnName /\ Common' = Common
      BY <2>1 DEF SecondShare, SuiteForClient, OwnName, Common
    <2>5. FirstHello' = FirstHello /\ NextHello' = NextHello  BY <2>1, <2>4 DEF FirstHello, NextHello
    <2>7. (Excused' <=> Excused) /\ (CookieOfAnotherGroup' <=> CookieOfAnotherGroup)  BY <2>1, ExcusedStays
    <2>6. AskedOnce' <=> AskedOnce  BY <2>1, <2>4, <2>7 DEF AskedOnce
    <2>8. (FirstFlight' <=> FirstFlight) /\ (Retrying' <=> Retrying) /\ (SecondFlight' <=> SecondFlight)
      BY <2>1, <2>4, <2>5, <2>6 DEF FirstFlight, Retrying, SecondFlight
    <2>2. LibraryHelloInv'  BY <1>1, <2>1, <2>7, <2>8 DEF LibraryHelloInv
    <2>3. RetriesInv' /\ SuiteInv' /\ KeyInsistedOn'  BY <1>1, <2>1 DEF RetriesInv, SuiteInv, KeyInsistedOn, Accepted, ChosenSuite
    <2> QED BY <1>2, <2>2, <2>3 DEF NegotiationInv
  <1>4. CASE DecodeFields \/ DecodeExtension \/ CheckConstraints
    <2>1. LibraryHelloInv'  BY <1>1, <1>4, DecodingKeepsLibrary
    <2>2. RetriesInv' /\ SuiteInv' /\ KeyInsistedOn'  BY <1>1, <1>4, OtherStepsRemember
    <2> QED BY <1>2, <2>1, <2>2 DEF NegotiationInv
  <1>5. CASE Negotiate
    <2>1. hstep = "negotiate" /\ hclient' = hclient  BY <1>5 DEF Negotiate
    <2>2. LibraryHelloInv'
      <3>1. SUFFICES ASSUME hclient \in ClientContexts PROVE LibraryHelloInv'  BY <2>1 DEF LibraryHelloInv
      <3>2. FirstFlight \/ SecondFlight  BY <1>1, <2>1, <3>1 DEF LibraryHelloInv, Retrying
      <3>3. CASE FirstFlight
        <4>1. (hstep' \in HelloGoes \/ Excused') /\ (FirstFlight' \/ Retrying')  BY <1>1, <1>5, <3>1, <3>3, NegotiateFirst
        <4> QED BY <4>1 DEF LibraryHelloInv
      <3>4. CASE SecondFlight
        <4>1. (hstep' \in HelloGoes \/ Excused') /\ SecondFlight'  BY <1>1, <1>5, <3>1, <3>4, NegotiateSecond
        <4> QED BY <4>1 DEF LibraryHelloInv
      <3> QED BY <3>2, <3>3, <3>4
    <2>3. RetriesInv' /\ SuiteInv' /\ KeyInsistedOn'  BY <1>1, <1>5, NegotiateRemembers
    <2> QED BY <1>2, <2>2, <2>3 DEF NegotiationInv
  <1>6. CASE ClientRetry
    <2>1. LibraryHelloInv'  BY <1>1, <1>6, ClientRetryGives
    <2>2. RetriesInv' /\ SuiteInv' /\ KeyInsistedOn'  BY <1>1, <1>6, OtherStepsRemember
    <2> QED BY <1>2, <2>1, <2>2 DEF NegotiationInv
  <1>7. CASE OtherRetry
    <2>1. ~hclient'.library  BY <1>7 DEF OtherRetry
    <2>2. hclient' \notin ClientContexts  BY <2>1, HelloAssumption
    <2>3. LibraryHelloInv'  BY <2>2 DEF LibraryHelloInv
    <2>4. RetriesInv' /\ SuiteInv' /\ KeyInsistedOn'  BY <1>1, <1>7, OtherStepsRemember
    <2> QED BY <1>2, <2>3, <2>4 DEF NegotiationInv
  <1> QED BY <1>3, <1>4, <1>5, <1>6, <1>7 DEF HelloNext

\* What it says.
LEMMA InnerIsExact ==
    ASSUME NegotiationInv
    PROVE RebuildExact
  <1>1. SUFFICES ASSUME hclient.library, hsrv.inner
                 PROVE \E share \in {FirstShare(hclient), hsrv.group}, second \in BOOLEAN :
                          hin = EncodeClientHello(hclient, "inner", share, second, <<>>)
    BY DEF RebuildExact
  <1>2. hclient \in ClientContexts
    <2>1. ~([library |-> FALSE]).library  OBVIOUS
    <2>2. hclient \in ClientContexts \/ hclient = [library |-> FALSE]  BY DEF NegotiationInv, HelloTyped
    <2> QED BY <1>1, <2>1, <2>2
  <1>3. FirstFlight \/ Retrying \/ SecondFlight  BY <1>2 DEF NegotiationInv, LibraryHelloInv
  <1>4. Form(hclient, hsrv.inner) = "inner"  BY <1>1 DEF Form
  <1>5. CASE FirstFlight \/ Retrying
    <2>1. hin = FirstHello  BY <1>5 DEF FirstFlight, Retrying
    <2>2. hin = EncodeClientHello(hclient, "inner", FirstShare(hclient), FALSE, <<>>)  BY <1>4, <2>1 DEF FirstHello
    <2> QED BY <2>2
  <1>6. CASE SecondFlight
    <2>1. hin = NextHello /\ AskedOnce  BY <1>6 DEF SecondFlight
    <2>3. hsrv.cookie = <<>>  BY <1>1, <2>1 DEF AskedOnce
    <2>5. hin = EncodeClientHello(hclient, "inner", SecondShare, TRUE, <<>>)  BY <1>4, <2>1, <2>3 DEF NextHello
    <2>6. SecondShare \in {FirstShare(hclient), hsrv.group}  BY DEF SecondShare
    <2> QED BY <2>5, <2>6
  <1> QED BY <1>3, <1>5, <1>6

LEMMA PolicyKept ==
    ASSUME NegotiationInv
    PROVE NegotiatesByPolicy
  <1>1. HelloTyped /\ LibraryHelloInv /\ RetriesInv /\ SuiteInv /\ KeyInsistedOn  BY DEF NegotiationInv
  <1>2. SuiteByPolicy  BY <1>1, ChosenByPolicy DEF SuiteByPolicy, SuiteInv
  <1>3. hclient \in ClientContexts \/ hclient = [library |-> FALSE]  BY <1>1 DEF HelloTyped
  <1>4. hsrv.retries <= 1
    <2>1. hsrv.retries = 0 \/ hsrv.retries = 1
      BY <1>1, <1>3 DEF LibraryHelloInv, RetriesInv, FirstFlight, Retrying, SecondFlight
    <2> QED BY <2>1
  <1>5. ASSUME hclient.library, HelloOver, ~Accepted PROVE Excused
    <2>1. ~([library |-> FALSE]).library  OBVIOUS
    <2>2. hclient \in ClientContexts  BY <1>3, <1>5, <2>1
    <2>3. hstep \notin HelloGoes  BY <1>5 DEF HelloOver, Accepted, HelloGoes
    <2> QED BY <1>1, <2>2, <2>3 DEF LibraryHelloInv
  <1>6. CommonMeansSuccess  BY <1>4, <1>5 DEF CommonMeansSuccess, Excused, Common
  <1> QED BY <1>1, <1>2, <1>6 DEF NegotiatesByPolicy

\* The inner ClientHello that rebuild_ch_inner puts together from the encoded
\* and the outer one is the one encode_client_hello made for the client's
\* transcript, whatever the client's context, in both flights.
THEOREM InnerRebuilt == HelloSpec => []RebuildExact
  <1>1. HelloInit => NegotiationInv  BY NegotiationBegins
  <1>2. NegotiationInv /\ [HelloNext]_hvars => NegotiationInv'  BY NegotiationKept
  <1>3. NegotiationInv => RebuildExact  BY InnerIsExact
  <1> QED BY <1>1, <1>2, <1>3, PTL DEF HelloSpec

\* select_cipher and select_negotiated_group choose by policy for lists of any
\* length; a server with an external key accepts no hello without it, whoever
\* sent it; and a client and a server of this library with a suite, a group and
\* a certificate type in common agree after one HelloRetryRequest at most,
\* unless the server's external key cannot be agreed on or a cookie signed for
\* another group than that of the client's share is refused.
THEOREM PolicyNegotiated == HelloSpec => []NegotiatesByPolicy
  <1>1. HelloInit => NegotiationInv  BY NegotiationBegins
  <1>2. NegotiationInv /\ [HelloNext]_hvars => NegotiationInv'  BY NegotiationKept
  <1>3. NegotiationInv => NegotiatesByPolicy  BY PolicyKept
  <1> QED BY <1>1, <1>2, <1>3, PTL DEF HelloSpec

=============================================================================
