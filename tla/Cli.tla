--------------------------------- MODULE Cli ---------------------------------
(***************************************************************************)
(* handle_connection of t/cli.c: the select loop that moves an input file  *)
(* to the peer and what the peer sends to standard output, at both ends of *)
(* a connection.  The TLS handshake is what ptls_handshake and ptls_receive *)
(* do to the loop: a retry, early data taken or not, completion; a record  *)
(* is its key, its number under that key and what it carries.  A socket    *)
(* buffer is finite: a write takes any part of what it is given.           *)
(*                                                                         *)
(* Left out: the handshake does not fail here, so the last write of encbuf *)
(* before the exit of a failed one is not modelled; nor is -u, the         *)
(* ptls_update_key that follows the handshake (Traffic has key updates).   *)
(***************************************************************************)
EXTENDS Integers, Sequences, FiniteSets

CONSTANTS
    CliScenarios,  \* early data, its acceptance, a retry, -I: what may happen
    CliInput,      \* bound: blocks of input at each end
    SockRoom       \* bound: records a socket buffer holds

CliScenario ==
    [maxEarly : Nat,        \* what the ticket allows, 0 without -e or ticket
     accept : BOOLEAN,      \* does the server take early data
     retry : BOOLEAN,       \* does it ask for another key share
     keepOpen : BOOLEAN,    \* -I
     whole : BOOLEAN]       \* the kernel takes all of a write

ASSUME CliAssumption ==
    /\ CliScenarios \subseteq CliScenario
    /\ CliInput \in Nat /\ SockRoom \in Nat \ {0}

Ends == {"c", "s"}
Other(p) == IF p = "c" THEN "s" ELSE "c"

VARIABLES
    scen,     \* the scenario, fixed
    pc,       \* where in its loop each end is; "exit" or "abort" at the end
    st,       \* state: IN_HANDSHAKE, IN_1RTT or IN_SHUTDOWN
    tls,      \* what the ptls_t of the end expects next
    wkey,     \* traffic key records are written with, and their next number
    rkey,     \* the same for reading
    maxEarly, \* *hsprop->client.max_early_data_size
    taken,    \* early_data_acceptance at the client
    encbuf, ptbuf,
    early,    \* the blocks sent as early data; early_bytes_sent is their number
    inputfd,  \* is it open; read[p] blocks have been read from it
    read, out,
    net,      \* records under way from each end
    shut      \* has the end shut down or closed its side of the socket

clivars == <<scen, pc, st, tls, wkey, rkey, maxEarly, taken, encbuf, ptbuf, early, inputfd, read, out, net, shut>>

\* A record under the current write key.
Rec(w, i, what, data) == [key |-> w.key, n |-> w.n + i, what |-> what, data |-> data]
Key(k) == [key |-> k, n |-> 0]

\* The client starts by writing ClientHello; a ticket gives it an early key.
CliInit ==
    /\ scen \in CliScenarios
    /\ pc = [p \in Ends |-> "select"]
    /\ st = [p \in Ends |-> "handshake"]
    /\ tls = [p \in Ends |-> IF p = "c" THEN "server_hello" ELSE "client_hello"]
    /\ wkey = [p \in Ends |-> IF p = "c" /\ scen.maxEarly > 0 THEN Key("early") ELSE Key("none")]
    /\ rkey = [p \in Ends |-> Key("plain")]
    /\ maxEarly = scen.maxEarly
    /\ taken = IF scen.maxEarly > 0 THEN "unknown" ELSE "rejected"
    /\ encbuf = [p \in Ends |-> IF p = "c" THEN <<Rec(Key("plain"), 0, "hello", 0)>> ELSE <<>>]
    /\ ptbuf = [p \in Ends |-> <<>>]
    /\ early = [p \in Ends |-> <<>>]
    /\ inputfd = [p \in Ends |-> TRUE]
    /\ read = [p \in Ends |-> 0]
    /\ out = [p \in Ends |-> <<>>]
    /\ net = [p \in Ends |-> <<>>]
    /\ shut = [p \in Ends |-> FALSE]

---------------------------------------------------------------------------
(* Consuming what came in.                                                 *)

\* shift_buffer
ShiftBuffer(buf, n) == SubSeq(buf, n + 1, Len(buf))

\* Encrypting blocks with the current key: ptls_send.
Encrypted(p, blocks) == [i \in DOMAIN blocks |-> Rec(wkey[p], i - 1, "data", blocks[i])]

\* exit: the end stops and its socket is closed.
Exits(p, how) == pc' = [pc EXCEPT ![p] = how] /\ shut' = [shut EXCEPT ![p] = TRUE]

Gone == {"closed", "bad_record", "abort"}

Expected(p, r) == r.key = rkey[p].key /\ r.n = rkey[p].n
Next1(k) == [k EXCEPT !.n = @ + 1]

\* Early data a server does not take is skipped while it has no 1-RTT key.
Skips(p, r) == p = "s" /\ r.key = "early" /\ rkey[p].key \in {"plain", "hs"}

\* ptls_handshake on the hello message: the server retries, or answers with
\* its whole flight and is in 1-RTT at once.
ServerTakesHello ==
    IF scen.retry /\ tls["s"] = "client_hello"
    THEN /\ tls' = [tls EXCEPT !["s"] = "second_hello"]
         /\ encbuf' = [encbuf EXCEPT !["s"] = Append(@, Rec(Key("plain"), 0, "retry", 0))]
         /\ rkey' = [rkey EXCEPT !["s"] = Next1(@)]
         /\ UNCHANGED <<st, wkey>>
    ELSE LET takes == scen.accept /\ scen.maxEarly > 0 /\ tls["s"] = "client_hello"
         IN /\ tls' = [tls EXCEPT !["s"] = IF takes THEN "end_of_early" ELSE "finished"]
            /\ encbuf' = [encbuf EXCEPT !["s"] = Append(@, Rec(Key("plain"), IF scen.retry THEN 1 ELSE 0,
                                                              IF takes THEN "flight_early" ELSE "flight", 0))]
            /\ rkey' = [rkey EXCEPT !["s"] = IF takes THEN Key("early") ELSE Key("hs")]
            /\ wkey' = [wkey EXCEPT !["s"] = Key("app")]
            /\ st' = [st EXCEPT !["s"] = "1rtt"]

\* The client meets a HelloRetryRequest: the early key is dropped, and
\* send_client_hello sets *max_early_data_size to 0 for the second hello.
ClientTakesRetry ==
    /\ wkey' = [wkey EXCEPT !["c"] = Key("none")]
    /\ maxEarly' = 0
    /\ taken' = "rejected"
    /\ encbuf' = [encbuf EXCEPT !["c"] = Append(@, Rec(Key("plain"), 1, "hello", 0))]
    /\ rkey' = [rkey EXCEPT !["c"] = Next1(@)]
    /\ UNCHANGED <<st, tls, ptbuf>>

\* Mutated ClientTakesFlight: early data is released whether it was taken or not.
ClientTakesFlight_Release(r) ==
    LET took == r.what = "flight_early"
        how == IF taken = "unknown" THEN IF took THEN "accepted" ELSE "rejected" ELSE taken
    IN /\ taken' = how
       /\ encbuf' = [encbuf EXCEPT !["c"] = @ \o (IF took THEN <<Rec(wkey["c"], 0, "end_of_early", 0)>> ELSE <<>>)
                                             \o <<Rec(Key("hs"), 0, "finished", 0)>>]
       /\ wkey' = [wkey EXCEPT !["c"] = Key("app")]
       /\ rkey' = [rkey EXCEPT !["c"] = Key("app")]
       /\ tls' = [tls EXCEPT !["c"] = "done"]
       /\ st' = [st EXCEPT !["c"] = "1rtt"]
       /\ ptbuf' = [ptbuf EXCEPT !["c"] = ShiftBuffer(@, Len(early["c"]))]
       /\ UNCHANGED maxEarly

\* The client has the whole flight: Finished goes out, what was sent as early
\* data and taken is released (without -u).
ClientTakesFlight(r) ==
    LET took == r.what = "flight_early"
        how == IF taken = "unknown" THEN IF took THEN "accepted" ELSE "rejected" ELSE taken
    IN /\ taken' = how
       /\ encbuf' = [encbuf EXCEPT !["c"] = @ \o (IF took THEN <<Rec(wkey["c"], 0, "end_of_early", 0)>> ELSE <<>>)
                                             \o <<Rec(Key("hs"), 0, "finished", 0)>>]
       /\ wkey' = [wkey EXCEPT !["c"] = Key("app")]
       /\ rkey' = [rkey EXCEPT !["c"] = Key("app")]
       /\ tls' = [tls EXCEPT !["c"] = "done"]
       /\ st' = [st EXCEPT !["c"] = "1rtt"]
       /\ ptbuf' = [ptbuf EXCEPT !["c"] = IF how = "accepted" THEN ShiftBuffer(@, Len(early["c"])) ELSE @]
       /\ UNCHANGED maxEarly

\* The server's reading key follows EndOfEarlyData and Finished.
ServerTakesFinish(r) ==
    /\ rkey' = [rkey EXCEPT !["s"] = Key(IF r.what = "end_of_early" THEN "hs" ELSE "app")]
    /\ tls' = [tls EXCEPT !["s"] = IF r.what = "end_of_early" THEN "finished" ELSE "done"]

\* One record from the socket; a record out of order fails to decrypt, and
\* close_notify makes ptls_receive return an error: the end exits.
Consume(p) ==
    /\ pc[p] \in {"select", "consume"} /\ net[Other(p)] # <<>>
    /\ net' = [net EXCEPT ![Other(p)] = Tail(@)]
    /\ LET r == Head(net[Other(p)])
           on == pc' = [pc EXCEPT ![p] = "consume"] /\ UNCHANGED shut
       IN \/ /\ Skips(p, r) /\ on
             /\ UNCHANGED <<st, tls, wkey, rkey, maxEarly, taken, encbuf, ptbuf, out>>
          \/ /\ ~Skips(p, r) /\ (~Expected(p, r) \/ r.what = "close")
             /\ Exits(p, IF Expected(p, r) THEN "closed" ELSE "bad_record")
             /\ UNCHANGED <<st, tls, wkey, rkey, maxEarly, taken, encbuf, ptbuf, out>>
          \/ /\ ~Skips(p, r) /\ Expected(p, r) /\ r.what = "hello" /\ on
             /\ ServerTakesHello
             /\ UNCHANGED <<maxEarly, taken, ptbuf, out>>
          \/ /\ ~Skips(p, r) /\ Expected(p, r) /\ r.what = "retry" /\ on
             /\ ClientTakesRetry
             /\ UNCHANGED out
          \/ /\ ~Skips(p, r) /\ Expected(p, r) /\ r.what \in {"flight", "flight_early"} /\ on
             /\ ClientTakesFlight(r)
             /\ UNCHANGED out
          \/ /\ ~Skips(p, r) /\ Expected(p, r) /\ r.what \in {"end_of_early", "finished"} /\ on
             /\ ServerTakesFinish(r)
             /\ UNCHANGED <<st, wkey, maxEarly, taken, encbuf, ptbuf, out>>
          \/ /\ ~Skips(p, r) /\ Expected(p, r) /\ r.what = "data" /\ on
             /\ out' = [out EXCEPT ![p] = Append(@, r.data)]
             /\ rkey' = [rkey EXCEPT ![p] = Next1(@)]
             /\ UNCHANGED <<st, tls, wkey, maxEarly, taken, encbuf, ptbuf>>
    /\ UNCHANGED <<scen, early, inputfd, read>>

\* read returns 0: the peer has gone.
SocketClosed(p) ==
    /\ pc[p] = "select" /\ net[Other(p)] = <<>> /\ shut[Other(p)]
    /\ Exits(p, "closed")
    /\ UNCHANGED <<scen, st, tls, wkey, rkey, maxEarly, taken, encbuf, ptbuf, early, inputfd, read, out, net>>

---------------------------------------------------------------------------
(* Sending.                                                                *)

\* One block of input, or its end; only while nothing waits to be written, or
\* during the handshake.
ReadInput(p) ==
    /\ pc[p] \in {"select", "consume"}
    /\ pc' = [pc EXCEPT ![p] = "encrypt"]
    /\ \/ UNCHANGED <<ptbuf, read, inputfd>>
       \/ /\ encbuf[p] = <<>> \/ st[p] = "handshake"
          /\ inputfd[p]
          /\ IF read[p] < CliInput
             THEN /\ ptbuf' = [ptbuf EXCEPT ![p] = Append(@, read[p] + 1)]
                  /\ read' = [read EXCEPT ![p] = @ + 1]
                  /\ UNCHANGED inputfd
             ELSE inputfd' = [inputfd EXCEPT ![p] = FALSE] /\ UNCHANGED <<ptbuf, read>>
    /\ UNCHANGED <<scen, st, tls, wkey, rkey, maxEarly, taken, encbuf, early, out, net, shut>>

\* The number of blocks to send as early data: a size_t difference.  A
\* negative one stands for the huge number it wraps to.  They are taken from the
\* start of ptbuf, which keeps what has been sent.
SendAmount(p) ==
    LET most == IF maxEarly > Len(ptbuf[p]) THEN Len(ptbuf[p]) ELSE maxEarly
    IN IF p = "c" /\ scen.maxEarly > 0 THEN most - Len(early[p]) ELSE 0

Encrypt(p) ==
    /\ pc[p] = "encrypt"
    /\ \/ /\ ptbuf[p] = <<>> \/ (st[p] = "handshake" /\ SendAmount(p) = 0)
          /\ pc' = [pc EXCEPT ![p] = "write"]
          /\ UNCHANGED <<wkey, encbuf, ptbuf, early, shut>>
       \/ /\ ptbuf[p] # <<>> /\ st[p] = "handshake" /\ SendAmount(p) < 0
          /\ Exits(p, "abort")
          /\ UNCHANGED <<wkey, encbuf, ptbuf, early>>
       \/ /\ ptbuf[p] # <<>> /\ st[p] = "handshake" /\ SendAmount(p) > 0
          /\ LET n == SendAmount(p)
             IN /\ encbuf' = [encbuf EXCEPT ![p] = @ \o Encrypted(p, SubSeq(ptbuf[p], 1, n))]
                /\ wkey' = [wkey EXCEPT ![p].n = @ + n]
                /\ early' = [early EXCEPT ![p] = @ \o SubSeq(ptbuf[p], 1, n)]
          /\ pc' = [pc EXCEPT ![p] = "write"]
          /\ UNCHANGED <<ptbuf, shut>>
       \/ /\ ptbuf[p] # <<>> /\ st[p] # "handshake"
          /\ encbuf' = [encbuf EXCEPT ![p] = @ \o Encrypted(p, ptbuf[p])]
          /\ wkey' = [wkey EXCEPT ![p].n = @ + Len(ptbuf[p])]
          /\ ptbuf' = [ptbuf EXCEPT ![p] = <<>>]
          /\ pc' = [pc EXCEPT ![p] = "write"]
          /\ UNCHANGED <<early, shut>>
    /\ UNCHANGED <<scen, st, tls, rkey, maxEarly, taken, inputfd, read, out, net>>

\* write: some of it, nothing for now, or an error if the peer is gone or this
\* end has shut down its side.
Write(p) ==
    /\ pc[p] = "write"
    /\ \/ /\ encbuf[p] = <<>> \/ ~shut[p]
          /\ \E k \in 0..Len(encbuf[p]) :
               /\ Len(net[p]) + k <= SockRoom
               /\ scen.whole => k = Len(encbuf[p])
               /\ net' = [net EXCEPT ![p] = @ \o SubSeq(encbuf[p], 1, k)]
               /\ encbuf' = [encbuf EXCEPT ![p] = ShiftBuffer(@, k)]
          /\ pc' = [pc EXCEPT ![p] = "close"]
          /\ UNCHANGED shut
       \/ /\ encbuf[p] # <<>> /\ (shut[p] \/ pc[Other(p)] \in Gone)
          /\ Exits(p, "closed")
          /\ UNCHANGED <<encbuf, net>>
    /\ UNCHANGED <<scen, st, tls, wkey, rkey, maxEarly, taken, ptbuf, early, inputfd, read, out>>

\* close_notify goes straight to the socket, whatever encbuf holds.
CloseSender(p) ==
    /\ pc[p] = "close"
    /\ IF ~(st[p] = "1rtt" /\ ~inputfd[p])
       THEN pc' = [pc EXCEPT ![p] = "select"] /\ UNCHANGED <<st, wkey, net, shut>>
       ELSE IF scen.keepOpen /\ p = "c"
       THEN /\ pc' = [pc EXCEPT ![p] = "select"] /\ st' = [st EXCEPT ![p] = "shutdown"]
            /\ UNCHANGED <<wkey, net, shut>>
       ELSE IF Len(net[p]) = SockRoom
       THEN Exits(p, "closed") /\ UNCHANGED <<st, wkey, net>>
       ELSE /\ net' = [net EXCEPT ![p] = Append(@, Rec(wkey[p], 0, "close", 0))]
            /\ wkey' = [wkey EXCEPT ![p] = Next1(@)]
            /\ st' = [st EXCEPT ![p] = "shutdown"]
            /\ pc' = [pc EXCEPT ![p] = "select"]
            /\ shut' = [shut EXCEPT ![p] = TRUE]
    /\ UNCHANGED <<scen, tls, rkey, maxEarly, taken, encbuf, ptbuf, early, inputfd, read, out>>

CliNext ==
    \E p \in Ends :
        Consume(p) \/ SocketClosed(p) \/ ReadInput(p) \/ Encrypt(p) \/ Write(p) \/ CloseSender(p)

CliSpec == CliInit /\ [][CliNext]_clivars

---------------------------------------------------------------------------
(* Properties.                                                             *)

\* Blocks in the order of the input, from its start, none twice or left out.
InOrder(blocks) == \A i \in DOMAIN blocks : blocks[i] = i

\* The server takes early data from a first ClientHello.
EarlyTaken == scen.accept /\ scen.maxEarly > 0 /\ ~scen.retry

\* What goes out as early data is the input from its start.  It is taken from
\* ptbuf.base even if some of it has gone out before: what is read during the
\* handshake sends the beginning again.  Not an invariant of this code.
EarlySentOnce == InOrder(early["c"])

\* What an end writes to standard output is the peer's input from its start,
\* nothing twice and nothing left out, whether the first blocks went out as
\* early data that was taken, as early data that was not, or later (ptbuf is
\* released by early_bytes_sent only if it was taken); early data that was
\* taken must have been in order itself (EarlySentOnce).
OutputIsInput ==
    /\ InOrder(out["c"])
    /\ EarlySentOnce \/ ~EarlyTaken => InOrder(out["s"])

\* The sending side is closed after all data has been sent: nothing waits in
\* encbuf or ptbuf when close_notify is written and the socket shut down.  With
\* writes that are taken in part it does not hold: see StreamsStayWhole.
CloseAfterAllData ==
    \A p \in Ends :
        st[p] = "shutdown" /\ shut[p] /\ pc[p] \notin Gone => encbuf[p] = <<>> /\ ptbuf[p] = <<>>

\* As long as the kernel takes every write whole, no end meets a record it
\* cannot decrypt, through early data taken, refused and cut off by a retry and
\* through data the server sends before the client's Finished, and the sending
\* side is closed only after all data.
StreamsStayWhole == scen.whole => CloseAfterAllData /\ \A p \in Ends : pc[p] # "bad_record"

\* The loop never hands ptls_send more early data than it has.  What has been
\* sent is subtracted from a limit that a HelloRetryRequest has set to 0 since:
\* not an invariant of this code.
EarlyAmount == \A p \in Ends : pc[p] # "abort"

\* handle_connection moves the input to the other end: nothing is lost,
\* repeated or undecryptable.
LoopSound == OutputIsInput /\ StreamsStayWhole

===============================================================================
