------------------------------- MODULE Traffic -------------------------------
(***************************************************************************)
(* Post-handshake record protection of a TLS 1.3 connection (lib/picotls.c *)
(* ptls_send, ptls_receive, ptls_update_key, ptls_detach_tx and the ptls_tx_*)
(* family, ptls_export / ptls_import).                                     *)
(*                                                                         *)
(* Both endpoints are modelled.  A traffic key is named by its generation  *)
(* (0 for the application traffic secret of the handshake, +1 for every    *)
(* "traffic upd" derivation); a record opens exactly when the generation   *)
(* and the sequence number it was sealed with are those of the receiver.   *)
(* wire[e] is everything e ever handed to the transport; the transport may *)
(* deliver any record of it at any time (AnyOrder), the handlers do not    *)
(* know which.                                                             *)
(***************************************************************************)
EXTENDS Integers, Sequences

CONSTANTS
    Client, Server,
    SeqLimit,     \* 16777216 in ptls_send: records sealed before a forced update
    MaxRequests,  \* UINT32_MAX in handle_key_update
    MaxSkip,      \* PTLS_MAX_EARLY_DATA_SKIP_SIZE, in records
    NumTickets,   \* NewSessionTickets sent by server_finish_handshake
    MaxChunks,    \* records one ptls_send call may emit
    Faults,       \* the allocations that may fail
    AnyOrder,     \* whether the transport may reorder, drop and replay
    WithExport,   \* whether the application exports and imports connections
    Active,       \* the endpoints whose application sends on its own account;
                  \* the other one receives, and answers key updates
    MaxRecords,   \* bound: records an endpoint emits on the application's behalf
    MaxUpdates    \* bound: key generations the applications ask for

Endpoints == {Client, Server}
Peer(e) == IF e = Client THEN Server ELSE Client

AllFaults == {"reserve", "hkdf", "aead", "data", "rx"}

ASSUME ConstantsAssumption ==
    /\ Client # Server
    /\ SeqLimit \in Nat \ {0}
    /\ MaxRequests \in Nat
    /\ MaxSkip \in Nat
    /\ NumTickets \in Nat
    /\ MaxChunks \in Nat \ {0}
    /\ Faults \subseteq AllFaults
    /\ AnyOrder \in BOOLEAN
    /\ WithExport \in BOOLEAN
    /\ Active \subseteq {Client, Server}
    /\ MaxRecords \in Nat
    /\ MaxUpdates \in Nat

VARIABLES
    enc,       \* enc[e][o]: traffic_protection.enc of the ptls_t ("tls") or of
               \* the detached ptls_tx_t ("tx"): aead present, secret, seq
    dec,       \* dec[e]: traffic_protection.dec
    needs,     \* needs[e][o]: needs_key_update
    request,   \* request[e][o]: key_update_send_request
    txState,   \* "none", "live" (tx_detached, object in use) or "freed"
    keyUpdateRequests,  \* key_update_requests
    skipped,   \* server.early_data_skipped_bytes; NotSkipping is UINT32_MAX
    wire,      \* wire[e]: the records e sent, in order
    got,       \* got[e]: the records e opened, in order
    closed,    \* closed[e]: why e's ptls_receive gave up, "no" while it has not
    taken,     \* requests the receiving thread took and the sending one has not served
    sealed,    \* history: every (generation, seq) e's AEAD contexts sealed with
    broken,    \* history: a failed send call of e used up a nonce or a key
    owed,      \* history: a KeyUpdate request reached e and e sent no KeyUpdate since
    migrated,  \* history: e was exported and imported
    rejected,  \* history: the handshake of this connection rejected early data
    updates    \* history: key updates the applications asked for

vars == <<enc, dec, needs, request, txState, keyUpdateRequests, skipped, wire,
          got, closed, taken, sealed, broken, owed, migrated, rejected, updates>>

txVars == <<enc, needs, request, txState, wire, sealed, broken>>
rxVars == <<dec, keyUpdateRequests, skipped, got, closed, migrated, rejected>>

Owners == {"tls", "tx"}
NotSkipping == -1
NoProtection == [live |-> FALSE, gen |-> 0, seq |-> 0]
Kinds == {"data", "ku", "alert", "nst"}

(***************************************************************************)
(* Sealing                                                                 *)
(***************************************************************************)

\* The record a context seals after k others.  aead_encrypt, through
\* commit_record_message: without an AEAD context it goes out in the clear.
Seal(c, k, kind, req) ==
    [plain |-> ~c.live, gen |-> c.gen, seq |-> c.seq + k, kind |-> kind, req |-> req]

\* The nonces a context consumes when it seals n records.
Nonces(c, n) ==
    [i \in 1..(IF c.live THEN n ELSE 0) |-> [gen |-> c.gen, seq |-> c.seq + i - 1]]

\* ctx->seq++ for each of n records.
Advance(c, n) == IF c.live THEN [c EXCEPT !.seq = @ + n] ELSE c

\* buffer_push_encrypted_records: one record per 16384 bytes of input.
DataRecords(c, n) == [i \in 1..n |-> Seal(c, i - 1, "data", FALSE)]

\* Mutated NextKey: the derived secret is not stored.
NextKey_SameSecret(c) == [live |-> TRUE, gen |-> c.gen, seq |-> 0]

\* Mutated NextKey: the sequence number is not reset.
NextKey_KeepsSeq(c) == [live |-> TRUE, gen |-> c.gen + 1, seq |-> c.seq]

\* update_traffic_key: next secret, new AEAD context, sequence number zero.
NextKey(c) == [live |-> TRUE, gen |-> c.gen + 1, seq |-> 0]

\* update_traffic_key when ptls_aead_new fails: the secret has moved, the old
\* AEAD context is gone and the sequence number is left as it was.
LostKey(c) == [live |-> FALSE, gen |-> c.gen + 1, seq |-> c.seq]

\* update_send_key: the KeyUpdate is sealed with the current key, then the key
\* is replaced; when a step fails the record is taken back from the buffer but
\* neither the nonce nor the secret is.
UpdateSendKey(c, req, fault) ==
    CASE fault = "reserve" -> [enc |-> c, out |-> <<>>, used |-> <<>>]
      [] fault = "hkdf"    -> [enc |-> Advance(c, 1), out |-> <<>>, used |-> Nonces(c, 1)]
      [] fault = "aead"    -> [enc |-> LostKey(Advance(c, 1)), out |-> <<>>, used |-> Nonces(c, 1)]
      [] OTHER             -> [enc |-> NextKey(c), out |-> <<Seal(c, 0, "ku", req)>>,
                               used |-> Nonces(c, 1)]

(***************************************************************************)
(* Initial states: both ends have just completed the handshake, with the   *)
(* server's tickets in flight.                                             *)
(***************************************************************************)
Fresh == [live |-> TRUE, gen |-> 0, seq |-> 0]

Init ==
    /\ enc = [e \in Endpoints |->
                 [o \in Owners |->
                     IF o = "tx" THEN NoProtection
                     ELSE IF e = Server THEN Advance(Fresh, NumTickets) ELSE Fresh]]
    /\ dec = [e \in Endpoints |-> Fresh]
    /\ needs = [e \in Endpoints |-> [o \in Owners |-> FALSE]]
    /\ request = [e \in Endpoints |-> [o \in Owners |-> FALSE]]
    /\ txState = [e \in Endpoints |-> "none"]
    /\ keyUpdateRequests = [e \in Endpoints |-> 0]
    /\ rejected \in BOOLEAN
    /\ skipped = IF rejected THEN 0 ELSE NotSkipping
    /\ wire = [e \in Endpoints |->
                  IF e = Server
                  THEN [i \in 1..NumTickets |-> Seal(Fresh, i - 1, "nst", FALSE)]
                  ELSE <<>>]
    /\ sealed = [e \in Endpoints |-> IF e = Server THEN Nonces(Fresh, NumTickets) ELSE <<>>]
    /\ got = [e \in Endpoints |-> <<>>]
    /\ closed = [e \in Endpoints |-> "no"]
    /\ taken = [e \in Endpoints |-> 0]
    /\ broken = [e \in Endpoints |-> FALSE]
    /\ owed = [e \in Endpoints |-> FALSE]
    /\ migrated = [e \in Endpoints |-> FALSE]
    /\ updates = 0

(***************************************************************************)
(* Sending                                                                 *)
(***************************************************************************)

\* Mutated Available: the ptls_t may still send after ptls_detach_tx.
Available_IgnoresDetach(e, o) == o = "tls" \/ txState[e] = "live"

\* tls->tx_detached keeps the ptls_t from sending; the ptls_tx_t exists
\* between ptls_detach_tx and ptls_tx_free.
Available(e, o) ==
    IF o = "tls" THEN txState[e] = "none" ELSE txState[e] = "live"

\* The end of every send call: a call that succeeded hands its records to the
\* transport, the output of one that failed is discarded.
Transmit(e, o, c, out, used) ==
    /\ enc' = [enc EXCEPT ![e][o] = c]
    /\ wire' = [wire EXCEPT ![e] = @ \o out]
    /\ sealed' = [sealed EXCEPT ![e] = @ \o used]
    /\ broken' = [broken EXCEPT ![e] = @ \/ (used # <<>> /\ out = <<>>)]
    /\ owed' = [owed EXCEPT ![e] =
                   @ /\ ~ \E i \in 1..Len(out) : out[i].kind = "ku" /\ ~out[i].plain]

\* Mutated NeedsUpdate: no limit on the records sealed with one key.
NeedsUpdate_NoLimit(e, o) == needs[e][o]

\* ptls_send and ptls_tx_sendv ask for an update when the key is worn out.
NeedsUpdate(e, o) == needs[e][o] \/ enc[e][o].seq >= SeqLimit

\* ptls_send, ptls_tx_send (any number of chunks) and ptls_tx_sendv (at most
\* one): assert an AEAD context, update the key first when one is due, then
\* seal the data.  "data" is the reserve of a data record failing.
SendEffect(e, o, n, fault) ==
    LET c  == enc[e][o]
        ku == NeedsUpdate(e, o)
        u  == IF ku THEN UpdateSendKey(c, request[e][o], fault)
              ELSE [enc |-> c, out |-> <<>>, used |-> <<>>]
        failed == ku /\ fault \in {"reserve", "hkdf", "aead"}
    IN  IF failed
        THEN /\ Transmit(e, o, u.enc, <<>>, u.used)
             /\ needs' = [needs EXCEPT ![e][o] = TRUE]
             /\ UNCHANGED request
        ELSE /\ needs' = [needs EXCEPT ![e][o] = FALSE]
             /\ request' = [request EXCEPT ![e][o] = IF ku THEN FALSE ELSE @]
             /\ IF fault = "data"
                THEN Transmit(e, o, Advance(u.enc, n - 1), <<>>,
                              u.used \o Nonces(u.enc, n - 1))
                ELSE Transmit(e, o, Advance(u.enc, n), u.out \o DataRecords(u.enc, n),
                              u.used \o Nonces(u.enc, n))

\* Bound on repeated failures.
MayFail(e, o) == enc[e][o].gen + Len(sealed[e]) < MaxRecords

\* A failure that can strike this call.
SendFault(e, o, n, fault) ==
    \/ fault = "none"
    \/ fault \in Faults \cap {"reserve", "hkdf", "aead"} /\ NeedsUpdate(e, o) /\ MayFail(e, o)
    \/ fault \in Faults \cap {"data"} /\ n > 0 /\ MayFail(e, o)

PtlsSend(e, o, n, fault) ==
    /\ Available(e, o)
    /\ enc[e][o].live
    /\ (e \in Active /\ Len(wire[e]) + n <= MaxRecords) \/ (n = 0 /\ needs[e][o])
    /\ SendFault(e, o, n, fault)
    /\ SendEffect(e, o, n, fault)
    /\ UNCHANGED rxVars
    /\ UNCHANGED <<txState, taken, updates>>

\* ptls_update_key: only noted, the next ptls_send emits it.
PtlsUpdateKey(e, req) ==
    /\ e \in Active /\ updates < MaxUpdates
    /\ Available(e, "tls")
    /\ needs' = [needs EXCEPT ![e]["tls"] = TRUE]
    /\ request' = [request EXCEPT ![e]["tls"] = req]
    /\ updates' = updates + 1
    /\ UNCHANGED rxVars
    /\ UNCHANGED <<enc, txState, wire, sealed, broken, taken, owed>>

\* ptls_send_alert and ptls_tx_send_alert: sealed when there is an AEAD
\* context, in the clear when a failed key update left none.
PtlsSendAlert(e, o) ==
    /\ Available(e, o)
    /\ e \in Active /\ Len(wire[e]) < MaxRecords
    /\ LET c == enc[e][o]
       IN  Transmit(e, o, Advance(c, 1), <<Seal(c, 0, "alert", FALSE)>>, Nonces(c, 1))
    /\ UNCHANGED rxVars
    /\ UNCHANGED <<needs, request, txState, taken, updates>>

(***************************************************************************)
(* Detached transmission                                                   *)
(***************************************************************************)

\* The ptls_t's field goes to the ptls_tx_t and is zeroed.
Moved(field, zero) == [o \in Owners |-> IF o = "tx" THEN field["tls"] ELSE zero]

\* ptls_detach_tx: the outbound state moves, it is not copied; a failing
\* allocation happens before anything moves and changes nothing.
PtlsDetachTx(e) ==
    /\ txState[e] = "none"
    /\ enc[e]["tls"].live
    /\ enc' = [enc EXCEPT ![e] = Moved(enc[e], NoProtection)]
    /\ needs' = [needs EXCEPT ![e] = Moved(needs[e], FALSE)]
    /\ request' = [request EXCEPT ![e] = Moved(request[e], FALSE)]
    /\ txState' = [txState EXCEPT ![e] = "live"]
    /\ UNCHANGED rxVars
    /\ UNCHANGED <<wire, sealed, broken, taken, owed, updates>>

\* ptls_tx_free
PtlsTxFree(e) ==
    /\ txState[e] = "live"
    /\ txState' = [txState EXCEPT ![e] = "freed"]
    /\ enc' = [enc EXCEPT ![e]["tx"] = NoProtection]
    /\ needs' = [needs EXCEPT ![e]["tx"] = FALSE]
    /\ request' = [request EXCEPT ![e]["tx"] = FALSE]
    /\ UNCHANGED rxVars
    /\ UNCHANGED <<wire, sealed, broken, taken, owed, updates>>

\* ptls_take_key_update_request, by the receiving thread, which passes the
\* request on to the sending thread.
PtlsTakeKeyUpdateRequest(e) ==
    /\ keyUpdateRequests[e] > 0
    /\ keyUpdateRequests' = [keyUpdateRequests EXCEPT ![e] = @ - 1]
    /\ taken' = [taken EXCEPT ![e] = @ + 1]
    /\ UNCHANGED txVars
    /\ UNCHANGED <<dec, skipped, got, closed, migrated, rejected, owed, updates>>

\* ptls_tx_update_key: the KeyUpdate is emitted at once; a pending
\* needs_key_update that was moved with the state stays pending.
TxUpdateKeyEffect(e, req, fault) ==
    LET u == UpdateSendKey(enc[e]["tx"], req, fault)
    IN  Transmit(e, "tx", u.enc, u.out, u.used)

PtlsTxUpdateKey(e, req, fault) ==
    /\ txState[e] = "live"
    /\ fault = "none" \/ (fault \in Faults \cap {"reserve", "hkdf", "aead"} /\ MayFail(e, "tx"))
    /\ \/ /\ taken[e] > 0 /\ ~req
          /\ taken' = [taken EXCEPT ![e] = IF fault = "none" THEN @ - 1 ELSE @]
          /\ UNCHANGED updates
       \/ /\ e \in Active /\ updates < MaxUpdates
          /\ updates' = updates + 1
          /\ UNCHANGED taken
    /\ TxUpdateKeyEffect(e, req, fault)
    /\ UNCHANGED rxVars
    /\ UNCHANGED <<needs, request, txState>>

(***************************************************************************)
(* Receiving                                                               *)
(***************************************************************************)

\* Mutated Detached: a request is noted in the ptls_t that no longer sends.
Detached_Never(e) == FALSE

\* tls->tx_detached
Detached(e) == txState[e] # "none"

\* The counter of unserved requests cannot take another one.
RequestsFull(e) == keyUpdateRequests[e] = MaxRequests

\* handle_key_update, after the record that carries it was opened: the receive
\* key moves first, then the request is noted, on the ptls_t or, when its
\* transmission is detached, in the counter the application polls.
HandleKeyUpdate(e, req, fault) ==
    LET c == [dec[e] EXCEPT !.seq = @ + 1]
        counted == req /\ Detached(e)
    IN  IF fault = "rx"
        THEN /\ dec' = [dec EXCEPT ![e] = LostKey(c)]
             /\ closed' = [closed EXCEPT ![e] = "no_memory"]
             /\ UNCHANGED <<needs, keyUpdateRequests, owed>>
        ELSE /\ dec' = [dec EXCEPT ![e] = NextKey(c)]
             /\ owed' = [owed EXCEPT ![e] = @ \/ req]
             /\ needs' = IF req /\ ~Detached(e) THEN [needs EXCEPT ![e]["tls"] = TRUE] ELSE needs
             /\ keyUpdateRequests' = [keyUpdateRequests EXCEPT ![e] =
                                         IF counted /\ ~RequestsFull(e) THEN @ + 1 ELSE @]
             /\ closed' = [closed EXCEPT ![e] =
                              IF counted /\ RequestsFull(e) THEN "internal_error" ELSE @]

\* aead_decrypt succeeds on exactly the record sealed with the expected nonce.
Opens(e, r) == ~r.plain /\ r.gen = dec[e].gen /\ r.seq = dec[e].seq

\* handle_input on a record that does not open: a server that is skipping
\* early data swallows it, up to the limit; anyone else gives up.
Undecryptable(e) ==
    IF e = Server /\ skipped # NotSkipping
    THEN /\ skipped' = skipped + 1
         /\ closed' = [closed EXCEPT ![e] = IF skipped + 1 > MaxSkip THEN "handshake_failure" ELSE @]
    ELSE /\ closed' = [closed EXCEPT ![e] = "bad_record_mac"]
         /\ UNCHANGED skipped

\* handle_input, the body of ptls_receive: one record of the peer.
HandleInput(e, r, fault) ==
    \/ /\ r.plain
       /\ closed' = [closed EXCEPT ![e] =
                        IF r.kind = "alert" THEN "peer_alert" ELSE "handshake_failure"]
       /\ UNCHANGED <<dec, needs, keyUpdateRequests, skipped, got, owed>>
    \/ /\ ~r.plain /\ ~Opens(e, r)
       /\ Undecryptable(e)
       /\ UNCHANGED <<dec, needs, keyUpdateRequests, got, owed>>
    \/ /\ Opens(e, r)
       /\ got' = [got EXCEPT ![e] = Append(@, r)]
       /\ UNCHANGED skipped
       /\ \/ /\ r.kind = "ku"
             /\ HandleKeyUpdate(e, r.req, fault)
          \/ /\ r.kind # "ku"
             /\ dec' = [dec EXCEPT ![e].seq = @ + 1]
             /\ closed' = [closed EXCEPT ![e] = IF r.kind = "alert" THEN "peer_alert" ELSE @]
             /\ UNCHANGED <<needs, keyUpdateRequests, owed>>

\* Mutated PtlsReceive: an endpoint that has given up goes on reading.
PtlsReceive_AfterError(e, i, fault) ==
    /\ fault = "none" \/ (fault \in Faults \cap {"rx"} /\ wire[Peer(e)][i].kind = "ku")
    /\ HandleInput(e, wire[Peer(e)][i], fault)
    /\ UNCHANGED <<enc, request, txState, wire, sealed, broken, taken, migrated, rejected, updates>>

\* ptls_receive on the i-th record the peer sent.
PtlsReceive(e, i, fault) ==
    /\ closed[e] = "no"
    /\ fault = "none" \/ (fault \in Faults \cap {"rx"} /\ wire[Peer(e)][i].kind = "ku")
    /\ HandleInput(e, wire[Peer(e)][i], fault)
    /\ UNCHANGED <<enc, request, txState, wire, sealed, broken, taken, migrated, rejected, updates>>

\* The stream delivers the next record, the transport any record.
ReceiveNext(e) ==
    /\ Len(got[e]) < Len(wire[Peer(e)])
    /\ PtlsReceive(e, Len(got[e]) + 1, "none")

ReceiveAny(e) ==
    /\ AnyOrder
    /\ \E i \in 1..Len(wire[Peer(e)]) : PtlsReceive(e, i, "none")

ReceiveFault(e) ==
    /\ Len(got[e]) < Len(wire[Peer(e)])
    /\ PtlsReceive(e, Len(got[e]) + 1, "rx")

(***************************************************************************)
(* ptls_export on a server, ptls_import elsewhere, the old object freed    *)
(* unused: secrets and sequence numbers survive, flags do not, and the     *)
(* fresh object was never told that it is not skipping early data.         *)
(***************************************************************************)
Imported(c) == [c EXCEPT !.live = TRUE]

ExportImport(e) ==
    /\ WithExport
    /\ e = Server
    /\ txState[e] = "none"
    /\ closed[e] = "no"
    /\ enc' = [enc EXCEPT ![e]["tls"] = Imported(@)]
    /\ dec' = [dec EXCEPT ![e] = Imported(@)]
    /\ needs' = [needs EXCEPT ![e]["tls"] = FALSE]
    /\ request' = [request EXCEPT ![e]["tls"] = FALSE]
    /\ skipped' = 0
    /\ migrated' = [migrated EXCEPT ![e] = TRUE]
    /\ UNCHANGED <<txState, keyUpdateRequests, wire, got, closed, taken, sealed,
                   broken, owed, rejected, updates>>

(***************************************************************************)
(* Specification                                                           *)
(***************************************************************************)
SendFaults == {"none", "reserve", "hkdf", "aead", "data"}

Next ==
    \E e \in Endpoints :
        \/ \E o \in Owners, n \in 0..MaxChunks, f \in SendFaults : PtlsSend(e, o, n, f)
        \/ \E req \in BOOLEAN : PtlsUpdateKey(e, req)
        \/ \E o \in Owners : PtlsSendAlert(e, o)
        \/ PtlsDetachTx(e)
        \/ PtlsTxFree(e)
        \/ PtlsTakeKeyUpdateRequest(e)
        \/ \E req \in BOOLEAN, f \in SendFaults : PtlsTxUpdateKey(e, req, f)
        \/ ReceiveNext(e)
        \/ ReceiveAny(e)
        \/ ReceiveFault(e)
        \/ ExportImport(e)

Spec == Init /\ [][Next]_vars

\* Both event loops run: pending input is read, a pending key update goes out
\* with the next (possibly empty) send, requests are polled and served.
Fairness ==
    \A e \in Endpoints :
        /\ WF_vars(ReceiveNext(e))
        /\ \A o \in Owners : WF_vars(needs[e][o] /\ PtlsSend(e, o, 0, "none"))
        /\ WF_vars(PtlsTakeKeyUpdateRequest(e))
        /\ WF_vars(taken[e] > 0 /\ PtlsTxUpdateKey(e, FALSE, "none") /\ updates' = updates)

FairSpec == Spec /\ Fairness

(***************************************************************************)
(* Properties                                                              *)
(***************************************************************************)
Protection == [live : BOOLEAN, gen : Nat, seq : Nat]
Record == [plain : BOOLEAN, gen : Nat, seq : Nat, kind : Kinds, req : BOOLEAN]
Position == [gen : Nat, seq : Nat]
Reasons == {"no", "peer_alert", "bad_record_mac", "handshake_failure",
            "internal_error", "no_memory"}

\* Every variable has its type.
TypeOK ==
    /\ enc \in [Endpoints -> [Owners -> Protection]]
    /\ dec \in [Endpoints -> Protection]
    /\ needs \in [Endpoints -> [Owners -> BOOLEAN]]
    /\ request \in [Endpoints -> [Owners -> BOOLEAN]]
    /\ txState \in [Endpoints -> {"none", "live", "freed"}]
    /\ keyUpdateRequests \in [Endpoints -> 0..MaxRequests]
    /\ skipped \in Nat \cup {NotSkipping}
    /\ wire \in [Endpoints -> Seq(Record)]
    /\ got \in [Endpoints -> Seq(Record)]
    /\ closed \in [Endpoints -> Reasons]
    /\ taken \in [Endpoints -> Nat]
    /\ sealed \in [Endpoints -> Seq(Position)]
    /\ broken \in [Endpoints -> BOOLEAN]
    /\ owed \in [Endpoints -> BOOLEAN]
    /\ migrated \in [Endpoints -> BOOLEAN]
    /\ rejected \in BOOLEAN
    /\ updates \in Nat

\* No traffic key seals two records with the same sequence number: not across
\* ptls_detach_tx, ptls_export/ptls_import, key updates, nor after a send call
\* that failed half way (seq++ of aead_encrypt against the reset to 0 of
\* setup_traffic_protection).
NonceUnique ==
    \A e \in Endpoints : \A i, j \in 1..Len(sealed[e]) :
        i # j => sealed[e][i] # sealed[e][j]

\* Whatever the transport delivers, what an endpoint opens is the exact
\* sequence of records its peer sealed first: nothing is missing, repeated or
\* out of order, key updates and skipped records included.
OpenedIsPrefix ==
    \A e \in Endpoints :
        /\ Len(got[e]) <= Len(wire[Peer(e)])
        /\ \A i \in 1..Len(got[e]) : got[e][i] = wire[Peer(e)][i]

\* While no send call of the peer has failed half way, the next record of the
\* stream opens: sender and receiver switch keys at the same record, whoever
\* of ptls_send, ptls_tx_sendv and ptls_tx_update_key emits the KeyUpdate.
InSync ==
    \A e \in Endpoints :
        (~broken[Peer(e)] /\ closed[e] = "no" /\ Len(got[e]) < Len(wire[Peer(e)]))
            => Opens(e, wire[Peer(e)][Len(got[e]) + 1])

\* The forced update keeps application data off a worn-out key: a call starts
\* sealing below the limit and overruns it by less than one call's records.
KeyNotWornOut ==
    \A e \in Endpoints : \A i \in 1..Len(wire[e]) :
        wire[e][i].kind = "data" => wire[e][i].seq < SeqLimit + MaxChunks - 1

\* A KeyUpdate the peer asked for is not forgotten while the asked endpoint can
\* still send and no send call failed half way: it is pending in whichever object owns the transmission, in the
\* counter or in the application's hands.
RequestRemembered ==
    \A e \in Endpoints :
        (owed[e] /\ ~broken[e] /\ ~migrated[e] /\ txState[e] # "freed"
         /\ closed[e] # "internal_error")
            => \/ \E o \in Owners : Available(e, o) /\ needs[e][o]
               \/ keyUpdateRequests[e] > 0
               \/ taken[e] > 0

\* No application bytes, alert or KeyUpdate leaves in the clear unless a
\* key update failed before.
NothingInTheClear ==
    \A e \in Endpoints : \A i \in 1..Len(wire[e]) : wire[e][i].plain => broken[e]

\* Every request for a KeyUpdate is answered, unless the transmission was
\* released, the connection closed by an error, or moved to another process.
RequestAnswered ==
    \A e \in Endpoints :
        owed[e] ~> (~owed[e] \/ txState[e] = "freed" \/ closed[e] # "no")

\* "store the parameters of a post-handshake TLS connection so that it can be
\* reconstructed later": a reconstructed connection still owes the KeyUpdate
\* its peer asked for.  ptls_export loses it: not an invariant of this code.
ExportKeepsRequest ==
    \A e \in Endpoints :
        (owed[e] /\ txState[e] = "none") => needs[e]["tls"]

\* "if not UINT32_MAX, the server is skipping early data": only a connection
\* whose early data was rejected skips.  So does an imported server: not an
\* invariant of this code.
SkippingOnlyRejected == skipped # NotSkipping => rejected

(***************************************************************************)
(* Refinement                                                              *)
(***************************************************************************)
ToServer == INSTANCE Channel WITH
    Messages <- Record, sent <- wire[Client], received <- got[Server], over <- (closed[Server] # "no")

ToClient == INSTANCE Channel WITH
    Messages <- Record, sent <- wire[Server], received <- got[Client], over <- (closed[Client] # "no")

\* Each direction of the connection is a stream: whatever the transport does with the records, whatever
\* fails, is detached, exported or updated, every step of ptls_send, ptls_receive and the ptls_tx_*
\* family is a step of the channel, and an endpoint that has given up stays so.
ImplementsChannel == ToServer!ChannelSpec /\ ToClient!ChannelSpec
=============================================================================
