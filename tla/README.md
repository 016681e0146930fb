# zpicotls in TLA+

A verification development for zpicotls, a TLS 1.3 library in C (`src/lib/picotls.c`,
`src/include/zpicotls.h`, and the crypto bindings, the PEM loader and the tool around it).
Its components are modelled step by step, checked with TLC on small instances, and nine of
them are proved about with TLAPS. "C:n" below is line n of `src/lib/picotls.c`, "H:n" of
`src/include/zpicotls.h`.

| module | models | checked by | proved in |
|---|---|---|---|
| `Channel` | abstract: one direction of a connection as a stream | refined by `Traffic` | `TrafficProofs` |
| `Traffic` | record protection after the handshake | `MCTraffic` (2 runs) | `TrafficProofs`, `TrafficSyncProofs` |
| `Handshake` | client and server state machines | `MCHandshake` (3 runs) | `HandshakeProofs`, `HandshakeSyncProofs` |
| `Records` | bytes to records to messages | `MCInput` (1 run) | `RecordsProofs` |
| `EventLog` | the event logger and its caches | `MCEventLog` (3 runs) | `EventLogProofs` |
| `Hello` | ClientHello: writing, rebuilding, decoding, negotiating | `MCInput` | `NegotiationProofs` |
| `Ech` | Encrypted ClientHello: offer, acceptance, two transcripts | `MCInput` | `NegotiationProofs` |
| `Tickets` | session tickets over several connections and clocks | `MCInput` | `NegotiationProofs` |
| `Raw` | the message interface QUIC uses | `MCInterfaces` (1 run) | - |
| `Signing` | the authentication flight and asynchronous signatures | `MCInterfaces` | `InterfacesProofs` |
| `Cli` | the event loop of the command line tool, both ends | `MCInterfaces` | `InterfacesProofs` |
| `Fusion` | the interleaved AES-GCM engine | `MCPrimitives` (1 run) | - |
| `Kdf` | HMAC, HKDF, TLS 1.2 P_hash, labelled derivations | `MCPrimitives` | - |
| `Pem` | PEM files and base64 | `MCPrimitives` | - |
| `Buffers` | growing buffers and length-prefixed blocks | `MCPrimitives` | - |
| `Ownership`, with `Statements`, `KeyExCode`, `CryptoCode` | what the crypto bindings allocate, own and free | `MCPrimitives`, and alone (1 run) | - |

To repeat the work: `tlc -config TrafficFaults.cfg MCTraffic` (and so on, the pairs are in
`PROJECT.json`), `tlapm TrafficProofs.tla` (and the other seven modules of proofs).

## 1. Inventory

The library is a passive object: an application calls `ptls_handshake`, `ptls_receive`,
`ptls_send` on a `ptls_t` with the bytes it read, and writes the bytes it gets back. There
are no threads inside; concurrency comes from the peer, from the transport, from a sender
split off with `ptls_detach_tx` (meant to be used by another thread), from asynchronous
signers, and from the event logger, which all threads share.

| component | state | operations | interacts with | hard behaviour | what makes it correct |
|---|---|---|---|---|---|
| record protection (C:775-935, 5100-5135, 5384-5530, 6010-6075, 6236-6535) | secret, AEAD and sequence number per direction; `needs_key_update`, `key_update_send_request`, `key_update_requests`, `tx_detached`, `early_data_skipped_bytes` | send, receive, update_key, send_alert, detach_tx and ptls_tx_*, take_key_update_request, export, import | the peer's object through the transport | crossing KeyUpdates, allocation failures between two stores, a sender that has moved, migration | no nonce twice, what is opened is what was sent, both ends change keys at the same record, a requested update is answered |
| handshake (C:2209-2990, 3061-3160, 3322-3704, 4210-5100, 5735-5900, 6076-6235) | `state`, key schedule, pending secrets, `is_psk_handshake`, early-data and client-auth state | ptls_handshake, ptls_receive, one handler per message | the peer, the verifier, the signer, the ticket and cookie callbacks | retry with 0-RTT in flight, two keys installed at different places of a flight, stateless cookies, failing halfway | same keys at the same place, no completion without authentication, compatible ends complete |
| record parsing and reassembly (C:5136-5290, 5905-6075) | `recvbuf.rec`, `recvbuf.mess` | parse_record, handle_handshake_record, handle_input(_tls12) | calls the handlers | any cut of the byte stream; messages coalesced and fragmented | result independent of the cuts, messages whole, buffers bounded |
| event log (C:7133-7620, H:1607-1640, 2100-2200) | table of 32 slots, generation, cached bitmaps per log point and connection, mutex | add_fd, recalc_point, recalc_conn_state, do_write_start, do_write_end, the PTLS_LOG macros | every thread, every connection | caches read without the mutex, fds closed in the middle of a write, two passes per event | writes go to subscribers only, an event owed is written or counted, everybody returns |
| key schedule (C:1322-1517, 1696-1738, 1850-2020) | transcript hashes, current secret | extract, derive, fork, free | handshake | PSK offered and not selected, retry rewriting the transcript | same secrets at both ends |
| tickets and PSK selection (C:1566-1670, 1767-1850, 4210-4342; `openssl.c`, `t/util.h`) | the ticket, the client's store, the ticket keys or the server's cache | issue, seal, store, offer, judge | handshake, ticket callback | 32-bit ages that wrap, skewed clocks, delayed tickets, servers reconfigured between connections | only the same service resumes, early data is fresh, a good ticket is honoured |
| Encrypted ClientHello (C:186-215, 939-1321, 2021-2207, 2870-2905, 4007-4124, 4470-4545) | inner and outer hello, two transcripts, accept flags | offer, decrypt, confirm, retry configs | handshake, HPKE | acceptance signalled twice, in HelloRetryRequest and ServerHello | one transcript at both ends, a rejection ends in `ech_required` |
| ClientHello and extension parsing (C:471-533, 3705-4005) | extension bitmap | decode_client_hello, decode_extensions | handshake | repeated and misplaced extensions, extensions compressed against the outer hello | each extension once, PSK last, the inner hello rebuilt is the one hashed |
| raw messages for QUIC (C:6867-7022) | epochs, epoch offsets | ptls_handle_message, ptls_client/server_handle_message | handshake | which epoch a byte belongs to, when a key is announced | bytes of a message in one epoch, in order, keys in time |
| authentication flight (C:3161-3321, 4960-5060, `openssl.c` async signer, `certificate_compression.c`) | `async_job`, the pending flight | send_certificate, send_certificate_verify, server_finish_handshake | a signing backend | jobs that finish in any order, calls that come early, connections freed meanwhile | whole flights over the right transcript, no job left behind, the flight ends |
| buffers (C:581-692, 7023-7132) | base, off, capacity, ownership | reserve, push, blocks, dispose | everything | growth at the limit of size_t, failing allocations, a size that turns out longer | nothing outside the memory, no loss of content, blocks read back |
| HKDF, HMAC, AEAD wrappers (C:6538-6866) | cipher and hash contexts | calls of a backend | key schedule | one HMAC context reused through all iterations | what the RFCs define, no secret left behind |
| HPKE, certificate compression, PEM/base64/ASN.1, QUIC-LB, FFX (`src/lib/*.c`) | local | functions | - | partial failure, line cuts, permutations | decode inverts encode, nothing leaks |
| crypto backends (`openssl.c`, `mbedtls.c`, `cifra*.c`, `uecc.c`, `fusion.c`, `ptlsbcrypt.c`, ...) | contexts and keys with references | algorithm objects | called through vtables | one of many calls failing, references shared with the application, batches of lanes | freed once, nothing leaks, AES-GCM |
| command line tool (`t/cli.c`) | ptbuf, encbuf, early_bytes_sent, state | the select loop | the library, a socket | early data sent again after a refusal, partial writes, half-close | the output is the peer's input |

Every hazard found in this code, with its line and the properties aimed at it, is in
`PROJECT.json`, "hazards".

## 2. The modules and how they correspond to the code

### Traffic

Both ends of a connection, from the state the handshake leaves. A traffic key is its
*generation* (how often "traffic upd" was derived); a record carries the generation and
sequence number it was sealed with and opens exactly when they are the receiver's. An AEAD
context that is gone (`live = FALSE`) makes the code write the record in the clear, and so
does the model.

| code | model |
|---|---|
| `traffic_protection.enc` of the `ptls_t` / of a `ptls_tx_t` | `enc[e]["tls"]`, `enc[e]["tx"]` |
| `traffic_protection.dec` | `dec[e]` |
| `needs_key_update`, `key_update_send_request` | `needs`, `request` |
| `key_update_requests`, `tx_detached` | `keyUpdateRequests`, `txState` |
| `ptls_send` / `ptls_tx_send`, `update_send_key` | `PtlsSend`, `SendEffect`, `UpdateSendKey` |
| `ptls_receive`, `handle_input`, `handle_key_update` | `PtlsReceive`, `HandleInput`, `HandleKeyUpdate` |
| `ptls_update_key`, `ptls_tx_update_key`, `ptls_take_key_update_request` | actions of those names |
| `ptls_detach_tx`, `ptls_tx_free`, `ptls_send_alert` | actions of those names |
| `ptls_export` and `ptls_import` | `ExportImport` |

A failing allocation is a parameter of the action: `reserve` (the KeyUpdate is not
written), `hkdf` and `aead` (the secret is not derived; it is derived and the context is
gone), `data` (the data record), `rx` (the receiver's update). A failing call keeps what
was stored before the failure; its bytes are lost, the nonces are used. `wire[e]` is
everything `e` handed over; with `AnyOrder` the transport gives the receiver any of it, any
number of times. History variables: `sealed`, `broken`, `owed`, `migrated`, `rejected`,
`updates`; `taken` stands for a request on its way from the receiving to the sending thread.

`Channel` is what this comes to: per direction, a sequence that only grows, a receiver that
takes the next element or gives up for good. `ImplementsChannel` instantiates it twice, with
`wire[e]` as what was sent, `got` of the other end as what was received and `closed` as
having given up.

### Handshake

The two `ptls_t` are records `cl` and `sv`, the transport two queues of records. One action
`ClientReceive` / `ServerReceive` per record, with one operator per handler
(`client_handle_hello` is `ClientHandleHello`, and so on), `ClientStart` for the first
`ptls_handshake`, `ServerSignDone` for the call that resumes an asynchronous signature,
`ClientSend` / `ServerSend` for the application's data (0-RTT included). A handler that
fails goes through `ClientFail` / `ServerFail`: `ptls_handshake` cuts off the flight, sends
an alert and keeps the changed keys and numbers. The alert is sealed only in the states behind
`CLIENT_EXPECT_FINISHED` (C:6530): a client's is always in the clear, which its server takes in any
state, a server's is sealed with whatever key is installed by then.

Secrets are terms: label, PSK, (EC)DHE and transcript. A Finished, a binder or a signature
is its key and the transcript it covers. Two ends have the same key iff they derived it
from the same things, which is what the key schedule is for. The configuration `cfg` (a
record, see `Config`) fixes what the contexts and properties of the two ends say.

### Records

One endpoint in one of seven fixed situations (`mode`), fed with cells one at a time, a
call taking all that has arrived, so that every way to cut the stream is explored. A cell
stands for a field: record header type and length, message header length, one-cell tag. The
buffers `recvbuf.rec` (`buf`) and `recvbuf.mess` (`mess`) have the two paths the code has
(C:5150-5225: whole record where it lies; C:5905-5960: joined bytes, rest kept). `seen`,
`calls` and `frags` record what was handled; `Framing` is the reference: the records of the
whole byte string, defined without buffers.

### EventLog

`th[t]` is a thread's place in `PTLS_LOG_CONN` (H:2135-2180) and its locals. Steps are as
fine as the code's synchronisation: the check without the mutex (`PointFresh`, `ReadActive`,
`ConnActive`), the recalculation under it in two stores (`RecalcPoint`, `RecalcPointDone`),
the formatting without it, then the write under it (`WriteEnd`, `Select`, `Write`,
`WriteLost`, `WriteFails`, `Skip`, `WriteDone`), twice when an fd wants application data.
The two fields of a log point are plain variables that are read without the mutex, a data
race: with `Unordered` their stores become visible in either order.

### Hello

`EncodeClientHello` writes a hello as a sequence of extensions in the three modes of the code
(inner, encoded inner, outer); `DecodeFields`, `DecodeExtension` and `CheckConstraints` are
`decode_client_hello` with its bitmap and the checks behind it, `RebuildChInner` is
`rebuild_ch_inner`, `Negotiate` the choice of version, suite, certificate type, share and
pre-shared key with all its aborts, and `ClientRetry` the second hello. An end may have an external key
or a ticket: the first share of a client that resumes is of the ticket's group (C:2496), and a
server with an external key goes on with no other (C:4759). A cookie is the group its signature
covers: the one the server would pick when it is made (C:4711), the one of the client's share when
it comes back (C:4626). The client is this library in some 250 configurations, or any
other: a sequence of up to three extensions taken from a list of well-formed and malformed ones.

### Ech

`ec` and `es` are the ends, each ClientHello a pair of inner and outer. A ciphertext is key,
sequence number, associated data and plaintext, so it opens only with all of them right; a
confirmation is the inner random and the transcript it was computed over. `ServerHandleEch`
is this library's server; `PeerHandleEch` is any server that can compute no confirmation for
an inner hello it could not open, but may retry, accept, change its mind and send or omit the
extension as it likes. Configurations are records of the reasons for which
`client_decode_ech_config_list` and `decode_one_ech_config` pass one over.

### Tickets

`SendSessionTicket`, `HandleNewSessionTicket`, `SendClientHello`, `TryPskHandshake` are the
functions of those names; between them `Tick` lets time pass and `Reconfigure` changes the
server's context: ticket keys, lifetime, groups, ticket context, and whether tickets are
sealed by HMAC keys or EVP keys (`openssl.c`) or kept in the cache of `t/util.h`.
`PeerClientHello` is a client that does not keep to lifetimes. The age is computed modulo
`AgeMod`, and the window test mixes it with an unbounded difference, as the code does.

### Raw

`RawHandleMessage` takes any prefix of what is available in the epoch
`ptls_get_read_epoch` asks for; `RawStep` runs one statement of the handler (a message
pushed, a key announced, an epoch change), so that the five epoch offsets are seen at every
point; `RawReturn` hands the buffer, cut at the offsets, to the peer's streams.

### Signing

Per connection: the flight as a sequence of messages, the transcript, the job.
`SignSync`, `AsyncStart`, `AsyncAtOnce`, `ResumeEarly`, `Resume` and `ResumeFails` are what a
call of the signer comes to; `BackendDone` completes a job in any order, `FreeConn` is
`ptls_free` at any time, `HandleTrailing` what becomes of input passed meanwhile.

### Cli

The body of `handle_connection` at both ends: `Consume`, `SocketClosed`, `ReadInput`,
`Encrypt`, `Write`, `CloseSender`, a position per end in the loop. The handshake is what it does
to the loop. `Write` takes any part of the buffer that fits into the socket. Left out, as the
handshake does not fail here: the last write of `encbuf` on failure (`t/cli.c`:179-180); and the
`ptls_update_key` of option `-u` (170-171), for which there is `Traffic`.

### Fusion

`EncryptPass` is one round of the loop of `ptls_fusion_aesgcm_encrypt` (six AES lanes, GHASH
one batch behind), `EncryptFinish` what is left after it, `DecryptPass` the decrypting loop,
`IterateBlock` the one over pieces; lanes and GHASH sums are symbolic, lengths and
offsets are the program's. `Gather` is the copying of pieces that overlap the output (`EncryptVector`).

### Kdf

Digests are terms. `ApplyKey`, `HmacUpdate` and `HmacFinal` act on one context as the code
does, reset included; `Extract`, `ExpandIteration`, `PHashIteration` call them; the chains of
HKDF-Expand-Label are the callers'; `ptls_calc_hash` can fail. The block counter of HKDF-Expand is
a number modulo `CounterMod`, the `uint8_t` of C:6690. The references `HmacRef`, `ExpandRef`, `PHashRef` are
written down from RFC 2104, 5869 and 5246; beyond the 255 blocks for which RFC 5869 defines an
output, `KdfIsRfc` says what the code does instead.

### Pem

`WriteFile` makes any file of up to two objects, in lines of several widths (cut anywhere, between
the two characters of a `==` too), undamaged or damaged in one of several ways; the other actions are the lines read in the two passes of
`ptls_get_pem_object_malloc` and the loop of `ptls_load_pem_objects`. Base64 is computed, bit for bit.

### Buffers

Sizes are scaled (`SizeMax` for SIZE_MAX, a byte has `Radix` values), so that doubling meets
the end of the range. `BufReserve`, `BufPush`, `BufPushQuicInt`, `BufOpen`, `BufClose` are the macros and functions
of `ptls_buffer_*`; `OpenBlock` is `ptls_decode_open_block`.

### Ownership

The crypto glue is written in one style: acquire, `goto Exit` on failure, release at `Exit`
what was not handed over. `KeyExCode` and `CryptoCode` are those functions as short scripts
(`Statements` has the five statements), and `Ownership` runs them: each acquisition and each
crypto call fails or succeeds, `heap` counts references, and the callers of `picotls.c`,
`hpke.c` and `t/util.h` call in any order they can, after a failure too. Thirteen backends. The one
object that is freed once too often, the EC_KEY of an application whose import failed (finding 4),
is excepted from `FreedOnce` by name, and `ReferencesCounted` says that exactly one reference is missing.

### The sums

`MCInput`, `MCInterfaces` and `MCPrimitives` put the components that share no
state side by side: `which`, chosen at the start, says which of them moves, and the others keep one
fixed initial state. A behaviour is one of one component, so nothing is weakened by the sum.

## 3. Runs

Bounds are named constants; the reason for each is in the last column.

| run | checks | shows | bounds |
|---|---|---|---|
| `traffic_faults` | NonceUnique, KeyNotWornOut, RequestRemembered, NothingInTheClear, ImplementsChannel (refinement, which includes OpenedIsPrefix) | A server that sends up to two records per call, updates, detaches, is exported and imported, with every allocation failing at any time, over a transport that reorders, repeats and drops | `SeqLimit` 2 stands for 2^24, so the forced update happens; 2 records per call let a call overshoot the limit; 4 records and one update give two key generations on either side of a detach or an import; one ticket shifts the starting number |
| `traffic_crossing` | InSync, RequestAnswered (liveness) | Both ends ask for updates at once over a reliable stream, with and without detached senders | two updates is the least in which requests cross; `MaxRequests` 1 stands for UINT32_MAX, so the counter overflows |
| `handshake` | InStep, NobodyWaits, Authenticated, DeliveredIsSent, TicketsMatchWithoutAuth, FailureReaches, Completes (liveness) | 10344 pairs of configurations | two 0-RTT records against `MaxSkip` 1: the limit is met and exceeded; three groups: first common, other common, none |
| `handshake_tickets`, `handshake_cookie` | TicketsMatch; CookieHonoured | findings 1 and 2 | one configuration each |
| `log_slots` | WritesToSubscriber, LoggingReturns (liveness) | a slot that is freed and reused by another registration under a writer's feet, racing stores in either order | one slot makes reuse happen at once; two points make the wrong owner visible |
| `log_threads` | OncePerFd, NothingMissed | two threads, two fds, changing server names and both passes; stores visible in source order | two events: one per thread, or two by one. Threads are symmetric |
| `log_filter` | ConnectionFilter | finding 3 | one thread, one event |
| `input` | CutsDoNotMatter, MessagesWhole, EndFlagIsTrue, MemoryBounded; RebuildExact, NegotiatesByPolicy, AcceptedIsWellFormed; EchSound, EchSucceeds; ResumptionSound, TicketHonoured | `Records`: every string of up to 6, 8, 9 or 10 cells (by mode) in every cut. `Hello`: the hellos of every client configuration against every server, and foreign hellos. `Ech`: good, unknown and unusable configurations, retries and a server that changes its mind. `Tickets`: two skews, three server contexts and three requests | `Records`: long enough for three records, two messages in one record and one message in two records; record limits 3 and 4, message buffer 2, skip limit 3, all exceeded by some strings. `Hello`: `MaxExtensions` 3: two extensions that conflict and one between; `ListCapacity` 2 stands for the fixed-size arrays and is exceeded by three identities; clients whose ticket is of the second group, servers with either key and a cookie key. `Ech`: `MaxRetries` 2: one more than is allowed. `Tickets`: `AgeMod` 8 for 2^32 with an age_add of 6, so ages wrap; `Week` 4, `Window` 1, `MaxTime` 5: past a lifetime of 4 and of 2; one session |
| `interfaces` | EpochsSound, RawCompletes; SigningSound, FlightEnds (liveness); LoopSound | every setup of two honest QUIC ends; two connections that share a signing backend; both ends of the tool | two connections, one early call each (`MaxPauses`), one piece of trailing input; two blocks of input, socket room for three records, so that writes are cut; early data limit 0 and 2, so that a second block can follow during the handshake |
| `primitives` | FusionSound; KdfSound; PemSound; BufferSound; ReferencesSound, FailureIsClean | AES-GCM for all combinations of lengths; derivations that end in, at and beyond the last block the counter can number; PEM files in every cut; buffers up to the largest size; 13 backends with every failure | payload and additional data lengths on both sides of a block (16), of five (80) and of six (96) blocks and of two batches; `Digest` 2, `CounterMod` 4 for 2^8 and lengths to 7: whole and cut last blocks, and a fourth block, for which the counter is 0 again; line widths 1, 3, 4, 5: quanta cut at every place; `SizeMax` 31, `MinCapacity` 4, `MaxOff` 7, blocks nested `MaxDepth` 2, reservations of 20 and 31 to meet the overflow |
| `key_import` | CallersKeyKept | finding 4 | one backend |

The properties named ...Sound, `NegotiatesByPolicy` and `FailureIsClean` are conjunctions of
parts that are named and explained one by one where they are defined:

| property | parts |
|---|---|
| `NegotiatesByPolicy` (`Hello`) | SuiteByPolicy, KeyInsistedOn, CommonMeansSuccess |
| `EchSound` (`Ech`) | EchAgreement, OnlyInnerCompletes |
| `ResumptionSound` (`Tickets`) | SameService, EarlyDataIsFresh |
| `EpochsSound` (`Raw`) | OffsetsTell, KeysInTime |
| `SigningSound` (`Signing`) | FlightCoversTranscript, JobWhileWaiting |
| `LoopSound` (`Cli`) | OutputIsInput, StreamsStayWhole |
| `FusionSound` (`Fusion`) | FusionIsGcm, PowersInRange, SampleIsFinal, GatherInOrder |
| `KdfSound` (`Kdf`) | KdfIsRfc, HmacIsRfc, NoSecretsLeft |
| `PemSound` (`Pem`) | UndamagedLoads, OnlyWholeObjects, DecodesInPlace |
| `BufferSound` (`Buffers`) | StaysInMemory, HoldsWhatWasPushed, ReadsBack |
| `ReferencesSound`, `FailureIsClean` (`Ownership`) | FreedOnce, ReferencesCounted; NothingLeaks, FailureLeavesNothing |

`TypeOK` of `Traffic` and `EventLog` is proved (section 4) and in no run; in `Handshake` and
`Records` it documents the variables.

`CHECK_DEADLOCK FALSE` everywhere: connections end, bounded applications fall silent, and
the log ends after its last event. Missing progress is caught by `NobodyWaits`, `Completes`,
`RequestAnswered`, `LoggingReturns`, `RawCompletes` and `FlightEnds` instead.

Every property of a passing run is broken by a mutant of a definition that models code
(`PROJECT.json`, "mutants"), for instance: an update that keeps the secret or the sequence
number, a send that ignores `tx_detached`, the early key kept across a retry, a ticket
transcript without EndOfEarlyData, `is_end_of_record` set for every message, a closed fd
that leaves the generation as it was, a ticket age compared without its sign, a job kept
after its signature was used, a PEM object measured too small, an HMAC context reset
without its key.

Fairness:

* `Traffic`: both event loops run. Input that is there is read, a pending update goes out
  with the next (possibly empty) send, requests are polled for and served: with a
  detached sender polling (H:1832) is the only way a request reaches it. Nothing is assumed of the transport beyond
  delivering what was sent (`AnyOrder` is off in that run).
* `Handshake`: while one of the applications has something to do (start, input to read, a
  signature to use), one of them eventually does something. No fairness between the two and
  none for sending data.
* `EventLog`: each thread that is inside a logging macro goes on (weak fairness of
  `Logging(t)`); the mutex is only assumed to be granted to a thread that keeps waiting
  while it is free.
* `Signing`: a call that has begun to sign goes on, the backend completes the jobs it was
  given, and the application calls again when a job is ready (its descriptor is readable).
  None for beginning a flight: `FlightEnds` is about flights that have begun.

## 4. Proofs

What is assumed is in the `ASSUME`s of the components, and TLC evaluates all of them:
types of the constants, client and server different, a positive sequence limit and chunk
count, at least one slot and point, marks (`NoJob`, `NoReg`, `Nil`, ...) that are not values, and
these facts about the code's constants and data:

* `MaxPlain <= MaxEncrypted` (`Records`): C:52-53 define the limits as 16384 and 16384 + 256;
* `Week < AgeMod` (`Tickets`): seven days in milliseconds are less than 2^32;
* no server name is a ticket context (`Tickets`): the session identifier has one field for
  either (C:1790-1800) and try_psk_handshake tells them apart by their contents (C:4270-4285),
  so a host whose name were the 32 bytes of another server's `ticket_context` would be taken
  for it;
* of client contexts (`Hello`): there is a group (`send_client_hello` takes `key_exchanges[0]`, C:2522;
  a context whose `key_exchanges` is NULL, for PSK alone, is not modelled), no protocol name is empty (its length would be a byte 0, which no
  decoder takes), and the additional extensions an application gives are neither of types the
  library writes itself nor repeated (`push_additional_extensions`, C:2020, passes them through);
* of server contexts (`Hello`): the extensions collected for the application are not of types the
  decoder has a case for (it asks `should_collect_unknown_extension` only in the default case, C:3993).

The limits, the failing allocations, the transport, export, the numbers of threads, slots,
registrations, sessions and connections, the clocks and the configurations are arbitrary.

**TrafficProofs.** `TypeCorrect` is by induction as it stands (one step per action, one
lemma per composite operator). `NoncesNeverRepeat` and `OpenedAreSent` need a
strengthening, `OrderInv`:

* `NonceOrder`: positions (generation, number) are sealed in increasing lexicographic
  order, and the *current* context, the one of the `ptls_t` or of the `ptls_tx_t`,
  is beyond all of them. Distinctness alone is not inductive: nothing would keep the next
  position from being an old one, and without naming the single current owner a detach
  would leave two contexts at one position.
* `WireOrder`: the records handed over are ordered likewise, and one in the clear
  marks a position that is lost for good. That is what makes a failed send harmless to the
  receiver: a gap that no later record can fill.
* `ReceiverPosition`: the receiver stands right behind the last record it opened, unless
  its own update failed, after which it is closed.
* with them only one record of `wire` can open (`OnlyNextOpens`), whatever is delivered,
  and `OpenedIsPrefix` is kept.

`TrafficIsChannel`: `Spec => ImplementsChannel`. Sending only appends to `wire`. Receiving
appends to `got` only what opens, and by the same lemma that is the next element of `wire`;
everything else a receiver does leaves `got` alone, and `closed` never goes back.

**TrafficSyncProofs.** Order is not enough to say that the next record opens: there must
be no gap either. `SyncInv` adds `Contiguous`: unless a send call failed half way
(`broken`), the records on the wire follow each other position by position from the
start, none in the clear, and the context in use is live and stands at their end. From it
follow `StaysInSync` (with `ReceiverPosition`: the receiver stands behind a prefix of the
wire, so the record it needs is the next one) and `NeverInTheClear`. `KeysNotWornOut` and
`RequestsRemembered` are inductive beside it; the second one needs the case split over
who owns the transmission when the request arrives and when the sender is detached, freed,
exported or imported.

**HandshakeProofs.** `BothAuthenticated` and `TicketsHoldTheSecret`, from `HandshakeInv`.
A key is a term over the transcript it was derived from, and whatever an end decided is in
its transcript: the selected PSK in ServerHello, accepted early data in
EncryptedExtensions. So an end that opens a record or accepts a Finished under its own key
knows what the other end decided (`FinishedOK`, `Agree`), and need not know in which order
things arrived. `ClientOK` and `ServerOK` tie the state of each machine to what has been
verified by then, which keys it has and which last message its transcript was derived with;
`FromServerOK` says that a ticket is sealed with a key derived from the same transcript as
the secret it holds. `Authenticated` alone is not inductive: a completing server would not
know that the client's view of the PSK is its own.

**HandshakeSyncProofs.** `KeysInStep`, `NoEndWaits`, `DataDelivered` and `FailureIsNoticed`: for
every pair of configurations (`HandshakeAssumption` says only that they have the type `Config`),
any number of tickets and any amount of 0-RTT and application data. None of the four is
inductive: that the keys agree when nothing is in flight depends on what every record in flight
will do when it is read, in both directions. `SyncInv` therefore describes the wire as a whole:

* A configuration determines the conversation: which messages there are, the transcripts and
  keys that follow, and the records, in order. `Story(y)` says that the record y consists of
  these; `StoryExists` shows that every configuration has one. Stories, and which record comes next
  in a stream of one, are at the end of `HandshakeProofs`.
* `ClientAt` and `ServerAt` give the keys, numbers, schedule and flags of an end that has not
  failed as a function of the story, its state and how much data it sent and was given.
* `FromServer` and `FromClient` say that what is in flight to such an end is the rest of the
  story, from the place where it is to the place where the other end is (`SCert`, `SVerify`,
  `SFin`, ... and `CHello`, `CEarly`, `CFlight`, ..., each a record or nothing before the next),
  and, if the other end failed, its alert (`ServerAlert`, `ClientAlert`). The server that skips 0-RTT
  data may have skipped any part of it (`EarlyForm`).
* `Always` says how far one end can be ahead of the other, also when one of them has failed:
  a completed server has a client that sent its Finished.
* Of an end that has failed nothing else is said: it reads no more, and what it sent last is
  the alert of the abandoned handler, or none, as the exceptions of `FailureReaches` have it. A
  client's alert is in the clear, so it opens wherever the server is (`ClientAlert`).

`SyncStep` takes one action at a time. Reading (`ClientReadsHello`, `ServerReadsFinished` and so on, one lemma for
each message in each state) shows that the first record in flight opens under the key and number of
`ClientAt` or `ServerAt`, that its handler arrives at the next state of the story and that what it sends extends
the rest of the story for the other end; sending only extends it. With nothing in flight the rest of the story is
empty, which leaves only the states `QuietStates` lists.

**RecordsProofs.** `CutsAreHarmless`, `MemoryStaysBounded`, `MessagesComeWhole`,
`EndFlagsAreTrue`. The invariants describe buffers by places in the byte string, without
recursion: `FrameInv` says that what was consumed is cut into whole records at certain
places and is followed by `buf`, which is the beginning of one record; `MessageInv` says
that the contents of the handshake records are one stream, cut once where records end and
once where messages end, that the calls made are the pieces of the second cut, and that
`mess` is what follows the last one. The definitions that recurse (`Framing`, the loop over
messages, the flattened stream) are recursive functions, and lemmas show by induction that
they compute exactly those cuts. The induction is over a *set* of numbers (`Induct`, from
the library's `WFMin`): the induction theorems with an operator parameter are out of the
provers' reach, one about a set is not.

**EventLogProofs.** `LogTypeCorrect` and `WritesReachSubscribers`, from
`IInv == TypeOK /\ LockInv /\ CacheInv /\ SelectInv /\ WriteInv`: whoever is in a critical
section holds the mutex; a log point's cache of the current generation is exact unless
some thread is between its two stores (which the mutex then belongs to); targets are
selected from a current cache; and the slots left to write to are in use by subscribers of
the point. The last is not inductive alone: it is the cache that is selected from, and the
cache is only right because every change of the table bumps the generation under the same
mutex. The proof covers both orders of the racing stores.

`SentOnce` needs that a registration holds at most one slot
(`TableInv`), that the events in a stream are numbered by their thread (`NumbersInv`) and
which registrations may already have been served by the pass a thread is in (`PassInv`).
`EveryEventDelivered` is proved for `~Unordered` only, as it must be: with the stores seen
the other way round `NothingMissed` fails (section 5). Its invariant follows an
event from the moment it is owed to the moment it is written or counted: the caches are
exact (`ExactCache`, `ConnCache`), so no check made without the mutex skips a subscriber that
was registered before the event began (`OwedInv`).

**NegotiationProofs.** `ResumesSoundly` and `TicketsAreHonoured`. `TicketsInv` says where
tickets are and what they say: each sealed ticket, in flight, stored or offered, describes
the session its secret is of (`Describes`), the client's notes agree with it, no ticket is
stored twice, a ClientHello offers a stored ticket with its age or begins with something
that does not open (`GoodHello`), and the server's decision is still what it would decide
now (`Judged`). Freshness then is arithmetic: subtracting `ticket_age_add` modulo 2^32 gives
the age back because it is below a week (`AgeShows`), and a ticket is obtained after it is
issued. In the other direction a second ticket of the cache cannot make an old one
acceptable, since its entry is of a new session.

`EchIsSound` and `EchAlwaysSucceeds`, for any list of configurations, server keys and policy and
any number of retries, from `EchInv`. With this library at both ends the state is a
function of the scenario and of how far the exchange has got: `LibraryInv` names the eight
places (`AtStart` to `AtRefused`) and gives both ends' ECH state, both transcripts and what
is in flight at each. The proof has to show that the client's verdict, which it takes from a
confirmation over its own transcript, is the server's, which it takes from the key (`Opened`),
and that the second hello is sealed under the number the server opens next. With a server of another make
that may retry without end and confirm, reject and confirm again, `PeerInv` tells apart a
client that was told of acceptance and has its keys (`Believes`) from one that a later retry
without confirmation made adopt its outer transcript although it goes on calling ECH
accepted (`Misled`). `OnlyInnerCompletes` alone is not inductive because of the second: it is safe
only because that transcript begins otherwise than the server's, having missed the retry
request (`Asking`, `Answering`), so that the server's Finished never verifies (`Ending`).

`HelloWellFormed`, `InnerRebuilt` and `PolicyNegotiated`, for any pair of contexts with lists of any length
and any hello of another client. Three loops of the code are recursive functions here. For each, a lemma
(`SelectLoopIs`, `TakeReferencesFollow`, `RebuildFollows`) shows that it exists as the sequence of its steps,
and what holds at its end is shown by induction over a set of numbers. `SelectByPolicy` says that the
loop of `select_cipher` ends with the suite of the policy; `RebuildsInner` that the encoded inner hello
and the outer one give the inner one back, which needs that the types in a hello differ (`Lists`). The invariant
has four parts:

* `DecodeInv`: after n extensions the fields of `st_ptls_client_hello_t` are the function of those n that
  `UpTo` gives. `HelloWellFormed` follows from it at the end of the hello. It is not inductive without the
  bitmap: that a field was set by the only extension of its type depends on what was seen.
* `LibraryHelloInv`: with a client of this library the hello at the server is the first or the second one, and
  the server either goes on or has an excuse (`Excused`). Decoding such a hello cannot fail (`EncodedDecodes`) and leaves
  exactly what the client wrote, cookie, identity and modes included (`DecodedHello`). A retry asks for a group of
  both (`AskedOnce`), and what a stateful server has noted, suite and name, it will find again, so the second round
  ends. A cookie that comes back is of the group of the share it comes with, or it is the cookie of finding 2
  (`CookieOfAnotherGroup`); an external key is found if the ends can agree on it (`ShareSuffices`).
* `RetriesInv`, `SuiteInv` and `KeyInsistedOn` for any client: the server remembers that it has asked, the
  suite in use is the one of the hello at hand, and an external key is never done without.

**InterfacesProofs.** `FlightsAreSound`. Between the start of a job and its end nothing is
written or hashed: an early call takes back exactly what it wrote. So what the job covers
(`Awaited`) is still the transcript when the signature arrives, whatever happens to other
connections meanwhile, and the flight it completes is the one a synchronous signer makes.

`LoopsAreSound`, for any input, room in the socket and limit of early data, from `CliInv`.
`ClientAt` and `ServerAt` tie the keys of each end to its place in the handshake. A record
tells by its key and number which block it carries (`RecordsTell`): application data of
number n is block n + 1 of the input, behind what counts as delivered early (`Released`). The
receiver has as many blocks as its counter and `Released` say (`OutAt`), so the record that
opens next is the next block; this needs that no early data follows the client's Finished
(`EarlyComesEarly`) and that what waits in `ptbuf` is the end of what was read (`InputAt`).
That nothing is missing is another matter: a record whose number was passed over never
opens, and nothing says so. For writes that are taken whole, `WholeAt` gives every record a
place in its direction (`Place`) and says that the places in flight are exactly those from the
receiver's counter to the sender's (`Gapless`), so the first record in the socket always opens.

**Only model-checked**:

* liveness (`LoggingReturns`, `Completes`, `FlightEnds`, `RequestAnswered`) and what mentions `ENABLED`
  (`RawCompletes`): the prover does neither fairness nor `ENABLED`;
* `EpochsSound` (`Raw`), `ReferencesSound` and `FailureIsClean` (`Ownership`): their setups and
  backends are finitely many and nothing in them is unbounded, so the run goes through all their states;
* `FusionSound`, `KdfSound` and `BufferSound`: what they compare with (GCM over any length, RFC 5869, the number
  read back from its digits) is defined by recursion over the input, with exponents in `Buffers`;
* `PemSound`: the module uses `RECURSIVE` operators, which the prover cannot be given.

## 5. Findings

Each is the violation TLC finds in a run of its own; the details and the quoted lines are
in `PROJECT.json`.

1. `send_session_ticket` (C:1941) predicts the client's flight without Certificate and
   CertificateVerify; with client authentication the ticket holds another secret than the
   client's.
2. A cookie is signed for the server's first common group (C:4711) and verified for the
   group of the client's share (C:4626). `NegotiatesByPolicy` names this exception
   (`CookieOfAnotherGroup`).
3. `ptls_log__do_write_end` (C:7455) applies the connection's filter only when the
   connection's cache is out of date.
4. When the import of an EC key fails at the encoding of the public key,
   `ptls_openssl_create_key_exchange` drops the application's reference to the EC_KEY: it is freed with
   the context (`openssl.c`:408) and again by the caller (1042), although one was taken (`openssl.h`:171).

Stated as properties in the modules, marked there as not holding, and violated when added
to the cfg of the component's run:

* `ExportKeepsRequest` (`Traffic`): `ptls_export` (C:5404; "can be reconstructed later",
  H:1680) does not write a pending KeyUpdate; an imported server never answers it.
* `SkippingOnlyRejected` (`Traffic`): `ptls_import` (C:5482) leaves `early_data_skipped_bytes`
  at 0, "skipping" (C:323); an imported server drops undecryptable records up to the limit.
* `ZeroMeansComplete` (`Handshake`): the server's `ptls_handshake` returns 0 (C:5051) before the
  handshake is complete, unlike H:1770.
* `NameHidden` (`Ech`): when the rejection comes with a HelloRetryRequest, the second ClientHello
  carries the true server name (C:2440, C:2547), although the comment at C:2897 says the outer
  hello is adopted.
* `PublicNameVerified` (`Ech`): after a rejection the certificate is to be verified against the
  public name (C:3376, H:812), which `clear_ech` has freed when ServerHello was handled (C:2955).
* `InputLookedAt` (`Signing`): the call that resumes a signature reports its input as consumed
  without looking at it (C:6152; H:1774).
* `OnlyWholeMessages` (`Signing`): a signer that fails when resumed leaves the beginning of a
  message in a buffer that is to be sent even after an error (C:6182; H:1772).
* `CloseAfterAllData` (`Cli`): with a write that is taken in part, `t/cli.c`:266-290 can
  close the sending side while data waits.
* `EarlyAmount` (`Cli`): `t/cli.c`:231-237 subtracts what was sent from a limit that a
  HelloRetryRequest has set to 0; the difference wraps. (H:1119 has the limit updated.)
* `EarlySentOnce` (`Cli`): `t/cli.c`:240 sends early data from `ptbuf.base`, not from behind
  `early_bytes_sent`; a second block read before the handshake ends sends the beginning
  again, and `early_bytes_sent` then releases a block that never went out (`t/cli.c`:168).
  `OutputIsInput` is therefore stated for connections without such a second block.

Noticed while modelling, without a property:

* with `Unordered` TRUE, `NothingMissed` fails: a reader that sees the new generation
  with the old bitmap takes the log point for inactive. The run checks the source order.
* `ptls_set_server_name` (C:5671) does not call `ptls_log_recalc_conn_state`, which
  H:1617 wants called when the SNI is determined; the model leaves the call to the
  application (`RecalcConnState`), and what an event is owed to is taken from the cache.
* `num_lost` does not count events dropped because formatting ran out of memory.
* the handlers of KeyUpdate and EndOfEarlyData do not look at `is_end_of_record`; KeyUpdate
  is accepted in QUIC mode.
* an alert that arrives while part of a handshake message is buffered is a decode_error
  (C:5905).
* the callbacks of unknown extensions are called as `(ret = cb(...) != 0)`: the error code is lost.
* `client_handle_new_session_ticket` reads `tls->key_share`, which is NULL after a PSK-only handshake.
* `ptls_hkdf_expand` has no limit of 255 blocks: asked for more it starts its counter again at 0
  (C:6690) and reports success. `KdfIsRfc` states both halves.
* `do_sign_async` ignores the job's own result when the job has finished; `verify_cert` ignores
  a stack of intermediates that could not be allocated or pushed to.
* HPKE's `key_schedule` reports success with a NULL context if `ptls_aead_new_direct` fails.
* `mbedtls_load_private_key` leaks its signer, and minicrypto its `sign_certificate`, when the
  set-up fails; the BCrypt hash context is never freed; the FFX set-up that fails calls a
  dispose whose assertion fails, and an odd number of rounds is not inverted by decryption.
* cifra's `chacha20_init` ignores the counter part of the iv.
* base64 rejects a `==` cut by a line end (`pembase64.c`:147), although the comment at 112 calls
  the decoder consistent with the lax grammar of RFC 7468, which allows white space there;
  `UndamagedLoads` names this exception (`PaddingParted`). It accepts what follows the padding
  (`pembase64.c`:191). An object without END swallows the one behind it;
  `ptls_buffer_push_asn1_ubigint` (C:718) reads the first byte of an empty integer.

## 6. Not modelled, and why

* A malicious or foreign peer in the later flights: `Handshake` composes the two ends of this
  code. `Hello`, `Ech` and `Tickets` do have foreign peers, and `Traffic` an adversarial
  transport.
* Allocation failures inside handshake handlers: they end in the same failure path as a failing
  verifier or signer, which is modelled, and are covered for buffers and backends.
* Certificate contents, ALPN and server names beyond equality: data the state machines pass through.
* TLS 1.2: receiving of records is in `Records`, P_hash in `Kdf`; building the parameters is
  arithmetic on byte strings.
* QUIC-LB and FFX: one function each, checked against test vectors by the repository.
* The 256-bit and non-temporal variants of `fusion.c` and its AES key expansion; the
  bodies of the AEAD encrypt and decrypt wrappers; hash and cipher glue; `mbedtls_sign.c`:
  calls and arithmetic without state of their own.
* Windows BCrypt: its ownership rules are those of a system library that is not here.
* The ASN.1 validator, which prints what it decodes; the receiver of compressed certificates.
* Alignment and the direction flag of buffers.

## 7. Plan

The components the plan named first are modelled. What is left, in order of importance:

1. Proofs: `Buffers` `StaysInMemory`, for every size and radix.
2. `Feistel`: the QUIC-LB and FFX rounds as functions on small widths, checked to be
   permutations inverted by decryption.
3. `Records` with `Traffic`: coalesced KeyUpdates in one record.
