------------------------------- MODULE Records -------------------------------
(***************************************************************************)
(* From bytes to records to handshake messages (lib/picotls.c              *)
(* parse_record, handle_handshake_record, handle_input and                 *)
(* handle_input_tls12), for one endpoint that does not change state.       *)
(*                                                                         *)
(* The transport hands over bytes as they come; a call gets whatever has   *)
(* arrived.  A whole record is parsed where it lies, a part of one is kept *)
(* in recvbuf.rec, a part of a handshake message in recvbuf.mess.          *)
(*                                                                         *)
(* The format is scaled down: a cell stands for a field.  The header of a  *)
(* record is its type and its length (5 bytes in the code), the header of  *)
(* a handshake message its body's length (4 bytes), the tag of the AEAD is *)
(* one cell.                                                               *)
(***************************************************************************)
EXTENDS Integers, SequencesExt

CONSTANTS
    Modes,         \* the states of the endpoint to look at
    Cells,         \* Cells[m]: the values a cell can have in mode m
    MaxPlain,      \* PTLS_MAX_PLAINTEXT_RECORD_SIZE
    MaxEncrypted,  \* PTLS_MAX_ENCRYPTED_RECORD_SIZE
    MaxBuffer,     \* ctx->max_buffer_size; 0 is no limit
    MaxSkip,       \* PTLS_MAX_EARLY_DATA_SKIP_SIZE
    Refused,       \* the messages the handshake callback refuses
    MaxCells       \* bound: MaxCells[m], the cells that arrive in mode m

HeaderSize == 2

\* The content types; 0 is none of them.
ChangeCipherSpec == 1
AlertType == 2
HandshakeType == 3
AppData == 4
ContentTypes == {ChangeCipherSpec, AlertType, HandshakeType, AppData}

GoodTag == 1

\* What of the endpoint's state decides how a record is treated: whether it
\* has a key to decrypt with, is a server skipping rejected early data, may get
\* application data, has completed the handshake, speaks TLS 1.2.
ModeType == [keyed : BOOLEAN, skipping : BOOLEAN, takesData : BOOLEAN,
             post : BOOLEAN, tls12 : BOOLEAN]

ASSUME RecordsAssumption ==
    /\ Modes \subseteq ModeType
    /\ Cells \in [Modes -> SUBSET Nat]
    /\ {MaxPlain, MaxEncrypted, MaxBuffer, MaxSkip} \subseteq Nat
    /\ MaxPlain <= MaxEncrypted
    /\ MaxCells \in [Modes -> Nat]

VARIABLES
    mode,     \* the endpoint
    chunk,    \* the bytes that arrived and no call has consumed
    buf,      \* recvbuf.rec: the part of a record, <<>> when there is none
    mess,     \* recvbuf.mess: the part of a message, <<>> when there is none
    skipped,  \* server.early_data_skipped_bytes
    result,   \* "ok" or the error that ended the connection
    data,     \* the application data delivered
    calls,    \* the messages given to the handshake callback, with the flag
              \* is_end_of_record
    taken,    \* history: the bytes the calls have consumed
    seen,     \* history: the records parsed
    frags     \* history: the contents of the handshake records

vars == <<mode, chunk, buf, mess, skipped, result, data, calls, taken, seen, frags>>

-----------------------------------------------------------------------------
Take(s, n) == SubSeq(s, 1, n)
Drop(s, n) == SubSeq(s, n + 1, Len(s))
AtMost(m, n) == IF m <= n THEN m ELSE n

\* parse_record_header.
HeaderOK(h) == h[2] <= (IF h[1] = AppData THEN MaxEncrypted ELSE MaxPlain)
RecordSize(h) == HeaderSize + h[2]

Record(s) == [type |-> s[1], fragment |-> Drop(s, HeaderSize)]

\* What parse_record returns: a record, "more" (PTLS_ERROR_IN_PROGRESS) or an
\* error, the bytes it consumed and what it leaves in recvbuf.rec.
Parsed(status, rec, used, kept) ==
    [status |-> status, record |-> rec, used |-> used, kept |-> kept]

NoRecord == Record(<<0, 0>>)

\* Mutant: the bytes behind the record are reported as consumed.
ParseBuffered_SwallowsRest(b, src) ==
    LET filled == b \o Take(src, AtMost(HeaderSize - Len(b), Len(src)))
        header == IF Len(b) < HeaderSize THEN filled ELSE b
        whole  == Take(b \o src, AtMost(RecordSize(header), Len(b) + Len(src)))
    IN  IF Len(header) < HeaderSize THEN Parsed("more", NoRecord, Len(src), header)
        ELSE IF ~HeaderOK(header) THEN Parsed("decode_error", NoRecord, Len(src), header)
        ELSE IF Len(whole) = RecordSize(whole)
             THEN Parsed("record", Record(whole), Len(src), whole)
        ELSE Parsed("more", NoRecord, Len(src), whole)

\* The slow path: the header is completed, then the fragment, in recvbuf.rec.
ParseBuffered(b, src) ==
    LET header == b \o Take(src, AtMost(HeaderSize - Len(b), Len(src)))
        filled == IF Len(b) < HeaderSize THEN header ELSE b
        rest   == Drop(src, Len(filled) - Len(b))
        whole  == filled \o Take(rest, AtMost(RecordSize(filled) - Len(filled), Len(rest)))
    IN  IF Len(filled) < HeaderSize THEN Parsed("more", NoRecord, Len(src), filled)
        ELSE IF ~HeaderOK(filled) THEN Parsed("decode_error", NoRecord, Len(src), filled)
        ELSE IF Len(whole) = RecordSize(whole)
             THEN Parsed("record", Record(whole), Len(whole) - Len(b), whole)
        ELSE Parsed("more", NoRecord, Len(src), whole)

\* parse_record.  The first byte is checked before anything is buffered, and a
\* record that is all there is not copied.
ParseRecord(b, src) ==
    IF b = <<>> /\ src[1] \notin ContentTypes
    THEN Parsed("decode_error", NoRecord, Len(src), <<>>)
    ELSE IF b = <<>> /\ Len(src) >= HeaderSize /\ ~HeaderOK(src)
    THEN Parsed("decode_error", NoRecord, Len(src), <<>>)
    ELSE IF b = <<>> /\ Len(src) >= HeaderSize /\ RecordSize(src) <= Len(src)
    THEN Parsed("record", Record(Take(src, RecordSize(src))), RecordSize(src), <<>>)
    ELSE ParseBuffered(b, src)

-----------------------------------------------------------------------------
(* Decryption.  What it does for the receiver: it checks the tag and drops it. *)

Opens(f) == f # <<>> /\ f[Len(f)] = GoodTag
Plaintext(f) == Take(f, Len(f) - 1)

\* The padding is zeros; the last cell before it is the content type.
Unpadded(f) ==
    LET n == {i \in 1 .. Len(f) : f[i] # 0}
    IN  IF n = {} THEN <<>> ELSE Take(f, CHOOSE i \in n : \A j \in n : j <= i)

-----------------------------------------------------------------------------
(* Handshake records. *)

\* Mutant: one byte more is let through.
Overflows_OffByOne(size) == MaxBuffer # 0 /\ size > MaxBuffer + 1

Overflows(size) == MaxBuffer # 0 /\ size > MaxBuffer

\* Mutant: a message that ends exactly where the bytes end is left for later.
Loop_NeedsOneMore(s) ==
    LET run[i \in 0 .. Len(s)] ==
            IF i = Len(s) \/ i + 1 + s[i + 1] >= Len(s)
            THEN [calls |-> <<>>, used |-> i, refused |-> FALSE]
            ELSE LET end == i + 1 + s[i + 1]
                 IN  [run[end] EXCEPT !.calls =
                        <<[message |-> SubSeq(s, i + 1, end), last |-> FALSE]>> \o @]
    IN  run[0]

\* Mutant: every message counts as the last of its record.
Loop_AlwaysLast(s) ==
    LET run[i \in 0 .. Len(s)] ==
            IF i = Len(s) \/ i + 1 + s[i + 1] > Len(s)
            THEN [calls |-> <<>>, used |-> i, refused |-> FALSE]
            ELSE LET end == i + 1 + s[i + 1]
                 IN  [run[end] EXCEPT !.calls =
                        <<[message |-> SubSeq(s, i + 1, end), last |-> TRUE]>> \o @]
    IN  run[0]

\* The loop of handle_handshake_record over the messages that are whole: the
\* calls of the callback, how much of s they use up, and whether one was refused.
Loop(s) ==
    LET run[i \in 0 .. Len(s)] ==
            IF i = Len(s) \/ i + 1 + s[i + 1] > Len(s)
            THEN [calls |-> <<>>, used |-> i, refused |-> FALSE]
            ELSE LET end  == i + 1 + s[i + 1]
                     m    == SubSeq(s, i + 1, end)
                     call == [message |-> m, last |-> end = Len(s)]
                     rest == run[end]
                 IN  IF m \in Refused
                     THEN [calls |-> <<call>>, used |-> end, refused |-> TRUE]
                     ELSE [rest EXCEPT !.calls = <<call>> \o @]
    IN  run[0]

\* How handling a record ends: the error or "ok", and what it adds to or leaves
\* in the receiver.
Outcome(res, newMess, newCalls, newData, newSkipped, newFrags) ==
    [result |-> res, mess |-> newMess, calls |-> newCalls, data |-> newData,
     skipped |-> newSkipped, frags |-> newFrags]

Ends(error) == Outcome(error, mess, <<>>, <<>>, skipped, <<>>)

\* handle_handshake_record: the record is put behind what is left of the last
\* ones, the whole messages are handled, the rest is kept.
HandleHandshakeRecord(type, f) ==
    LET s    == mess \o f
        run  == Loop(s)
        left == Drop(s, run.used)
        end(res, m) == Outcome(res, m, run.calls, <<>>, skipped, <<f>>)
    IN  IF type # HandshakeType THEN Ends("decode_error")
        ELSE IF mess # <<>> /\ Overflows(Len(s)) THEN Ends("handshake_failure")
        ELSE IF run.refused THEN end("unexpected_message", <<>>)
        ELSE IF left # <<>> /\ Overflows(Len(left)) THEN end("handshake_failure", mess)
        ELSE end("ok", left)

\* handle_alert: every alert ends the connection.
HandleAlert(f) == Ends(IF Len(f) # 2 THEN "decode_error" ELSE "peer_alert")

Deliver(f) == Outcome("ok", mess, <<>>, f, skipped, <<>>)

\* ServerSkipEarlyData: the record is dropped, and counted.
SkipEarlyData(f) ==
    LET n == skipped + Len(f)
    IN  Outcome(IF n > MaxSkip THEN "handshake_failure" ELSE "ok", mess, <<>>, <<>>, n, <<>>)

\* The second half of handle_input: a record whose type and content are known.
HandleContent(type, f) ==
    IF mess # <<>> \/ type = HandshakeType THEN HandleHandshakeRecord(type, f)
    ELSE IF type = AppData /\ mode.takesData THEN Deliver(f)
    ELSE IF type = AlertType THEN HandleAlert(f)
    ELSE Ends("unexpected_message")

\* handle_input once a record is there.
HandleRecord(r) ==
    LET inner == Unpadded(Plaintext(r.fragment))
    IN  IF r.type = ChangeCipherSpec
        THEN Ends(IF ~mode.post /\ r.fragment = <<1>> THEN "ok" ELSE "unexpected_message")
        ELSE IF mode.keyed /\ r.type # AlertType
        THEN IF r.type # AppData THEN Ends("handshake_failure")
             ELSE IF ~Opens(r.fragment)
                  THEN IF mode.skipping THEN SkipEarlyData(r.fragment) ELSE Ends("bad_record_mac")
             ELSE IF inner = <<>> THEN Ends("unexpected_message")
             ELSE HandleContent(inner[Len(inner)], Take(inner, Len(inner) - 1))
        ELSE IF r.type = AppData /\ mode.skipping THEN SkipEarlyData(r.fragment)
        ELSE HandleContent(r.type, r.fragment)

\* handle_input_tls12 once a record is there: the type is in the clear.
HandleRecordTls12(r) ==
    IF ~Opens(r.fragment) THEN Ends("bad_record_mac")
    ELSE IF r.type = AppData THEN Deliver(Plaintext(r.fragment))
    ELSE IF r.type = AlertType THEN HandleAlert(Plaintext(r.fragment))
    ELSE Ends("unexpected_message")

-----------------------------------------------------------------------------
Init ==
    /\ mode \in Modes
    /\ chunk = <<>> /\ buf = <<>> /\ mess = <<>>
    /\ skipped = 0
    /\ result = "ok"
    /\ data = <<>> /\ calls = <<>>
    /\ taken = <<>> /\ seen = <<>> /\ frags = <<>>

\* A byte arrives.  What it is is up to the peer, when it comes to the network.
Arrive(c) ==
    /\ result = "ok"
    /\ Len(taken) + Len(chunk) < MaxCells[mode]
    /\ chunk' = Append(chunk, c)
    /\ UNCHANGED <<mode, buf, mess, skipped, result, data, calls, taken, seen, frags>>

\* One turn of the loops of ptls_handshake and ptls_receive: handle_input is
\* given all that has arrived.  It needs more, fails, or handles one record.
NeedsMore(p) ==
    /\ p.status = "more"
    /\ buf' = p.kept
    /\ UNCHANGED <<mess, skipped, result, data, calls, seen, frags>>

BadHeader(p) ==
    /\ p.status = "decode_error"
    /\ result' = p.status
    /\ buf' = p.kept
    /\ UNCHANGED <<mess, skipped, data, calls, seen, frags>>

OneRecord(p) ==
    /\ p.status = "record"
    /\ LET o == IF mode.tls12 THEN HandleRecordTls12(p.record) ELSE HandleRecord(p.record)
       IN  /\ result' = o.result
           /\ mess' = o.mess
           /\ calls' = calls \o o.calls
           /\ data' = data \o o.data
           /\ skipped' = o.skipped
           /\ frags' = frags \o o.frags
    /\ buf' = <<>>  \* (an error return may leave it to ptls_free)
    /\ seen' = Append(seen, p.record)

HandleInput ==
    /\ result = "ok"
    /\ chunk # <<>>
    /\ LET p == ParseRecord(buf, chunk)
       IN  /\ NeedsMore(p) \/ BadHeader(p) \/ OneRecord(p)
           /\ chunk' = Drop(chunk, p.used)
           /\ taken' = taken \o Take(chunk, p.used)
    /\ UNCHANGED mode

Next == (\E c \in Cells[mode] : Arrive(c)) \/ HandleInput

Spec == Init /\ [][Next]_vars

-----------------------------------------------------------------------------
(* Properties. *)

\* Every variable has its type.
TypeOK ==
    /\ mode \in Modes
    /\ {chunk, buf, mess, data, taken} \subseteq Seq(Cells[mode])
    /\ skipped \in Nat
    /\ result \in {"ok", "decode_error", "handshake_failure", "unexpected_message",
                   "bad_record_mac", "peer_alert"}

\* The records in a byte string, read at one go: what framing means.
Framing(s) ==
    LET from[i \in 0 .. Len(s)] ==
            IF i + HeaderSize > Len(s) \/ i + HeaderSize + s[i + 2] > Len(s) THEN <<>>
            ELSE <<Record(SubSeq(s, i + 1, i + HeaderSize + s[i + 2]))>>
                     \o from[i + HeaderSize + s[i + 2]]
    IN  from[0]

\* However the bytes are cut up, the records handled are those of the byte
\* string: no byte of it is lost, repeated or read as part of another record,
\* and no whole record is held back.
CutsDoNotMatter == result = "ok" => seen = Framing(taken)

\* The messages the callback has been given, end to end.
Handed(n) == FlattenSeq([k \in 1 .. n |-> calls[k].message])

\* The messages the callback is given, followed by the part that is kept, are
\* the contents of the handshake records, and each is whole; what is kept is not.
MessagesWhole ==
    result = "ok" =>
        /\ Handed(Len(calls)) \o mess = FlattenSeq(frags)
        /\ \A k \in DOMAIN calls : Len(calls[k].message) = 1 + calls[k].message[1]
        /\ mess # <<>> => Len(mess) < 1 + mess[1]

\* Where the records end in the handshake stream.
RecordEnds == {Len(FlattenSeq(Take(frags, n))) : n \in 0 .. Len(frags)}

\* is_end_of_record is what it says: the handlers of ServerHello, ClientHello
\* and Finished change keys when it is set, and the bytes that follow must then
\* be of another record.
EndFlagIsTrue ==
    \A k \in DOMAIN calls :
        result = "ok" => (calls[k].last <=> Len(Handed(k)) \in RecordEnds)

\* What is kept is never more than a record and, for messages, than
\* max_buffer_size, and an endpoint that has not failed has skipped no more
\* early data than it may, however the records are cut.
MemoryBounded ==
    /\ Len(buf) <= HeaderSize + MaxEncrypted
    /\ MaxBuffer # 0 => Len(mess) <= MaxBuffer
    /\ result = "ok" => skipped <= MaxSkip
=============================================================================
