-------------------------------- MODULE Pem --------------------------------
(***************************************************************************)
(* lib/pembase64.c: loading the objects of a PEM file.  The file is read   *)
(* line by line; for each object a first pass over its lines measures how  *)
(* much memory the decoded object can need, and a second pass decodes them *)
(* one after the other, the base64 state carried from line to line.        *)
(*                                                                         *)
(* A character of the alphabet is its value 0 .. 63; the others are the    *)
(* negative constants below.  A line is a BEGIN or END separator with a    *)
(* label, or text.                                                         *)
(***************************************************************************)
EXTENDS Integers, Sequences, SequencesExt

CONSTANTS
    Datas,       \* the contents an object may have: sequences of bytes
    Widths,      \* characters of base64 per line
    ListMaxes,   \* values of list_max
    MaxObjects   \* objects in a file

ASSUME PemAssumption ==
    /\ \A d \in Datas : d \in Seq(0 .. 255)
    /\ Widths \subseteq Nat \ {0}
    /\ ListMaxes \subseteq Nat
    /\ MaxObjects \in Nat

VARIABLES
    pmode,       \* "write" (no file yet), "seek", "measure", "decode" or "closed"
    written,     \* the objects of the file, as they were written
    file,        \* its lines
    pos,         \* the next line to read
    objectStart, \* where the lines of the object begin
    pcapacity,   \* what the first pass measured, then the capacity of buf
    pbuf,        \* the decoded bytes
    state,       \* ptls_base64_decode_state_t
    list,        \* the objects loaded
    listMax,
    pret         \* the result of ptls_load_pem_objects

pvars == <<pmode, written, file, pos, objectStart, pcapacity, pbuf, state, list, listMax, pret>>

Pad == -1
Blank == -2
FormFeed == -3   \* a blank at the end of a line only
Junk == -4

Alphabet == 0 .. 63
Labels == {"CERTIFICATE", "OTHER"}
Damages == {"none", "junk", "short", "no end"}

----------------------------------------------------------------------------
\* ptls_base64_encode

\* ptls_base64_cell: three bytes, four characters
Cell(b) ==
    << b[1] \div 4, (b[1] % 4) * 16 + b[2] \div 16, (b[2] % 16) * 4 + b[3] \div 64, b[3] % 64 >>

\* The bytes left after the whole cells, 0 to 2 of them
LastCell(b) ==
    CASE Len(b) = 0 -> <<>>
      [] Len(b) = 1 -> << b[1] \div 4, (b[1] % 4) * 16, Pad, Pad >>
      [] Len(b) = 2 -> << b[1] \div 4, (b[1] % 4) * 16 + b[2] \div 16, (b[2] % 16) * 4, Pad >>

RECURSIVE Base64Encode(_)
Base64Encode(data) ==
    IF Len(data) >= 3
      THEN Cell(data) \o Base64Encode(SubSeq(data, 4, Len(data)))
      ELSE LastCell(data)

----------------------------------------------------------------------------
\* ptls_base64_decode

DecodeInit == [nbc |-> 0, nbo |-> 3, v |-> 0, status |-> "in progress"]

Result(st, out, ret) == [state |-> st, out |-> out, ret |-> ret]

RECURSIVE SkipBlanks(_)
SkipBlanks(text) ==
    IF text # <<>> /\ Head(text) = Blank THEN SkipBlanks(Tail(text)) ELSE text

OnlyBlanks(text) == \A i \in DOMAIN text : text[i] \in {Blank, FormFeed}

Octets(st) == SubSeq(<< (st.v \div 65536) % 256, (st.v \div 256) % 256, st.v % 256 >>, 1, st.nbo)

RECURSIVE DecodeText(_, _, _)
\* What a character makes of the state: a value, the end of a padded cell, or nothing
Consume(text, st) ==
    LET c == Head(text)
        second == IF Len(text) > 1 THEN text[2] ELSE Blank
    IN CASE c \in Alphabet ->
              [taken |-> 1, st |-> [st EXCEPT !.nbc = @ + 1, !.v = @ * 64 + c]]
         [] c = Pad /\ st.nbc = 2 /\ second = Pad ->
              [taken |-> 2, st |-> [st EXCEPT !.nbc = 4, !.nbo = 1, !.v = @ * 4096]]
         [] c = Pad /\ st.nbc = 3 ->
              [taken |-> 1, st |-> [st EXCEPT !.nbc = 4, !.nbo = 2, !.v = @ * 64]]
         [] OTHER -> [taken |-> 0, st |-> st]

\* The main loop: a cell of four characters becomes up to three octets, and a padded one ends the
\* object, whatever follows it.
DecodeText(text, st, out) ==
    IF text = <<>> \/ st.status # "in progress" THEN Result(st, out, "ok")
    ELSE LET step == Consume(text, st)
             rest == SubSeq(text, step.taken + 1, Len(text))
         IN CASE step.taken = 0 /\ OnlyBlanks(text) -> Result(st, out, "ok")
              [] step.taken = 0 /\ ~OnlyBlanks(text) ->
                   Result([st EXCEPT !.nbo = 0, !.status = "failed"], out, "incorrect base64")
              [] step.taken > 0 /\ step.st.nbc < 4 -> DecodeText(rest, step.st, out)
              [] step.taken > 0 /\ step.st.nbc = 4 /\ step.st.nbo < 3 ->
                   Result([step.st EXCEPT !.status = "done"], out \o Octets(step.st), "ok")
              [] OTHER -> DecodeText(rest, DecodeInit, out \o Octets(step.st))

Base64Decode(text, st, out) == DecodeText(SkipBlanks(text), st, out)

----------------------------------------------------------------------------
\* Writing a file, as the tools do that make one, and damaging it

TextLine(chars) == [kind |-> "text", label |-> "", text |-> chars]
Separator(kind, label) == [kind |-> kind, label |-> label, text |-> <<Junk>>]

\* The characters of a damaged object: one lost, or one that is not of the alphabet
Encoded(object) ==
    LET text == Base64Encode(object.data) IN
    CASE object.damage = "short" -> SubSeq(text, 1, Len(text) - 1)
      [] object.damage = "junk" -> <<Junk>> \o text
      [] OTHER -> text

\* Lines of a width, the last one of what is left; a line may end between two padding characters.
RECURSIVE Cut(_, _)
Cut(text, width) ==
    IF text = <<>> THEN <<>>
    ELSE LET n == IF width < Len(text) THEN width ELSE Len(text)
         IN <<TextLine(<<Blank>> \o SubSeq(text, 1, n) \o <<FormFeed, Blank>>)>>
              \o Cut(SubSeq(text, n + 1, Len(text)), width)

ObjectLines(object, width) ==
    <<Separator("BEGIN", object.label)>> \o Cut(Encoded(object), width)
      \o (IF object.damage = "no end" THEN <<>> ELSE <<Separator("END", object.label)>>)

Objects == {o \in [label : Labels, data : Datas, damage : Damages] :
              o.damage = "short" => o.data # <<>>}

\* ptls_compare_separator_line
IsSeparator(line, kind, label) == line.kind = kind /\ line.label = label

----------------------------------------------------------------------------
PemInit ==
    /\ pmode = "write"
    /\ written = <<>> /\ file = <<>>
    /\ pos = 1 /\ objectStart = 1 /\ pcapacity = 0
    /\ pbuf = <<>> /\ state = DecodeInit
    /\ list = <<>> /\ listMax = 0 /\ pret = "ok"

WriteFile ==
    /\ pmode = "write"
    /\ \E objects \in BoundedSeq(Objects, MaxObjects), width \in Widths, max \in ListMaxes :
        /\ written' = objects
        /\ file' = FlattenSeq([i \in DOMAIN objects |-> ObjectLines(objects[i], width)])
        /\ listMax' = max
    /\ pmode' = "seek"
    /\ UNCHANGED <<pos, objectStart, pcapacity, pbuf, state, list, pret>>

Line == file[pos]
Eof == pos > Len(file)

\* The result of ptls_load_pem_objects: no further object is no error when there was one.
Close(ret) ==
    /\ pmode' = "closed"
    /\ pret' = IF ret = "label not found" /\ Len(list) > 0 THEN "ok" ELSE ret

\* ptls_load_pem_objects has its list_max objects.
ListFull ==
    /\ pmode = "seek" /\ Len(list) >= listMax
    /\ Close("ok")
    /\ UNCHANGED <<written, file, pos, objectStart, pcapacity, pbuf, state, list, listMax>>

\* ptls_get_pem_object_malloc looks for the BEGIN line.
SeekLine ==
    /\ pmode = "seek" /\ Len(list) < listMax /\ ~Eof
    /\ pos' = pos + 1
    /\ IF IsSeparator(Line, "BEGIN", "CERTIFICATE")
         THEN pmode' = "measure" /\ objectStart' = pos + 1 /\ pcapacity' = 0
         ELSE UNCHANGED <<pmode, objectStart, pcapacity>>
    /\ UNCHANGED <<written, file, pbuf, state, list, listMax, pret>>

SeekEof ==
    /\ pmode = "seek" /\ Len(list) < listMax /\ Eof
    /\ Close("label not found")
    /\ UNCHANGED <<written, file, pos, objectStart, pcapacity, pbuf, state, list, listMax>>

\* Mutated LineCapacity: three bytes for every four characters of the line that are not blanks.
LineCapacity_Decoded(line) ==
    LET IsChar(c) == c \in Alphabet IN (Len(SelectSeq(line.text, IsChar)) * 3) \div 4

\* What ptls_get_pem_object_capacity adds for a line: its length
LineCapacity(line) == Len(line.text)

MeasureLine ==
    /\ pmode = "measure" /\ ~Eof
    /\ ~IsSeparator(Line, "END", "CERTIFICATE")
    /\ pcapacity' = pcapacity + LineCapacity(Line)
    /\ pos' = pos + 1
    /\ UNCHANGED <<pmode, written, file, objectStart, pbuf, state, list, listMax, pret>>

MeasureEof ==
    /\ pmode = "measure" /\ Eof
    /\ Close("label not found")
    /\ UNCHANGED <<written, file, pos, objectStart, pcapacity, pbuf, state, list, listMax>>

\* The END line: back to the start of the object, with a buffer of the capacity measured
\* (ptls_pem_buffer_init_capacity, which makes it at least 1), or with no memory for it
MeasureEnd ==
    /\ pmode = "measure" /\ ~Eof
    /\ IsSeparator(Line, "END", "CERTIFICATE")
    /\ \/ /\ pmode' = "decode"
          /\ pos' = objectStart
          /\ pcapacity' = IF pcapacity = 0 THEN 1 ELSE pcapacity
          /\ pbuf' = <<>> /\ state' = DecodeInit
          /\ UNCHANGED pret
       \/ Close("no memory") /\ UNCHANGED <<pos, pcapacity, pbuf, state>>
    /\ UNCHANGED <<written, file, objectStart, list, listMax>>

\* A line of the object; an error discards what was decoded.
DecodeLine ==
    /\ pmode = "decode"
    /\ ~IsSeparator(Line, "END", "CERTIFICATE")
    /\ LET result == Base64Decode(Line.text, state, pbuf) IN
       /\ state' = result.state
       /\ IF result.ret = "ok"
            THEN pbuf' = result.out /\ UNCHANGED <<pmode, pret>>
            ELSE pbuf' = <<>> /\ Close(result.ret)
    /\ pos' = pos + 1
    /\ UNCHANGED <<written, file, objectStart, pcapacity, list, listMax>>

\* The END line comes at the end of the last cell.
EndAccepts(st) == st.status = "done" \/ (st.status = "in progress" /\ st.nbc = 0)

\* The END line: the object, unless it is empty, is one more of the list.
DecodeEnd ==
    /\ pmode = "decode"
    /\ IsSeparator(Line, "END", "CERTIFICATE")
    /\ pos' = pos + 1
    /\ IF EndAccepts(state)
         THEN /\ list' = IF pbuf = <<>> THEN list ELSE Append(list, pbuf)
              /\ pmode' = "seek"
              /\ UNCHANGED pret
         ELSE Close("incorrect base64") /\ UNCHANGED list
    /\ pbuf' = <<>>
    /\ UNCHANGED <<written, file, objectStart, pcapacity, state, listMax>>

PemNext ==
    \/ WriteFile \/ ListFull \/ SeekLine \/ SeekEof
    \/ MeasureLine \/ MeasureEof \/ MeasureEnd \/ DecodeLine \/ DecodeEnd

PemSpec == PemInit /\ [][PemNext]_pvars

----------------------------------------------------------------------------
\* The certificates written, the empty ones left out
Certificates ==
    LET IsCert(o) == o.label = "CERTIFICATE" /\ o.data # <<>>
        certs == SelectSeq(written, IsCert)
    IN [i \in DOMAIN certs |-> certs[i].data]

\* The certificates of the file (by their BEGIN lines) in which a line ends between the two padding
\* characters of a "=="
PaddingParted ==
    {b \in DOMAIN file :
       /\ file[b] = Separator("BEGIN", "CERTIFICATE")
       /\ \E i \in b + 1 .. Len(file) - 1 :
            /\ \A j \in b + 1 .. i + 1 : file[j].kind = "text"
            /\ Contains(file[i].text, Pad) /\ Contains(file[i + 1].text, Pad)}

\* A file that is undamaged loads completely, in order, up to list_max objects, wherever its base64
\* is cut into lines; only the lack of memory or of any certificate is an error.  The one exception
\* is a line that ends between the two characters of a "==", which ptls_base64_decode refuses
\* (the lax grammar of RFC 7468 allows it): such a certificate, and no other, is incorrect base64,
\* and what was loaded before it stays.
UndamagedLoads ==
    pmode = "closed" /\ (\A i \in DOMAIN written : written[i].damage = "none") =>
      /\ pret = "ok" => list = SubSeq(Certificates, 1, IF listMax < Len(Certificates) THEN listMax
                                                       ELSE Len(Certificates))
      /\ pret = "label not found" => Certificates = <<>>
      /\ pret = "incorrect base64" => PaddingParted # {} /\ IsPrefix(list, Certificates)
      /\ pret = "ok" /\ Len(list) < listMax => PaddingParted = {}

\* What is loaded from any file, damaged or not, is only ever a whole object that was written, in the
\* order of the file: never the first part of one whose end is missing, or two run together.
OnlyWholeObjects ==
    \E skipped \in SUBSET DOMAIN Certificates :
      list = [i \in 1 .. Len(list) |->
                LET kept == DOMAIN Certificates \ skipped IN
                IF \E k \in kept : Cardinality({j \in kept : j <= k}) = i
                  THEN Certificates[CHOOSE k \in kept : Cardinality({j \in kept : j <= k}) = i]
                  ELSE <<>>]

\* The capacity measured from the lines suffices for what they decode to, so that the buffer is not
\* moved and the object is the memory that was allocated for it, which the caller frees.
DecodesInPlace == pmode = "decode" => Len(pbuf) <= pcapacity

\* ptls_load_pem_objects loads every object that is whole, nothing else, and in memory that suffices.
PemSound == UndamagedLoads /\ OnlyWholeObjects /\ DecodesInPlace

=============================================================================
