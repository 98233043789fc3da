------------------------------ MODULE LogCodec ------------------------------
(***************************************************************************)
(* The log ABI: encode_log_record and decode_log_record, which exist twice *)
(* (wmfs_plugin.log_codec writes what wmfs.logging reads).  A packet never *)
(* exceeds the session's record limit: texts and names are cut, fields     *)
(* that do not fit are left out, and FLAG_TRUNCATED says so.               *)
(*                                                                         *)
(* A packet is its decoded layout together with the lengths the header     *)
(* declares; the sizes of the ABI are scaled down.                         *)
(***************************************************************************)
EXTENDS WireText, FiniteSets

LOG_HEADER_SIZE == 2
LOG_FIELD_SIZE == 1
MAX_LOG_RECORD_BYTES == 12
MAX_LOG_FIELDS == 2
MAX_LOG_MESSAGE_BYTES == 3
MAX_LOG_CATEGORY_BYTES == 2
MAX_LOG_NAME_BYTES == 2
Word == 8           \* 2^64, scaled

LogLevelsKnown == {10, 20, 30, 40, 50}
NoPacket == [refused |-> TRUE]
AtLeast(n, low) == IF n < low THEN low ELSE n
AtMost(n, high) == IF n > high THEN high ELSE n

(* A field value is [type, n, text]: a Boolean or an integer n, a finite   *)
(* float, a text, or a value of no kind ("other": a float that is not       *)
(* finite, an object).                                                     *)
FieldKind(value) ==
    CASE value.type = "bool"  -> 1
      [] value.type = "int"   -> IF value.n < 0 THEN 2 ELSE 3
      [] value.type = "float" -> 4
      [] value.type = "text"  -> 5

Encodable(value) ==
    \/ value.type \in {"bool", "float", "text"}
    \/ value.type = "int" /\ -(Word \div 2) <= value.n /\ value.n < Word

PartBytes(part) == LOG_FIELD_SIZE + Bytes(part.name) + Bytes(part.text)
PartsBytes(parts) == FoldLeft(LAMBDA n, p : n + PartBytes(p), 0, parts)

(* The room left for a text field.  The worker counts the fields before    *)
(* it; the runtime's own encoder counts only their headers.                *)
Available(side, limit, body, parts, name) ==
    LET before == IF side = "worker" THEN PartsBytes(parts)
                  ELSE Len(parts) * LOG_FIELD_SIZE
    IN  AtLeast(limit - LOG_HEADER_SIZE - body - before - LOG_FIELD_SIZE
                - Bytes(name), 0)

(* One field: appended, or the first that does not fit ends the packet.    *)
AddField(side, limit, body, acc, field) ==
    LET name == Prefix(field.name, MAX_LOG_NAME_BYTES)
        text == IF field.value.type # "text" THEN <<>>
                ELSE Prefix(field.value.text,
                            Available(side, limit, body, acc.parts, name))
        part == [kind |-> FieldKind(field.value), name |-> name,
                 bits |-> field.value.n % Word, text |-> text]
        cut == name # field.name \/ text # field.value.text
        fits == LOG_HEADER_SIZE + body + PartsBytes(acc.parts)
                + PartBytes(part) <= limit
    IN  IF acc.full \/ acc.refused THEN acc
        ELSE IF ~Encodable(field.value) THEN [acc EXCEPT !.refused = TRUE]
        ELSE IF ~fits THEN [acc EXCEPT !.full = TRUE, !.cut = TRUE]
        ELSE [acc EXCEPT !.parts = Append(@, part), !.cut = @ \/ cut]

(* Fault: texts are cut at a byte instead of a character.                  *)
Shortened_Bytes(text, limit) == Cut(text, limit)

(* _text, _utf8_prefix                                                     *)
Shortened(text, limit) == Prefix(text, limit)

encode_log_record(side, record, limit) ==
    LET category == Shortened(record.category,
                        AtMost(MAX_LOG_CATEGORY_BYTES, limit - LOG_HEADER_SIZE))
        message == Shortened(record.message,
                        AtMost(MAX_LOG_MESSAGE_BYTES,
                               limit - LOG_HEADER_SIZE - Bytes(category)))
        body == Bytes(category) + Bytes(message)
        items == SubSeq(record.fields, 1, AtMost(MAX_LOG_FIELDS, Len(record.fields)))
        added == FoldLeft(LAMBDA acc, f : AddField(side, limit, body, acc, f),
                          [parts |-> <<>>, cut |-> FALSE, full |-> FALSE,
                           refused |-> FALSE], items)
    IN  IF \/ limit \notin LOG_HEADER_SIZE..MAX_LOG_RECORD_BYTES
           \/ record.level \notin LogLevelsKnown \/ added.refused
        THEN NoPacket
        ELSE [refused |-> FALSE, level |-> record.level,
              truncated |-> \/ Len(record.fields) > MAX_LOG_FIELDS
                            \/ category # record.category
                            \/ message # record.message \/ added.cut,
              category |-> category, message |-> message, parts |-> added.parts,
              size |-> LOG_HEADER_SIZE + body + PartsBytes(added.parts)]

(* The value of a field's bits, by its kind.                               *)
FieldValue(part) ==
    CASE part.kind = 1 -> [type |-> "bool", n |-> part.bits, text |-> <<>>]
      [] part.kind = 2 -> [type |-> "int", text |-> <<>>,
                           n |-> IF part.bits >= Word \div 2
                                 THEN part.bits - Word ELSE part.bits]
      [] part.kind = 3 -> [type |-> "int", n |-> part.bits, text |-> <<>>]
      [] part.kind = 4 -> [type |-> "float", n |-> part.bits, text |-> <<>>]
      [] part.kind = 5 -> [type |-> "text", n |-> 0, text |-> part.text]

(* Names must be there and differ; texts must be UTF-8; only a text has    *)
(* text and only the others have bits.                                     *)
FieldsWellFormed(parts) ==
    /\ Len(parts) <= MAX_LOG_FIELDS
    /\ \A i, j \in DOMAIN parts : i # j => parts[i].name # parts[j].name
    /\ \A i \in DOMAIN parts :
        /\ parts[i].kind \in 1..5
        /\ parts[i].name # <<>> /\ Bytes(parts[i].name) <= MAX_LOG_NAME_BYTES
        /\ Decodable(parts[i].name) /\ Decodable(parts[i].text)
        /\ parts[i].kind # 5 => parts[i].text = <<>>
        /\ parts[i].kind = 5 => parts[i].bits = 0
        /\ parts[i].kind = 1 => parts[i].bits \in {0, 1}

decode_log_record(packet) ==
    IF /\ packet.size \in LOG_HEADER_SIZE..MAX_LOG_RECORD_BYTES
       /\ packet.size = LOG_HEADER_SIZE + Bytes(packet.category)
                        + Bytes(packet.message) + PartsBytes(packet.parts)
       /\ packet.level \in LogLevelsKnown
       /\ Bytes(packet.category) <= MAX_LOG_CATEGORY_BYTES
       /\ Bytes(packet.message) <= MAX_LOG_MESSAGE_BYTES
       /\ Decodable(packet.category) /\ Decodable(packet.message)
       /\ FieldsWellFormed(packet.parts)
    THEN [level |-> packet.level, category |-> packet.category,
          message |-> packet.message,
          fields |-> [i \in DOMAIN packet.parts |->
                        [name |-> packet.parts[i].name,
                         value |-> FieldValue(packet.parts[i])]]]
    ELSE NoPacket

(* Names that are still names after they were cut: not empty, and no two   *)
(* the same.  The encoder does not look; a record whose names are not is   *)
(* lost in the collector (LogChannel's Refused).                           *)
NamesDistinct(fields) ==
    LET names == [i \in DOMAIN fields |-> Prefix(fields[i].name, MAX_LOG_NAME_BYTES)]
    IN  IsInjective(names) /\ <<>> \notin ToSet(names)

(* What a log call leaves for the collector: a packet within the limit,    *)
(* and, if its names can be told apart, readable and marked exactly when   *)
(* something is missing.                                                   *)
LogArrives(side, record, limit) ==
    LET packet == encode_log_record(side, record, limit)
        read == decode_log_record(packet)
    IN  packet # NoPacket =>
            /\ packet.size <= limit
            /\ NamesDistinct(record.fields) =>
                /\ read # NoPacket
                /\ packet.truncated <=> read # record
=============================================================================
