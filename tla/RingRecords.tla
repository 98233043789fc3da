---------------------------- MODULE RingRecords -----------------------------
(***************************************************************************)
(* The fixed-size records of the shared rings: encode and decode, which    *)
(* exist in the runtime and in the plugin package.  Commands are written   *)
(* by the one and read by the other, completions the other way round.      *)
(*                                                                         *)
(* The image of a record keeps what the layout adds to it: the declared    *)
(* counts and lengths, the padded arrays and the reserved words.  The      *)
(* bounds of the ABI are scaled down; Wide stands for 2^64.                *)
(***************************************************************************)
EXTENDS WireText

MaxDescriptors == 2     \* 16
MaxRank == 2            \* 16
MaxScalarText == 3      \* 256
MaxErrorType == 1       \* 64
MaxErrorMessage == 3    \* 1024
Wide == 8

DTypeIds == [bool |-> 1, int64 |-> 6, float32 |-> 8]
ScalarIds == [boolean |-> 1, float64 |-> 2, int64 |-> 3, text |-> 4]
TENSOR_INPUT == 1
TENSOR_OUTPUT == 2
Rejected == [rejected |-> TRUE]

NameOf(ids, id) == CHOOSE name \in DOMAIN ids : ids[name] = id
Known(ids, id) == \E name \in DOMAIN ids : ids[name] = id
Unsigned(n) == n \in 0..Wide - 1
Signed(n) == -(Wide \div 2) <= n /\ n < Wide \div 2
SignedValue(bits) == IF bits < Wide \div 2 THEN bits ELSE bits - Wide
Padded(dims) == dims \o [i \in 1..MaxRank - Len(dims) |-> 0]
Clear(dims, rank) == \A i \in rank + 1..MaxRank : dims[i] = 0

(* tensor_from_descriptor: the descriptor of a view becomes an entry of    *)
(* the record.                                                             *)
tensor_from_descriptor(descriptor, kind, parameter, writable) ==
    [buffer_id |-> descriptor.buffer_id, generation |-> descriptor.generation,
     offset |-> descriptor.offset, byte_length |-> descriptor.byte_length,
     dtype |-> descriptor.dtype, shape |-> descriptor.shape,
     strides |-> descriptor.strides,
     kind |-> kind, parameter |-> parameter, writable |-> writable]

(* Record.invocation: the worker tells inputs from outputs by their kind.  *)
InvocationOf(record) ==
    [id |-> record.invocation_id, operation |-> record.operation_id,
     inputs |-> SelectSeq(record.tensors, LAMBDA t : t.kind = TENSOR_INPUT),
     outputs |-> SelectSeq(record.tensors, LAMBDA t : t.kind = TENSOR_OUTPUT),
     scalars |-> record.scalars]

----------------------------------------------------------------------------
(* struct.pack refuses what does not fit its field.                        *)
TensorPacks(item) ==
    /\ Len(item.shape) \in 1..MaxRank /\ Len(item.strides) = Len(item.shape)
    /\ item.dtype \in DOMAIN DTypeIds
    /\ \A field \in {"buffer_id", "generation", "offset", "byte_length",
                     "kind", "parameter"} : Unsigned(item[field])
    /\ \A i \in DOMAIN item.shape : Signed(item.shape[i]) /\ Signed(item.strides[i])

TensorImage(item) ==
    [item EXCEPT !.dtype = DTypeIds[item.dtype],
                 !.writable = IF @ THEN 1 ELSE 0,
                 !.shape = Padded(@), !.strides = Padded(@)]
        @@ [rank |-> Len(item.shape), reserved |-> 0]

ScalarPacks(item) ==
    /\ item.kind \in DOMAIN ScalarIds
    /\ Unsigned(item.parameter)
    /\ Bytes(item.text) <= MaxScalarText

(* A scalar is [parameter, kind, value, text]: a number, or a text.        *)
(* int(value) & (2^64 - 1): an integer beyond 64 bits is not refused but   *)
(* reduced.                                                                *)
ScalarImage(item) ==
    [parameter |-> item.parameter, kind |-> ScalarIds[item.kind],
     bits |-> item.value % Wide, text |-> item.text,
     flags |-> 0, reserved |-> 0, padding |-> 0]

OutputPacks(item) ==
    /\ Len(item.shape) \in 1..MaxRank
    /\ item.dtype \in DOMAIN DTypeIds
    /\ \A i \in DOMAIN item.shape : Signed(item.shape[i])

OutputImage(item) ==
    [dtype |-> DTypeIds[item.dtype], output |-> item.output,
     rank |-> Len(item.shape), shape |-> Padded(item.shape),
     flags |-> 0, reserved |-> 0]

(* Both texts of an error are cut at a byte, wherever that falls, and two  *)
(* flags say so.                                                           *)
ErrorImage(record) ==
    [type |-> Cut(record.error_type, MaxErrorType),
     message |-> Cut(record.error_message, MaxErrorMessage),
     flags |-> (IF Bytes(record.error_type) > MaxErrorType THEN 1 ELSE 0)
             + (IF Bytes(record.error_message) > MaxErrorMessage THEN 2 ELSE 0),
     reserved |-> 0, padding |-> 0]

Each(items, Holds(_)) == \A i \in DOMAIN items : Holds(items[i])
Mapped(items, Of(_)) == [i \in DOMAIN items |-> Of(items[i])]

encode(record) ==
    IF /\ record.generation # 0 /\ record.submission_id # 0
       /\ \A list \in {"tensors", "scalars", "outputs"} :
            Len(record[list]) <= MaxDescriptors
       /\ Each(record.tensors, TensorPacks)
       /\ Each(record.scalars, ScalarPacks)
       /\ Each(record.outputs, OutputPacks)
    THEN [kind |-> record.kind, generation |-> record.generation,
          submission_id |-> record.submission_id,
          invocation_id |-> record.invocation_id,
          operation_id |-> record.operation_id, status |-> record.status,
          counts |-> [tensors |-> Len(record.tensors),
                      scalars |-> Len(record.scalars),
                      outputs |-> Len(record.outputs)],
          reserved |-> 0, tail |-> 0,
          tensors |-> Mapped(record.tensors, TensorImage),
          scalars |-> Mapped(record.scalars, ScalarImage),
          outputs |-> Mapped(record.outputs, OutputImage),
          error |-> ErrorImage(record)]
    ELSE Rejected

----------------------------------------------------------------------------
(* Fault: the padding behind the rank is not looked at.                    *)
TensorReads_Padding(t) ==
    t.reserved = 0 /\ t.rank \in 1..MaxRank /\ t.writable \in {0, 1}
    /\ Known(DTypeIds, t.dtype)

TensorReads(t) ==
    /\ t.reserved = 0 /\ t.rank \in 1..MaxRank /\ t.writable \in {0, 1}
    /\ Clear(t.shape, t.rank) /\ Clear(t.strides, t.rank)
    /\ Known(DTypeIds, t.dtype)

TensorOf(t) ==
    [buffer_id |-> t.buffer_id, generation |-> t.generation, offset |-> t.offset,
     byte_length |-> t.byte_length, dtype |-> NameOf(DTypeIds, t.dtype),
     shape |-> SubSeq(t.shape, 1, t.rank), strides |-> SubSeq(t.strides, 1, t.rank),
     kind |-> t.kind, parameter |-> t.parameter, writable |-> t.writable = 1]

(* Only a Boolean is refused text and bits that it has no use for.         *)
ScalarReads(s) ==
    /\ s.flags = 0 /\ s.reserved = 0 /\ s.padding = 0
    /\ Bytes(s.text) <= MaxScalarText
    /\ Known(ScalarIds, s.kind)
    /\ s.kind = ScalarIds.boolean => s.bits \in {0, 1} /\ s.text = <<>>
    /\ s.kind = ScalarIds.text => Decodable(s.text)

ScalarOf(s) ==
    LET kind == NameOf(ScalarIds, s.kind) IN
    [parameter |-> s.parameter, kind |-> kind,
     value |-> IF kind = "int64" THEN SignedValue(s.bits) ELSE s.bits, text |-> s.text]

OutputReads(o) ==
    /\ o.flags = 0 /\ o.reserved = 0 /\ o.rank \in 1..MaxRank
    /\ Clear(o.shape, o.rank) /\ Known(DTypeIds, o.dtype)

OutputOf(o) ==
    [output |-> o.output, shape |-> SubSeq(o.shape, 1, o.rank),
     dtype |-> NameOf(DTypeIds, o.dtype)]

ErrorReads(e) ==
    /\ e.reserved = 0 /\ e.flags \in 0..3 /\ e.padding = 0
    /\ Bytes(e.type) <= MaxErrorType /\ Bytes(e.message) <= MaxErrorMessage
    /\ Decodable(e.type) /\ Decodable(e.message)

Counted(image, list) ==
    SubSeq(image[list], 1, image.counts[list])

decode(image, generation) ==
    IF /\ image.generation = generation /\ image.submission_id # 0
       /\ image.reserved = 0 /\ image.tail = 0
       /\ \A list \in DOMAIN image.counts : image.counts[list] <= MaxDescriptors
       /\ Each(Counted(image, "tensors"), TensorReads)
       /\ Each(Counted(image, "scalars"), ScalarReads)
       /\ Each(Counted(image, "outputs"), OutputReads)
       /\ ErrorReads(image.error)
    THEN [kind |-> image.kind, generation |-> generation,
          submission_id |-> image.submission_id,
          invocation_id |-> image.invocation_id,
          operation_id |-> image.operation_id, status |-> image.status,
          tensors |-> Mapped(Counted(image, "tensors"), TensorOf),
          scalars |-> Mapped(Counted(image, "scalars"), ScalarOf),
          outputs |-> Mapped(Counted(image, "outputs"), OutputOf),
          error_type |-> image.error.type, error_message |-> image.error.message]
    ELSE Rejected

----------------------------------------------------------------------------
(* What a reader may expect of a record: the one that was written, its     *)
(* error texts shortened to the characters that fit.                       *)
Shortened(record) ==
    [record EXCEPT !.error_type = Prefix(@, MaxErrorType),
                   !.error_message = Prefix(@, MaxErrorMessage)]

(* The integers are of 64 bits, as the native client's cast makes sure.    *)
IntegersFit(record) ==
    \A i \in DOMAIN record.scalars :
        record.scalars[i].kind = "int64" => Signed(record.scalars[i].value)

(* No error text ends inside a character.                                  *)
CutBetween(record) ==
    /\ Decodable(Cut(record.error_type, MaxErrorType))
    /\ Decodable(Cut(record.error_message, MaxErrorMessage))

(* A record that can be written is read as it was written, but for its     *)
(* error texts, which are shortened, and the flags say which ones are.     *)
RecordReadBack(record) ==
    LET image == encode(record) IN
    image # Rejected /\ IntegersFit(record) =>
        /\ decode(image, record.generation) = Shortened(record)
        /\ image.error.flags =
               (IF Shortened(record).error_type # record.error_type THEN 1 ELSE 0)
             + (IF Shortened(record).error_message # record.error_message THEN 2 ELSE 0)

(* So it is with every record none of whose texts is cut in a character.   *)
RecordArrives(record) == CutBetween(record) => RecordReadBack(record)

(* Every way to spoil one field of the layout.                             *)
Damaged(image) ==
    {[image EXCEPT !.generation = @ + 1], [image EXCEPT !.submission_id = 0],
     [image EXCEPT !.reserved = 1], [image EXCEPT !.tail = 1],
     [image EXCEPT !.error.reserved = 1], [image EXCEPT !.error.flags = 4],
     [image EXCEPT !.error.padding = 1]}
    \cup {[image EXCEPT !.counts[list] = MaxDescriptors + 1] :
            list \in DOMAIN image.counts}
    \cup UNION {{[image EXCEPT !.tensors[i].reserved = 1],
                 [image EXCEPT !.tensors[i].rank = 0],
                 [image EXCEPT !.tensors[i].rank = MaxRank + 1],
                 [image EXCEPT !.tensors[i].writable = 2],
                 [image EXCEPT !.tensors[i].dtype = 0]}
                \cup {[image EXCEPT !.tensors[i].shape[d] = 1] :
                        d \in image.tensors[i].rank + 1..MaxRank}
                \cup {[image EXCEPT !.tensors[i].strides[d] = 1] :
                        d \in image.tensors[i].rank + 1..MaxRank} :
                i \in DOMAIN image.tensors}
    \cup UNION {{[image EXCEPT !.scalars[i].flags = 1],
                 [image EXCEPT !.scalars[i].reserved = 1],
                 [image EXCEPT !.scalars[i].padding = 1],
                 [image EXCEPT !.scalars[i].kind = 0]} : i \in DOMAIN image.scalars}
    \cup UNION {{[image EXCEPT !.outputs[i].flags = 1],
                 [image EXCEPT !.outputs[i].reserved = 1],
                 [image EXCEPT !.outputs[i].rank = 0],
                 [image EXCEPT !.outputs[i].dtype = 0]} : i \in DOMAIN image.outputs}

DamageRefused(record) ==
    LET image == encode(record) IN
    image # Rejected =>
        \A spoilt \in Damaged(image) : decode(spoilt, record.generation) = Rejected
=============================================================================
