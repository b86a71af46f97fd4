------------------------------- MODULE Codec -------------------------------
(***************************************************************************)
(* The wire format of the schema registry: a zero byte, the id of the      *)
(* schema in four bytes, and the value as the schema encodes it; for       *)
(* Protobuf the value starts with the path of the message type in the      *)
(* schema's file.  A value is a sequence of units in 256..999, which no    *)
(* byte is; the units of an encoded value tell the schema they are of.     *)
(***************************************************************************)
EXTENDS Integers, SequencesExt

CONSTANTS
  Registry,     \* from schema ids to schemas: [tag, unfit, package, types]
  Zero,         \* the value with every field at its default
  MaxSlice      \* the longest slice that make can allocate

\* Of a schema: a number that tells its encoding from the others, the values it
\* does not admit, and for Protobuf the package of its file and the message
\* types there, each [name, nested] with a sequence of types nested in it.

-----------------------------------------------------------------------------
\* What the functions here return: a value, an error or a panic.
Ok(v) == [kind |-> "ok", value |-> v]
Error == [kind |-> "error", value |-> <<>>]
Panic == [kind |-> "panic", value |-> <<>>]

\* binary.PutVarint of i >= 0: zigzag, seven bits to a byte, the lowest first.
PutVarint(i) ==
  LET bytes[n \in 0..(2 * i)] == IF n < 128 THEN <<n>> ELSE <<128 + (n % 128)>> \o bytes[n \div 128]
  IN bytes[2 * i]

\* binary.ReadVarint: the number, which may be negative, and the bytes behind
\* it; an error at the end of the payload and after ten bytes.
ReadVarint(s) ==
  LET size == SelectInSeq(s, LAMBDA b : b < 128)
      number[k \in 0..Len(s)] == IF k = 0 THEN 0 ELSE number[k-1] + (s[k] % 128) * 128^(k-1)
      half == number[size] \div 2
  IN IF size \notin 1..10 THEN [ok |-> FALSE, n |-> 0, rest |-> <<>>]
     ELSE [ok |-> TRUE, n |-> IF number[size] % 2 = 0 THEN half ELSE -half - 1,
           rest |-> SubSeq(s, size + 1, Len(s))]

-----------------------------------------------------------------------------
\* The libraries, external.  A unit of a schema is the unit of the value moved
\* to a range of the schema's own.
FitsSchema(id, v) == v \notin Registry[id].unfit
Encode(id, v) == [i \in 1..Len(v) |-> v[i] + 1000 * Registry[id].tag]
Decode(id, b) == [i \in 1..Len(b) |-> b[i] - 1000 * Registry[id].tag]
OfSchema(id, unit) == unit - 1000 * Registry[id].tag \in 256..999

\* Avro binary, which says nothing of the schema: what another schema wrote is
\* taken for malformed here.
BinaryFromNative(id, v) == IF FitsSchema(id, v) THEN Ok(Encode(id, v)) ELSE Error
NativeFromBinary(id, b) ==
  IF \A i \in 1..Len(b) : OfSchema(id, b[i]) THEN Ok(Decode(id, b)) ELSE Error

\* The Protobuf encoding of a message with no field set is empty.  A byte that
\* is of no field is malformed, and the fields the schema does not have are
\* left out of the JSON.
Marshal(id, v) == IF v = Zero THEN <<>> ELSE Encode(id, v)
Unmarshal(id, b) ==
  LET known == SelectSeq(b, LAMBDA unit : OfSchema(id, unit)) IN
  IF \E i \in 1..Len(b) : b[i] < 256 THEN Error
  ELSE Ok(IF known = <<>> THEN Zero ELSE Decode(id, known))

\* getFileDescriptor: parsed once for each id and kept; what a schema id means
\* never changes, so two callers that both miss the cache store the same.
getFileDescriptor(id) == Registry[id]

-----------------------------------------------------------------------------
\* Mutant of buildMessageIndexes: the indexes start at one.
buildMessageIndexesFromOne(fd, parts) ==
  LET index(p) == SelectInSeq(fd.types, LAMBDA t : t.name = p)
      found == SelectSeq(parts, LAMBDA p : index(p) # 0)
  IN PutVarint(Len(found)) \o FlattenSeq([i \in 1..Len(found) |-> PutVarint(index(found[i]))])

\* The parts of the name that are names of top-level types; messageTypes is
\* never replaced by the nested types of the one found.
buildMessageIndexes(fd, parts) ==
  LET index(p) == SelectInSeq(fd.types, LAMBDA t : t.name = p)
      found == SelectSeq(parts, LAMBDA p : index(p) # 0)
  IN PutVarint(Len(found)) \o FlattenSeq([i \in 1..Len(found) |-> PutVarint(index(found[i]) - 1)])

\* Mutant of Serialize: the descriptor of the oldest schema, whatever the id.
SerializeOldest(id, v) ==
  LET oldest == CHOOSE i \in DOMAIN Registry : \A j \in DOMAIN Registry : i <= j
      fd == getFileDescriptor(oldest)
  IN IF ~FitsSchema(oldest, v) THEN Error
     ELSE Ok(buildMessageIndexes(fd, Append(fd.package, fd.types[1].name)) \o Marshal(oldest, v))

\* Serialize of protobufSerializer, for the first message type of the file.
Serialize(id, v) ==
  LET fd == getFileDescriptor(id) IN
  IF ~FitsSchema(id, v) THEN Error
  ELSE Ok(buildMessageIndexes(fd, Append(fd.package, fd.types[1].name)) \o Marshal(id, v))

\* serializePayload.  JSON is passed on unseen.
serializePayload(schemaType, id, v) ==
  LET body == CASE schemaType = "AVRO" -> BinaryFromNative(id, v)
                [] schemaType = "JSON" -> Ok(v)
                [] schemaType = "PROTOBUF" -> Serialize(id, v)
      bytes == <<(id \div 16777216) % 256, (id \div 65536) % 256, (id \div 256) % 256, id % 256>>
  IN IF body.kind = "ok" THEN Ok(<<0>> \o bytes \o body.value) ELSE body

-----------------------------------------------------------------------------
\* Mutant of decodeProtobufStructures: no default for an empty path.
decodeProtobufNoDefault(payload) ==
  LET length == ReadVarint(payload)
      read[i \in 0..length.n] ==
        IF i = 0 THEN [ok |-> TRUE, ids |-> <<>>, rest |-> length.rest]
        ELSE LET r == ReadVarint(read[i-1].rest) IN
             [ok |-> read[i-1].ok /\ r.ok, ids |-> Append(read[i-1].ids, r.n), rest |-> r.rest]
      all == read[length.n]
  IN IF ~length.ok THEN Error
     ELSE IF length.n \notin 0..MaxSlice THEN Panic
     ELSE IF length.n > Len(length.rest) \/ ~all.ok \/ all.rest = <<>> THEN Error
     ELSE Ok([ids |-> all.ids, rest |-> all.rest])

\* decodeProtobufStructures: the path and what is behind it.  The slice for the
\* path is made as long as the payload says, which panics for a length below
\* zero or above what can be allocated.  Nothing behind the path is an error,
\* the EOF of the last Read.
decodeProtobufStructures(payload) ==
  LET length == ReadVarint(payload)
      read[i \in 0..length.n] ==
        IF i = 0 THEN [ok |-> TRUE, ids |-> <<>>, rest |-> length.rest]
        ELSE LET r == ReadVarint(read[i-1].rest) IN
             [ok |-> read[i-1].ok /\ r.ok, ids |-> Append(read[i-1].ids, r.n), rest |-> r.rest]
      all == read[length.n]
  IN IF ~length.ok THEN Error
     ELSE IF length.n \notin 0..MaxSlice THEN Panic
     ELSE IF length.n > Len(length.rest) \/ ~all.ok \/ all.rest = <<>> THEN Error
     ELSE Ok([ids |-> IF length.n = 0 THEN <<0>> ELSE all.ids, rest |-> all.rest])

\* getMessageDescriptorFromMessage: the type at the end of the path, by name.
\* An index is compared with the number of outermost types, at every level; one
\* that passes and is not there, or is negative, panics.
getMessageDescriptorFromMessage(fd, ids) ==
  LET step[i \in 0..Len(ids)] ==
        IF i = 0 THEN [kind |-> "ok", name |-> <<>>, types |-> fd.types]
        ELSE LET at == step[i-1] IN
             IF at.kind # "ok" THEN at
             ELSE IF ids[i] > Len(fd.types) THEN [at EXCEPT !.kind = "error"]
             ELSE IF ids[i] \notin 0..(Len(at.types) - 1) THEN [at EXCEPT !.kind = "panic"]
             ELSE [at EXCEPT !.name = Append(@, at.types[ids[i] + 1].name),
                             !.types = at.types[ids[i] + 1].nested]
  IN step[Len(ids)]

\* Deserialize of protobufDeserializer: the type it found and the value.
Deserialize(id, payload) ==
  LET w == decodeProtobufStructures(payload)
      d == getMessageDescriptorFromMessage(getFileDescriptor(id), w.value.ids)
      message == Unmarshal(id, w.value.rest)
  IN IF w.kind # "ok" THEN w
     ELSE IF d.kind # "ok" THEN [kind |-> d.kind, value |-> <<>>]
     ELSE IF message.kind # "ok" THEN Error
     ELSE [kind |-> "ok", value |-> message.value, type |-> d.name]

\* deserializePayload: no look at the length of the payload, whose capacity is
\* taken to be its length; JSON is validated here.
deserializePayload(schemaType, payload) ==
  LET body == SubSeq(payload, 6, Len(payload))
      id == payload[2] * 16777216 + payload[3] * 65536 + payload[4] * 256 + payload[5]
  IN CASE payload = <<>> -> Panic
       [] payload # <<>> /\ payload[1] # 0 -> Error
       [] payload # <<>> /\ payload[1] = 0 /\ Len(payload) < 5 -> Panic
       [] OTHER ->
            IF id \notin DOMAIN Registry THEN Error
            ELSE CASE schemaType = "AVRO" -> NativeFromBinary(id, body)
                   [] schemaType = "JSON" -> IF FitsSchema(id, body) THEN Ok(body) ELSE Error
                   [] schemaType = "PROTOBUF" -> Deserialize(id, body)
=============================================================================
