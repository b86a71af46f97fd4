------------------------------ MODULE Pipeline ------------------------------
(***************************************************************************)
(* A message on its way from NATS over a Kafka topic back to NATS: the     *)
(* callback of the subscription, the producer with its partitioner and     *)
(* serializer, the topic, the consumer's deserializer, and what is         *)
(* published in the end.  Other programs may write to the topic.  Writers  *)
(* and Consumer have the concurrency and the failures of the two ends.     *)
(***************************************************************************)
EXTENDS Partitioner, Keys, Codec, FiniteSets

CONSTANTS
  Configs,      \* connector configurations to look at
  Messages,     \* Messages[source]: NATS messages [subject, reply, headers, value]
  Foreign,      \* payloads of other writers, with the path and value they mean
  MaxForeign    \* bound: payloads of other writers

VARIABLES
  config,       \* the configuration of both connectors; there may be no reader
  latest,       \* how many versions are registered
  size,         \* how many partitions the topic has
  received,     \* the messages of the subject, in order; an index names one
  unwritten,    \* messages whose last write returned an error
  retried,      \* messages some write of which returned an error
  errors,       \* errors of SendMessage so far
  log,          \* the topic: a sequence of records for each partition
  position,     \* records of each partition that were fetched
  hash,         \* the partitions the hash partitioner gave to keys
  published,    \* what was published to NATS, in order
  failed        \* records Fetch failed on, with the kind of failure

natsVars == <<received, unwritten, retried, errors>>
readVars == <<position, published, failed>>
pipeVars == <<config, latest, size, natsVars, log, readVars, hash>>
allVars == <<pipeVars, vars>>

Topic == 0..(MaxPartitions - 1)

-----------------------------------------------------------------------------
\* The key and the headers the callback of each kind of subscription makes:
\* subscribeToNATS, subscribeToChannel, subscribeToJetStream.
CallbackKey(m) ==
  IF config.source = "nats" THEN calculateKey(config, m.subject, m.reply)
                            ELSE calculateKey(config, config.subject, config.durable)

CallbackHeaders(m) ==
  LET converted == {convertFromNatsToKafkaHeaders(m.headers, o) : o \in SetToSeqs(DOMAIN m.headers)} IN
  CASE config.source = "stan" -> {<<>>}
    [] config.source = "nats" -> converted
    [] config.source = "jetstream" ->
         {WithMetaData(h, m.subject, SetToSeq(MetaData)) : h \in converted}

\* GetSchemaByVersion, or GetLatestSchema for version 0.
SchemaID == IF config.version # 0 THEN config.versions[config.version] ELSE config.versions[latest]

EncodedValue(v) ==
  IF config.registryOn THEN serializePayload(config.schemaType, SchemaID, v) ELSE Ok(v)

\* Sarama's hash partitioner, external: one of the topic's partitions, the same
\* for equal keys as long as there are as many of them.
HashPartition(key) ==
  LET at == <<key, size>> IN
  /\ \E p \in 0..(size - 1) :
       /\ at \in DOMAIN hash => p = hash[at]
       /\ hash' = [k \in DOMAIN hash \cup {at} |-> IF k = at THEN p ELSE hash[k]]
  /\ UNCHANGED vars

AppendRecord(p, r) == log' = [log EXCEPT ![p] = Append(@, r)]

\* SendMessage, external, to the partition chosen: the record is written, or an
\* error is returned, whether it was written or not.
SendMessage(k, p, record) ==
  \/ AppendRecord(p, record) /\ unwritten' = unwritten \ {k} /\ UNCHANGED <<retried, errors>>
  \/ /\ errors < config.failures /\ errors' = errors + 1
     /\ AppendRecord(p, record) \/ UNCHANGED log
     /\ unwritten' = unwritten \cup {k} /\ retried' = retried \cup {k}

\* The callback, given message k, and Write.  A value that cannot be serialized
\* is not sent.
Write(k, m) ==
  \E headers \in CallbackHeaders(m) :
    LET value == EncodedValue(m.value)
        key == refineKeyWithSubjectHeader(CallbackKey(m), headers)
        record == [key |-> key, value |-> value.value, headers |-> headers,
                   of |-> k, schema |-> SchemaID, size |-> size]
    IN \/ /\ value.kind # "ok"
          /\ unwritten' = unwritten \cup {k} /\ retried' = retried \cup {k}
          /\ UNCHANGED <<errors, log, hash, vars>>
       \/ /\ value.kind = "ok" /\ config.balancer = "leastbytes"
          /\ \E n \in 1..MaxPartitions : Partition(Len(key) + Len(value.value), n)
          /\ SendMessage(k, last'.pick, record)
          /\ UNCHANGED hash
       \/ /\ value.kind = "ok" /\ config.balancer = "hash"
          /\ HashPartition(key)
          /\ SendMessage(k, hash'[<<key, size>>], record)

\* The next message of the subject comes to the callback.
WriteMessage(m) ==
  /\ Len(received) < config.messages
  /\ received' = Append(received, m)
  /\ Write(Len(received) + 1, m)
  /\ UNCHANGED <<config, latest, size, readVars>>

\* A stream or a channel delivers again what was not acknowledged, because its
\* write failed, behind the messages that came in meanwhile.
Redeliver(k) ==
  /\ config.source # "nats" /\ k \in unwritten
  /\ Write(k, received[k])
  /\ UNCHANGED <<config, latest, size, received, readVars>>

\* Partitions are added to the topic.
AddPartition ==
  /\ size < config.partitions /\ size' = size + 1
  /\ UNCHANGED <<config, latest, natsVars, log, readVars, hash, vars>>

\* A new version of the schema is registered.
RegisterVersion ==
  /\ config.registryOn /\ config.version = 0
  /\ latest < Len(config.versions) /\ latest' = latest + 1
  /\ UNCHANGED <<config, size, natsVars, log, readVars, hash, vars>>

\* Another program writes to the topic.
WriteForeign(f) ==
  /\ config.registryOn /\ config.schemaType = f.schemaType
  /\ Cardinality({i \in 1..Len(log[0]) : log[0][i].of = 0}) < MaxForeign
  /\ AppendRecord(0, [key |-> <<>>, value |-> f.payload, headers |-> <<>>,
                      of |-> 0, schema |-> f.id, size |-> size, foreign |-> f])
  /\ UNCHANGED <<config, latest, size, natsVars, readVars, hash, vars>>

\* Fetch with its deserialization, and the publish; after an error or a panic
\* the partition is not read on.
FetchAndPublish(p) ==
  /\ config.reader /\ position[p] < Len(log[p])
  /\ \A f \in failed : f.partition # p
  /\ LET r == log[p][position[p] + 1]
         value == IF config.registryOn THEN deserializePayload(config.schemaType, r.value) ELSE Ok(r.value)
     IN IF value.kind = "ok"
        THEN /\ published' = Append(published,
                  [record |-> r, result |-> value, headers |-> convertFromKafkaToNatsHeaders(r.headers)])
             /\ position' = [position EXCEPT ![p] = @ + 1]
             /\ UNCHANGED failed
        ELSE /\ failed' = failed \cup {[partition |-> p, record |-> r, kind |-> value.kind]}
             /\ UNCHANGED <<published, position>>
  /\ UNCHANGED <<config, latest, size, natsVars, log, hash, vars>>

-----------------------------------------------------------------------------
PipeInit ==
  /\ NewLeastBytesPartitioner
  /\ config \in Configs /\ latest = 1 /\ size = 1
  /\ received = <<>> /\ unwritten = {} /\ retried = {} /\ errors = 0
  /\ log = [p \in Topic |-> <<>>] /\ position = [p \in Topic |-> 0]
  /\ hash = <<>> /\ published = <<>> /\ failed = {}

PipeNext ==
  \/ \E m \in Messages[config.source] : m.value \in config.values /\ WriteMessage(m)
  \/ \E k \in unwritten : Redeliver(k)
  \/ RegisterVersion
  \/ AddPartition
  \/ \E f \in Foreign : WriteForeign(f)
  \/ \E p \in Topic : FetchAndPublish(p)

PipeSpec == PipeInit /\ [][PipeNext]_allVars

-----------------------------------------------------------------------------
(* Properties.                                                             *)

OwnRecords == UNION {{log[p][i] : i \in {j \in 1..Len(log[p]) : log[p][j].of # 0}} : p \in Topic}

\* A message whose key is to be refined: the connector's key ends in the
\* wildcard, the subject is long enough and the message has no subject header
\* of its own, which would come first.
Refined(m) ==
  /\ config.source = "jetstream" /\ config.keyType = "subject" /\ Last(config.subject) = ">"
  /\ Len(m.subject) >= 5 /\ SubjectHeader \notin DOMAIN m.headers

Entity(m) == SubSeq(m.subject, 1, 5)

\* Messages of different entities have different keys, so that no entity is bound
\* to the partition of another (refineKeyWithSubjectHeader, fed by the metadata
\* headers of convertFromNatsToKafkaHeadersWithMetaData).
KeysTellEntitiesApart ==
  \A r, s \in OwnRecords : Refined(received[r.of]) /\ Refined(received[s.of]) =>
    (r.key = s.key => Entity(received[r.of]) = Entity(received[s.of]))

\* The messages of one entity are published in the order they came in, whatever
\* their full subjects, but for a message whose write failed, which comes when it
\* was delivered again, and for messages between which partitions were added to
\* the topic (key, hash partitioner, one reader for each partition).
EntityInOrder ==
  \A i, j \in 1..Len(published) :
    LET a == published[i].record.of
        b == published[j].record.of
    IN (i < j /\ a # 0 /\ b # 0 /\ config.balancer = "hash"
          /\ Refined(received[a]) /\ Refined(received[b]) /\ Entity(received[a]) = Entity(received[b]))
       => \/ a < b
          \/ b \in retried
          \/ published[i].record.size # published[j].record.size

\* What a message should look like at the other end.
ExpectedHeaders(m) ==
  LET own == IF config.source = "stan" THEN {} ELSE {k \in DOMAIN m.headers : m.headers[k] # <<>>}
      added == IF config.source = "jetstream" THEN MetaData \cup {SubjectHeader} ELSE {}
  IN [k \in own \cup added |->
        (IF k \in own THEN <<m.headers[k][1]>> ELSE <<>>)
          \o (IF k \in added THEN <<IF k = SubjectHeader THEN m.subject ELSE <<k>> >> ELSE <<>>)]

\* What comes out is what went in: the value, although the schema may have got a
\* new version since it was written, which encodes and admits other values, and
\* the first value of every header, followed by what the stream says of the
\* message (serializePayload to deserializePayload, the header conversions).
ArrivesAsSent ==
  \A i \in 1..Len(published) : LET p == published[i] IN p.record.of # 0 =>
    /\ p.result.value = received[p.record.of].value
    /\ p.headers = ExpectedHeaders(received[p.record.of])

\* A schema in which no part of the package name is the name of a message type.
NoNameClash(fd) == \A i \in 1..Len(fd.types) : fd.types[i].name \notin Range(fd.package)

\* The bridge can read what it wrote, but for two kinds of messages: JSON that
\* does not fit the schema, which only the reader validates, and a Protobuf
\* message with no field set, whose encoding is empty.  (And but for schemas
\* with a message type named like a part of the package.)
ReadsItsOwn ==
  \A f \in failed : f.record.of # 0 =>
    LET v == received[f.record.of].value IN
    \/ config.schemaType = "JSON" /\ ~FitsSchema(f.record.schema, v)
    \/ config.schemaType = "PROTOBUF" /\ v = Zero
    \/ config.schemaType = "PROTOBUF" /\ ~NoNameClash(Registry[f.record.schema])

\* The types on a path through the file, level by level.
ValidPath(fd, ids) ==
  LET types[i \in 0..Len(ids)] ==
        IF i = 0 THEN fd.types
        ELSE IF ids[i] \in 0..(Len(types[i-1]) - 1) THEN types[i-1][ids[i] + 1].nested ELSE <<>>
  IN \A i \in 1..Len(ids) : ids[i] \in 0..(Len(types[i-1]) - 1)

\* A Protobuf message of another writer, of any type the schema has, is read as
\* that type; it is refused, without a panic, only if an index of its path is
\* above the number of outermost types or nothing follows the path
\* (decodeProtobufStructures, getMessageDescriptorFromMessage).
ReadsOtherTypes ==
  /\ \A i \in 1..Len(published) : LET p == published[i] IN
       (p.record.of = 0 /\ config.schemaType = "PROTOBUF") =>
         /\ ValidPath(Registry[p.record.schema], p.record.foreign.path)
         /\ p.result.value = p.record.foreign.value /\ p.result.type = p.record.foreign.type
  /\ \A f \in failed : LET r == f.record IN
       (r.of = 0 /\ config.schemaType = "PROTOBUF" /\ ValidPath(Registry[r.schema], r.foreign.path)) =>
         /\ f.kind = "error"
         /\ \/ r.foreign.value = Zero
            \/ \E i \in 1..Len(r.foreign.path) : r.foreign.path[i] > Len(Registry[r.schema].types)
=============================================================================
