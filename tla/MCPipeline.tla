---------------------------- MODULE MCPipeline ----------------------------
EXTENDS Pipeline

\* Values: two that fit every schema, of two lengths, one that fits none, one
\* that a later version admits.
Short == <<301>>
Long == <<302, 303>>
Misfit == <<304>>
Later == <<305>>
Default == <<300>>

\* Three schemas: two types; three types nested in the only outermost one, in a
\* package; a second type named like the package.
Type(name, nested) == [name |-> name, nested |-> nested]
Leaf(name) == Type(name, <<>>)
Schemas ==
  1 :> [tag |-> 1, unfit |-> {Misfit, Later}, package |-> <<>>, types |-> <<Leaf("A"), Leaf("B")>>]
    @@ 66051 :> [tag |-> 2, unfit |-> {Misfit}, package |-> <<"p", "q">>,
                 types |-> <<Type("A", <<Leaf("X"), Leaf("Y"), Leaf("Z")>>)>>]
    @@ 513 :> [tag |-> 3, unfit |-> {Misfit}, package |-> <<"B">>, types |-> <<Leaf("A"), Leaf("B")>>]

-----------------------------------------------------------------------------
E5(e) == <<"state", "global", "19", "cell", e>>
Msg(subject, headers, value) == [subject |-> subject, reply |-> <<"in", "box">>, headers |-> headers, value |-> value]
NoHeaders == <<>>
TwoHeaders == [h |-> << <<"1">>, <<"2">> >>, none |-> <<>>]
OwnSubject == [subject |-> <<E5("other")>>]

Shapes ==
  [nats |-> {<<E5("e1"), TwoHeaders>>},
   stan |-> {<<E5("e1"), NoHeaders>>},
   jetstream |-> {<<Append(E5("e1"), "x"), NoHeaders>>, <<Append(E5("e1"), "y"), TwoHeaders>>,
                  <<E5("e2"), NoHeaders>>, <<E5("e2"), OwnSubject>>, <<SubSeq(E5("e1"), 1, 4), NoHeaders>>}]

AllMessages ==
  [source \in DOMAIN Shapes |->
     {Msg(s[1], s[2], v) : s \in Shapes[source], v \in {Short, Long, Default, Misfit, Later}}]

-----------------------------------------------------------------------------
\* A core NATS connector without key and schema registry, and its variations.
Plain == [source |-> "nats", subject |-> E5("e1"), durable |-> <<"dur">>,
          keyType |-> "", keyValue |-> <<>>, regex |-> [valid |-> TRUE, group |-> 5],
          registryOn |-> FALSE, schemaType |-> "AVRO", version |-> 0, versions |-> <<1>>,
          balancer |-> "hash", partitions |-> 2, failures |-> 0, reader |-> TRUE,
          messages |-> 1, values |-> {Short}]

Wildcard == [Plain EXCEPT !.source = "jetstream", !.subject = SubSeq(E5("e1"), 1, 4) \o <<">">>,
                          !.keyType = "subject", !.messages = 2, !.failures = 2]
Three == [Wildcard EXCEPT !.messages = 3, !.failures = 0]
KeyTypes == {[Plain EXCEPT !.source = s, !.keyType = k] :
               s \in {"nats", "stan", "jetstream"}, k \in {"subject", "reply", "subjectre", "replyre"}}
FixedKey == [Plain EXCEPT !.keyType = "fixed", !.keyValue = <<"k">>]
BadRegex == [Plain EXCEPT !.keyType = "subjectre", !.regex.valid = FALSE]
Encoded == {[Plain EXCEPT !.registryOn = TRUE, !.schemaType = t, !.version = v, !.versions = <<1, 66051>>,
                          !.source = s, !.messages = 2, !.partitions = 1,
                          !.values = {Short, Default, Misfit, Later}] :
              t \in {"AVRO", "JSON", "PROTOBUF"}, v \in {0, 2}, s \in {"nats", "stan"}}
Clash == [Plain EXCEPT !.registryOn = TRUE, !.schemaType = "PROTOBUF", !.versions = <<513>>]
LeastBytes == [Plain EXCEPT !.balancer = "leastbytes", !.partitions = 1, !.keyType = "fixed", !.keyValue = <<"k">>,
                            !.messages = 4, !.reader = FALSE, !.values = {Short, Long}]
Unreliable == [LeastBytes EXCEPT !.source = "stan", !.messages = 2, !.failures = 2]

AllConfigs == {Wildcard, Three, FixedKey, BadRegex, Clash, LeastBytes, Unreliable} \cup KeyTypes \cup Encoded

-----------------------------------------------------------------------------
\* What other writers send: the wire format with the path of any type, also in
\* the short form for the first type, and payloads that are not in this format.
Bytes4(id) == <<(id \div 16777216) % 256, (id \div 65536) % 256, (id \div 256) % 256, id % 256>>
Path(p) == PutVarint(Len(p)) \o FlattenSeq([i \in 1..Len(p) |-> PutVarint(p[i])])
Wire(id, path, type, v) ==
  {[schemaType |-> "PROTOBUF", id |-> id, path |-> path, type |-> type, value |-> v,
    payload |-> <<0>> \o Bytes4(id) \o b \o Marshal(id, v)] :
     b \in {Path(path)} \cup (IF path = <<0>> THEN {<<0>>} ELSE {})}
Other(t, payload) == [schemaType |-> t, id |-> 1, path |-> <<9>>, type |-> <<>>, value |-> <<>>, payload |-> payload]

\* Behind the schema id: nothing, a path cut off, a path of length -1, one too
\* long to allocate, one longer than the payload, an index of -1, a malformed
\* message.
Malformed == {<<>>, <<4, 0>>, <<1, 0>>, <<128, 128, 1, 0>>, <<128, 1, 0>>, <<2, 1, 1301>>, <<2, 0, 7>>}

AllForeign ==
  Wire(1, <<0>>, <<"A">>, Short) \cup Wire(1, <<1>>, <<"B">>, Short) \cup Wire(1, <<1>>, <<"B">>, Default)
  \cup Wire(66051, <<0, 0>>, <<"A", "X">>, Short) \cup Wire(66051, <<0, 1>>, <<"A", "Y">>, Short)
  \cup Wire(66051, <<0, 2>>, <<"A", "Z">>, Short) \cup Wire(1, <<2>>, <<>>, Short) \cup Wire(1, <<100>>, <<>>, Short)
  \cup {Other("PROTOBUF", <<0, 0, 0, 0, 1>> \o body) : body \in Malformed}
  \cup {Other("AVRO", <<>>), Other("AVRO", <<0, 0>>), Other("AVRO", <<0, 0, 0, 0, 2>>),
        Other("AVRO", <<0, 0, 0, 0, 1, 7>>), Other("JSON", <<7>>), Other("JSON", <<0, 0, 0, 0, 1, 7>>)}
=============================================================================
