------------------------------ MODULE MCConfig ------------------------------
EXTENDS Config, TLC

\* A map whose keys are spelled in lower case, from the fields that are given.
Lower(m) == [k \in {<<f, "lower">> : f \in {g \in DOMAIN m : m[g] # None}} |-> m[k[1]]]

NoFlags == [D |-> FALSE, V |-> FALSE, DV |-> FALSE]
Input(file) == [path |-> "flag", file |-> file, flags |-> NoFlags, clients |-> FALSE]

-----------------------------------------------------------------------------
\* Wiring: all lists of at most two clusters and one connector over a few
\* names, with and without servers, and a field that is unset, zero or set.
Names == {None, Text("default"), Text("a"), Text("b")}
Reconnects == {None, Number(0), Digits("2", 2)}
Clusters2 ==
  BoundedSeq({Map(Lower([Name |-> n, Servers |-> s, MaxReconnects |-> r])) :
                n \in Names, s \in {None, Text("nats://s")}, r \in Reconnects}, 2)
Connect1 ==
  BoundedSeq({Map(Lower([Type |-> t, NATSConnection |-> n])) :
                t \in {Text("NATSToKafka"), Text("STANToKafka")}, n \in {None, Text("a"), Text("c")}}, 1)
Wired ==
  {Input(Lower([NATS |-> Map(Lower([Name |-> n, MaxReconnects |-> r])),
                NATSClusters |-> List(clusters), Connect |-> List(connect)])) :
     n \in {None, Text("a")}, r \in {None, Number(3)}, clusters \in Clusters2, connect \in Connect1}

-----------------------------------------------------------------------------
\* Kinds: one field of the file at a time holds each kind of node, alone or in
\* a list, in each spelling.
Nodes == {None, Bool(TRUE), Number(7), Text("true"), Text("text"), Digits("7", 7), Map(<<>>)}
Lists == {List(<<>>)} \cup {List(<<n>>) : n \in Nodes \ {None}} \cup {List(<<Map(<<>>), n>>) : n \in Nodes \ {None}}
AnyNode == Nodes \cup Lists
OddKinds ==
  {Input(<<f, "exact">> :> n) : f \in DOMAIN NATSKafkaBridgeConfig, n \in AnyNode \ {None}}
  \cup {Input(<<"NATS", s>> :> Map(<<f, t>> :> n)) :
          f \in DOMAIN NATSConfig, s \in {"lower", "other"}, t \in {"exact", "lower", "other"}, n \in AnyNode \ {None}}
  \cup {Input(<<"NATSClusters", "lower">> :> Map((<<"Name", "lower">> :> Text("a")) @@ (<<"Servers", "lower">> :> n))) :
          n \in AnyNode \ {None}}

\* The same field in several spellings, beside the flags and the ways to name a file.
Spelled ==
  {[path |-> p, file |-> <<"Logging", "lower">> :> Map([k \in keys |-> Bool(k[2] = "exact")]),
    flags |-> [D |-> d, V |-> v, DV |-> dv], clients |-> FALSE] :
     p \in {"flag", "environment", "none", "unreadable"}, d \in BOOLEAN, v \in BOOLEAN, dv \in BOOLEAN,
     keys \in SUBSET ({"Debug", "Colors"} \X {"exact", "lower", "other"})}

\* An empty file; the clients are looked at behind it.
Empty == {[Input(<<>>) EXCEPT !.clients = TRUE]}

AllInputs == Wired \cup OddKinds \cup Spelled \cup Empty

-----------------------------------------------------------------------------
AllKafka ==
  [user : BOOLEAN, mechanism : {"", "sha256", "scram-sha-512"}, iam : BOOLEAN, region : BOOLEAN,
   skipVerify : BOOLEAN, saslTLS : BOOLEAN, tls : {"unset", "loads", "broken"},
   url : {TRUE}, subject : BOOLEAN, schemaType : {"JSON", ""}, balancer : {"hash"}, group : {TRUE}]
=============================================================================
