------------------------------ MODULE MCBridge ------------------------------
(***************************************************************************)
(* Instances of Bridge for TLC: one or two clusters, and the connectors    *)
(* that make each question interesting.                                    *)
(***************************************************************************)
EXTENDS Bridge

DistinctIds == [c1 |-> 1, c2 |-> 2]

\* One connector on each of two clusters.
SplitCluster == [c1 |-> "default", c2 |-> "cellb"]
SplitKind == [c1 |-> "NATSToKafka", c2 |-> "JetStreamToKafka"]

\* Both connectors on the named cluster.
NamedCluster == [c1 |-> "cellb", c2 |-> "cellb"]
NamedSubKind == [c1 |-> "NATSToKafka", c2 |-> "JetStreamToKafka"]

\* Both connectors on the default cluster, for NATS streaming.
DefaultCluster == [c1 |-> "default", c2 |-> "default"]
StanKind == [c1 |-> "STANToKafka", c2 |-> "KafkaToStan"]

\* One connector on the named cluster.
LoneId == [c1 |-> 1]
LoneCluster == [c1 |-> "cellb"]
LoneKafkaKind == [c1 |-> "KafkaToNATS"]

OneOutageOfNamed == [default |-> 0, cellb |-> 1]
OneOutageOfDefault == [default |-> 1]
NoOutage == [default |-> 0, cellb |-> 0]

=============================================================================
