------------------------------ MODULE Clients ------------------------------
(***************************************************************************)
(* What the consumer of a connector from Kafka and the producers of one to *)
(* Kafka tell Sarama and the schema registry client, from the connector's  *)
(* configuration cc.  Each of the two has its own copy of the decisions.   *)
(***************************************************************************)
EXTENDS Naturals

\* cc.tls is "unset", "loads", or "broken" when the key pair cannot be loaded.
MakeTLSConfig(cc) == [config |-> cc.tls = "loads", err |-> cc.tls = "broken"]

Mechanism(cc) ==
  CASE cc.mechanism \in {"scram-sha256", "scram-sha-256", "sha256"} -> "SCRAM-SHA-256"
    [] cc.mechanism \in {"scram-sha512", "scram-sha-512", "sha512"} -> "SCRAM-SHA-512"
    [] OTHER -> "PLAIN"

Off == [enable |-> FALSE, mechanism |-> "none"]
SASL(mechanism) == [enable |-> TRUE, mechanism |-> mechanism]
SchemaType(cc) == IF cc.schemaType \in {"JSON", "PROTOBUF"} THEN cc.schemaType ELSE "AVRO"

-----------------------------------------------------------------------------
\* Mutant of NewConsumer: IAM only when there is a region for TLS, too.
NewConsumerNoIAM(cc) ==
  LET iam == cc.iam /\ cc.region
      sasl == CASE cc.user -> SASL(Mechanism(cc))
                [] ~cc.user /\ iam -> SASL("OAUTHBEARER")
                [] OTHER -> Off
      key == MakeTLSConfig(cc)
      tls == IF sasl.enable /\ cc.skipVerify THEN "skip verify"
             ELSE IF key.config /\ ~key.err THEN "key pair"
             ELSE IF iam THEN "default" ELSE "off"
  IN [client |-> "consumer", sasl |-> sasl, tls |-> tls, group |-> cc.group,
      registry |-> IF cc.url /\ cc.subject THEN {SchemaType(cc)} ELSE {}]

\* With a user SASL with its mechanism, else the token of the IAM provider.  A
\* key pair that does not load is as good as none.
NewConsumer(cc) ==
  LET sasl == CASE cc.user -> SASL(Mechanism(cc))
                [] ~cc.user /\ cc.iam /\ cc.region -> SASL("OAUTHBEARER")
                [] OTHER -> Off
      key == MakeTLSConfig(cc)
      tls == IF sasl.enable /\ cc.skipVerify THEN "skip verify"
             ELSE IF key.config /\ ~key.err THEN "key pair"
             ELSE IF cc.iam THEN "default" ELSE "off"
  IN [client |-> "consumer", sasl |-> sasl, tls |-> tls, group |-> cc.group,
      registry |-> IF cc.url /\ cc.subject THEN {SchemaType(cc)} ELSE {}]

\* SASL.TLS turns TLS on, with Sarama's own configuration when there is no other.
NewProducer(cc) ==
  LET sasl == CASE cc.user -> SASL(Mechanism(cc))
                [] ~cc.user /\ cc.iam /\ cc.region -> SASL("OAUTHBEARER")
                [] OTHER -> Off
      key == MakeTLSConfig(cc)
      tls == IF sasl.enable /\ cc.skipVerify THEN "skip verify"
             ELSE IF key.config /\ ~key.err THEN "key pair"
             ELSE IF cc.iam \/ cc.saslTLS THEN "default" ELSE "off"
  IN [client |-> "producer", sasl |-> sasl, tls |-> tls, leastBytes |-> cc.balancer = "leastbytes",
      registry |-> IF cc.url /\ cc.subject THEN {SchemaType(cc)} ELSE {}]
=============================================================================
