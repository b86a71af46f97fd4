------------------------------- MODULE Config -------------------------------
(***************************************************************************)
(* From the command line to a configuration the bridge starts with:        *)
(* DefaultBridgeConfig, the file over it, the flags over that, and the     *)
(* check of the clusters, which completes their entries; then the Kafka    *)
(* clients of two connectors.  The structs have the fields that the checks *)
(* and the defaults tell apart.                                            *)
(***************************************************************************)
EXTENDS Parser, Clusters, Clients

CONSTANTS
  Inputs,     \* [path, file, flags, clients]: how the file is named, its map, the flags,
              \* and, a bound, whether the clients are looked at
  Kafka       \* the Kafka parts of connector configurations to look at

VARIABLES
  input,      \* the command line and the file
  step,       \* where InitializeFromFlags, Start and the connectors are
  clients     \* the Kafka clients that were made: [cc, made]

confVars == <<config, checked, err, input, step, clients>>

-----------------------------------------------------------------------------
NATSConfig ==
  [Name |-> Kind("string"), Servers |-> Kind("strings"), ClientName |-> Kind("string"),
   ConnectTimeout |-> Kind("int"), ReconnectWait |-> Kind("int"), MaxReconnects |-> Kind("int")]
LoggingConfig == [Debug |-> Kind("bool"), Trace |-> Kind("bool"), Colors |-> Kind("bool")]
ConnectorConfig == [Type |-> Kind("string"), NATSConnection |-> Kind("string")]
NATSKafkaBridgeConfig ==
  [ReconnectInterval |-> Kind("int"), Logging |-> StructKind(LoggingConfig), NATS |-> StructKind(NATSConfig),
   NATSClusters |-> StructsKind(NATSConfig), Connect |-> StructsKind(ConnectorConfig)]

DefaultBridgeConfig ==
  [ReconnectInterval |-> 5000,
   Logging |-> [Debug |-> FALSE, Trace |-> FALSE, Colors |-> TRUE],
   NATS |-> [Name |-> "", Servers |-> <<>>, ClientName |-> "NATS Kafka Bridge",
             ConnectTimeout |-> 5000, ReconnectWait |-> 1000, MaxReconnects |-> 0],
   NATSClusters |-> <<>>, Connect |-> <<>>]

-----------------------------------------------------------------------------
\* InitializeFromFlags and ApplyConfigFile: the flag, else the environment,
\* names the file; no name and a file that cannot be read are errors.
InitializeFromFlags ==
  /\ step = "initialize" /\ step' = "start"
  /\ LET loaded == IF input.path \in {"flag", "environment"}
                   THEN parseStruct(input.file, NATSKafkaBridgeConfig, DefaultBridgeConfig) ELSE Fail
         flags == input.flags
     IN IF loaded.ok
        THEN /\ config' = [loaded.v EXCEPT !.Logging.Debug = @ \/ flags.D \/ flags.DV,
                                           !.Logging.Trace = @ \/ flags.V \/ flags.DV]
             /\ UNCHANGED err
        ELSE err' = TRUE /\ UNCHANGED config
  /\ UNCHANGED <<checked, input, clients>>

\* The first step of Start that can fail.
StartValidates ==
  /\ step = "start" /\ step' = "connectors"
  /\ ValidateNATSClusters
  /\ UNCHANGED <<input, clients>>

\* Two connectors with the same Kafka settings start.  One from Kafka makes a
\* consumer when it starts, one to Kafka a producer when it is first written to.
MakeClient(cc, client) ==
  /\ step = "connectors" /\ ~err
  /\ \A c \in clients : c.cc = cc /\ c.made.client # client.client
  /\ clients' = clients \cup {[cc |-> cc, made |-> client]}
  /\ UNCHANGED <<config, checked, err, input, step>>

ConfigInit ==
  /\ input \in Inputs /\ step = "initialize" /\ clients = {}
  /\ config = DefaultBridgeConfig /\ checked = FALSE /\ err = FALSE

ConfigNext ==
  \/ InitializeFromFlags \/ StartValidates
  \/ \E cc \in Kafka : input.clients /\ (MakeClient(cc, NewConsumer(cc)) \/ MakeClient(cc, NewProducer(cc)))

ConfigSpec == ConfigInit /\ [][ConfigNext]_confVars

-----------------------------------------------------------------------------
(* Properties.                                                             *)

\* What a map says about a field, None if nothing: the spelling of the struct
\* counts before lower case, and that before any other.
Says(data, f) ==
  CASE <<f, "exact">> \in DOMAIN data -> data[<<f, "exact">>]
    [] <<f, "exact">> \notin DOMAIN data /\ <<f, "lower">> \in DOMAIN data -> data[<<f, "lower">>]
    [] <<f, "exact">> \notin DOMAIN data /\ <<f, "lower">> \notin DOMAIN data
         /\ <<f, "other">> \in DOMAIN data -> data[<<f, "other">>]
    [] OTHER -> None

\* What the file says about a field of a block.
Given(block, f) ==
  LET at == Says(input.file, block) IN IF at.kind = "map" THEN Says(at.data, f) ELSE None

Meaning(node, kind) ==
  CASE kind = "bool" -> (node.kind = "bool" /\ node.b) \/ (node.kind = "string" /\ node.text = "true")
    [] kind = "int" -> node.number
    [] kind = "string" -> node.text

SimpleFields(type) == {f \in DOMAIN type : type[f].kind \in {"bool", "int", "string"}}

\* The file over the defaults, the flags over the file: a simple field of the
\* root or of a nested block has what the file says about it, in the spelling
\* that counts, and else its default; a flag only turns logging on (parseStruct
\* in place, InitializeFromFlags).
FileOverDefaults ==
  LET value(given, kind, default) == IF given.kind = "none" THEN default ELSE Meaning(given, kind)
      turnsOn(f) == (f = "Debug" /\ (input.flags.D \/ input.flags.DV)) \/ (f = "Trace" /\ (input.flags.V \/ input.flags.DV))
  IN (step = "start" /\ ~err) =>
       /\ \A f \in SimpleFields(NATSKafkaBridgeConfig) :
            config[f] = value(Says(input.file, f), NATSKafkaBridgeConfig[f].kind, DefaultBridgeConfig[f])
       /\ \A block \in {"Logging", "NATS"} :
            LET type == NATSKafkaBridgeConfig[block].type IN
            \A f \in SimpleFields(type) :
              config[block][f] =
                IF turnsOn(f) THEN TRUE ELSE value(Given(block, f), type[f].kind, DefaultBridgeConfig[block][f])

\* Whether a node can stand for a field of a kind, in a struct of simple fields.
Fits(node, kind) ==
  CASE node.kind = "none" -> TRUE
    [] kind = "bool" -> node.kind \in {"bool", "string"}
    [] kind = "int" -> node.kind = "int" \/ (node.kind = "string" /\ node.numeric)
    [] kind = "string" -> node.kind = "string"
    [] kind = "strings" -> IF node.kind = "list"
                           THEN \A i \in 1..Len(node.items) : node.items[i].kind \in {"string", "int"}
                           ELSE node.kind \in {"string", "int"}

FitsStruct(node, type) == node.kind = "map" /\ \A f \in DOMAIN type : Fits(Says(node.data, f), type[f].kind)

\* Loading succeeds exactly when there is a file and everything in it, down to
\* each entry of each list, can stand for its field: no entry is dropped
\* silently (parseStructs, parsePrimitiveArray, ApplyConfigFile).
LoadsWhatFits ==
  step = "start" =>
    (~err <=>
      /\ input.path \in {"flag", "environment"}
      /\ Fits(Says(input.file, "ReconnectInterval"), "int")
      /\ \A block \in {"Logging", "NATS"} : LET node == Says(input.file, block) IN
           node = None \/ FitsStruct(node, NATSKafkaBridgeConfig[block].type)
      /\ \A list \in {"NATSClusters", "Connect"} : LET node == Says(input.file, list) IN
           node = None \/ \A i \in 1..Len(Items(node)) : FitsStruct(Items(node)[i], NATSKafkaBridgeConfig[list].type))

\* A field of a named cluster that the bridge starts with is what its entry in
\* the file says, else what the nats block of the file says, else the default:
\* over the parser, which leaves entries zero, and ValidateNATSClusters, which
\* completes them.  Nothing is said of an entry that gives the zero value itself,
\* which ValidateNATSClusters takes for a field that is not given.
EntriesAreComplete ==
  (checked /\ ~err) =>
    \A i \in 1..Len(config.NATSClusters) : \A f \in DOMAIN Unset :
      LET kind == NATSConfig[f].kind
          own == Says(Items(Says(input.file, "NATSClusters"))[i].data, f)
          shared == Given("NATS", f)
          actual == config.NATSClusters[i][f]
      IN IF own.kind # "none" THEN Meaning(own, kind) \in {actual, Unset[f]}
         ELSE actual = IF shared.kind # "none" THEN Meaning(shared, kind) ELSE DefaultBridgeConfig.NATS[f]

\* Two connectors with the same Kafka settings, one that writes a topic and one
\* that reads it, come to the same SASL mechanism, the same schema type and the
\* same TLS, but for SASL.TLS, which only the producer reads: each client has its
\* own copy of the decisions (NewConsumer, NewProducer).
ClientsAgree ==
  \A c, d \in clients : (c.made.client = "consumer" /\ d.made.client = "producer") =>
    /\ c.made.sasl = d.made.sasl
    /\ c.made.registry = d.made.registry
    /\ c.made.tls = d.made.tls \/ (c.cc.saslTLS /\ c.made.tls = "off" /\ d.made.tls = "default")
=============================================================================
