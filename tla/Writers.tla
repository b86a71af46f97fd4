------------------------------ MODULE Writers ------------------------------
(***************************************************************************)
(* A connector to Kafka: the callback of each subscription, the cache of   *)
(* producers it takes its writer from, and the Shutdown and Start of the   *)
(* connector.  Only Shutdown and Start take the connector's lock; a        *)
(* callback runs beside them, and goes on after its subscription is gone.  *)
(* The callbacks of JetStream and STAN acknowledge what they have written; *)
(* that of core NATS, which delivers a message only once, does not.  The   *)
(* server keeps the acknowledgements of a durable subscription; any other  *)
(* begins anew, where its start option says, each time it is made.         *)
(***************************************************************************)
EXTENDS Naturals, Sequences, FiniteSets

CONSTANTS
  Messages,         \* the messages of the stream or subject
  Modes,            \* the kinds of subscription: core NATS, durable, or made anew at each Start
  Skips,            \* the sets of messages that a start option may pass over
  Unfit,            \* the messages that serializePayload refuses
  None,             \* no message
  Topics,           \* the Kafka topics
  Hashes,           \* what getHash returns
  Dest,             \* Dest[m]: the topic the destination template gives m
  Hash,             \* Hash[t]: getHash(t), the key of the writer cache
  MaxSubs,          \* bound: subscriptions
  MaxShutdowns,     \* bound: subscriptions that Shutdown ends
  MaxOutages        \* bound: outages of Kafka, failures of NewProducer apart from those included

ASSUME WritersAssumption ==
  /\ None \notin Messages /\ Unfit \subseteq Messages /\ Skips \subseteq SUBSET Messages
  /\ {} \in Skips
  /\ Modes \subseteq {"core", "durable", "anew"}
  /\ Dest \in [Messages -> Topics] /\ Hash \in [Topics -> Hashes]
  /\ MaxSubs \in Nat /\ MaxShutdowns \in Nat /\ MaxOutages \in Nat

\* Two topics do not share a hash, which is six of 62 characters taken from a
\* SHA-256.
ASSUME NoCollision == \A s, t \in Topics : Hash[s] = Hash[t] => s = t

VARIABLES
  mode,         \* the kind of the subscription
  sent,         \* the messages that core NATS has handed over
  skipped,      \* the messages that the start option of the subscription passes over
  kafkaUp,      \* the brokers can be reached
  outages,      \* outages so far
  log,          \* log[t]: the messages written to topic t
  acked,        \* the messages whose acknowledgement the server has
  subs,         \* subscriptions so far
  sub,          \* conn.sub: the number of a subscription, 0 for nil
  cb,           \* cb[g]: what the callback of subscription g does
  producers,    \* every producer made, in order
  writers,      \* writers[h]: the index of the cached producer, 0 if there is none
  closing,      \* Shutdown is running
  rangeTodo,    \* the keys the Range of closeWriters has not visited
  visiting      \* the key whose producer it has closed and not yet deleted, as a set

cacheVars == <<producers, writers>>
shutVars == <<subs, sub, closing, rangeTodo, visiting>>
kafkaVars == <<mode, kafkaUp, outages>>
vars == <<kafkaVars, sent, skipped, log, acked, cb, cacheVars, shutVars>>

Subs == 1..MaxSubs
Idle == [pc |-> "idle", msg |-> None, writer |-> 0]
Topic(g) == Dest[cb[g].msg]
Key(g) == Hash[Topic(g)]

-----------------------------------------------------------------------------
(* The callback.                                                           *)

\* A message that is not acknowledged is delivered, again and again, to the
\* subscription there is, unless that began after it; one of core NATS is
\* delivered once.
Deliver(g, m) ==
  /\ sub = g /\ cb[g] = Idle
  /\ m \notin acked \cup sent \cup skipped
  /\ sent' = IF mode = "core" THEN sent \cup {m} ELSE sent
  /\ cb' = [cb EXCEPT ![g] = [pc |-> "load", msg |-> m, writer |-> 0]]
  /\ UNCHANGED <<kafkaVars, skipped, log, acked, cacheVars, shutVars>>

\* Mutant of LoadWriter: a miss is not noticed.
LoadWriterUnchecked(g) ==
  /\ cb[g].pc = "load"
  /\ cb' = [cb EXCEPT ![g].pc = "write", ![g].writer = writers[Key(g)]]
  /\ UNCHANGED <<kafkaVars, sent, skipped, log, acked, cacheVars, shutVars>>

\* writer: Load from the cache ...
LoadWriter(g) ==
  /\ cb[g].pc = "load"
  /\ cb' = [cb EXCEPT ![g].pc = IF writers[Key(g)] = 0 THEN "create" ELSE "write",
                      ![g].writer = writers[Key(g)]]
  /\ UNCHANGED <<kafkaVars, sent, skipped, log, acked, cacheVars, shutVars>>

\* Mutant of NewProducer: every producer is for the first topic it was asked for.
NewProducerFirstTopic(g, ok) ==
  /\ cb[g].pc = "create"
  /\ ok => kafkaUp
  /\ IF kafkaUp /\ ~ok THEN outages < MaxOutages /\ outages' = outages + 1 ELSE UNCHANGED outages
  /\ producers' = Append(producers, [topic |-> IF producers = <<>> THEN Topic(g) ELSE producers[1].topic,
                                     errored |-> ~ok, open |-> ok])
  /\ cb' = [cb EXCEPT ![g].pc = "store", ![g].writer = Len(producers) + 1]
  /\ UNCHANGED <<mode, kafkaUp, sent, skipped, log, acked, writers, shutVars>>

\* ... or NewProducer, or the errored producer that takes its place; NewProducer
\* may fail although the brokers can be reached ...
NewProducer(g, ok) ==
  /\ cb[g].pc = "create"
  /\ ok => kafkaUp
  /\ IF kafkaUp /\ ~ok THEN outages < MaxOutages /\ outages' = outages + 1 ELSE UNCHANGED outages
  /\ producers' = Append(producers, [topic |-> Topic(g), errored |-> ~ok, open |-> ok])
  /\ cb' = [cb EXCEPT ![g].pc = "store", ![g].writer = Len(producers) + 1]
  /\ UNCHANGED <<mode, kafkaUp, sent, skipped, log, acked, writers, shutVars>>

\* ... and Store.
StoreWriter(g) ==
  /\ cb[g].pc = "store"
  /\ writers' = [writers EXCEPT ![Key(g)] = cb[g].writer]
  /\ cb' = [cb EXCEPT ![g].pc = "write"]
  /\ UNCHANGED <<kafkaVars, sent, skipped, log, acked, producers, shutVars>>

CanWrite(w) == kafkaUp /\ ~w.errored /\ w.open

\* Mutant of Write: the message is acknowledged whatever Write returns.
WriteIgnoresError(g, encoded) ==
  /\ cb[g].pc = "write"
  /\ encoded => cb[g].msg \notin Unfit
  /\ LET w == producers[cb[g].writer] IN
       log' = [t \in Topics |-> IF t = w.topic /\ encoded /\ CanWrite(w) THEN log[t] \cup {cb[g].msg}
                               ELSE log[t]]
  /\ cb' = [cb EXCEPT ![g].pc = "ack"]
  /\ UNCHANGED <<kafkaVars, sent, skipped, acked, cacheVars, shutVars>>

\* Write succeeds only if serializePayload has encoded the message, which it
\* may also fail to do for want of the registry, through an open producer that
\* is not an errored one, and while the brokers take messages.  After an error
\* the callback returns without an acknowledgement.
Write(g, encoded) ==
  /\ cb[g].pc = "write"
  /\ encoded => cb[g].msg \notin Unfit
  /\ LET w == producers[cb[g].writer] IN
     IF encoded /\ CanWrite(w)
     THEN /\ log' = [log EXCEPT ![w.topic] = @ \cup {cb[g].msg}]
          /\ cb' = [cb EXCEPT ![g] = IF mode = "core" THEN Idle ELSE [@ EXCEPT !.pc = "ack"]]
     ELSE /\ cb' = [cb EXCEPT ![g] = Idle]
          /\ UNCHANGED log
  /\ UNCHANGED <<kafkaVars, sent, skipped, acked, cacheVars, shutVars>>

\* SendMessage on a producer that has been closed sends on a closed channel,
\* unless it still finds the producer shutting down.  The panic ends the
\* process, and with it every callback, the cache and a Shutdown.
WritePanics(g) ==
  /\ cb[g].pc = "write" /\ cb[g].msg \notin Unfit
  /\ ~producers[cb[g].writer].errored /\ ~producers[cb[g].writer].open
  /\ cb' = [s \in Subs |-> Idle]
  /\ producers' = <<>> /\ writers' = [h \in Hashes |-> 0]
  /\ sub' = 0 /\ closing' = FALSE /\ rangeTodo' = {} /\ visiting' = {}
  /\ UNCHANGED <<kafkaVars, sent, skipped, log, acked, subs>>

\* Mutant of Ack: the message is not acknowledged.
AckForgotten(g) ==
  /\ cb[g].pc = "ack"
  /\ cb' = [cb EXCEPT ![g] = Idle]
  /\ UNCHANGED <<kafkaVars, sent, skipped, log, acked, cacheVars, shutVars>>

\* Ack or AckSync of the message in hand.  Once a subscription that is not
\* durable has ended, its acknowledgements are void.
Ack(g) ==
  /\ cb[g].pc = "ack"
  /\ acked' = IF mode = "durable" \/ g = sub THEN acked \cup {cb[g].msg} ELSE acked
  /\ cb' = [cb EXCEPT ![g] = Idle]
  /\ UNCHANGED <<kafkaVars, sent, skipped, log, cacheVars, shutVars>>

-----------------------------------------------------------------------------
(* Shutdown and Start.                                                     *)

\* Shutdown begins with closeWriters.
Shutdown ==
  /\ sub # 0 /\ ~closing /\ subs <= MaxShutdowns
  /\ closing' = TRUE /\ rangeTodo' = Hashes
  /\ UNCHANGED <<kafkaVars, sent, skipped, log, acked, cb, cacheVars, subs, sub, visiting>>

\* The Range visits key h and closes its producer, if there is one ...
CloseWriter(h) ==
  /\ closing /\ visiting = {} /\ h \in rangeTodo
  /\ rangeTodo' = rangeTodo \ {h}
  /\ visiting' = {k \in {h} : writers[k] # 0}
  /\ producers' = [w \in 1..Len(producers) |->
       IF w = writers[h] THEN [producers[w] EXCEPT !.open = FALSE] ELSE producers[w]]
  /\ UNCHANGED <<kafkaVars, sent, skipped, log, acked, cb, writers, subs, sub, closing>>

\* ... and deletes the key.
DeleteWriter(h) ==
  /\ h \in visiting
  /\ visiting' = {}
  /\ writers' = [writers EXCEPT ![h] = 0]
  /\ UNCHANGED <<kafkaVars, sent, skipped, log, acked, cb, producers, subs, sub, closing, rangeTodo>>

\* Then Shutdown unsubscribes.  It leaves a durable of STAN alone, whose
\* deliveries end with the connection: the loss of that is what a connector is
\* shut down for, and Stop closes it next.
Unsubscribe ==
  /\ closing /\ rangeTodo = {} /\ visiting = {}
  /\ closing' = FALSE /\ sub' = 0
  /\ UNCHANGED <<kafkaVars, sent, skipped, log, acked, cb, cacheVars, subs, rangeTodo, visiting>>

\* Mutant of Start: it subscribes without the durable name.
StartEphemeral(S) ==
  /\ sub = 0 /\ subs < MaxSubs
  /\ subs' = subs + 1 /\ sub' = subs + 1
  /\ acked' = {} /\ skipped' = S
  /\ UNCHANGED <<kafkaVars, sent, log, cb, cacheVars, closing, rangeTodo, visiting>>

\* Start subscribes.  A durable that exists goes on where it was; any other
\* subscription begins where its start option says, which passes over S, and
\* without acknowledgements.
Start(S) ==
  /\ sub = 0 /\ subs < MaxSubs
  /\ subs' = subs + 1 /\ sub' = subs + 1
  /\ mode = "core" => S = {}
  /\ IF mode = "durable" /\ subs # 0
     THEN S = skipped /\ UNCHANGED acked
     ELSE acked' = {}
  /\ skipped' = S
  /\ UNCHANGED <<kafkaVars, sent, log, cb, cacheVars, closing, rangeTodo, visiting>>

-----------------------------------------------------------------------------
(* Kafka.                                                                  *)

KafkaDown ==
  /\ kafkaUp /\ outages < MaxOutages
  /\ kafkaUp' = FALSE /\ outages' = outages + 1
  /\ UNCHANGED <<mode, sent, skipped, log, acked, cb, cacheVars, shutVars>>

KafkaUp ==
  /\ ~kafkaUp
  /\ kafkaUp' = TRUE
  /\ UNCHANGED <<mode, outages, sent, skipped, log, acked, cb, cacheVars, shutVars>>

-----------------------------------------------------------------------------
Init ==
  /\ mode \in Modes /\ sent = {} /\ skipped = {}
  /\ kafkaUp \in BOOLEAN /\ outages = IF kafkaUp THEN 0 ELSE 1
  /\ log = [t \in Topics |-> {}] /\ acked = {}
  /\ subs = 0 /\ sub = 0 /\ closing = FALSE /\ rangeTodo = {} /\ visiting = {}
  /\ cb = [g \in Subs |-> Idle]
  /\ producers = <<>> /\ writers = [h \in Hashes |-> 0]

CallbackStep ==
  \E g \in Subs :
    \/ \E m \in Messages : Deliver(g, m)
    \/ LoadWriter(g) \/ StoreWriter(g) \/ WritePanics(g) \/ Ack(g)
    \/ \E ok \in BOOLEAN : NewProducer(g, ok) \/ Write(g, ok)

ConnectorStep ==
  \/ Shutdown \/ Unsubscribe
  \/ \E S \in Skips : Start(S)
  \/ \E h \in Hashes : CloseWriter(h) \/ DeleteWriter(h)

KafkaStep == KafkaDown \/ KafkaUp

Next == CallbackStep \/ ConnectorStep \/ KafkaStep

Spec == Init /\ [][Next]_vars

\* Goroutines go on, Kafka comes back, a message is delivered while it is not
\* acknowledged, and NewProducer and serializePayload succeed at last where
\* they may.
Fairness ==
  /\ \A m \in Messages : /\ SF_vars(\E g \in Subs : Deliver(g, m))
                         /\ SF_vars(\E g \in Subs : cb[g].msg = m /\ Write(g, TRUE))
  /\ \A g \in Subs : /\ WF_vars(LoadWriter(g)) /\ WF_vars(StoreWriter(g)) /\ WF_vars(Ack(g))
                     /\ WF_vars(NewProducer(g, TRUE)) /\ WF_vars(\E ok \in BOOLEAN : Write(g, ok))
  /\ \A h \in Hashes : WF_vars(CloseWriter(h)) /\ WF_vars(DeleteWriter(h))
  /\ WF_vars(Unsubscribe) /\ WF_vars(\E S \in Skips : Start(S)) /\ WF_vars(KafkaUp)

FairSpec == Spec /\ Fairness

-----------------------------------------------------------------------------
(* Properties.                                                             *)

Producer == [topic : Topics, errored : BOOLEAN, open : BOOLEAN]
Callback == [pc : {"idle", "load", "create", "store", "write", "ack"},
             msg : Messages \cup {None}, writer : Nat]

\* Every variable has its type, and every index names a producer that was
\* made.
TypeOK ==
  /\ mode \in {"core", "durable", "anew"} /\ sent \subseteq Messages /\ skipped \subseteq Messages
  /\ kafkaUp \in BOOLEAN /\ outages \in Nat
  /\ log \in [Topics -> SUBSET Messages] /\ acked \subseteq Messages
  /\ subs \in 0..MaxSubs /\ sub \in 0..MaxSubs /\ closing \in BOOLEAN
  /\ rangeTodo \subseteq Hashes /\ visiting \subseteq Hashes
  /\ cb \in [Subs -> Callback]
  /\ producers \in Seq(Producer) /\ writers \in [Hashes -> Nat]
  /\ \A h \in Hashes : writers[h] <= Len(producers)
  /\ \A g \in Subs : /\ cb[g].writer <= Len(producers)
                     /\ cb[g].pc # "idle" => cb[g].msg \in Messages
                     /\ cb[g].pc \in {"store", "write", "ack"} => cb[g].writer # 0

\* At least once: a message that was acknowledged is in its topic, however the
\* callbacks of old and new subscriptions, the cache and Shutdown interleave.
AckedIsWritten == \A m \in acked : m \in log[Dest[m]]

\* The cache never hands a message to the producer of another topic.
RightTopic == \A t \in Topics : \A m \in log[t] : t = Dest[m]

\* The connector is a relay from NATS to Kafka.  Only a durable subscription
\* keeps what it has released or passed over; what any other has acknowledged
\* is forgotten when it ends, and core NATS releases nothing.
NATS2Kafka == INSTANCE Relay WITH
  Items <- Messages,
  Source <- [m \in Messages |-> 1],
  delivered <- {m \in Messages : m \in log[Dest[m]]},
  released <- {m \in acked : mode = "durable"},
  passed <- {m \in skipped : mode = "durable"}

\* Every step of the callbacks, of Shutdown and of Start is a step of the
\* relay's, or none: a message of a durable subscription is released only after
\* it was delivered to its topic, in whatever order old and new callbacks come
\* to their ends, and no Shutdown, panic or Start takes that back or passes
\* over a message.
ImplementsRelay == NATS2Kafka!Spec

\* Every message that can be serialized, and that the last subscription does
\* not pass over, gets to its topic and is acknowledged.  Only an errored
\* producer of its own topic that stays in the cache can hold it back (writer).
\* Core NATS promises no such thing.
AllWritten ==
  \A m \in Messages \ Unfit :
    \/ <>[](mode = "core" \/ m \in acked \cup skipped)
    \/ <>[](LET w == writers[Hash[Dest[m]]] IN w # 0 /\ producers[w].errored)
=============================================================================
