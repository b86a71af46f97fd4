# A TLA+ model of the NATS-Kafka bridge

The bridge moves messages between NATS (core, JetStream, streaming) and Kafka.
Its hard part is not the copying but everything around it: clients that
disconnect, close and are dialed again, connectors that are shut down and
restarted by a timer, callbacks and listeners that run beside all this, and
acknowledgements and commits that must not overtake the write they stand for.
This directory models those parts and the conversions a message goes through,
checks them with TLC, and proves with TLAPS the invariants of the reconnect
machinery, of both directions of a connector and of the monitor.

`PROJECT.json` has the machine-readable side: components, runs, mutants, the
map from definitions to source lines, findings, hazards, theorems.

## The system

| Part | Source | State | Operations | What makes it hard |
|---|---|---|---|---|
| Bridge lifecycle | `server/core/server.go` | `running`, `connectors` | Start, Stop | Start fails half way; Stop runs beside a pass, a check, an error report |
| NATS cells | `server/core/nats.go` | per cluster `nc`, `js` | connectToNATS, redialCell, connectToJetStream, disconnect and closed callbacks | a dial outside the lock; late callbacks of a connection that was replaced |
| STAN connection | `server/core/nats.go` | `stan` | connectToSTAN, stanConnectionLost | cleared first, its users shut down later |
| Reconnect queue and timer | `server/core/server.go`, `reconnecttimer.go` | `reconnect`, `reconnectTimer`, `reconnectStopped` | checkConnections, ConnectorError, ensureReconnectTimer and its pass, stopReconnectTimer | lost wakeups, two timers, a timer that fires while it is canceled |
| Connector types | `server/core/*2*.go`, `connector.go` | subscription or reader | Start, Shutdown, CheckConnections | each needs something else; durable subscriptions survive Shutdown |
| Listener and group consumer | `connector.go`, `server/kafka/consumer.go` | channels, offsets | Fetch, Commit, ConsumeClaim, Close | goroutines of all partitions share two unbuffered channels; rebalance, restart |
| Subscriptions and producers | `connector.go`, `server/kafka/producer.go` | `writers` map | callback, writer, closeWriters | unsynchronised load and store; Shutdown beside a callback |
| Keys, headers, partitioner | `connector.go`, `producer.go`, `server/kafka/partitioner.go` | byte counters | calculateKey, refineKeyWithSubjectHeader, header conversions, Partition | order per entity depends on all of them together; changing partition count, zero |
| Schema registry codecs | `producer.go`, `consumer.go`, `pb_*.go` | none | serializePayload, deserializePayload | the reader must understand what the writer wrote, under the schema it was written with, and what others wrote |
| Statistics, histogram | `stats.go`, `histogram.go` | counters, bins | Add..., Stats, Add, trim, Quantile | running values must stay those of all samples |
| Monitoring | `monitoring.go` | `http`, `httpReqStats` | startMonitoring, StopMonitoring, handlers | handlers read without the lock that Stop holds while it waits for them |
| Configuration | `server/conf/*.go`, `server.go`, `consumer.go`, `producer.go` | configuration | LoadConfigFromString, ApplyConfigFile, flags, ValidateNATSClusters, NewConsumer, NewProducer | zero means "inherit"; what Bridge assumes must be what is accepted; two copies of one decision |
| Process | `main.go` | `server` | main goroutine, signal goroutine | a shared variable and its shadow |
| Logging, authentication helpers, topic administration, mock registry, performance programs | see `PROJECT.json` | none of the bridge's | | not modelled |

How they meet: main loads a configuration and starts and stops a bridge. Start
checks the wiring, dials every cell, connects STAN, makes the JetStream
contexts, starts the connectors and, last, the monitor. Client libraries call
back into the bridge, which checks all connectors under the reconnectLock, shuts
down and queues those whose requirement is gone, and arms the timer. The timer's
pass redials cells and restarts queued connectors. A connector from Kafka runs a
listener that fetches from a consumer, publishes, and commits. A connector to
Kafka has subscription callbacks that take a producer from a cache, write, and
acknowledge. Both directions are checked against one abstract specification,
`Relay`; what happens to the message itself between the two ends is `Pipeline`.

## Modules

### Bridge

One action per critical section. `holder` is the owner of the reconnectLock and
how far it has got: `"check"` (in checkConnections), `"stan"`, `"redial"`,
`"restart"` (the three stages of a pass), or `"free"`. `phase` is where the
goroutine that runs Start and later Stop is; the predicate `ServerLocked` says
when it owns the server's mutex, on which `checkRunning` of every callback
waits. A checkConnections or ConnectorError is therefore three steps: asked for
(`wantCheck`, `errNew`), past checkRunning and waiting for the lock (`checkers`,
`errWaiting`), and running. A Stop may fall between any two of them.

Every connection dialed for a cell stays in `conns[k]` with its status and the
callbacks it still owes, so late callbacks of a replaced connection, a leaked
connection and a subscription bound to the wrong connection can all be seen.
`nc[k]` and `js[k]` are indexes into it. `sub[c]` is the index of the
connection a subscription was made on (or that the connector has a reader).
An entry of the reconnect map is a connector or the base connector embedded in
it, because `setUpListener` passes the latter to `ConnectorError`.

A timer goroutine is armed, canceled, or fired and waiting for the lock. A
canceled one may still fire, since `select` chooses among ready cases.

Abstractions: contents of messages; wall-clock time (a timer may fire at any
moment); the order of `startConnectors` and of map iteration (any order); the
JetStream context, which does not fail once there is a connection; `nats.Connect`
and the client's own reconnect logic, external, by what the callbacks show of
them. Stop's reset of the map at `server.go:208` and the shutdowns after it are
one step, `StopConnectors`, which does not need the reconnectLock. So are the two
sections of `redialCell` behind its dial (`nats.go:330-346`): the pass owns the
reconnectLock throughout, so that only a reader of the cell could come between
them. `nc.Drain`, which Stop calls and does not wait for, closes the connection at
once and has no callback in the model; in the program the connection closes a
little later, and its callbacks return at once because the bridge is not running
(`nats.go:68`, `nats.go:80`). A second Start of the same bridge object does not
happen in the program and is left out.

### Relay

What a connector promises: an item is released (its offset committed, its message
acknowledged) only after it was delivered to the other side, and neither is taken
back. It may be delivered more than once. A connector that starts on a source of
which nothing was released may pass over items; once something was, it may not.
Consumer and Writers both implement it: `ImplementsRelay` in each is `Relay!Spec`
under the refinement mapping beside it.

### Consumer

One connector from Kafka, with a `groupid` or without (`groupMode`): the listener
goroutine, the goroutine that calls Consume, one ConsumeClaim per partition,
Shutdown and Close. A hand-over on an unbuffered channel is one step of both
sides. Messages are written while all this goes on; `end` is how many there are.
`marked` is what MarkMessage has set, `committed` what the broker has, `NoOffset`
at first. `from` is where the consumer last began to read without a stored offset:
NewConsumer does not set `Consumer.Offsets.Initial`, so that a group begins at the
end of a partition until it has committed something of it. Without a group the
listener reads one partition from its oldest offset after every start, and commits
nothing. `MaxFaults` bounds rebalances, ends of the partition consumer, and STAN
connections that are lost under the handler, which then publishes through nil and
takes the process down (`PublishNilStan`). `Restart` is the reconnect machinery or
the supervisor starting over: after a panic only the committed offsets survive.

Assumed of sarama (external): a session begins at the stored offset of a partition
and, when there is none, at its end (`OffsetNewest`, the default); the message
channel of a claim is closed when its session ends, so that a claim may read nil;
Consume returns when all claims have; MarkMessage moves forward only; marks are
committed in the background, at the end of a session and on Close. A publish that
has returned counts as published. For JetStream and STAN it is then stored; for
core NATS it is in the client's buffer, and a crash before the flush loses it.

### Writers

One connector to Kafka: its callbacks, of which the one of an old subscription
may still run when the new one starts; `writer` as Load, NewProducer, Store;
`closeWriters` key by key; then Unsubscribe. A write fails when serializePayload
does (always for the messages of `Unfit`, now and then for the others, when the
registry cannot be reached), through an errored producer, or while the brokers are
away. A write through a producer that was closed fails too, or panics, as sarama's
input channel is closed: `WritePanics` ends the process, and Start begins over.

`mode` is the kind of the subscription. Core NATS delivers a message once, and
`sent` remembers it. JetStream and STAN deliver again what is not acknowledged. A
`"durable"` subscription (a durable of STAN, or a JetStream consumer that existed
before the bridge subscribed) keeps its acknowledgements from one Start to the next.
One made `"anew"` (no durable name, or a JetStream durable the bridge itself made,
which Unsubscribe deletes) does not: its acknowledgements are void once it has
ended, and each Start begins where the start option says, which passes over one of
the sets in `Skips`. That a panic leaves a JetStream durable behind, since nobody
unsubscribes then, is left out.

### Histogram, Statistics, Monitoring

`Histogram` and `Statistics` are operators on one holder, since every method runs
under the holder's mutex. Bins and the running average are exact fractions, so
that "nothing lost" is an equality; rounding of float64 is left out. `Monitoring`
has their callers: Start and Stop step by step, the callbacks, and the goroutine
of each HTTP request. The handlers take no lock; `stats` reads one holder at a
time. `seen` is a ghost of what was added. The natsLock under which `stats` reads
the cells is left out. A reconnect pass holds it through a STAN connect
(`connectToSTAN`, `nats.go:203`), for at most ConnectWait, and takes neither the
server's lock nor anything a handler holds meanwhile: a handler's answer may be
late by that much, and no new cycle of waits arises.

### Keys, Codec, Partitioner, Pipeline

The way of one message: `Keys` has the key and the headers, `Codec` the wire
format of the registry (zero byte, four bytes of schema id, for Protobuf the path
of the message type as varints, then the value), `Partitioner` the least-bytes
search as a fold over any order of the map, with counters modulo 2^Width.
`Pipeline` composes them as the callback, Write and Fetch do, on a topic into which
other programs write too, while new schema versions are registered and partitions
are added. SendMessage may return an error, whether the record was written or not;
a stream or channel then delivers the message again, behind those that came in
meanwhile (`Redeliver`). `unwritten` are the messages whose last write failed,
`retried` those that ever failed.

Subjects are sequences of tokens, bytes are numbers below 256, and what a codec
library makes of a value is a sequence of units above, so that no payload is
confused with framing by accident. The units tell the schema they were written
under, and each schema admits other values: Avro read under another schema is an
error, Protobuf loses the fields it does not know. External: the libraries for Avro,
JSON schema, Protobuf, varints and regular expressions, and sarama's hash
partitioner (some partition, the same one for equal keys as long as the topic has as
many partitions). `MaxSlice` stands for the longest slice Go can allocate; TLC's
integers have 32 bits, so that no path length of the run has more than four bytes.

### Parser, Clusters, Clients, Config

`Parser` is the reflection-based parser as recursion over a tree of nodes;
`Clusters` the two loops of ValidateNATSClusters as folds with their early
return; `Clients` what a consumer and a producer tell sarama, each from its own
code. `Config` composes them: the file over the defaults, the flags over the
file, the check of the clusters, and the clients of two connectors with the same
Kafka settings, one in each direction.

### Main

The two goroutines, `server` and the inner variable that shadows it.

### MC modules and proofs

`MCBridge`, `MCWriters`, `MCMonitoring`, `MCPipeline` and `MCConfig` hold the
constant values of the runs. `BridgeTypes`, `BridgeProofs`, `OutageProofs`,
`WritersProofs`, `ConsumerProofs` and `MonitoringProofs` hold the proofs. A
definition whose comment begins with "Mutant of" is a plausible bug that a
property must find; nothing else uses it.

## Runs

| Run | Shows | Bounds |
|---|---|---|
| `bridge_cells` | type; at most one timer goroutine; no lost wakeup; Stop is final; no leaked connection; no stale JetStream context; queued connectors hold nothing; no outage unnoticed; after the outage every connector is healthy for good | a NATS connector on the default cluster, a JetStream connector on a named one; one outage of the latter, Stop at any moment |
| `bridge_stan` | one timer, no lost wakeup and a final Stop, with STAN, its loss, an outage of the default cluster and an error of a listener | a durable STAN subscription and a Kafka-to-STAN listener; one of each event |
| `bridge_shared_cell`, `bridge_listener_error` | violations of AllRecover, see Findings | |
| `consumer_group` | from where the consumer began: no offset moves past an unpublished message; a commit reaches its claim; a partition is published in order and without gaps; the relay is implemented; everything is delivered unless the listener has failed | with and without a group; two partitions, up to two messages each, two faults, one Shutdown, any number of panics; bad payloads, errors of Consume, a nil STAN connection |
| `consumer_publish_fails`, `consumer_shutdown` | violations | |
| `writers` | acknowledged messages are in their topic, and in no other; the relay is implemented; only an errored producer that stays cached holds a message back | core NATS, a durable, a subscription made anew that may pass over a message; one message that cannot be serialized; three subscriptions, one Shutdown, panics, one outage of Kafka or a producer that cannot be made |
| `monitoring` | histogram and average are those of all samples; an answer of /varz lists every connector, is of one moment for each, and lies between the truth before and after; Stop does not wait for a handler that waits for Stop | two connectors, one with four messages and one with a message that may fail; two bins, one HTTP request, monitoring off, on, or set twice |
| `pipeline` | value, headers and the order of an entity survive the way over Kafka; keys keep entities apart; the picked partition exists and is the least used; Fetch fails only on what the properties name | 31 configurations of source, key, schema type and version, balancer; up to four messages; two failed writes, one new version, one new partition, one payload of another writer |
| `config` | the file over the defaults, the flags over the file; loading fails exactly on what does not fit; what is accepted is wired; cluster entries are complete; the clients of both directions agree | all lists of two clusters and one connector over a few names; every kind of value in every field; three spellings beside all flags; all settings of a client |
| `main_reload` | violation | two signals |

Two connectors and two clusters are the least with which connectors can share a
cluster, or not, and with which one cluster's trouble can reach another. One
outage is a disconnect, any number of callbacks waiting on it, a close or a
reconnect, and a redial. The invariants of Bridge are proved for any number of
all of these, so that the bounds matter only for AllRecover and the violations.
AllRecover is checked with one connector per cluster, with distinct ids and
without listener errors, because it fails otherwise (see Findings).

In Consumer two partitions are needed for one claim to take the other's commit,
and two messages for an offset to move past one, or for one to be there before the
first session and one to come later; `consumer_group` has publishes
that succeed, because OutstandingUntilCommitted fails otherwise
(`consumer_publish_fails`). In Writers two subscriptions are needed for callbacks
to overlap, a third to go on after a panic, two topics for a mix-up. The safety of both is proved for all bounds;
they matter for AllDelivered and AllWritten.

In Monitoring the histogram of two bins merges from the third distinct sample on,
so four messages of one connector merge twice; the other connector is there for
an answer that is put together from two holders. In Pipeline three messages of a
wildcard subject are two of one entity and one of another, and with two of them one
overtakes the other when its write fails; counters of three bits wrap within three
messages. In Config a field is given or missing in the nats
block, and given, zero or missing in each of two entries, which is every way of
inheriting it.

Deadlock is checked for Bridge, where a stopped bridge stutters explicitly in
`Finished`. It is off elsewhere, where a bounded instance ends when its
messages, requests, inputs or signals are used up.

## Fairness

Bridge: a goroutine that can go on does (weak fairness of each). Go's
`sync.Mutex` hands a lock to a waiter that starves, so steps that take a lock
are strongly fair. The environment has to help for anything to recover: a
cluster comes back; its client then reconnects or gives up; and a dial, a STAN
connect or a connector's Start that is tried again and again succeeds at last.
The code retries for ever with `reconnectinterval` in between, so this is the
weakest assumption under which its documentation ("restart automatically when
the cluster is reachable again") says something.

Consumer: every goroutine goes on; the choice among claims that compete for a
channel is strongly fair, as the queue of waiting senders of a Go channel is
first in, first out; a process that died is started again by its supervisor.
Writers: NATS redelivers what is not acknowledged (strong fairness of Deliver, for
each message), a message that can be serialized is at last, after a registry that
could not be reached (strong fairness of Write with `encoded`), Kafka comes back,
NewProducer succeeds at last, and callbacks, Shutdown and Start go on.

Monitoring: Start, Stop and the handlers go on. Nobody has to call Stop, and the
timeout of five seconds is not fair, so that StopReturns cannot lean on it.
Pipeline, Config and Main have safety properties only.

## Findings

Each is a run that TLC must find violated; `PROJECT.json` quotes the promise.

- `bridge_shared_cell`: a pass that redials a cell for one queued connector hides
  the outage from a check that comes later; the other connector of that cell
  keeps a subscription of the old connection.
- `bridge_listener_error`: the listener queues its embedded base, whose Start does
  nothing; the connector is never restarted.
- `consumer_publish_fails`: a failed publish leaves a claim waiting on the shared
  commit channel; it takes the next commit, reads on, and its message is skipped.
- `consumer_shutdown`: Close closes the channels under the claims.
- `main_reload`: SIGHUP starts a bridge that no later signal can stop.

More was met while modelling and is listed under the hazards, without a run of its
own; where a property has an exception or a premise, this is why:

- The reconnect map is keyed by a user-defined id, and of two connectors with one
  id only one is restarted (AllRecover and the proof of OutageIsNoticed have
  distinct ids).
- The base of a KafkaToStan connector, queued after an error of its listener, is
  taken off the queue while STAN is still missing: `requiresStan` is a type switch
  that does not know the base (the proof of OutageIsNoticed excludes it).
- A KafkaToStan listener may publish through a nil STAN connection between its
  loss and the shutdown of the connector, and ends the process; Consumer has it.
- The partitioner may pass over a partition with zero bytes (premise of
  LeastOnceAllUsed).
- The reader refuses three kinds of what the bridge itself writes: JSON that does
  not fit the schema, which the writer does not validate; a Protobuf message
  with no field set, whose encoding is empty; messages of a schema in which a part
  of the package is named like a message type (ReadsItsOwn).
- Order per entity ends with a failed write, whose message is delivered again behind
  later ones, and with a change of the number of partitions (EntityInOrder).
- A group that has committed nothing of a partition begins at its end at every
  session: what was written before, or between a crash or rebalance and the next
  session, is skipped (`from` in Consumer's properties).
- A write through a producer that Shutdown has closed may panic (Writers has it).
- A field of a cluster entry that is explicitly zero inherits like one that is not
  given, although `docs/config.md:205` says "when not set on a cluster entry"
  (EntriesAreComplete leaves the case out).
- Of the valid Protobuf paths of other writers, those with an index above the
  number of outermost types are refused (ReadsOtherTypes). An index that names no
  type and passes the check, a length of the path that is negative or too large to
  allocate, and a payload shorter than the header, panic; the run has all of them.
- The first `subject` header wins: a message that brings its own is keyed by it
  (premise of KeysTellEntitiesApart).
- A list of strings accepts numbers, although a string does not (LoadsWhatFits).
- SASL.TLS is read by the producer alone, and a key pair that does not load is as
  good as none (ClientsAgree).

## Proofs

Proofs are of `Spec`, for every value of the constants that the named assumptions
of the modules admit, with no use of fairness. Each inductive invariant has also
been checked with TLC on the instances of the runs.

### Bridge

From `BridgeAssumption` alone, for any clusters, connectors, ids and bounds.

`BridgeTypes`: `TypeCorrect` (TypeOK, with StartIsAlone: nobody has been called
back while Start is still dialing).

`BridgeProofs`: `BridgeInvariant` shows the inductive invariant `IInv`, a
conjunction of layers. None of the properties is inductive alone:

- `OneTimer` (OneTimerGoroutine). That no second timer is armed depends on
  `reconnectTimer` telling the truth. `TimerIsTracked` says so: while the bridge
  is not stopped, the number of armed, fired and running timers *is*
  `reconnectTimer`; once it is stopped at most one canceled or fired one is left
  and no pass runs.
- `NoLostWakeup` (WorkHasTimer). `WorkIsTracked` states it by `reconnectTimer`,
  which is what the code looks at; TimerIsTracked turns it into a goroutine.
- `FreshContext` (ContextOfCurrentConnection). `DialIsInPass`: only a pass dials,
  one cell at a time, and a cell that is being dialed has no context.
- `NoLeakedConnection` (OneOpenConnection). A connection that is closed stays
  closed (`ClosedStaysClosed`), and one is replaced only when closed.
- `QueuedHoldsNothing` (QueuedIsShutDown). `NotYetStarted`: a connector
  startConnectors has not reached holds nothing, and what a pass has still to
  restart is in the map.
- `QuietAfterStop` (StoppedIsQuiet). `StopIsFinal`: what each stage of Stop has
  done is not undone, since no pass runs once `reconnectStopped` is set
  (TimerIsTracked), no dial is under way (DialIsInPass), and the connections Stop
  drains are all the open ones (OneOpenConnection).

`OutageProofs`: `NoOutageUnnoticed` (OutageIsNoticed), for bridges with distinct
ids (`IdsAreDistinct`) in which no KafkaToStan listener reports an error
(`NoErrorOfStanReader`); without either it is false, as said above.
OutageIsNoticed speaks of moments at which the lock is free; to carry it over the
others, `EveryoneIsNoticed` says of each connector that the loop that starts or
checks the connectors has not reached it, or its requirements hold, or it is
queued, or a callback is due. That a redialed cell does not leave a connector
without its JetStream context needs `ContextIsReady`, and that a base in the map
stands for a listener `ReadersReport`. The lemmas StaysDue, StaysReady and
StaysQueued say which steps keep each of the alternatives, and ReachedIsNoticed
what a check does to the connector it reaches.

### Consumer

Under `~PublishMayFail`, since a publish that fails breaks OutstandingUntilCommitted
(`consumer_publish_fails`); for any partitions, messages, rebalances, panics and
restarts. `ConsumerInvariant` is TypeOK and `Positions`: from where the consumer
began, marks are behind what is published (`MarksArePublished`), and so is what a
claim has read before the message in its hand (`ClaimsArePublished`); nothing is
published that was not written (`PublishedExists`), without which a new beginning at
the end of a partition could lie below something published; claims exist only in a session;
while the listener publishes or commits, exactly the claim of its message awaits
(`OneAwaits`), which is why a commit on the shared channel cannot move another
partition; without a group the listener is one message ahead of what is published
(`PartitionIsRead`). From it: `TypeCorrect`, `CommitsDoNotStray`
(CommitReachesItsClaim), `AtLeastOnce` (OutstandingUntilCommitted), `InOrder`
(PublishedInOrder), and `ConsumerImplementsRelay` (ImplementsRelay), step by step
under the refinement mapping; a session that begins without a stored offset is the
relay's PassOver, which is open to it because nothing of that partition is released.

### Writers

From `WritersAssumption` and `NoCollision`: no two topics have the same hash, six
characters of a SHA-256. `WritersInvariant` is TypeOK with RightTopic,
AckedIsWritten and what they rest on: the producer cached under a key is of a
topic with that hash (`CacheIsKeyed`), the one a callback holds is of its
message's topic (`HeldFitsMessage`), and a callback about to acknowledge has
written (`AckIsDue`). From it: `TypeCorrect`, `NoMixUp`, `AtLeastOnce`,
`WritersImplementRelay`. For the last, a durable subscription passes over messages
at its first Start only; that nothing is acknowledged before is `NotStarted`, an
invariant of its own.

### Monitoring

`EveryAnswerListsAll` (VarzListsAll) for any connectors and any number of
concurrent requests. The handlers read without a lock, so the argument is one of
order: `ListBeforeHTTP` says that the list is complete before `http` is set and is
left alone afterwards, `HandlersFindAll` that a handler runs only while it is set.
`AverageIsTheMean` (AverageIsMean) for any samples: the new average, computed
from the old one and the count, times the count is the sum (lemma
`MeanOfOneMore`).

### Only model-checked

Liveness (AllRecover, AllDelivered, AllWritten, StopReturns), since the prover has
no fairness. What folds and recursion compute for every input, which needs
induction over data: SumsUpTheSamples, SnapshotsAreConsistent and VarzIsBetween,
and everything about Pipeline and Config; there TLC compares the code's algorithm
with a declarative definition on all bounded inputs. The violations.

## Not modelled

- Logging, which forwards to the NATS server's logger; the adapters for SCRAM and
  IAM tokens, of one to three methods around libraries; the mock registry of the
  tests; the performance programs. None keeps state of the bridge's.
- Topic administration (`manager.go`): only the tests and the performance programs
  make a manager.
- Of the parser: strict mode and the conf tag, which only tests use, fields of
  float and map kind, which the configuration does not have, and the lexer, which
  is the NATS server's. Of the histogram: Scale, which only tests call, and the
  rounding of float64.
- Destination templates: Writers has the topic a message is given, not the text
  template that computes it (`dest` returns the empty string when it fails).
- The conversion of `minbytes` and `maxbytes` from int64 to int32
  (`consumer.go:119`), which changes no decision of the bridge.
- What is left behind: the goroutine that calls Consume, which stays at its channel
  after Close (`consumer.go:167`), and the client of a consumer whose
  ConsumePartition fails (`consumer.go:178`). Nothing in the bridge sees either.
- Time: a timer may fire at any moment, a timeout run out at any moment.
