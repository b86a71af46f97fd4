------------------------------- MODULE Bridge -------------------------------
(***************************************************************************)
(* The bridge server: Start and Stop, one cell per NATS cluster, the NATS  *)
(* streaming connection, the connectors, and the reconnect machinery that  *)
(* ties them together (the reconnect map, the reconnect timer and the      *)
(* callbacks of the client libraries).  One action per critical section:   *)
(* "holder" says who owns the reconnectLock and how far the owner has got, *)
(* and ServerLocked says when Start or Stop owns the server's own mutex.   *)
(***************************************************************************)
EXTENDS Naturals, Sequences, FiniteSets

CONSTANTS
  Connectors,       \* the entries of the connect list
  Cells,            \* the NATS clusters, the default one included
  Default,          \* the cell of the nats block, "" in the code
  Cluster,          \* Cluster[c]: the cell connector c is bound to
  Kind,             \* Kind[c]: the type of connector c
  IdOf,             \* IdOf[c]: the id of connector c, the key of the reconnect map
  Durable,          \* the STANToKafka connectors with a durable name
  StanConfigured,   \* whether stan.clusterid is set
  MaxOutages,       \* bound: MaxOutages[k] outages of cluster k
  MaxStanLosses,    \* bound: STAN connections that are lost
  MaxErrors         \* bound: errors the Kafka listeners report

ToKafka == {"NATSToKafka", "JetStreamToKafka", "STANToKafka"}
FromKafka == {"KafkaToNATS", "KafkaToJetStream", "KafkaToStan"}
StanKinds == {"STANToKafka", "KafkaToStan"}
JetStreamKinds == {"JetStreamToKafka", "KafkaToJetStream"}

ASSUME BridgeAssumption ==
  /\ Default \in Cells
  /\ Cluster \in [Connectors -> Cells]
  /\ Kind \in [Connectors -> ToKafka \cup FromKafka]
  /\ IdOf \in [Connectors -> Nat]
  /\ Durable \subseteq {c \in Connectors : Kind[c] = "STANToKafka"}
  /\ \A c \in Connectors : Kind[c] \in StanKinds => Cluster[c] = Default
  /\ StanConfigured \in BOOLEAN
  /\ MaxOutages \in [Cells -> Nat] /\ MaxStanLosses \in Nat /\ MaxErrors \in Nat

VARIABLES
  phase,            \* where the goroutine that runs Start, then Stop, is
  running,          \* server.running
  stopRequested,    \* a signal or natsClosed has called Stop
  toStart,          \* connectors startConnectors has not reached yet
  up,               \* up[k]: cluster k can be reached
  outages,          \* outages[k]: outages of cluster k so far
  conns,            \* conns[k]: every client connection dialed for cell k, in order
  nc,               \* nc[k]: the index in conns[k] of cell.nc, 0 for nil
  js,               \* js[k]: the index of the connection cell.js was made from, 0 for nil
  stan,             \* the number of the connection server.stan holds, 0 for nil
  stanGen,          \* STAN connections made so far
  stanState,        \* of the last one: "none", "alive", or "lost" with its callback due
  sub,              \* sub[c]: what the connector's subscription or reader is bound to, 0 for nil
  listening,        \* listening[c]: the listener goroutine of a Kafka reader is alive
  reconnect,        \* the reconnect map, as the set of its values
  reconnectTimer,   \* whether server.reconnectTimer is set
  timers,           \* how many timer goroutines are armed, canceled, or fired and waiting for the lock
  reconnectStopped, \* server.reconnectStopped
  holder,           \* the owner of the reconnectLock
  checkTodo,        \* connectors the owner has still to check
  dialTodo,         \* cells the owner has still to redial
  dialing,          \* the cell whose dial is under way, as a set
  dialFailed,       \* cells whose redial returned an error in this pass
  startTodo,        \* entries the owner has still to restart
  wantCheck,        \* goroutines that are about to call checkConnections
  checkers,         \* goroutines past checkRunning that wait for the lock in checkConnections
  errNew,           \* errNew[c]: ConnectorError goroutines of c not yet past checkRunning
  errWaiting,       \* errWaiting[c]: those that wait for the lock
  errCount          \* listener errors so far

mainVars == <<phase, running, stopRequested, toStart>>
cellVars == <<up, outages, conns, nc, js>>
stanVars == <<stan, stanGen, stanState>>
connVars == <<sub, listening>>
queueVars == <<reconnect, reconnectTimer, timers, reconnectStopped>>
lockVars == <<holder, checkTodo, dialTodo, dialing, dialFailed, startTodo>>
checkVars == <<wantCheck, checkers>>
errVars == <<errNew, errWaiting, errCount>>
vars == <<mainVars, cellVars, stanVars, connVars, queueVars, lockVars, checkVars, errVars>>

\* The values of the reconnect map: a connector, or (base) the BridgeConnector
\* embedded in it, which shares its id and whose Start and Shutdown do nothing.
Entries == [conn : Connectors, base : BOOLEAN]
Self(c) == [conn |-> c, base |-> FALSE]
Base(c) == [conn |-> c, base |-> TRUE]
EntryId(e) == IdOf[e.conn]

\* server.reconnect[c.ID()] is present.
Queued(c) == \E e \in reconnect : EntryId(e) = IdOf[c]

\* server.reconnect[e.ID()] = e
Put(e) == {q \in reconnect : EntryId(q) # EntryId(e)} \cup {e}

-----------------------------------------------------------------------------
(* The cells.                                                              *)

Statuses == {"connected", "reconnecting", "closed"}
NewConn == [status |-> "connected", disconnects |-> 0, closed |-> FALSE]

isConnected(k) == nc[k] # 0 /\ conns[k][nc[k]].status = "connected"
\* Mutant of IsClosed: a client that is reconnecting is taken for a closed one.
IsClosedOrReconnecting(k) == nc[k] # 0 /\ conns[k][nc[k]].status # "connected"

IsClosed(k) == nc[k] # 0 /\ conns[k][nc[k]].status = "closed"

CheckNATSFor(k) == isConnected(k)
CheckJetStreamFor(k) == isConnected(k) /\ js[k] # 0
CheckStan == ~(nc[Default] # 0 /\ ~isConnected(Default)) /\ stan # 0

cellHasJetStream(k) == \E c \in Connectors : Cluster[c] = k /\ Kind[c] \in JetStreamKinds

-----------------------------------------------------------------------------
(* The connector types: what CheckConnections and Start require, and what  *)
(* a successful Start binds the connector to.                              *)

Reader == 1

NATS2Kafka(c) == [ready |-> CheckNATSFor(Cluster[c]), handle |-> nc[Cluster[c]]]
JetStream2Kafka(c) == [ready |-> CheckJetStreamFor(Cluster[c]), handle |-> js[Cluster[c]]]
Stan2Kafka(c) == [ready |-> CheckStan, handle |-> stan]
Kafka2NATS(c) == [ready |-> CheckNATSFor(Cluster[c]), handle |-> Reader]
Kafka2JetStream(c) == [ready |-> CheckJetStreamFor(Cluster[c]), handle |-> Reader]
Kafka2Stan(c) == [ready |-> CheckStan, handle |-> Reader]

CreateConnector(c) ==
  CASE Kind[c] = "NATSToKafka" -> NATS2Kafka(c)
    [] Kind[c] = "JetStreamToKafka" -> JetStream2Kafka(c)
    [] Kind[c] = "STANToKafka" -> Stan2Kafka(c)
    [] Kind[c] = "KafkaToNATS" -> Kafka2NATS(c)
    [] Kind[c] = "KafkaToJetStream" -> Kafka2JetStream(c)
    [] Kind[c] = "KafkaToStan" -> Kafka2Stan(c)

CheckConnections(c) == CreateConnector(c).ready

\* The effect of a Start that returns nil.
ConnectorStart(c) ==
  /\ CheckConnections(c)
  /\ sub' = [sub EXCEPT ![c] = CreateConnector(c).handle]
  /\ listening' = [listening EXCEPT ![c] = Kind[c] \in FromKafka]

\* Shutdown leaves the subscription of a durable STANToKafka connector alone.
ConnectorShutdown(S) ==
  /\ sub' = [c \in Connectors |-> IF c \in S \ Durable THEN 0 ELSE sub[c]]
  /\ listening' = [c \in Connectors |-> listening[c] /\ c \notin S]

-----------------------------------------------------------------------------
(* The reconnect timer.                                                    *)

\* Mutant of ensureReconnectTimer: the timer that is set is not looked at.
ensureAnotherTimer(set) ==
  IF reconnectStopped
  THEN reconnectTimer' = set /\ UNCHANGED timers
  ELSE reconnectTimer' = TRUE /\ timers' = [timers EXCEPT !.armed = @ + 1]

\* Part of an action that ends with ensureReconnectTimer: set says whether
\* server.reconnectTimer is set when it is called.
ensureReconnectTimer(set) ==
  IF set \/ reconnectStopped
  THEN reconnectTimer' = set /\ UNCHANGED timers
  ELSE reconnectTimer' = TRUE /\ timers' = [timers EXCEPT !.armed = @ + 1]

\* time.After: the goroutine has its true and goes for the lock.
TimerFires ==
  /\ timers.armed > 0
  /\ timers' = [timers EXCEPT !.armed = @ - 1, !.fired = @ + 1]
  /\ UNCHANGED <<mainVars, cellVars, stanVars, connVars, reconnect, reconnectTimer,
                 reconnectStopped, lockVars, checkVars, errVars>>

\* The cancel channel is closed.  The select may still take a timeout that
\* is ready as well.
TimerCanceled ==
  /\ timers.canceled > 0
  /\ \/ timers' = [timers EXCEPT !.canceled = @ - 1]
     \/ timers' = [timers EXCEPT !.canceled = @ - 1, !.fired = @ + 1]
  /\ UNCHANGED <<mainVars, cellVars, stanVars, connVars, reconnect, reconnectTimer,
                 reconnectStopped, lockVars, checkVars, errVars>>

\* Mutant of PassBegin: reconnectStopped is not looked at under the lock.
PassBeginStopped ==
  /\ timers.fired > 0
  /\ holder = "free"
  /\ timers' = [timers EXCEPT !.fired = @ - 1]
  /\ holder' = "stan" /\ UNCHANGED reconnectTimer
  /\ UNCHANGED <<mainVars, cellVars, stanVars, connVars, reconnect, reconnectStopped,
                 checkTodo, dialTodo, dialing, dialFailed, startTodo, checkVars, errVars>>

\* The timer goroutine takes the lock.
PassBegin ==
  /\ timers.fired > 0
  /\ holder = "free"
  /\ timers' = [timers EXCEPT !.fired = @ - 1]
  /\ IF reconnectStopped
     THEN reconnectTimer' = FALSE /\ UNCHANGED holder
     ELSE holder' = "stan" /\ UNCHANGED reconnectTimer
  /\ UNCHANGED <<mainVars, cellVars, stanVars, connVars, reconnect, reconnectStopped,
                 checkTodo, dialTodo, dialing, dialFailed, startTodo, checkVars, errVars>>

\* connectToSTAN: a no-op when connected or not configured; ok is whether it
\* returns nil.
connectToSTAN(ok) ==
  IF stan # 0 \/ ~StanConfigured
  THEN ok /\ UNCHANGED stanVars
  ELSE IF ok
       THEN /\ isConnected(Default)
            /\ stanGen' = stanGen + 1
            /\ stan' = stanGen + 1
            /\ stanState' = "alive"
       ELSE UNCHANGED stanVars

\* The pass tries STAN, then collects the clusters of the queue.
PassStan(ok) ==
  /\ holder = "stan"
  /\ IF stan = 0 /\ CheckNATSFor(Default)
     THEN connectToSTAN(ok)
     ELSE ok /\ UNCHANGED stanVars
  /\ holder' = "redial"
  /\ dialTodo' = {Cluster[e.conn] : e \in reconnect}
  /\ dialFailed' = {}
  /\ UNCHANGED <<mainVars, cellVars, connVars, queueVars, checkTodo, dialing, startTodo,
                 checkVars, errVars>>

\* Mutant of PassRedial: the cells are dialed concurrently.
PassRedialConcurrently(k) ==
  /\ holder = "redial"
  /\ k \in dialTodo
  /\ IF nc[k] = 0 \/ IsClosed(k)
     THEN /\ js' = [js EXCEPT ![k] = 0]
          /\ dialing' = dialing \cup {k}
          /\ UNCHANGED dialTodo
     ELSE /\ js' = [js EXCEPT ![k] = IF @ = 0 /\ cellHasJetStream(k) THEN nc[k] ELSE @]
          /\ dialTodo' = dialTodo \ {k}
          /\ UNCHANGED dialing
  /\ UNCHANGED <<mainVars, up, outages, conns, nc, stanVars, connVars, queueVars, holder,
                 checkTodo, dialFailed, startTodo, checkVars, errVars>>

\* Mutant of PassRedial: only a cell that was never connected is dialed.
PassRedialUnconnected(k) ==
  /\ holder = "redial" /\ dialing = {}
  /\ k \in dialTodo
  /\ IF nc[k] = 0
     THEN /\ js' = [js EXCEPT ![k] = 0]
          /\ dialing' = {k}
          /\ UNCHANGED dialTodo
     ELSE /\ js' = [js EXCEPT ![k] = IF @ = 0 /\ cellHasJetStream(k) THEN nc[k] ELSE @]
          /\ dialTodo' = dialTodo \ {k}
          /\ UNCHANGED dialing
  /\ UNCHANGED <<mainVars, up, outages, conns, nc, stanVars, connVars, queueVars, holder,
                 checkTodo, dialFailed, startTodo, checkVars, errVars>>

\* redialCell up to its dial: whether to dial is decided under the natsLock.
PassRedial(k) ==
  /\ holder = "redial" /\ dialing = {}
  /\ k \in dialTodo
  /\ IF nc[k] = 0 \/ IsClosed(k)
     THEN /\ js' = [js EXCEPT ![k] = 0]
          /\ dialing' = {k}
          /\ UNCHANGED dialTodo
     ELSE /\ js' = [js EXCEPT ![k] = IF @ = 0 /\ cellHasJetStream(k) THEN nc[k] ELSE @]
          /\ dialTodo' = dialTodo \ {k}
          /\ UNCHANGED dialing
  /\ UNCHANGED <<mainVars, up, outages, conns, nc, stanVars, connVars, queueVars, holder,
                 checkTodo, dialFailed, startTodo, checkVars, errVars>>

\* Mutant of PassDial: the context is made before the new connection is stored.
PassDialOldContext(k) ==
  /\ k \in dialing /\ up[k]
  /\ IF nc[k] # 0 /\ ~IsClosed(k)
     THEN /\ conns' = [conns EXCEPT ![k] = Append(@, [NewConn EXCEPT !.status = "closed"])]
          /\ UNCHANGED <<nc, js>>
     ELSE /\ conns' = [conns EXCEPT ![k] = Append(@, NewConn)]
          /\ nc' = [nc EXCEPT ![k] = Len(conns[k]) + 1]
          /\ js' = [js EXCEPT ![k] = IF cellHasJetStream(k) THEN nc[k] ELSE @]
  /\ dialing' = {} /\ dialTodo' = dialTodo \ {k}
  /\ UNCHANGED <<mainVars, up, outages, stanVars, connVars, queueVars, holder, checkTodo,
                 dialFailed, startTodo, checkVars, errVars>>

\* The dial outside the natsLock succeeds, and the new connection is stored and
\* its JetStream context made.  A connection somebody else has established
\* meanwhile is kept and the new one closed.
PassDial(k) ==
  /\ k \in dialing /\ up[k]
  /\ IF nc[k] # 0 /\ ~IsClosed(k)
     THEN /\ conns' = [conns EXCEPT ![k] = Append(@, [NewConn EXCEPT !.status = "closed"])]
          /\ UNCHANGED <<nc, js>>
     ELSE /\ conns' = [conns EXCEPT ![k] = Append(@, NewConn)]
          /\ nc' = [nc EXCEPT ![k] = Len(conns[k]) + 1]
          /\ js' = [js EXCEPT ![k] = IF cellHasJetStream(k) THEN Len(conns[k]) + 1 ELSE @]
  /\ dialing' = {} /\ dialTodo' = dialTodo \ {k}
  /\ UNCHANGED <<mainVars, up, outages, stanVars, connVars, queueVars, holder, checkTodo,
                 dialFailed, startTodo, checkVars, errVars>>

\* The dial returns an error, always when the cluster is down.
PassDialError(k) ==
  /\ k \in dialing
  /\ dialing' = {} /\ dialTodo' = dialTodo \ {k}
  /\ dialFailed' = dialFailed \cup {k}
  /\ UNCHANGED <<mainVars, cellVars, stanVars, connVars, queueVars, holder, checkTodo,
                 startTodo, checkVars, errVars>>

PassRedialed ==
  /\ holder = "redial" /\ dialTodo = {}
  /\ holder' = "restart"
  /\ startTodo' = reconnect
  /\ UNCHANGED <<mainVars, cellVars, stanVars, connVars, queueVars, checkTodo, dialTodo,
                 dialing, dialFailed, checkVars, errVars>>

\* The gates of the restart loop.
Restartable(e) ==
  /\ Cluster[e.conn] \notin dialFailed
  /\ CheckNATSFor(Cluster[e.conn])
  /\ (~e.base /\ Kind[e.conn] \in StanKinds) => CheckStan

\* One round of the restart loop; ok is whether the entry is started.
PassRestart(e, ok) ==
  /\ holder = "restart" /\ e \in startTodo
  /\ startTodo' = startTodo \ {e}
  /\ IF ok
     THEN /\ Restartable(e)
          /\ IF e.base THEN UNCHANGED connVars ELSE ConnectorStart(e.conn)
          /\ reconnect' = reconnect \ {e}
     ELSE /\ ~(e.base /\ Restartable(e))
          /\ UNCHANGED <<connVars, reconnect>>
  /\ UNCHANGED <<mainVars, cellVars, stanVars, reconnectTimer, timers, reconnectStopped, holder,
                 checkTodo, dialTodo, dialing, dialFailed, checkVars, errVars>>

\* Mutant of PassEnd: no new timer is armed.
PassEndForGood ==
  /\ holder = "restart" /\ startTodo = {}
  /\ reconnectTimer' = FALSE /\ UNCHANGED timers
  /\ holder' = "free"
  /\ UNCHANGED <<mainVars, cellVars, stanVars, connVars, reconnect, reconnectStopped, checkTodo,
                 dialTodo, dialing, dialFailed, startTodo, checkVars, errVars>>

\* The pass clears the timer, arms a new one if there is work left, and
\* releases the lock.
PassEnd ==
  /\ holder = "restart" /\ startTodo = {}
  /\ IF reconnect # {} \/ (StanConfigured /\ stan = 0)
     THEN ensureReconnectTimer(FALSE)
     ELSE reconnectTimer' = FALSE /\ UNCHANGED timers
  /\ holder' = "free"
  /\ UNCHANGED <<mainVars, cellVars, stanVars, connVars, reconnect, reconnectStopped, checkTodo,
                 dialTodo, dialing, dialFailed, startTodo, checkVars, errVars>>

-----------------------------------------------------------------------------
(* The callbacks of the clients, checkConnections and ConnectorError.      *)

\* Start and Stop hold the server's mutex from their first line to their last.
ServerLocked == phase \in {"nats", "stan", "jetstream", "connectors", "stopTimer", "shutdown", "drain"}

\* Mutant of natsDisconnected: it only logs, as natsReconnected does.
natsDisconnectedLogs(k, g) ==
  /\ ~ServerLocked
  /\ conns[k][g].disconnects > 0
  /\ conns' = [conns EXCEPT ![k][g].disconnects = @ - 1]
  /\ UNCHANGED <<mainVars, up, outages, nc, js, stanVars, connVars, queueVars, lockVars,
                 checkVars, errVars>>

\* The client of connection g delivers a disconnect: natsDisconnected.
natsDisconnected(k, g) ==
  /\ ~ServerLocked
  /\ conns[k][g].disconnects > 0
  /\ conns' = [conns EXCEPT ![k][g].disconnects = @ - 1]
  /\ wantCheck' = IF running THEN wantCheck + 1 ELSE wantCheck
  /\ UNCHANGED <<mainVars, up, outages, nc, js, stanVars, connVars, queueVars, lockVars,
                 checkers, errVars>>

\* The client of connection g delivers, after all its disconnects, that the
\* connection is closed: natsClosed.
natsClosed(k, g) ==
  /\ ~ServerLocked
  /\ conns[k][g].closed /\ conns[k][g].disconnects = 0
  /\ conns' = [conns EXCEPT ![k][g].closed = FALSE]
  /\ stopRequested' = (stopRequested \/ (running /\ k = Default))
  /\ wantCheck' = IF running /\ k # Default THEN wantCheck + 1 ELSE wantCheck
  /\ UNCHANGED <<phase, running, toStart, up, outages, nc, js, stanVars, connVars, queueVars,
                 lockVars, checkers, errVars>>

\* Mutant of stanConnectionLost: the connectors are not checked.
stanConnectionLostUnchecked ==
  /\ ~ServerLocked
  /\ stanState = "lost"
  /\ stanState' = "none"
  /\ stan' = IF running THEN 0 ELSE stan
  /\ UNCHANGED <<mainVars, cellVars, stanGen, connVars, queueVars, lockVars, checkVars, errVars>>

stanConnectionLost ==
  /\ ~ServerLocked
  /\ stanState = "lost"
  /\ stanState' = "none"
  /\ IF running
     THEN stan' = 0 /\ wantCheck' = wantCheck + 1
     ELSE UNCHANGED <<stan, wantCheck>>
  /\ UNCHANGED <<mainVars, cellVars, stanGen, connVars, queueVars, lockVars, checkers, errVars>>

\* checkConnections: checkRunning, then the lock, then one round per connector.
CheckEnter ==
  /\ ~ServerLocked
  /\ wantCheck > 0
  /\ wantCheck' = wantCheck - 1
  /\ checkers' = IF running THEN checkers + 1 ELSE checkers
  /\ UNCHANGED <<mainVars, cellVars, stanVars, connVars, queueVars, lockVars, errVars>>

CheckBegin ==
  /\ holder = "free" /\ checkers > 0
  /\ checkers' = checkers - 1
  /\ holder' = "check"
  /\ checkTodo' = Connectors
  /\ UNCHANGED <<mainVars, cellVars, stanVars, connVars, queueVars, dialTodo, dialing, dialFailed,
                 startTodo, wantCheck, errVars>>

\* Mutant of CheckOne: the connector is queued without a Shutdown.
CheckOneNoShutdown(c) ==
  /\ holder = "check" /\ c \in checkTodo
  /\ checkTodo' = checkTodo \ {c}
  /\ reconnect' = IF Queued(c) \/ CheckConnections(c) THEN reconnect ELSE Put(Self(c))
  /\ UNCHANGED <<mainVars, cellVars, stanVars, connVars, reconnectTimer, timers, reconnectStopped,
                 holder, dialTodo, dialing, dialFailed, startTodo, checkVars, errVars>>

CheckOne(c) ==
  /\ holder = "check" /\ c \in checkTodo
  /\ checkTodo' = checkTodo \ {c}
  /\ IF Queued(c) \/ CheckConnections(c)
     THEN UNCHANGED <<connVars, reconnect>>
     ELSE ConnectorShutdown({c}) /\ reconnect' = Put(Self(c))
  /\ UNCHANGED <<mainVars, cellVars, stanVars, reconnectTimer, timers, reconnectStopped, holder,
                 dialTodo, dialing, dialFailed, startTodo, checkVars, errVars>>

CheckEnd ==
  /\ holder = "check" /\ checkTodo = {}
  /\ ensureReconnectTimer(reconnectTimer)
  /\ holder' = "free"
  /\ UNCHANGED <<mainVars, cellVars, stanVars, connVars, reconnect, reconnectStopped, checkTodo,
                 dialTodo, dialing, dialFailed, startTodo, checkVars, errVars>>

\* A listener's Fetch returns an error: the listener reports it from a new
\* goroutine and returns.
ListenerFetchError(c) ==
  /\ listening[c] /\ errCount < MaxErrors
  /\ listening' = [listening EXCEPT ![c] = FALSE]
  /\ errNew' = [errNew EXCEPT ![c] = @ + 1]
  /\ errCount' = errCount + 1
  /\ UNCHANGED <<mainVars, cellVars, stanVars, sub, queueVars, lockVars, checkVars, errWaiting>>

\* A listener's Commit returns an error: it reports it and goes on.
ListenerCommitError(c) ==
  /\ listening[c] /\ errCount < MaxErrors
  /\ errNew' = [errNew EXCEPT ![c] = @ + 1]
  /\ errCount' = errCount + 1
  /\ UNCHANGED <<mainVars, cellVars, stanVars, connVars, queueVars, lockVars, checkVars,
                 errWaiting>>

\* ConnectorError: checkRunning, then the lock.
ConnectorErrorEnter(c) ==
  /\ ~ServerLocked
  /\ errNew[c] > 0
  /\ errNew' = [errNew EXCEPT ![c] = @ - 1]
  /\ errWaiting' = IF running THEN [errWaiting EXCEPT ![c] = @ + 1] ELSE errWaiting
  /\ UNCHANGED <<mainVars, cellVars, stanVars, connVars, queueVars, lockVars, checkVars, errCount>>

\* What setUpListener passes to ConnectorError: its receiver, the embedded
\* BridgeConnector, whose Shutdown is a no-op.
ConnectorError(c) ==
  /\ holder = "free" /\ errWaiting[c] > 0
  /\ errWaiting' = [errWaiting EXCEPT ![c] = @ - 1]
  /\ IF Queued(c)
     THEN UNCHANGED <<reconnect, reconnectTimer, timers>>
     ELSE /\ reconnect' = Put(Base(c))
          /\ ensureReconnectTimer(reconnectTimer)
  /\ UNCHANGED <<mainVars, cellVars, stanVars, connVars, reconnectStopped, lockVars, checkVars,
                 errNew, errCount>>

-----------------------------------------------------------------------------
(* The clusters, the clients and the signals.                              *)

\* Every connected client of the cluster notices that it is gone.
ClusterDown(k) ==
  /\ up[k] /\ outages[k] < MaxOutages[k]
  /\ up' = [up EXCEPT ![k] = FALSE]
  /\ outages' = [outages EXCEPT ![k] = @ + 1]
  /\ conns' = [conns EXCEPT ![k] = [g \in 1..Len(conns[k]) |->
       IF conns[k][g].status = "connected"
       THEN [conns[k][g] EXCEPT !.status = "reconnecting", !.disconnects = @ + 1]
       ELSE conns[k][g]]]
  /\ UNCHANGED <<mainVars, nc, js, stanVars, connVars, queueVars, lockVars, checkVars, errVars>>

ClusterUp(k) ==
  /\ ~up[k]
  /\ up' = [up EXCEPT ![k] = TRUE]
  /\ UNCHANGED <<mainVars, outages, conns, nc, js, stanVars, connVars, queueVars, lockVars,
                 checkVars, errVars>>

\* The client reconnects by itself; natsReconnected only logs.
ClientReconnects(k, g) ==
  /\ up[k] /\ conns[k][g].status = "reconnecting"
  /\ conns' = [conns EXCEPT ![k][g].status = "connected"]
  /\ UNCHANGED <<mainVars, up, outages, nc, js, stanVars, connVars, queueVars, lockVars,
                 checkVars, errVars>>

\* The client has used up its maxreconnects, and will call natsClosed.
ClientGivesUp(k, g) ==
  /\ conns[k][g].status = "reconnecting"
  /\ conns' = [conns EXCEPT ![k][g].status = "closed", ![k][g].closed = TRUE]
  /\ UNCHANGED <<mainVars, up, outages, nc, js, stanVars, connVars, queueVars, lockVars,
                 checkVars, errVars>>

StanLost ==
  /\ stanState = "alive" /\ stanGen <= MaxStanLosses
  /\ stanState' = "lost"
  /\ UNCHANGED <<mainVars, cellVars, stan, stanGen, connVars, queueVars, lockVars, checkVars,
                 errVars>>

\* SIGINT or SIGHUP: main calls Stop.
Signal ==
  /\ phase = "up" /\ ~stopRequested
  /\ stopRequested' = TRUE
  /\ UNCHANGED <<phase, running, toStart, cellVars, stanVars, connVars, queueVars, lockVars,
                 checkVars, errVars>>

-----------------------------------------------------------------------------
(* Start and Stop.                                                         *)

Start ==
  /\ phase = "new"
  /\ phase' = "nats"
  /\ running' = TRUE
  /\ reconnect' = {} /\ reconnectStopped' = FALSE
  /\ UNCHANGED <<stopRequested, toStart, cellVars, stanVars, connVars, reconnectTimer, timers,
                 lockVars, checkVars, errVars>>

\* The cells of D are dialed successfully; the default cell has to be one.
connectToNATS(D) ==
  /\ phase = "nats"
  /\ \A k \in D : up[k]
  /\ conns' = [k \in Cells |-> IF k \in D THEN <<NewConn>> ELSE <<>>]
  /\ nc' = [k \in Cells |-> IF k \in D THEN 1 ELSE 0]
  /\ phase' = IF Default \in D THEN "stan" ELSE "failed"
  /\ UNCHANGED <<running, stopRequested, toStart, up, outages, js, stanVars, connVars, queueVars,
                 lockVars, checkVars, errVars>>

StartSTAN(ok) ==
  /\ phase = "stan"
  /\ connectToSTAN(ok)
  /\ phase' = IF ok THEN "jetstream" ELSE "failed"
  /\ UNCHANGED <<running, stopRequested, toStart, cellVars, connVars, queueVars, lockVars,
                 checkVars, errVars>>

\* The context of a cell is derived from its connection, if it has one.
connectToJetStream ==
  /\ phase = "jetstream"
  /\ js' = [k \in Cells |-> IF cellHasJetStream(k) /\ js[k] = 0 THEN nc[k] ELSE js[k]]
  /\ phase' = "connectors"
  /\ toStart' = Connectors
  /\ UNCHANGED <<running, stopRequested, up, outages, conns, nc, stanVars, connVars, queueVars,
                 lockVars, checkVars, errVars>>

\* One round of startConnectors; ok is whether the connector starts.
startConnector(c, ok) ==
  /\ phase = "connectors" /\ c \in toStart
  /\ toStart' = toStart \ {c}
  /\ \/ /\ ok /\ ConnectorStart(c)
        /\ UNCHANGED <<phase, reconnect, reconnectTimer, timers>>
     \/ /\ ~ok /\ Cluster[c] # Default
        /\ holder = "free"
        /\ reconnect' = Put(Self(c))
        /\ ensureReconnectTimer(reconnectTimer)
        /\ UNCHANGED <<phase, connVars>>
     \/ /\ ~ok /\ Cluster[c] = Default
        /\ phase' = "failed"
        /\ UNCHANGED <<connVars, reconnect, reconnectTimer, timers>>
  /\ UNCHANGED <<running, stopRequested, cellVars, stanVars, reconnectStopped, lockVars,
                 checkVars, errVars>>

\* startMonitoring is the last thing that can fail.
StartReturns(ok) ==
  /\ phase = "connectors" /\ toStart = {}
  /\ phase' = IF ok THEN "up" ELSE "failed"
  /\ UNCHANGED <<running, stopRequested, toStart, cellVars, stanVars, connVars, queueVars,
                 lockVars, checkVars, errVars>>

\* Stop, called by main after a failed Start, or as requested.
Stop ==
  /\ phase = "failed" \/ (phase = "up" /\ stopRequested)
  /\ phase' = "stopTimer"
  /\ running' = FALSE
  /\ UNCHANGED <<stopRequested, toStart, cellVars, stanVars, connVars, queueVars, lockVars,
                 checkVars, errVars>>

stopReconnectTimer ==
  /\ phase = "stopTimer" /\ holder = "free"
  /\ phase' = "shutdown"
  /\ timers' = IF reconnectTimer
               THEN [timers EXCEPT !.armed = 0, !.canceled = @ + timers.armed]
               ELSE timers
  /\ reconnectTimer' = FALSE
  /\ reconnectStopped' = TRUE
  /\ UNCHANGED <<running, stopRequested, toStart, cellVars, stanVars, connVars, reconnect,
                 lockVars, checkVars, errVars>>

\* Stop clears the map without the reconnectLock and shuts every connector down.
StopConnectors ==
  /\ phase = "shutdown"
  /\ phase' = "drain"
  /\ reconnect' = {}
  /\ ConnectorShutdown(Connectors)
  /\ UNCHANGED <<running, stopRequested, toStart, cellVars, stanVars, reconnectTimer, timers,
                 reconnectStopped, lockVars, checkVars, errVars>>

\* Mutant of StopConnections: the STAN connection is left open.
StopNATSConnections ==
  /\ phase = "drain"
  /\ phase' = "stopped"
  /\ conns' = [k \in Cells |-> [g \in 1..Len(conns[k]) |->
       IF g = nc[k] THEN [conns[k][g] EXCEPT !.status = "closed"] ELSE conns[k][g]]]
  /\ UNCHANGED <<running, stopRequested, toStart, up, outages, nc, js, stanVars, connVars,
                 queueVars, lockVars, checkVars, errVars>>

\* STAN is closed, then the connection of every cell; the clients make no
\* callback for a close the bridge asked for.
StopConnections ==
  /\ phase = "drain"
  /\ phase' = "stopped"
  /\ stanState' = IF stan # 0 /\ stanState = "alive" THEN "none" ELSE stanState
  /\ conns' = [k \in Cells |-> [g \in 1..Len(conns[k]) |->
       IF g = nc[k] THEN [conns[k][g] EXCEPT !.status = "closed"] ELSE conns[k][g]]]
  /\ UNCHANGED <<running, stopRequested, toStart, up, outages, nc, js, stan, stanGen, connVars,
                 queueVars, lockVars, checkVars, errVars>>

Finished ==
  /\ phase = "stopped"
  /\ UNCHANGED vars

-----------------------------------------------------------------------------
Init ==
  /\ phase = "new" /\ running = FALSE /\ stopRequested = FALSE /\ toStart = {}
  /\ up \in [Cells -> BOOLEAN]
  /\ outages = [k \in Cells |-> 0]
  /\ conns = [k \in Cells |-> <<>>]
  /\ nc = [k \in Cells |-> 0] /\ js = [k \in Cells |-> 0]
  /\ stan = 0 /\ stanGen = 0 /\ stanState = "none"
  /\ sub = [c \in Connectors |-> 0] /\ listening = [c \in Connectors |-> FALSE]
  /\ reconnect = {} /\ reconnectTimer = FALSE /\ reconnectStopped = FALSE
  /\ timers = [armed |-> 0, canceled |-> 0, fired |-> 0]
  /\ holder = "free" /\ checkTodo = {} /\ dialTodo = {} /\ dialing = {} /\ dialFailed = {}
  /\ startTodo = {}
  /\ wantCheck = 0 /\ checkers = 0
  /\ errNew = [c \in Connectors |-> 0] /\ errWaiting = [c \in Connectors |-> 0]
  /\ errCount = 0

StartStep ==
  \/ Start
  \/ \E D \in SUBSET Cells : connectToNATS(D)
  \/ \E ok \in BOOLEAN : StartSTAN(ok)
  \/ connectToJetStream
  \/ \E c \in Connectors, ok \in BOOLEAN : startConnector(c, ok)
  \/ \E ok \in BOOLEAN : StartReturns(ok)

StopStep == Stop \/ stopReconnectTimer \/ StopConnectors \/ StopConnections

\* The steps of the goroutine that owns the reconnectLock.
OwnerStep ==
  \/ \E ok \in BOOLEAN : PassStan(ok)
  \/ \E k \in Cells : PassRedial(k) \/ PassDial(k) \/ PassDialError(k)
  \/ PassRedialed
  \/ \E e \in Entries, ok \in BOOLEAN : PassRestart(e, ok)
  \/ PassEnd
  \/ \E c \in Connectors : CheckOne(c)
  \/ CheckEnd

TimerStep == TimerFires \/ TimerCanceled \/ PassBegin

CallbackStep ==
  \/ \E k \in Cells : \E g \in 1..Len(conns[k]) : natsDisconnected(k, g) \/ natsClosed(k, g)
  \/ stanConnectionLost
  \/ CheckEnter \/ CheckBegin

ErrorStep ==
  \E c \in Connectors :
    \/ ListenerFetchError(c) \/ ListenerCommitError(c)
    \/ ConnectorErrorEnter(c) \/ ConnectorError(c)

EnvironmentStep ==
  \/ \E k \in Cells : ClusterDown(k) \/ ClusterUp(k)
  \/ \E k \in Cells : \E g \in 1..Len(conns[k]) : ClientReconnects(k, g) \/ ClientGivesUp(k, g)
  \/ StanLost
  \/ Signal

Next ==
  \/ StartStep \/ StopStep \/ OwnerStep \/ TimerStep \/ CallbackStep \/ ErrorStep
  \/ EnvironmentStep
  \/ Finished

Spec == Init /\ [][Next]_vars

-----------------------------------------------------------------------------
(* Fairness.  The steps of a goroutine that is not blocked are taken; a    *)
(* sync.Mutex does not starve a goroutine that waits for it, so taking a   *)
(* lock is strongly fair.  An unreachable cluster comes back, its client   *)
(* then reconnects or gives up, and a dial, a STAN connect or a connector  *)
(* Start that is tried again and again succeeds at last.                   *)

Fairness ==
  /\ WF_vars(StartStep)
  /\ SF_vars(StopStep)
  /\ WF_vars(OwnerStep)
  /\ WF_vars(TimerFires)
  /\ SF_vars(PassBegin)
  /\ SF_vars(CheckBegin)
  /\ WF_vars(CheckEnter)
  /\ WF_vars(stanConnectionLost)
  /\ WF_vars(\E k \in Cells : \E g \in 1..Len(conns[k]) :
               natsDisconnected(k, g) \/ natsClosed(k, g))
  /\ WF_vars(\E k \in Cells : \E g \in 1..Len(conns[k]) :
               ClientReconnects(k, g) \/ (up[k] /\ ClientGivesUp(k, g)))
  /\ \A c \in Connectors : /\ WF_vars(ConnectorErrorEnter(c))
                           /\ SF_vars(ConnectorError(c))
                           /\ SF_vars(PassRestart(Self(c), TRUE))
  /\ \A k \in Cells : /\ WF_vars(ClusterUp(k))
                      /\ SF_vars(PassDial(k))
  /\ SF_vars(PassStan(TRUE))

FairSpec == Spec /\ Fairness

-----------------------------------------------------------------------------
(* Properties.                                                             *)

Phases == {"new", "nats", "stan", "jetstream", "connectors", "up", "failed", "stopTimer",
           "shutdown", "drain", "stopped"}
Conn == [status : Statuses, disconnects : Nat, closed : BOOLEAN]

\* Every variable has its type, nc and js point to connections that were
\* dialed, and at most one dial is under way.
TypeOK ==
  /\ phase \in Phases /\ running \in BOOLEAN /\ stopRequested \in BOOLEAN
  /\ toStart \subseteq Connectors
  /\ up \in [Cells -> BOOLEAN] /\ outages \in [Cells -> Nat]
  /\ conns \in [Cells -> Seq(Conn)]
  /\ nc \in [Cells -> Nat] /\ js \in [Cells -> Nat]
  /\ \A k \in Cells : nc[k] <= Len(conns[k]) /\ js[k] <= Len(conns[k])
  /\ stan \in Nat /\ stanGen \in Nat /\ stanState \in {"none", "alive", "lost"}
  /\ sub \in [Connectors -> Nat] /\ listening \in [Connectors -> BOOLEAN]
  /\ reconnect \subseteq Entries /\ reconnectTimer \in BOOLEAN /\ reconnectStopped \in BOOLEAN
  /\ timers \in [armed : Nat, canceled : Nat, fired : Nat]
  /\ holder \in {"free", "check", "stan", "redial", "restart"}
  /\ checkTodo \subseteq Connectors /\ dialTodo \subseteq Cells /\ dialFailed \subseteq Cells
  /\ dialing = {} \/ \E k \in Cells : dialing = {k}
  /\ startTodo \subseteq Entries
  /\ wantCheck \in Nat /\ checkers \in Nat
  /\ errNew \in [Connectors -> Nat] /\ errWaiting \in [Connectors -> Nat] /\ errCount \in Nat

InPass == holder \in {"stan", "redial", "restart"}

\* ensureReconnectTimer never leaves two timer goroutines that will both run
\* a pass: at most one is armed, has fired, or is in its pass.
OneTimerGoroutine ==
  timers.armed + timers.fired + (IF InPass THEN 1 ELSE 0) <= 1

\* No lost wakeup: whenever the reconnectLock is free and the bridge is not
\* stopped, a queued entry, or a configured STAN connection that is gone, has
\* a timer goroutine coming for it or a checkConnections that will arm one.
WorkHasTimer ==
  (holder = "free" /\ ~reconnectStopped) =>
    /\ reconnect # {} => timers.armed + timers.fired >= 1
    /\ (phase = "up" /\ StanConfigured /\ stan = 0)
         => timers.armed + timers.fired >= 1 \/ checkers > 0 \/ wantCheck > 0

\* Once Stop has returned nothing is left running and nothing comes back: no
\* subscription or listener (a durable STAN subscription dies with its
\* connection), no open NATS connection.
StoppedIsQuiet ==
  phase = "stopped" =>
    /\ \A c \in Connectors : ~listening[c] /\ (c \notin Durable => sub[c] = 0)
    /\ stanState # "alive"
    /\ \A k \in Cells : \A g \in 1..Len(conns[k]) : conns[k][g].status = "closed"

\* redialCell never leaks a client: every connection but the cell's current
\* one is closed.
OneOpenConnection ==
  \A k \in Cells : \A g \in 1..Len(conns[k]) :
    conns[k][g].status # "closed" => g = nc[k]

\* A JetStream context is never left over from a connection that the cell
\* has replaced.
ContextOfCurrentConnection ==
  \A k \in Cells : js[k] # 0 => js[k] = nc[k]

\* A connector that waits in the reconnect map holds no subscription or
\* reader, so that its restart does not deliver everything twice.  (A durable
\* STAN subscription is kept by Shutdown.)
QueuedIsShutDown ==
  \A c \in Connectors \ Durable : Self(c) \in reconnect => sub[c] = 0 /\ ~listening[c]

\* A callback that will still make the bridge look at its connectors.
CallbackDue ==
  \/ wantCheck > 0 \/ checkers > 0 \/ stopRequested
  \/ \E k \in Cells : \E g \in 1..Len(conns[k]) : conns[k][g].disconnects > 0 \/ conns[k][g].closed

\* No outage goes unnoticed: a connector whose requirements do not hold is in
\* the reconnect map, or will be looked at.
OutageIsNoticed ==
  (phase = "up" /\ holder = "free") =>
    \A c \in Connectors : CheckConnections(c) \/ Queued(c) \/ CallbackDue

\* The connector moves messages: its subscription is on the connection the
\* cell has now, or its listener runs, and what it needs is there.
Healthy(c) ==
  /\ CheckConnections(c)
  /\ CASE Kind[c] \in FromKafka -> listening[c]
       [] Kind[c] = "STANToKafka" -> sub[c] = stan
       [] OTHER -> sub[c] = nc[Cluster[c]]

\* When outages end, every connector of a bridge that is not stopped comes
\* back for good.
AllRecover == <>[](~running \/ \A c \in Connectors : Healthy(c))
=============================================================================
