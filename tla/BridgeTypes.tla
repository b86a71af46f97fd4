----------------------------- MODULE BridgeTypes -----------------------------
(***************************************************************************)
(* Type correctness of the bridge, and the lemmas the other proofs about   *)
(* it rest on: which actions change which variables, and that Start is     *)
(* alone until it reaches the connectors.                                  *)
(***************************************************************************)
EXTENDS Bridge, SequenceTheorems, TLAPS

\* Until startConnectors runs, Start is alone: it holds the server's mutex, no
\* connector is running, and nothing has armed a timer or asked for a check.
StartIsAlone ==
  /\ phase \in {"new", "nats", "stan", "jetstream"} =>
       /\ holder = "free" /\ dialing = {}
       /\ timers = [armed |-> 0, canceled |-> 0, fired |-> 0]
       /\ reconnect = {} /\ ~reconnectTimer /\ ~reconnectStopped
       /\ \A c \in Connectors : /\ sub[c] = 0 /\ ~listening[c]
                                /\ errNew[c] = 0 /\ errWaiting[c] = 0
  /\ phase \in {"new", "nats", "stan", "jetstream", "connectors"} =>
       wantCheck = 0 /\ checkers = 0
  /\ phase \in {"new", "nats"} =>
       /\ stan = 0 /\ stanState = "none"
       /\ \A k \in Cells : Len(conns[k]) = 0 /\ nc[k] = 0 /\ js[k] = 0

-----------------------------------------------------------------------------
(* Which actions change which variables.                                   *)

\* The actions that change phase, running, stopRequested or toStart.
LEMMA MainFrame ==
  ASSUME [Next]_vars, ~UNCHANGED mainVars
  PROVE  \/ Start
         \/ \E D \in SUBSET Cells : connectToNATS(D)
         \/ \E ok \in BOOLEAN : StartSTAN(ok)
         \/ connectToJetStream
         \/ \E c \in Connectors, ok \in BOOLEAN : startConnector(c, ok)
         \/ \E ok \in BOOLEAN : StartReturns(ok)
         \/ Stop
         \/ stopReconnectTimer
         \/ StopConnectors
         \/ StopConnections
         \/ \E k \in Cells : \E g \in 1..Len(conns[k]) : natsClosed(k, g)
         \/ Signal
<1>1. StartStep =>
        \/ Start
        \/ \E D \in SUBSET Cells : connectToNATS(D)
        \/ \E ok \in BOOLEAN : StartSTAN(ok)
        \/ connectToJetStream
        \/ \E c \in Connectors, ok \in BOOLEAN : startConnector(c, ok)
        \/ \E ok \in BOOLEAN : StartReturns(ok)
  BY DEF StartStep
<1>2. StopStep =>
        \/ Stop
        \/ stopReconnectTimer
        \/ StopConnectors
        \/ StopConnections
  BY DEF StopStep
<1>3. OwnerStep => FALSE
  BY DEF OwnerStep, PassStan, PassRedial, PassDial, PassDialError, PassRedialed, PassRestart,
     PassEnd, CheckOne, CheckEnd, mainVars
<1>4. TimerStep => FALSE
  BY DEF TimerStep, TimerFires, TimerCanceled, PassBegin, mainVars
<1>5. CallbackStep => \E k \in Cells : \E g \in 1..Len(conns[k]) : natsClosed(k, g)
  BY DEF CallbackStep, natsDisconnected, stanConnectionLost, CheckEnter, CheckBegin, mainVars
<1>6. ErrorStep => FALSE
  BY DEF ErrorStep, ListenerFetchError, ListenerCommitError, ConnectorErrorEnter,
     ConnectorError, mainVars
<1>7. EnvironmentStep => Signal
  BY DEF EnvironmentStep, ClusterDown, ClusterUp, ClientReconnects, ClientGivesUp, StanLost,
     mainVars
<1>. QED
  BY <1>1, <1>2, <1>3, <1>4, <1>5, <1>6, <1>7 DEF Next, Finished, vars

\* The actions that change a cluster or a cell.
LEMMA CellFrame ==
  ASSUME [Next]_vars, ~UNCHANGED cellVars
  PROVE  \/ \E D \in SUBSET Cells : connectToNATS(D)
         \/ connectToJetStream
         \/ StopConnections
         \/ \E k \in Cells : PassRedial(k)
         \/ \E k \in Cells : PassDial(k)
         \/ \E k \in Cells : \E g \in 1..Len(conns[k]) : natsDisconnected(k, g)
         \/ \E k \in Cells : \E g \in 1..Len(conns[k]) : natsClosed(k, g)
         \/ \E k \in Cells : ClusterDown(k)
         \/ \E k \in Cells : ClusterUp(k)
         \/ \E k \in Cells : \E g \in 1..Len(conns[k]) : ClientReconnects(k, g)
         \/ \E k \in Cells : \E g \in 1..Len(conns[k]) : ClientGivesUp(k, g)
<1>1. StartStep =>
        \/ \E D \in SUBSET Cells : connectToNATS(D)
        \/ connectToJetStream
  BY DEF StartStep, Start, StartSTAN, startConnector, StartReturns, cellVars
<1>2. StopStep => StopConnections
  BY DEF StopStep, Stop, stopReconnectTimer, StopConnectors, cellVars
<1>3. OwnerStep =>
        \/ \E k \in Cells : PassRedial(k)
        \/ \E k \in Cells : PassDial(k)
  BY DEF OwnerStep, PassStan, PassDialError, PassRedialed, PassRestart, PassEnd, CheckOne,
     CheckEnd, cellVars
<1>4. TimerStep => FALSE
  BY DEF TimerStep, TimerFires, TimerCanceled, PassBegin, cellVars
<1>5. CallbackStep =>
        \/ \E k \in Cells : \E g \in 1..Len(conns[k]) : natsDisconnected(k, g)
        \/ \E k \in Cells : \E g \in 1..Len(conns[k]) : natsClosed(k, g)
  BY DEF CallbackStep, stanConnectionLost, CheckEnter, CheckBegin, cellVars
<1>6. ErrorStep => FALSE
  BY DEF ErrorStep, ListenerFetchError, ListenerCommitError, ConnectorErrorEnter,
     ConnectorError, cellVars
<1>7. EnvironmentStep =>
        \/ \E k \in Cells : ClusterDown(k)
        \/ \E k \in Cells : ClusterUp(k)
        \/ \E k \in Cells : \E g \in 1..Len(conns[k]) : ClientReconnects(k, g)
        \/ \E k \in Cells : \E g \in 1..Len(conns[k]) : ClientGivesUp(k, g)
  BY DEF EnvironmentStep, StanLost, Signal, cellVars
<1>. QED
  BY <1>1, <1>2, <1>3, <1>4, <1>5, <1>6, <1>7 DEF Next, Finished, vars

\* The actions that change the STAN connection.
LEMMA StanFrame ==
  ASSUME [Next]_vars, ~UNCHANGED stanVars
  PROVE  \/ \E ok \in BOOLEAN : StartSTAN(ok)
         \/ StopConnections
         \/ \E ok \in BOOLEAN : PassStan(ok)
         \/ stanConnectionLost
         \/ StanLost
<1>1. StartStep => \E ok \in BOOLEAN : StartSTAN(ok)
  BY DEF StartStep, Start, connectToNATS, connectToJetStream, startConnector, StartReturns,
     stanVars
<1>2. StopStep => StopConnections
  BY DEF StopStep, Stop, stopReconnectTimer, StopConnectors, stanVars
<1>3. OwnerStep => \E ok \in BOOLEAN : PassStan(ok)
  BY DEF OwnerStep, PassRedial, PassDial, PassDialError, PassRedialed, PassRestart, PassEnd,
     CheckOne, CheckEnd, stanVars
<1>4. TimerStep => FALSE
  BY DEF TimerStep, TimerFires, TimerCanceled, PassBegin, stanVars
<1>5. CallbackStep => stanConnectionLost
  BY DEF CallbackStep, natsDisconnected, natsClosed, CheckEnter, CheckBegin, stanVars
<1>6. ErrorStep => FALSE
  BY DEF ErrorStep, ListenerFetchError, ListenerCommitError, ConnectorErrorEnter,
     ConnectorError, stanVars
<1>7. EnvironmentStep => StanLost
  BY DEF EnvironmentStep, ClusterDown, ClusterUp, ClientReconnects, ClientGivesUp, Signal,
     stanVars
<1>. QED
  BY <1>1, <1>2, <1>3, <1>4, <1>5, <1>6, <1>7 DEF Next, Finished, vars

\* The actions that start or shut down a connector.
LEMMA ConnFrame ==
  ASSUME [Next]_vars, ~UNCHANGED connVars
  PROVE  \/ \E c \in Connectors, ok \in BOOLEAN : startConnector(c, ok)
         \/ StopConnectors
         \/ \E e \in Entries, ok \in BOOLEAN : PassRestart(e, ok)
         \/ \E c \in Connectors : CheckOne(c)
         \/ \E c \in Connectors : ListenerFetchError(c)
<1>1. StartStep => \E c \in Connectors, ok \in BOOLEAN : startConnector(c, ok)
  BY DEF StartStep, Start, connectToNATS, StartSTAN, connectToJetStream, StartReturns, connVars
<1>2. StopStep => StopConnectors
  BY DEF StopStep, Stop, stopReconnectTimer, StopConnections, connVars
<1>3. OwnerStep =>
        \/ \E e \in Entries, ok \in BOOLEAN : PassRestart(e, ok)
        \/ \E c \in Connectors : CheckOne(c)
  BY DEF OwnerStep, PassStan, PassRedial, PassDial, PassDialError, PassRedialed, PassEnd,
     CheckEnd, connVars
<1>4. TimerStep => FALSE
  BY DEF TimerStep, TimerFires, TimerCanceled, PassBegin, connVars
<1>5. CallbackStep => FALSE
  BY DEF CallbackStep, natsDisconnected, natsClosed, stanConnectionLost, CheckEnter, CheckBegin,
     connVars
<1>6. ErrorStep => \E c \in Connectors : ListenerFetchError(c)
  BY DEF ErrorStep, ListenerCommitError, ConnectorErrorEnter, ConnectorError, connVars
<1>7. EnvironmentStep => FALSE
  BY DEF EnvironmentStep, ClusterDown, ClusterUp, ClientReconnects, ClientGivesUp, StanLost,
     Signal, connVars
<1>. QED
  BY <1>1, <1>2, <1>3, <1>4, <1>5, <1>6, <1>7 DEF Next, Finished, vars

\* The actions that change the reconnect map or its timer.
LEMMA QueueFrame ==
  ASSUME [Next]_vars, ~UNCHANGED queueVars
  PROVE  \/ Start
         \/ \E c \in Connectors, ok \in BOOLEAN : startConnector(c, ok)
         \/ stopReconnectTimer
         \/ StopConnectors
         \/ \E e \in Entries, ok \in BOOLEAN : PassRestart(e, ok)
         \/ PassEnd
         \/ \E c \in Connectors : CheckOne(c)
         \/ CheckEnd
         \/ TimerFires
         \/ TimerCanceled
         \/ PassBegin
         \/ \E c \in Connectors : ConnectorError(c)
<1>1. StartStep =>
        \/ Start
        \/ \E c \in Connectors, ok \in BOOLEAN : startConnector(c, ok)
  BY DEF StartStep, connectToNATS, StartSTAN, connectToJetStream, StartReturns, queueVars
<1>2. StopStep =>
        \/ stopReconnectTimer
        \/ StopConnectors
  BY DEF StopStep, Stop, StopConnections, queueVars
<1>3. OwnerStep =>
        \/ \E e \in Entries, ok \in BOOLEAN : PassRestart(e, ok)
        \/ PassEnd
        \/ \E c \in Connectors : CheckOne(c)
        \/ CheckEnd
  BY DEF OwnerStep, PassStan, PassRedial, PassDial, PassDialError, PassRedialed, queueVars
<1>4. TimerStep =>
        \/ TimerFires
        \/ TimerCanceled
        \/ PassBegin
  BY DEF TimerStep
<1>5. CallbackStep => FALSE
  BY DEF CallbackStep, natsDisconnected, natsClosed, stanConnectionLost, CheckEnter, CheckBegin,
     queueVars
<1>6. ErrorStep => \E c \in Connectors : ConnectorError(c)
  BY DEF ErrorStep, ListenerFetchError, ListenerCommitError, ConnectorErrorEnter, queueVars
<1>7. EnvironmentStep => FALSE
  BY DEF EnvironmentStep, ClusterDown, ClusterUp, ClientReconnects, ClientGivesUp, StanLost,
     Signal, queueVars
<1>. QED
  BY <1>1, <1>2, <1>3, <1>4, <1>5, <1>6, <1>7 DEF Next, Finished, vars

\* The actions of the owner of the reconnectLock.
LEMMA LockFrame ==
  ASSUME [Next]_vars, ~UNCHANGED lockVars
  PROVE  \/ \E ok \in BOOLEAN : PassStan(ok)
         \/ \E k \in Cells : PassRedial(k)
         \/ \E k \in Cells : PassDial(k)
         \/ \E k \in Cells : PassDialError(k)
         \/ PassRedialed
         \/ \E e \in Entries, ok \in BOOLEAN : PassRestart(e, ok)
         \/ PassEnd
         \/ \E c \in Connectors : CheckOne(c)
         \/ CheckEnd
         \/ PassBegin
         \/ CheckBegin
<1>1. StartStep => FALSE
  BY DEF StartStep, Start, connectToNATS, StartSTAN, connectToJetStream, startConnector,
     StartReturns, lockVars
<1>2. StopStep => FALSE
  BY DEF StopStep, Stop, stopReconnectTimer, StopConnectors, StopConnections, lockVars
<1>3. OwnerStep =>
        \/ \E ok \in BOOLEAN : PassStan(ok)
        \/ \E k \in Cells : PassRedial(k)
        \/ \E k \in Cells : PassDial(k)
        \/ \E k \in Cells : PassDialError(k)
        \/ PassRedialed
        \/ \E e \in Entries, ok \in BOOLEAN : PassRestart(e, ok)
        \/ PassEnd
        \/ \E c \in Connectors : CheckOne(c)
        \/ CheckEnd
  BY DEF OwnerStep
<1>4. TimerStep => PassBegin
  BY DEF TimerStep, TimerFires, TimerCanceled, lockVars
<1>5. CallbackStep => CheckBegin
  BY DEF CallbackStep, natsDisconnected, natsClosed, stanConnectionLost, CheckEnter, lockVars
<1>6. ErrorStep => FALSE
  BY DEF ErrorStep, ListenerFetchError, ListenerCommitError, ConnectorErrorEnter,
     ConnectorError, lockVars
<1>7. EnvironmentStep => FALSE
  BY DEF EnvironmentStep, ClusterDown, ClusterUp, ClientReconnects, ClientGivesUp, StanLost,
     Signal, lockVars
<1>. QED
  BY <1>1, <1>2, <1>3, <1>4, <1>5, <1>6, <1>7 DEF Next, Finished, vars

\* The actions that ask for a checkConnections or begin one.
LEMMA CheckFrame ==
  ASSUME [Next]_vars, ~UNCHANGED checkVars
  PROVE  \/ \E k \in Cells : \E g \in 1..Len(conns[k]) : natsDisconnected(k, g)
         \/ \E k \in Cells : \E g \in 1..Len(conns[k]) : natsClosed(k, g)
         \/ stanConnectionLost
         \/ CheckEnter
         \/ CheckBegin
<1>1. StartStep => FALSE
  BY DEF StartStep, Start, connectToNATS, StartSTAN, connectToJetStream, startConnector,
     StartReturns, checkVars
<1>2. StopStep => FALSE
  BY DEF StopStep, Stop, stopReconnectTimer, StopConnectors, StopConnections, checkVars
<1>3. OwnerStep => FALSE
  BY DEF OwnerStep, PassStan, PassRedial, PassDial, PassDialError, PassRedialed, PassRestart,
     PassEnd, CheckOne, CheckEnd, checkVars
<1>4. TimerStep => FALSE
  BY DEF TimerStep, TimerFires, TimerCanceled, PassBegin, checkVars
<1>5. CallbackStep =>
        \/ \E k \in Cells : \E g \in 1..Len(conns[k]) : natsDisconnected(k, g)
        \/ \E k \in Cells : \E g \in 1..Len(conns[k]) : natsClosed(k, g)
        \/ stanConnectionLost
        \/ CheckEnter
        \/ CheckBegin
  BY DEF CallbackStep
<1>6. ErrorStep => FALSE
  BY DEF ErrorStep, ListenerFetchError, ListenerCommitError, ConnectorErrorEnter,
     ConnectorError, checkVars
<1>7. EnvironmentStep => FALSE
  BY DEF EnvironmentStep, ClusterDown, ClusterUp, ClientReconnects, ClientGivesUp, StanLost,
     Signal, checkVars
<1>. QED
  BY <1>1, <1>2, <1>3, <1>4, <1>5, <1>6, <1>7 DEF Next, Finished, vars

\* The actions that report a listener error.
LEMMA ErrFrame ==
  ASSUME [Next]_vars, ~UNCHANGED errVars
  PROVE  \/ \E c \in Connectors : ListenerFetchError(c)
         \/ \E c \in Connectors : ListenerCommitError(c)
         \/ \E c \in Connectors : ConnectorErrorEnter(c)
         \/ \E c \in Connectors : ConnectorError(c)
<1>1. StartStep => FALSE
  BY DEF StartStep, Start, connectToNATS, StartSTAN, connectToJetStream, startConnector,
     StartReturns, errVars
<1>2. StopStep => FALSE
  BY DEF StopStep, Stop, stopReconnectTimer, StopConnectors, StopConnections, errVars
<1>3. OwnerStep => FALSE
  BY DEF OwnerStep, PassStan, PassRedial, PassDial, PassDialError, PassRedialed, PassRestart,
     PassEnd, CheckOne, CheckEnd, errVars
<1>4. TimerStep => FALSE
  BY DEF TimerStep, TimerFires, TimerCanceled, PassBegin, errVars
<1>5. CallbackStep => FALSE
  BY DEF CallbackStep, natsDisconnected, natsClosed, stanConnectionLost, CheckEnter, CheckBegin,
     errVars
<1>6. ErrorStep =>
        \/ \E c \in Connectors : ListenerFetchError(c)
        \/ \E c \in Connectors : ListenerCommitError(c)
        \/ \E c \in Connectors : ConnectorErrorEnter(c)
        \/ \E c \in Connectors : ConnectorError(c)
  BY DEF ErrorStep
<1>7. EnvironmentStep => FALSE
  BY DEF EnvironmentStep, ClusterDown, ClusterUp, ClientReconnects, ClientGivesUp, StanLost,
     Signal, errVars
<1>. QED
  BY <1>1, <1>2, <1>3, <1>4, <1>5, <1>6, <1>7 DEF Next, Finished, vars

-----------------------------------------------------------------------------
(* Type correctness, one group of variables at a time.                     *)

MainType ==
  /\ phase \in Phases /\ running \in BOOLEAN /\ stopRequested \in BOOLEAN
  /\ toStart \subseteq Connectors
CellType ==
  /\ up \in [Cells -> BOOLEAN] /\ outages \in [Cells -> Nat]
  /\ conns \in [Cells -> Seq(Conn)]
  /\ nc \in [Cells -> Nat] /\ js \in [Cells -> Nat]
  /\ \A k \in Cells : nc[k] <= Len(conns[k]) /\ js[k] <= Len(conns[k])
StanType == stan \in Nat /\ stanGen \in Nat /\ stanState \in {"none", "alive", "lost"}
ConnType == sub \in [Connectors -> Nat] /\ listening \in [Connectors -> BOOLEAN]
QueueType ==
  /\ reconnect \subseteq Entries /\ reconnectTimer \in BOOLEAN /\ reconnectStopped \in BOOLEAN
  /\ timers \in [armed : Nat, canceled : Nat, fired : Nat]
LockType ==
  /\ holder \in {"free", "check", "stan", "redial", "restart"}
  /\ checkTodo \subseteq Connectors /\ dialTodo \subseteq Cells /\ dialFailed \subseteq Cells
  /\ dialing = {} \/ \E k \in Cells : dialing = {k}
  /\ startTodo \subseteq Entries
CheckType == wantCheck \in Nat /\ checkers \in Nat
ErrType ==
  errNew \in [Connectors -> Nat] /\ errWaiting \in [Connectors -> Nat] /\ errCount \in Nat

\* TypeOK by groups of variables.
LEMMA TypeParts ==
  TypeOK <=> /\ MainType /\ CellType /\ StanType /\ ConnType
             /\ QueueType /\ LockType /\ CheckType /\ ErrType
BY DEF TypeOK, MainType, CellType, StanType, ConnType, QueueType, LockType, CheckType, ErrType

\* A step keeps the types of Start and Stop.
LEMMA MainTypeStep ==
  ASSUME MainType, [Next]_vars
  PROVE  MainType'
<1>1. CASE UNCHANGED mainVars
  BY <1>1 DEF MainType, mainVars
<1>2. CASE ~UNCHANGED mainVars
  BY <1>2, MainFrame DEF MainType, Phases, Start, connectToNATS, StartSTAN, connectToJetStream,
     startConnector, StartReturns, Stop, stopReconnectTimer, StopConnectors, StopConnections,
     natsClosed, Signal
<1>. QED
  BY <1>1, <1>2

\* A step keeps the types of the STAN connection.
LEMMA StanTypeStep ==
  ASSUME StanType, [Next]_vars
  PROVE  StanType'
<1>1. CASE UNCHANGED stanVars
  BY <1>1 DEF StanType, stanVars
<1>2. CASE ~UNCHANGED stanVars
  BY <1>2, StanFrame DEF StanType, stanVars, StartSTAN, connectToSTAN, StopConnections, PassStan,
     stanConnectionLost, StanLost
<1>. QED
  BY <1>1, <1>2

\* A step keeps the types of the checks.
LEMMA CheckTypeStep ==
  ASSUME CheckType, [Next]_vars
  PROVE  CheckType'
<1>1. CASE UNCHANGED checkVars
  BY <1>1 DEF CheckType, checkVars
<1>2. CASE ~UNCHANGED checkVars
  BY <1>2, CheckFrame DEF CheckType, natsDisconnected, natsClosed, stanConnectionLost, CheckEnter,
     CheckBegin
<1>. QED
  BY <1>1, <1>2

\* A step keeps the types of the listener errors.
LEMMA ErrTypeStep ==
  ASSUME ErrType, [Next]_vars
  PROVE  ErrType'
<1>1. CASE UNCHANGED errVars
  BY <1>1 DEF ErrType, errVars
<1>2. CASE ~UNCHANGED errVars
  BY <1>2, ErrFrame DEF ErrType, ListenerFetchError, ListenerCommitError, ConnectorErrorEnter,
     ConnectorError
<1>. QED
  BY <1>1, <1>2

\* A step keeps the types of the work of the owner of the reconnectLock.
LEMMA LockTypeStep ==
  ASSUME LockType, QueueType, [Next]_vars
  PROVE  LockType'
<1>1. CASE UNCHANGED lockVars
  BY <1>1 DEF LockType, lockVars
<1>2. CASE ~UNCHANGED lockVars
  <2>1. \A e \in reconnect : Cluster[e.conn] \in Cells
    BY BridgeAssumption DEF QueueType, Entries
  <2>. QED
    BY <1>2, <2>1, LockFrame DEF LockType, QueueType, PassStan, PassRedial, PassDial,
       PassDialError, PassRedialed, PassRestart, PassEnd, CheckOne, CheckEnd, PassBegin,
       CheckBegin
<1>. QED
  BY <1>1, <1>2

\* What a Start binds a connector to is an index.
LEMMA HandleType ==
  ASSUME CellType, StanType, NEW c \in Connectors
  PROVE  CreateConnector(c).handle \in Nat
<1>1. Kind[c] \in ToKafka \cup FromKafka /\ Cluster[c] \in Cells
  BY BridgeAssumption
<1>2. nc[Cluster[c]] \in Nat /\ js[Cluster[c]] \in Nat /\ stan \in Nat /\ Reader \in Nat
  BY <1>1 DEF CellType, StanType, Reader
<1>. QED
  BY <1>1, <1>2 DEF ToKafka, FromKafka, CreateConnector, NATS2Kafka, JetStream2Kafka, Stan2Kafka,
     Kafka2NATS, Kafka2JetStream, Kafka2Stan

\* A step keeps the types of the connectors.
LEMMA ConnTypeStep ==
  ASSUME ConnType, CellType, StanType, [Next]_vars
  PROVE  ConnType'
<1>1. CASE UNCHANGED connVars
  BY <1>1 DEF ConnType, connVars
<1>2. CASE ~UNCHANGED connVars
  <2>1. ASSUME NEW c \in Connectors, ConnectorStart(c)
        PROVE  ConnType'
    BY <2>1, HandleType DEF ConnType, ConnectorStart
  <2>2. ASSUME NEW S, ConnectorShutdown(S)
        PROVE  ConnType'
    BY <2>2 DEF ConnType, ConnectorShutdown
  <2>3. ASSUME NEW c \in Connectors, NEW ok \in BOOLEAN, startConnector(c, ok)
        PROVE  ConnType'
    BY <1>2, <2>1, <2>3 DEF startConnector, connVars
  <2>4. ASSUME NEW e \in Entries, NEW ok \in BOOLEAN, PassRestart(e, ok)
        PROVE  ConnType'
    BY <1>2, <2>1, <2>4 DEF PassRestart, connVars, Entries
  <2>5. ASSUME NEW c \in Connectors, CheckOne(c)
        PROVE  ConnType'
    BY <1>2, <2>2, <2>5 DEF CheckOne, connVars
  <2>6. ASSUME NEW c \in Connectors, ListenerFetchError(c)
        PROVE  ConnType'
    BY <2>6 DEF ListenerFetchError, ConnType
  <2>7. CASE StopConnectors
    BY <2>2, <2>7 DEF StopConnectors
  <2>. QED
    BY <1>2, <2>3, <2>4, <2>5, <2>6, <2>7, ConnFrame
<1>. QED
  BY <1>1, <1>2

\* A step keeps the types of the reconnect map and its timer.
LEMMA QueueTypeStep ==
  ASSUME QueueType, [Next]_vars
  PROVE  QueueType'
<1>1. CASE UNCHANGED queueVars
  BY <1>1 DEF QueueType, queueVars
<1>2. CASE ~UNCHANGED queueVars
  <2>1. \A c \in Connectors : Put(Self(c)) \subseteq Entries /\ Put(Base(c)) \subseteq Entries
    <3>1. \A c \in Connectors : Self(c) \in Entries /\ Base(c) \in Entries
      BY DEF Self, Base, Entries
    <3>. QED
      BY <3>1 DEF Put, QueueType
  <2>2. ASSUME NEW set \in BOOLEAN, ensureReconnectTimer(set)
        PROVE  reconnectTimer' \in BOOLEAN /\ timers' \in [armed : Nat, canceled : Nat, fired : Nat]
    <3>1. reconnectTimer' \in BOOLEAN
      BY <2>2, Zenon DEF ensureReconnectTimer
    <3>2. timers' = timers \/ timers' = [timers EXCEPT !.armed = @ + 1]
      BY <2>2, Zenon DEF ensureReconnectTimer
    <3>. QED
      BY <3>1, <3>2 DEF QueueType
  <2>3. ASSUME NEW c \in Connectors, NEW ok \in BOOLEAN, startConnector(c, ok)
        PROVE  QueueType'
    BY <2>1, <2>2, <2>3 DEF startConnector, QueueType
  <2>4. ASSUME NEW e \in Entries, NEW ok \in BOOLEAN, PassRestart(e, ok)
        PROVE  QueueType'
    BY <2>4 DEF PassRestart, QueueType
  <2>5. CASE PassEnd
    BY <2>2, <2>5 DEF PassEnd, QueueType
  <2>6. ASSUME NEW c \in Connectors, CheckOne(c)
        PROVE  QueueType'
    BY <2>1, <2>6 DEF CheckOne, QueueType
  <2>7. CASE CheckEnd
    BY <2>2, <2>7 DEF CheckEnd, QueueType
  <2>8. ASSUME NEW c \in Connectors, ConnectorError(c)
        PROVE  QueueType'
    BY <2>1, <2>2, <2>8 DEF ConnectorError, QueueType
  <2>9. CASE Start \/ StopConnectors
    BY <2>9 DEF Start, StopConnectors, QueueType
  <2>10. CASE stopReconnectTimer
    <3>1. \/ timers' = timers
          \/ timers' = [timers EXCEPT !.armed = 0, !.canceled = @ + timers.armed]
      BY <2>10 DEF stopReconnectTimer
    <3>2. \/ timers' = timers
          \/ timers' = [armed |-> 0, canceled |-> timers.canceled + timers.armed,
                        fired |-> timers.fired]
      BY <3>1 DEF QueueType
    <3>3. timers' \in [armed : Nat, canceled : Nat, fired : Nat]
      BY <3>2 DEF QueueType
    <3>. QED
      BY <2>10, <3>3, Zenon DEF stopReconnectTimer, QueueType
  <2>11. CASE TimerFires
    <3>1. timers' = [armed |-> timers.armed - 1, canceled |-> timers.canceled,
                     fired |-> timers.fired + 1]
      BY <2>11 DEF TimerFires, QueueType
    <3>2. timers' \in [armed : Nat, canceled : Nat, fired : Nat]
      BY <2>11, <3>1 DEF TimerFires, QueueType
    <3>. QED
      BY <2>11, <3>2, Zenon DEF TimerFires, QueueType
  <2>12. CASE TimerCanceled
    <3>1. \/ timers' = [timers EXCEPT !.canceled = @ - 1]
          \/ timers' = [timers EXCEPT !.canceled = @ - 1, !.fired = @ + 1]
      BY <2>12, Zenon DEF TimerCanceled
    <3>2. \/ timers' = [armed |-> timers.armed, canceled |-> timers.canceled - 1,
                        fired |-> timers.fired]
          \/ timers' = [armed |-> timers.armed, canceled |-> timers.canceled - 1,
                        fired |-> timers.fired + 1]
      BY <3>1 DEF QueueType
    <3>3. timers' \in [armed : Nat, canceled : Nat, fired : Nat]
      BY <2>12, <3>2 DEF TimerCanceled, QueueType
    <3>. QED
      BY <2>12, <3>3, Zenon DEF TimerCanceled, QueueType
  <2>13. CASE PassBegin
    <3>1. timers' \in [armed : Nat, canceled : Nat, fired : Nat]
      BY <2>13 DEF PassBegin, QueueType
    <3>. QED
      BY <2>13, <3>1, Zenon DEF PassBegin, QueueType
  <2>. QED
    BY <1>2, <2>3, <2>4, <2>5, <2>6, <2>7, <2>8, <2>9, <2>10, <2>11, <2>12, <2>13,
       QueueFrame
<1>. QED
  BY <1>1, <1>2

\* A step that rewrites one connection of a cell.
LEMMA OneConnRewritten ==
  ASSUME conns \in [Cells -> Seq(Conn)], NEW k \in Cells, NEW g \in 1..Len(conns[k]),
         NEW x \in Conn, conns' = [conns EXCEPT ![k][g] = x]
  PROVE  /\ conns' \in [Cells -> Seq(Conn)]
         /\ \A j \in Cells : Len(conns'[j]) = Len(conns[j])
         /\ conns'[k][g] = x
         /\ \A j \in Cells : \A h \in 1..Len(conns[j]) :
              j # k \/ h # g => conns'[j][h] = conns[j][h]
<1>1. conns[k] \in Seq(Conn)
  OBVIOUS
<1>2. /\ [conns[k] EXCEPT ![g] = x] \in Seq(Conn)
      /\ Len([conns[k] EXCEPT ![g] = x]) = Len(conns[k])
      /\ \A h \in 1..Len(conns[k]) : [conns[k] EXCEPT ![g] = x][h] = IF h = g THEN x ELSE conns[k][h]
  BY <1>1, ExceptSeq
<1>3. conns' = [conns EXCEPT ![k] = [conns[k] EXCEPT ![g] = x]]
  OBVIOUS
<1>. HIDE DEF Conn
<1>. QED
  BY <1>2, <1>3

\* A step that rewrites every connection of every cell.
LEMMA AllConnsRewritten ==
  ASSUME conns \in [Cells -> Seq(Conn)], NEW f,
         conns' = [k \in Cells |-> [g \in 1..Len(conns[k]) |-> f[k][g]]],
         \A k \in Cells : \A g \in 1..Len(conns[k]) : f[k][g] \in Conn
  PROVE  /\ conns' \in [Cells -> Seq(Conn)]
         /\ \A k \in Cells : Len(conns'[k]) = Len(conns[k])
<1>1. ASSUME NEW k \in Cells
      PROVE  conns'[k] \in Seq(Conn) /\ Len(conns'[k]) = Len(conns[k])
  <2>1. Len(conns[k]) \in Nat
    OBVIOUS
  <2>2. conns'[k] = [g \in 1..Len(conns[k]) |-> f[k][g]]
    OBVIOUS
  <2>. QED
    BY <2>1, <2>2
<1>. QED
  BY <1>1

\* The connections a client callback or the client itself rewrites.
LEMMA ConnTypes ==
  /\ NewConn \in Conn
  /\ [NewConn EXCEPT !.status = "closed"] \in Conn
  /\ \A x \in Conn : /\ x.disconnects > 0 => [x EXCEPT !.disconnects = @ - 1] \in Conn
                     /\ [x EXCEPT !.closed = FALSE] \in Conn
                     /\ \A s \in Statuses : [x EXCEPT !.status = s] \in Conn
                     /\ [x EXCEPT !.status = "reconnecting", !.disconnects = @ + 1] \in Conn
                     /\ [x EXCEPT !.status = "closed", !.closed = TRUE] \in Conn
<1>. USE DEF NewConn, Conn, Statuses
<1>1. NewConn \in Conn /\ [NewConn EXCEPT !.status = "closed"] \in Conn
  OBVIOUS
<1>2. \A x \in Conn : x.disconnects > 0 => [x EXCEPT !.disconnects = @ - 1] \in Conn
  OBVIOUS
<1>3. \A x \in Conn : [x EXCEPT !.closed = FALSE] \in Conn /\ [x EXCEPT !.closed = TRUE] \in Conn
  OBVIOUS
<1>4. \A x \in Conn : \A s \in Statuses : [x EXCEPT !.status = s] \in Conn
  OBVIOUS
<1>5. \A x \in Conn : [x EXCEPT !.disconnects = @ + 1] \in Conn
  OBVIOUS
<1>6. ASSUME NEW x \in Conn
      PROVE  [x EXCEPT !.status = "reconnecting", !.disconnects = @ + 1] \in Conn
  <2>. DEFINE y == [x EXCEPT !.status = "reconnecting"]
  <2>1. y \in Conn
    BY <1>4
  <2>2. [x EXCEPT !.status = "reconnecting", !.disconnects = @ + 1] = [y EXCEPT !.disconnects = @ + 1]
    OBVIOUS
  <2>. HIDE DEF y, Conn
  <2>. QED
    BY <1>5, <2>1, <2>2
<1>7. ASSUME NEW x \in Conn
      PROVE  [x EXCEPT !.status = "closed", !.closed = TRUE] \in Conn
  <2>. DEFINE y == [x EXCEPT !.status = "closed"]
  <2>1. y \in Conn
    BY <1>4
  <2>2. [x EXCEPT !.status = "closed", !.closed = TRUE] = [y EXCEPT !.closed = TRUE]
    OBVIOUS
  <2>. HIDE DEF y, Conn
  <2>. QED
    BY <1>3, <2>1, <2>2
<1>. HIDE DEF Conn, NewConn, Statuses
<1>. QED
  BY <1>1, <1>2, <1>3, <1>4, <1>6, <1>7

\* A step keeps the types of the cells; indices stay within what was dialed.
LEMMA CellTypeStep ==
  ASSUME CellType, StartIsAlone, [Next]_vars
  PROVE  CellType'
<1>1. CASE UNCHANGED cellVars
  BY <1>1 DEF CellType, cellVars
<1>2. ASSUME NEW D \in SUBSET Cells, connectToNATS(D)
      PROVE  CellType'
  <2>1. conns' \in [Cells -> Seq(Conn)]
    <3>1. <<NewConn>> \in Seq(Conn) /\ <<>> \in Seq(Conn)
      <4>1. NewConn \in Conn
        BY ConnTypes
      <4>. QED
        BY <4>1
    <3>. QED
      BY <1>2, <3>1 DEF connectToNATS
  <2>2. \A k \in Cells : Len(conns'[k]) = IF k \in D THEN 1 ELSE 0
    BY <1>2 DEF connectToNATS
  <2>3. \A k \in Cells : js[k] = 0
    BY <1>2 DEF StartIsAlone, connectToNATS
  <2>. QED
    BY <1>2, <2>1, <2>2, <2>3 DEF connectToNATS, CellType
<1>3. CASE connectToJetStream
  BY <1>3 DEF connectToJetStream, CellType
<1>4. ASSUME NEW k \in Cells, PassRedial(k)
      PROVE  CellType'
  <2>1. PICK x \in {0, nc[k], js[k]} : js' = [js EXCEPT ![k] = x]
    BY <1>4 DEF PassRedial
  <2>2. UNCHANGED <<up, outages, conns, nc>>
    BY <1>4 DEF PassRedial
  <2>. QED
    BY <2>1, <2>2 DEF CellType
<1>5. ASSUME NEW k \in Cells, PassDial(k)
      PROVE  CellType'
  <2>1. ASSUME NEW x \in Conn, conns' = [conns EXCEPT ![k] = Append(@, x)]
        PROVE  /\ conns' \in [Cells -> Seq(Conn)]
               /\ \A j \in Cells : Len(conns'[j]) = IF j = k THEN Len(conns[j]) + 1 ELSE Len(conns[j])
    BY <2>1 DEF CellType
  <2>2. /\ conns' \in [Cells -> Seq(Conn)]
        /\ \A j \in Cells : Len(conns'[j]) = IF j = k THEN Len(conns[j]) + 1 ELSE Len(conns[j])
    BY <1>5, <2>1, ConnTypes DEF PassDial
  <2>3. \A j \in Cells : Len(conns[j]) \in Nat
    BY DEF CellType
  <2>. QED
    <3>1. UNCHANGED <<up, outages>>
      BY <1>5 DEF PassDial
    <3>2. CASE UNCHANGED <<nc, js>>
      BY <2>2, <2>3, <3>1, <3>2 DEF CellType
    <3>3. CASE ~UNCHANGED <<nc, js>>
      <4>1. nc' = [nc EXCEPT ![k] = Len(conns[k]) + 1]
        BY <1>5, <3>3 DEF PassDial
      <4>2. PICK x \in {js[k], Len(conns[k]) + 1} : js' = [js EXCEPT ![k] = x]
        BY <1>5, <3>3 DEF PassDial
      <4>. QED
        BY <2>2, <2>3, <3>1, <4>1, <4>2 DEF CellType
    <3>. QED
      BY <3>2, <3>3
<1>6. ASSUME NEW k \in Cells, NEW g \in 1..Len(conns[k]),
             \/ natsDisconnected(k, g) \/ natsClosed(k, g)
             \/ ClientReconnects(k, g) \/ ClientGivesUp(k, g)
      PROVE  CellType'
  <2>1. conns[k][g] \in Conn
    BY DEF CellType
  <2>2. PICK x \in Conn : conns' = [conns EXCEPT ![k][g] = x]
    <3>1. CASE natsDisconnected(k, g)
      BY <2>1, <3>1, ConnTypes DEF natsDisconnected
    <3>2. CASE natsClosed(k, g)
      BY <2>1, <3>2, ConnTypes DEF natsClosed
    <3>3. CASE ClientReconnects(k, g)
      BY <2>1, <3>3, ConnTypes DEF ClientReconnects, Statuses
    <3>4. CASE ClientGivesUp(k, g)
      <4>1. conns' = [conns EXCEPT ![k][g] = [conns[k][g] EXCEPT !.status = "closed",
      !.closed = TRUE]]
        BY <3>4 DEF ClientGivesUp
      <4>. QED
        BY <2>1, <4>1, ConnTypes
    <3>. QED
      BY <1>6, <3>1, <3>2, <3>3, <3>4
  <2>3. conns' \in [Cells -> Seq(Conn)] /\ \A j \in Cells : Len(conns'[j]) = Len(conns[j])
    BY <2>2, OneConnRewritten DEF CellType
  <2>4. UNCHANGED <<up, outages, nc, js>>
    BY <1>6 DEF natsDisconnected, natsClosed, ClientReconnects, ClientGivesUp
  <2>. QED
    BY <2>3, <2>4 DEF CellType
<1>7. ASSUME NEW k \in Cells, ClusterDown(k)
      PROVE  CellType'
  <2>. DEFINE f == [j \in Cells |-> [g \in 1..Len(conns[j]) |->
                      IF j = k /\ conns[j][g].status = "connected"
                      THEN [conns[j][g] EXCEPT !.status = "reconnecting", !.disconnects = @ + 1]
                      ELSE conns[j][g]]]
  <2>1. \A j \in Cells : \A g \in 1..Len(conns[j]) : f[j][g] \in Conn
    <3>1. \A j \in Cells : \A g \in 1..Len(conns[j]) : conns[j][g] \in Conn
      BY DEF CellType
    <3>. QED
      BY <3>1, ConnTypes
  <2>2. conns' = [j \in Cells |-> [g \in 1..Len(conns[j]) |-> f[j][g]]]
    <3>1. \A j \in Cells : conns[j] = [g \in 1..Len(conns[j]) |-> conns[j][g]]
      BY DEF CellType
    <3>2. \A j \in Cells : conns'[j] = [g \in 1..Len(conns[j]) |-> f[j][g]]
      BY <1>7, <3>1 DEF ClusterDown, CellType
    <3>. QED
      BY <1>7, <3>2 DEF ClusterDown, CellType
  <2>. HIDE DEF f
  <2>3. conns' \in [Cells -> Seq(Conn)] /\ \A j \in Cells : Len(conns'[j]) = Len(conns[j])
    BY <2>1, <2>2, AllConnsRewritten DEF CellType
  <2>. QED
    <3>1. UNCHANGED <<nc, js>>
      BY <1>7 DEF ClusterDown
    <3>2. up' \in [Cells -> BOOLEAN]
      <4>1. up' = [up EXCEPT ![k] = FALSE]
        BY <1>7 DEF ClusterDown
      <4>. QED
        BY <4>1 DEF CellType
    <3>3. outages' \in [Cells -> Nat]
      <4>1. outages' = [outages EXCEPT ![k] = @ + 1]
        BY <1>7 DEF ClusterDown
      <4>. QED
        BY <4>1 DEF CellType
    <3>. QED
      BY <2>3, <3>1, <3>2, <3>3 DEF CellType
<1>8. CASE StopConnections
  <2>. DEFINE f == [k \in Cells |-> [g \in 1..Len(conns[k]) |->
                      IF g = nc[k] THEN [conns[k][g] EXCEPT !.status = "closed"] ELSE conns[k][g]]]
  <2>1. \A k \in Cells : \A g \in 1..Len(conns[k]) : f[k][g] \in Conn
    <3>1. \A k \in Cells : \A g \in 1..Len(conns[k]) : conns[k][g] \in Conn
      BY DEF CellType
    <3>. QED
      BY <3>1, ConnTypes DEF Statuses
  <2>2. conns' = [k \in Cells |-> [g \in 1..Len(conns[k]) |-> f[k][g]]]
    BY <1>8 DEF StopConnections
  <2>. HIDE DEF f
  <2>3. conns' \in [Cells -> Seq(Conn)] /\ \A k \in Cells : Len(conns'[k]) = Len(conns[k])
    BY <2>1, <2>2, AllConnsRewritten DEF CellType
  <2>. QED
    BY <1>8, <2>3 DEF StopConnections, CellType
<1>9. ASSUME NEW k \in Cells, ClusterUp(k)
      PROVE  CellType'
  BY <1>9 DEF ClusterUp, CellType
<1>. QED
  BY <1>1, <1>2, <1>3, <1>4, <1>5, <1>6, <1>7, <1>8, <1>9, CellFrame

-----------------------------------------------------------------------------
(* Start is alone until it reaches the connectors.                         *)

\* A step keeps Start alone: nothing else can begin before it has armed a timer,
\* started a connector or released the mutex.
LEMMA StartIsAloneStep ==
  ASSUME TypeOK, StartIsAlone, [Next]_vars
  PROVE  StartIsAlone'
<1>. DEFINE Early == phase \in {"new", "nats", "stan", "jetstream"}
            Starting == phase \in {"new", "nats", "stan", "jetstream", "connectors"}
            Unconnected == phase \in {"new", "nats"}
<1>0. ASSUME ~Early, UNCHANGED <<phase, wantCheck, checkers>>
      PROVE  StartIsAlone'
  BY <1>0 DEF StartIsAlone
<1>1. CASE StartStep
  <2>1. CASE Start
    BY <2>1 DEF Start, StartIsAlone, cellVars, stanVars, connVars, lockVars, checkVars, errVars
  <2>2. ASSUME NEW D \in SUBSET Cells, connectToNATS(D)
        PROVE  StartIsAlone'
    BY <2>2 DEF connectToNATS, StartIsAlone, stanVars, connVars, queueVars, lockVars, checkVars,
       errVars
  <2>3. ASSUME NEW ok \in BOOLEAN, StartSTAN(ok)
        PROVE  StartIsAlone'
    BY <2>3 DEF StartSTAN, StartIsAlone, cellVars, connVars, queueVars, lockVars, checkVars, errVars
  <2>4. CASE connectToJetStream
    BY <2>4 DEF connectToJetStream, StartIsAlone, checkVars
  <2>5. ASSUME NEW c \in Connectors, NEW ok \in BOOLEAN, startConnector(c, ok)
        PROVE  StartIsAlone'
    BY <2>5 DEF startConnector, StartIsAlone, checkVars
  <2>6. ASSUME NEW ok \in BOOLEAN, StartReturns(ok)
        PROVE  StartIsAlone'
    BY <2>6 DEF StartReturns, StartIsAlone, checkVars
  <2>. QED
    BY <1>1, <2>1, <2>2, <2>3, <2>4, <2>5, <2>6 DEF StartStep
<1>2. CASE StopStep
  BY <1>2 DEF StopStep, Stop, stopReconnectTimer, StopConnectors, StopConnections, StartIsAlone
<1>3. CASE OwnerStep
  <2>1. (holder # "free" \/ dialing # {}) /\ UNCHANGED <<phase, wantCheck, checkers>>
    BY <1>3 DEF OwnerStep, PassStan, PassRedial, PassDial, PassDialError, PassRedialed,
       PassRestart, PassEnd, CheckOne, CheckEnd, mainVars, checkVars
  <2>2. ~Early
    BY <2>1 DEF StartIsAlone
  <2>. QED
    BY <1>0, <2>1, <2>2
<1>4. CASE TimerStep
  <2>1. timers.armed > 0 \/ timers.canceled > 0 \/ timers.fired > 0
    BY <1>4 DEF TimerStep, TimerFires, TimerCanceled, PassBegin
  <2>2. UNCHANGED <<phase, wantCheck, checkers>>
    BY <1>4 DEF TimerStep, TimerFires, TimerCanceled, PassBegin, mainVars, checkVars
  <2>3. ~Early
    <3>1. Early => timers.armed = 0 /\ timers.canceled = 0 /\ timers.fired = 0
      BY DEF StartIsAlone
    <3>. QED
      BY <2>1, <3>1
  <2>. QED
    BY <1>0, <2>2, <2>3
<1>5. CASE CallbackStep
  <2>1. phase' = phase /\ ~Starting
    <3>1. ASSUME NEW k \in Cells, NEW g \in 1..Len(conns[k]),
                 natsDisconnected(k, g) \/ natsClosed(k, g)
          PROVE  phase' = phase /\ ~Starting
      BY <3>1 DEF natsDisconnected, natsClosed, ServerLocked, StartIsAlone, mainVars
    <3>2. CASE stanConnectionLost
      BY <3>2 DEF stanConnectionLost, ServerLocked, StartIsAlone, mainVars
    <3>3. CASE CheckEnter \/ CheckBegin
      <4>1. phase' = phase /\ (wantCheck > 0 \/ checkers > 0)
        BY <3>3 DEF CheckEnter, CheckBegin, mainVars
      <4>2. Starting => wantCheck = 0 /\ checkers = 0
        BY DEF StartIsAlone
      <4>. QED
        BY <4>1, <4>2
    <3>. QED
      BY <1>5, <3>1, <3>2, <3>3 DEF CallbackStep
  <2>. QED
    BY <2>1 DEF StartIsAlone
<1>6. CASE ErrorStep
  <2>1. UNCHANGED <<phase, wantCheck, checkers>>
    BY <1>6 DEF ErrorStep, ListenerFetchError, ListenerCommitError, ConnectorErrorEnter,
       ConnectorError, mainVars, checkVars
  <2>2. \E c \in Connectors : listening[c] \/ errNew[c] > 0 \/ errWaiting[c] > 0
    BY <1>6 DEF ErrorStep, ListenerFetchError, ListenerCommitError, ConnectorErrorEnter,
       ConnectorError
  <2>3. Early => \A c \in Connectors : ~listening[c] /\ errNew[c] = 0 /\ errWaiting[c] = 0
    BY DEF StartIsAlone
  <2>4. ~Early
    BY <2>2, <2>3
  <2>. QED
    BY <1>0, <2>1, <2>4
<1>7. CASE EnvironmentStep
  <2>1. UNCHANGED <<phase, connVars, queueVars, lockVars, checkVars, errVars>>
    BY <1>7 DEF EnvironmentStep, ClusterDown, ClusterUp, ClientReconnects, ClientGivesUp, StanLost,
       Signal, mainVars
  <2>2. Unconnected => /\ UNCHANGED <<stan, stanState>>
                       /\ \A k \in Cells : Len(conns'[k]) = 0 /\ nc'[k] = 0 /\ js'[k] = 0
    <3>1. ASSUME NEW k \in Cells, ClusterDown(k), Unconnected
          PROVE  /\ UNCHANGED <<stan, stanState, nc, js>>
                 /\ \A j \in Cells : Len(conns'[j]) = 0
      <4>1. conns'[k] = [g \in 1..0 |-> IF conns[k][g].status = "connected"
               THEN [conns[k][g] EXCEPT !.status = "reconnecting", !.disconnects = @ + 1]
               ELSE conns[k][g]]
        BY <3>1 DEF ClusterDown, StartIsAlone, TypeOK
      <4>2. Len(conns'[k]) = 0
        BY <4>1
      <4>. QED
        BY <3>1, <4>2 DEF ClusterDown, StartIsAlone, TypeOK, stanVars
    <3>2. ASSUME NEW k \in Cells, NEW g \in 1..Len(conns[k]), Unconnected
          PROVE  FALSE
      <4>1. Len(conns[k]) = 0
        BY <3>2 DEF StartIsAlone
      <4>. QED
        BY <4>1
    <3>3. CASE StanLost /\ Unconnected
      BY <3>3 DEF StanLost, StartIsAlone
    <3>4. CASE Signal \/ \E k \in Cells : ClusterUp(k)
      BY <3>4 DEF Signal, ClusterUp, StartIsAlone, cellVars, stanVars
    <3>. QED
      BY <1>7, <3>1, <3>2, <3>3, <3>4 DEF EnvironmentStep, StartIsAlone
  <2>. QED
    BY <2>1, <2>2 DEF StartIsAlone, connVars, queueVars, lockVars, checkVars, errVars
<1>8. CASE UNCHANGED vars
  BY <1>8 DEF vars, StartIsAlone, mainVars, cellVars, stanVars, connVars, queueVars, lockVars,
     checkVars, errVars
<1>. QED
  BY <1>1, <1>2, <1>3, <1>4, <1>5, <1>6, <1>7, <1>8 DEF Next, Finished

-----------------------------------------------------------------------------
\* In every behaviour every variable has its type: in particular cell.nc and
\* cell.js are connections that were dialed, and the timer's pass has at most
\* one dial under way.
THEOREM TypeCorrect == Spec => [](TypeOK /\ StartIsAlone)
<1>1. Init => TypeOK /\ StartIsAlone
  <2>. SUFFICES ASSUME Init PROVE TypeOK /\ StartIsAlone
    OBVIOUS
  <2>1. MainType /\ StanType /\ ConnType /\ CheckType /\ ErrType
    BY DEF Init, MainType, StanType, ConnType, CheckType, ErrType, Phases
  <2>2. CellType
    BY DEF Init, CellType
  <2>3. QueueType /\ LockType
    BY DEF Init, QueueType, LockType
  <2>4. StartIsAlone
    BY DEF Init, StartIsAlone
  <2>. QED
    BY <2>1, <2>2, <2>3, <2>4, TypeParts
<1>2. TypeOK /\ StartIsAlone /\ [Next]_vars => (TypeOK /\ StartIsAlone)'
  <2>. SUFFICES ASSUME TypeOK, StartIsAlone, [Next]_vars
       PROVE  TypeOK' /\ StartIsAlone'
    OBVIOUS
  <2>1. /\ MainType /\ CellType /\ StanType /\ ConnType
        /\ QueueType /\ LockType /\ CheckType /\ ErrType
    BY TypeParts
  <2>2. MainType' /\ CellType' /\ StanType' /\ ConnType'
    BY <2>1, MainTypeStep, CellTypeStep, StanTypeStep, ConnTypeStep
  <2>3. QueueType' /\ LockType' /\ CheckType' /\ ErrType'
    BY <2>1, QueueTypeStep, LockTypeStep, CheckTypeStep, ErrTypeStep
  <2>4. TypeOK'
    BY <2>2, <2>3 DEF TypeOK, MainType, CellType, StanType, ConnType, QueueType, LockType,
       CheckType, ErrType
  <2>. QED
    BY <2>4, StartIsAloneStep
<1>. QED
  BY <1>1, <1>2, PTL DEF Spec
=============================================================================
