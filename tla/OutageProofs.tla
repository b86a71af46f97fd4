---------------------------- MODULE OutageProofs ----------------------------
(***************************************************************************)
(* No outage goes unnoticed, for every set of clusters and connectors and  *)
(* every number of outages, whether they come while the connectors start,  *)
(* while a check runs or in the middle of a pass.                          *)
(***************************************************************************)
EXTENDS BridgeProofs

\* From startConnectors to the call of Stop.
Served == {"connectors", "up"}

\* Whoever starts or checks the connectors has not reached c yet.
Ahead(c) == c \in toStart \/ (holder = "check" /\ c \in checkTodo)

\* OutageIsNoticed, with the connectors that are still to be looked at.
EveryoneIsNoticed ==
  /\ phase = "up" => toStart = {}
  /\ phase \in Served =>
       \A c \in Connectors : Ahead(c) \/ CheckConnections(c) \/ Queued(c) \/ CallbackDue

\* A cell whose connection may be used has the context its connectors need.
ContextIsReady ==
  phase \in Served =>
    \A k \in Cells : (cellHasJetStream(k) /\ nc[k] # 0 /\ ~IsClosed(k)) => js[k] # 0

\* What ConnectorError puts into the map are the bases of Kafka listeners.
ReadersReport ==
  \A c \in Connectors :
    /\ listening[c] => Kind[c] \in FromKafka
    /\ (errNew[c] > 0 \/ errWaiting[c] > 0 \/ Base(c) \in reconnect)
         => Kind[c] \in FromKafka /\ MaxErrors > 0

-----------------------------------------------------------------------------
\* Only a listener of a Kafka reader reports an error.
LEMMA ReadersReportStep ==
  ASSUME TypeOK, ReadersReport, [Next]_vars
  PROVE  ReadersReport'
<1>0. /\ listening \in [Connectors -> BOOLEAN]
      /\ errNew \in [Connectors -> Nat] /\ errWaiting \in [Connectors -> Nat] /\ errCount \in Nat
      /\ MaxErrors \in Nat
  BY BridgeAssumption DEF TypeOK
<1>1. \A c \in Connectors : listening'[c] => Kind[c] \in FromKafka
  <2>1. CASE UNCHANGED connVars
    BY <2>1 DEF connVars, ReadersReport
  <2>2. ASSUME NEW c \in Connectors, ConnectorStart(c)
        PROVE  \A d \in Connectors : listening'[d] => Kind[d] \in FromKafka
    BY <1>0, <2>2 DEF ConnectorStart, ReadersReport
  <2>3. ASSUME NEW S \in SUBSET Connectors, ConnectorShutdown(S)
        PROVE  \A d \in Connectors : listening'[d] => Kind[d] \in FromKafka
    BY <1>0, <2>3 DEF ConnectorShutdown, ReadersReport
  <2>4. ASSUME NEW c \in Connectors, ListenerFetchError(c)
        PROVE  \A d \in Connectors : listening'[d] => Kind[d] \in FromKafka
    BY <1>0, <2>4 DEF ListenerFetchError, ReadersReport
  <2>5. CASE ~UNCHANGED connVars
    <3>1. \/ \E c \in Connectors : ConnectorStart(c)
          \/ \E S \in SUBSET Connectors : ConnectorShutdown(S)
          \/ \E c \in Connectors : ListenerFetchError(c)
      BY <2>5, ConnFrame DEF startConnector, PassRestart, CheckOne, StopConnectors, Entries
    <3>. QED
      BY <2>2, <2>3, <2>4, <3>1
  <2>. QED
    BY <2>1, <2>5
<1>2. \A c \in Connectors : (errNew'[c] > 0 \/ errWaiting'[c] > 0) => Kind[c] \in FromKafka /\ MaxErrors > 0
  <2>1. CASE UNCHANGED errVars
    BY <2>1 DEF errVars, ReadersReport
  <2>2. ASSUME NEW c \in Connectors, ListenerFetchError(c) \/ ListenerCommitError(c)
        PROVE  \A d \in Connectors : (errNew'[d] > 0 \/ errWaiting'[d] > 0)
                 => Kind[d] \in FromKafka /\ MaxErrors > 0
    <3>1. /\ Kind[c] \in FromKafka /\ MaxErrors > 0
          /\ errNew' = [errNew EXCEPT ![c] = @ + 1] /\ errWaiting' = errWaiting
      BY <1>0, <2>2 DEF ListenerFetchError, ListenerCommitError, ReadersReport
    <3>. QED
      BY <1>0, <3>1 DEF ReadersReport
  <2>3. ASSUME NEW c \in Connectors, ConnectorErrorEnter(c)
        PROVE  \A d \in Connectors : (errNew'[d] > 0 \/ errWaiting'[d] > 0)
                 => Kind[d] \in FromKafka /\ MaxErrors > 0
    <3>1. /\ Kind[c] \in FromKafka /\ MaxErrors > 0
          /\ errNew' = [errNew EXCEPT ![c] = @ - 1]
          /\ errWaiting' = [errWaiting EXCEPT ![c] = @ + 1] \/ errWaiting' = errWaiting
      BY <2>3 DEF ConnectorErrorEnter, ReadersReport
    <3>. QED
      BY <1>0, <3>1 DEF ReadersReport
  <2>4. ASSUME NEW c \in Connectors, ConnectorError(c)
        PROVE  \A d \in Connectors : (errNew'[d] > 0 \/ errWaiting'[d] > 0)
                 => Kind[d] \in FromKafka /\ MaxErrors > 0
    <3>1. errNew' = errNew /\ errWaiting' = [errWaiting EXCEPT ![c] = @ - 1] /\ errWaiting[c] > 0
      BY <2>4 DEF ConnectorError
    <3>. QED
      BY <1>0, <3>1 DEF ReadersReport
  <2>. QED
    BY <2>1, <2>2, <2>3, <2>4, ErrFrame
<1>3. \A c \in Connectors : Base(c) \in reconnect' => Kind[c] \in FromKafka /\ MaxErrors > 0
  <2>1. CASE reconnect' \subseteq reconnect
    BY <2>1 DEF ReadersReport
  <2>2. ASSUME NEW c \in Connectors, reconnect' = Put(Self(c))
        PROVE  \A d \in Connectors : Base(d) \in reconnect' => Kind[d] \in FromKafka /\ MaxErrors > 0
    BY <2>2, EntryForms DEF Put, ReadersReport
  <2>3. ASSUME NEW c \in Connectors, ConnectorError(c), reconnect' = Put(Base(c))
        PROVE  \A d \in Connectors : Base(d) \in reconnect' => Kind[d] \in FromKafka /\ MaxErrors > 0
    <3>1. Kind[c] \in FromKafka /\ MaxErrors > 0
      BY <2>3 DEF ConnectorError, ReadersReport
    <3>2. \A d \in Connectors : Base(d) = Base(c) => d = c
      BY DEF Base
    <3>. QED
      BY <2>3, <3>1, <3>2 DEF Put, ReadersReport
  <2>4. CASE ~UNCHANGED queueVars
    <3>1. \/ reconnect' \subseteq reconnect
          \/ \E c \in Connectors : reconnect' = Put(Self(c))
          \/ \E c \in Connectors : ConnectorError(c) /\ reconnect' = Put(Base(c))
      BY <2>4, QueueFrame DEF Start, startConnector, stopReconnectTimer, StopConnectors,
         PassRestart, PassEnd, CheckOne, CheckEnd, TimerFires, TimerCanceled, PassBegin,
         ConnectorError
    <3>. QED
      BY <2>1, <2>2, <2>3, <3>1
  <2>. QED
    BY <2>1, <2>4 DEF queueVars
<1>. QED
  BY <1>1, <1>2, <1>3, Zenon DEF ReadersReport

-----------------------------------------------------------------------------
\* Start makes the contexts before it reaches the connectors; a redial makes one
\* together with the connection, and takes one away only with a closed connection.
LEMMA ContextIsReadyStep ==
  ASSUME TypeOK, ContextIsReady, [Next]_vars
  PROVE  ContextIsReady'
<1>0. /\ nc \in [Cells -> Nat] /\ js \in [Cells -> Nat] /\ conns \in [Cells -> Seq(Conn)]
      /\ \A k \in Cells : nc[k] <= Len(conns[k])
  BY DEF TypeOK
<1>. SUFFICES ASSUME phase' \in Served,
                     NEW k \in Cells, cellHasJetStream(k), nc'[k] # 0, ~IsClosed(k)'
              PROVE  js'[k] # 0
  BY DEF ContextIsReady, cellHasJetStream
<1>1. CASE connectToJetStream
  BY <1>0, <1>1 DEF connectToJetStream
<1>2. CASE ~connectToJetStream
  <2>1. phase \in Served
    <3>1. CASE UNCHANGED mainVars
      BY <3>1 DEF mainVars
    <3>2. CASE ~UNCHANGED mainVars
      BY <1>2, <3>2, MainFrame DEF Start, connectToNATS, StartSTAN, startConnector, StartReturns,
         Stop, stopReconnectTimer, StopConnectors, StopConnections, natsClosed, Signal, Served
    <3>. QED
      BY <3>1, <3>2
  <2>2. ASSUME NEW j \in Cells, PassDial(j)
        PROVE  js'[k] # 0
    <3>1. \A i \in Cells : i # j => nc'[i] = nc[i] /\ js'[i] = js[i] /\ conns'[i] = conns[i]
      BY <1>0, <2>2 DEF PassDial
    <3>2. CASE k # j
      BY <2>1, <3>1, <3>2 DEF ContextIsReady, IsClosed
    <3>3. CASE k = j /\ nc[k] # 0 /\ ~IsClosed(k)
      BY <2>1, <2>2, <3>3 DEF ContextIsReady, PassDial
    <3>4. CASE k = j /\ ~(nc[k] # 0 /\ ~IsClosed(k))
      <4>1. js' = [js EXCEPT ![k] = Len(conns[k]) + 1]
        BY <2>2, <3>4 DEF PassDial
      <4>2. Len(conns[k]) \in Nat
        BY <1>0
      <4>. QED
        BY <1>0, <4>1, <4>2
    <3>. QED
      BY <3>2, <3>3, <3>4
  <2>3. ASSUME ~\E j \in Cells : PassDial(j)
        PROVE  js'[k] # 0
    <3>1. ~\E D \in SUBSET Cells : connectToNATS(D)
      BY <2>1 DEF connectToNATS, Served
    <3>2. nc[k] # 0 /\ ~IsClosed(k)
      <4>1. nc' = nc /\ \A g \in 1..Len(conns[k]) :
               conns[k][g].status = "closed" => conns'[k][g].status = "closed"
        BY <2>3, <3>1, ClosedStaysClosed
      <4>2. nc[k] # 0 => nc[k] \in 1..Len(conns[k])
        BY <1>0
      <4>. QED
        BY <4>1, <4>2 DEF IsClosed
    <3>3. js[k] # 0
      BY <2>1, <3>2 DEF ContextIsReady
    <3>4. ASSUME NEW j \in Cells, PassRedial(j)
          PROVE  js'[k] # 0
      BY <1>0, <3>2, <3>3, <3>4 DEF PassRedial
    <3>5. UNCHANGED js \/ \E j \in Cells : PassRedial(j)
      <4>1. CASE ~UNCHANGED cellVars
        BY <1>2, <2>3, <3>1, <4>1, CellFrame DEF StopConnections, natsDisconnected, natsClosed,
           ClusterDown, ClusterUp, ClientReconnects, ClientGivesUp
      <4>. QED
        BY <4>1 DEF cellVars
    <3>. QED
      BY <3>3, <3>4, <3>5
  <2>. QED
    BY <2>2, <2>3
<1>. QED
  BY <1>1, <1>2

-----------------------------------------------------------------------------
\* What a connector of each type needs.
LEMMA RequirementOf ==
  ASSUME NEW c \in Connectors
  PROVE  /\ Kind[c] \in {"NATSToKafka", "KafkaToNATS"} =>
              /\ CheckConnections(c) <=> CheckNATSFor(Cluster[c])
              /\ CheckConnections(c)' <=> CheckNATSFor(Cluster[c])'
         /\ Kind[c] \in JetStreamKinds =>
              /\ CheckConnections(c) <=> CheckJetStreamFor(Cluster[c])
              /\ CheckConnections(c)' <=> CheckJetStreamFor(Cluster[c])'
         /\ Kind[c] \in StanKinds =>
              /\ CheckConnections(c) <=> CheckStan
              /\ CheckConnections(c)' <=> CheckStan'
         /\ Kind[c] \in {"NATSToKafka", "KafkaToNATS"} \cup JetStreamKinds \cup StanKinds
<1>1. CASE Kind[c] = "NATSToKafka"
  <2>1. CreateConnector(c) = NATS2Kafka(c) /\ CreateConnector(c)' = NATS2Kafka(c)'
    BY <1>1 DEF CreateConnector
  <2>. QED
    BY <1>1, <2>1 DEF CheckConnections, NATS2Kafka, JetStreamKinds, StanKinds
<1>2. CASE Kind[c] = "KafkaToNATS"
  <2>1. CreateConnector(c) = Kafka2NATS(c) /\ CreateConnector(c)' = Kafka2NATS(c)'
    BY <1>2 DEF CreateConnector
  <2>. QED
    BY <1>2, <2>1 DEF CheckConnections, Kafka2NATS, JetStreamKinds, StanKinds
<1>3. CASE Kind[c] = "JetStreamToKafka"
  <2>1. CreateConnector(c) = JetStream2Kafka(c) /\ CreateConnector(c)' = JetStream2Kafka(c)'
    BY <1>3 DEF CreateConnector
  <2>. QED
    BY <1>3, <2>1 DEF CheckConnections, JetStream2Kafka, JetStreamKinds, StanKinds
<1>4. CASE Kind[c] = "KafkaToJetStream"
  <2>1. CreateConnector(c) = Kafka2JetStream(c) /\ CreateConnector(c)' = Kafka2JetStream(c)'
    BY <1>4 DEF CreateConnector
  <2>. QED
    BY <1>4, <2>1 DEF CheckConnections, Kafka2JetStream, JetStreamKinds, StanKinds
<1>5. CASE Kind[c] = "STANToKafka"
  <2>1. CreateConnector(c) = Stan2Kafka(c) /\ CreateConnector(c)' = Stan2Kafka(c)'
    BY <1>5 DEF CreateConnector
  <2>. QED
    BY <1>5, <2>1 DEF CheckConnections, Stan2Kafka, JetStreamKinds, StanKinds
<1>6. CASE Kind[c] = "KafkaToStan"
  <2>1. CreateConnector(c) = Kafka2Stan(c) /\ CreateConnector(c)' = Kafka2Stan(c)'
    BY <1>6 DEF CreateConnector
  <2>. QED
    BY <1>6, <2>1 DEF CheckConnections, Kafka2Stan, JetStreamKinds, StanKinds
<1>. QED
  BY <1>1, <1>2, <1>3, <1>4, <1>5, <1>6, BridgeAssumption DEF ToKafka, FromKafka

\* What a connector needs depends on the cells and on STAN alone.
LEMMA SameRequirements ==
  ASSUME NEW c \in Connectors, CheckConnections(c), UNCHANGED <<cellVars, stanVars>>
  PROVE  CheckConnections(c)'
<1>1. /\ CheckStan => CheckStan'
      /\ CheckNATSFor(Cluster[c]) => CheckNATSFor(Cluster[c])'
      /\ CheckJetStreamFor(Cluster[c]) => CheckJetStreamFor(Cluster[c])'
  BY DEF CheckStan, CheckNATSFor, CheckJetStreamFor, isConnected, cellVars, stanVars
<1>. QED
  BY <1>1, RequirementOf

-----------------------------------------------------------------------------
\* A step between startConnectors and Stop, taken while the bridge runs.
ServedStep ==
  /\ TypeOK /\ StartIsAlone /\ [Next]_vars
  /\ phase \in Served /\ phase' \in Served /\ running

\* Steps that leave the bridge with a callback or a check to come.
LEMMA StepsThatAsk ==
  ASSUME ServedStep,
         \/ \E k \in Cells : \E g \in 1..Len(conns[k]) :
              natsDisconnected(k, g) \/ natsClosed(k, g) \/ ClientGivesUp(k, g)
         \/ stanConnectionLost
         \/ CheckEnter
  PROVE  CallbackDue'
<1>0. /\ wantCheck \in Nat /\ checkers \in Nat /\ conns \in [Cells -> Seq(Conn)] /\ running
  BY DEF ServedStep, TypeOK
<1>1. ASSUME NEW k \in Cells, NEW g \in 1..Len(conns[k]), natsDisconnected(k, g)
      PROVE  CallbackDue'
  BY <1>0, <1>1 DEF natsDisconnected, CallbackDue
<1>2. ASSUME NEW k \in Cells, NEW g \in 1..Len(conns[k]), natsClosed(k, g)
      PROVE  CallbackDue'
  <2>1. CASE k = Default
    BY <1>0, <1>2, <2>1, Zenon DEF natsClosed, CallbackDue
  <2>2. CASE k # Default
    BY <1>0, <1>2, <2>2 DEF natsClosed, CallbackDue
  <2>. QED
    BY <2>1, <2>2
<1>3. ASSUME NEW k \in Cells, NEW g \in 1..Len(conns[k]), ClientGivesUp(k, g)
      PROVE  CallbackDue'
  <2>1. conns[k][g] \in Conn
    BY <1>0
  <2>. DEFINE x == [conns[k][g] EXCEPT !.status = "closed", !.closed = TRUE]
  <2>2. conns' = [conns EXCEPT ![k][g] = x]
    BY <1>3 DEF ClientGivesUp
  <2>3. x \in Conn /\ x.closed
    BY <2>1, ConnTypes DEF Conn
  <2>. HIDE DEF x
  <2>4. Len(conns'[k]) = Len(conns[k]) /\ conns'[k][g] = x
    BY <1>0, <2>2, <2>3, OneConnRewritten
  <2>. QED
    BY <2>3, <2>4 DEF CallbackDue
<1>4. CASE stanConnectionLost
  BY <1>0, <1>4 DEF stanConnectionLost, CallbackDue
<1>5. CASE CheckEnter
  BY <1>0, <1>5 DEF CheckEnter, CallbackDue
<1>. QED
  BY <1>1, <1>2, <1>3, <1>4, <1>5

\* What the steps that are left do to the connections: their callbacks stay due,
\* and those that are lost become due.
LEMMA ConnsStep ==
  ASSUME ServedStep, ~CallbackDue', NEW k \in Cells
  PROVE  /\ Len(conns[k]) <= Len(conns'[k])
         /\ \A g \in 1..Len(conns[k]) :
              /\ conns[k][g].disconnects > 0 => conns'[k][g].disconnects > 0
              /\ conns[k][g].closed => conns'[k][g].closed
              /\ conns[k][g].status = "connected" => conns'[k][g].status = "connected"
<1>0. conns \in [Cells -> Seq(Conn)] /\ Len(conns[k]) \in Nat
  BY DEF ServedStep, TypeOK
<1>1. CASE UNCHANGED conns
  BY <1>0, <1>1
<1>2. ASSUME NEW j \in Cells, PassDial(j)
      PROVE  Len(conns[k]) <= Len(conns'[k]) /\ \A g \in 1..Len(conns[k]) : conns'[k][g] = conns[k][g]
  <2>1. PICK x \in Conn : conns' = [conns EXCEPT ![j] = Append(@, x)]
    BY <1>2, ConnTypes DEF PassDial
  <2>2. conns'[k] = IF k = j THEN Append(conns[k], x) ELSE conns[k]
    BY <1>0, <2>1
  <2>. HIDE DEF Conn
  <2>. QED
    BY <1>0, <2>2
<1>3. ASSUME NEW j \in Cells, NEW h \in 1..Len(conns[j]), ClientReconnects(j, h)
      PROVE  /\ Len(conns'[k]) = Len(conns[k])
             /\ \A g \in 1..Len(conns[k]) :
                  /\ conns'[k][g].disconnects = conns[k][g].disconnects
                  /\ conns'[k][g].closed = conns[k][g].closed
                  /\ conns'[k][g].status \in {conns[k][g].status, "connected"}
  <2>. DEFINE x == [conns[j][h] EXCEPT !.status = "connected"]
  <2>1. conns[j][h] \in Conn
    BY <1>0
  <2>2. conns' = [conns EXCEPT ![j][h] = x]
    BY <1>3 DEF ClientReconnects
  <2>3. /\ x \in Conn /\ x.disconnects = conns[j][h].disconnects /\ x.closed = conns[j][h].closed
        /\ x.status = "connected"
    BY <2>1, ConnTypes DEF Conn, Statuses
  <2>. HIDE DEF x, Conn
  <2>. QED
    BY <1>0, <2>2, <2>3, OneConnRewritten
<1>4. ASSUME NEW j \in Cells, ClusterDown(j)
      PROVE  /\ Len(conns'[k]) = Len(conns[k])
             /\ \A g \in 1..Len(conns[k]) : conns'[k][g] = conns[k][g]
  <2>1. CASE k # j
    BY <1>0, <1>4, <2>1 DEF ClusterDown
  <2>2. CASE k = j
    <3>1. conns'[k] = [g \in 1..Len(conns[k]) |->
            IF conns[k][g].status = "connected"
            THEN [conns[k][g] EXCEPT !.status = "reconnecting", !.disconnects = @ + 1]
            ELSE conns[k][g]]
      BY <1>0, <1>4, <2>2 DEF ClusterDown
    <3>2. Len(conns'[k]) = Len(conns[k])
      <4>1. conns'[k] = [g \in 1..Len(conns[k]) |-> conns'[k][g]]
        BY <3>1
      <4>. QED
        BY <1>0, <4>1
    <3>3. ASSUME NEW g \in 1..Len(conns[k])
          PROVE  conns[k][g].status # "connected"
      <4>. SUFFICES ASSUME conns[k][g].status = "connected" PROVE FALSE
        OBVIOUS
      <4>1. conns[k][g] \in Conn
        BY <1>0
      <4>2. conns'[k][g] = [conns[k][g] EXCEPT !.status = "reconnecting", !.disconnects = @ + 1]
        BY <3>1
      <4>3. conns'[k][g].disconnects > 0
        BY <4>1, <4>2 DEF Conn
      <4>. QED
        BY <3>2, <4>3 DEF CallbackDue
    <3>. QED
      BY <3>1, <3>2, <3>3
  <2>. QED
    BY <2>1, <2>2
<1>5. CASE ~UNCHANGED conns
  <2>1. ~UNCHANGED cellVars
    BY <1>5 DEF cellVars
  <2>2. \/ \E j \in Cells : PassDial(j)
        \/ \E j \in Cells : \E h \in 1..Len(conns[j]) : ClientReconnects(j, h)
        \/ \E j \in Cells : ClusterDown(j)
        \/ \E j \in Cells : \E h \in 1..Len(conns[j]) :
             natsDisconnected(j, h) \/ natsClosed(j, h) \/ ClientGivesUp(j, h)
    BY <1>5, <2>1, CellFrame DEF connectToNATS, connectToJetStream, StopConnections, PassRedial,
       ClusterUp, ServedStep, Served
  <2>. QED
    BY <1>0, <1>2, <1>3, <1>4, <2>2, StepsThatAsk
<1>. QED
  BY <1>1, <1>5

\* A callback or a check that is due stays due until a check begins.
LEMMA StaysDue ==
  ASSUME ServedStep, CallbackDue, ~CallbackDue'
  PROVE  CheckBegin
<1>0. wantCheck \in Nat /\ checkers \in Nat /\ \A k \in Cells : Len(conns[k]) \in Nat /\ Len(conns'[k]) \in Nat
  <2>1. conns \in [Cells -> Seq(Conn)] /\ conns' \in [Cells -> Seq(Conn)]
    BY CellTypeStep, TypeParts DEF ServedStep, TypeOK, CellType
  <2>. QED
    BY <2>1 DEF ServedStep, TypeOK
<1>1. /\ ~stopRequested' /\ ~(wantCheck' > 0) /\ ~(checkers' > 0)
      /\ \A k \in Cells : \A g \in 1..Len(conns'[k]) :
           ~(conns'[k][g].disconnects > 0) /\ ~conns'[k][g].closed
  BY DEF CallbackDue
<1>2. ASSUME NEW k \in Cells, NEW g \in 1..Len(conns[k]),
             conns[k][g].disconnects > 0 \/ conns[k][g].closed
      PROVE  FALSE
  <2>1. g \in 1..Len(conns'[k]) /\ (conns'[k][g].disconnects > 0 \/ conns'[k][g].closed)
    BY <1>0, <1>2, ConnsStep
  <2>. QED
    BY <1>1, <2>1
<1>3. stopRequested => stopRequested'
  <2>1. CASE ~UNCHANGED mainVars
    <3>1. \/ UNCHANGED stopRequested
          \/ \E k \in Cells : \E g \in 1..Len(conns[k]) : natsClosed(k, g)
          \/ Signal
      BY <2>1, MainFrame DEF Start, connectToNATS, StartSTAN, connectToJetStream, startConnector,
         StartReturns, Stop, stopReconnectTimer, StopConnectors, StopConnections, ServedStep
    <3>. QED
      BY <3>1, StepsThatAsk, Zenon DEF Signal
  <2>. QED
    BY <2>1 DEF mainVars
<1>4. wantCheck > 0 \/ checkers > 0
  BY <1>1, <1>2, <1>3 DEF CallbackDue
<1>5. ~UNCHANGED checkVars
  BY <1>1, <1>4 DEF checkVars
<1>. QED
  BY <1>5, CheckFrame, StepsThatAsk DEF ServedStep

\* A connector that has what it needs keeps it, or a callback will tell.
LEMMA StaysReady ==
  ASSUME ServedStep, ~CallbackDue', NEW c \in Connectors, CheckConnections(c)
  PROVE  CheckConnections(c)'
<1>0. /\ conns \in [Cells -> Seq(Conn)] /\ nc \in [Cells -> Nat] /\ js \in [Cells -> Nat]
      /\ \A k \in Cells : nc[k] <= Len(conns[k]) /\ Len(conns[k]) \in Nat
      /\ stan \in Nat /\ stanGen \in Nat
  BY DEF ServedStep, TypeOK
<1>1. ASSUME NEW k \in Cells
      PROVE  /\ isConnected(k) => isConnected(k)' /\ (js[k] # 0 => js'[k] # 0)
             /\ nc[k] = 0 => nc'[k] = 0 \/ isConnected(k)'
  <2>1. ASSUME NEW j \in Cells, PassDial(j)
        PROVE  /\ isConnected(k) => isConnected(k)' /\ (js[k] # 0 => js'[k] # 0)
               /\ nc[k] = 0 => nc'[k] = 0 \/ isConnected(k)'
    <3>1. CASE k # j
      BY <1>0, <2>1, <3>1 DEF PassDial, isConnected
    <3>2. CASE k = j /\ nc[k] # 0 /\ ~IsClosed(k)
      <4>1. UNCHANGED <<nc, js>> /\ nc[k] \in 1..Len(conns[k])
        BY <1>0, <2>1, <3>2 DEF PassDial
      <4>. QED
        BY <3>2, <4>1, ConnsStep DEF isConnected
    <3>3. CASE k = j /\ ~(nc[k] # 0 /\ ~IsClosed(k))
      <4>1. ~isConnected(k)
        BY <3>3 DEF isConnected, IsClosed
      <4>2. conns'[k] = Append(conns[k], NewConn) /\ nc'[k] = Len(conns[k]) + 1
        BY <1>0, <2>1, <3>3 DEF PassDial
      <4>3. conns'[k][Len(conns[k]) + 1] = NewConn
        <5>1. conns[k] \in Seq(Conn) /\ NewConn \in Conn
          BY <1>0, ConnTypes
        <5>. HIDE DEF Conn
        <5>. QED
          BY <4>2, <5>1
      <4>4. isConnected(k)'
        BY <1>0, <4>2, <4>3 DEF isConnected, NewConn
      <4>. QED
        BY <4>1, <4>4
    <3>. QED
      BY <3>1, <3>2, <3>3
  <2>2. ASSUME ~\E j \in Cells : PassDial(j)
        PROVE  /\ isConnected(k) => isConnected(k)' /\ (js[k] # 0 => js'[k] # 0)
               /\ nc[k] = 0 => nc'[k] = 0 \/ isConnected(k)'
    <3>1. ~\E D \in SUBSET Cells : connectToNATS(D)
      BY DEF connectToNATS, ServedStep, Served
    <3>2. nc' = nc
      BY <2>2, <3>1, ClosedStaysClosed DEF ServedStep
    <3>3. isConnected(k) => isConnected(k)'
      <4>1. nc[k] # 0 => nc[k] \in 1..Len(conns[k])
        BY <1>0
      <4>. QED
        BY <3>2, <4>1, ConnsStep DEF isConnected
    <3>4. ASSUME isConnected(k), js[k] # 0
          PROVE  js'[k] # 0
      <4>1. ASSUME NEW j \in Cells, PassRedial(j)
            PROVE  js'[k] # 0
        BY <1>0, <3>4, <4>1 DEF PassRedial, isConnected, IsClosed
      <4>2. UNCHANGED js \/ \E j \in Cells : PassRedial(j)
        <5>1. CASE ~UNCHANGED cellVars
          BY <2>2, <3>1, <5>1, CellFrame DEF connectToJetStream, StopConnections, natsDisconnected,
             natsClosed, ClusterDown, ClusterUp, ClientReconnects, ClientGivesUp, ServedStep, Served
        <5>. QED
          BY <5>1 DEF cellVars
      <4>. QED
        BY <3>4, <4>1, <4>2
    <3>. QED
      BY <3>2, <3>3, <3>4
  <2>. QED
    BY <2>1, <2>2
<1>2. stan # 0 => stan' # 0
  <2>1. ASSUME NEW ok \in BOOLEAN, PassStan(ok)
        PROVE  stan # 0 => stan' # 0
    BY <2>1 DEF PassStan, stanVars
  <2>2. CASE ~UNCHANGED stanVars
    <3>1. \/ \E ok \in BOOLEAN : PassStan(ok)
          \/ stanConnectionLost
          \/ StanLost
      BY <2>2, StanFrame DEF StartSTAN, StopConnections, ServedStep, Served
    <3>. QED
      BY <2>1, <3>1, StepsThatAsk DEF StanLost
  <2>. QED
    BY <2>2 DEF stanVars
<1>3. Cluster[c] \in Cells /\ Default \in Cells /\ Kind[c] \in ToKafka \cup FromKafka
  BY BridgeAssumption
<1>4. CheckStan => CheckStan'
  BY <1>1, <1>2, <1>3 DEF CheckStan
<1>5. CheckNATSFor(Cluster[c]) => CheckNATSFor(Cluster[c])'
  BY <1>1, <1>3 DEF CheckNATSFor
<1>6. CheckJetStreamFor(Cluster[c]) => CheckJetStreamFor(Cluster[c])'
  BY <1>1, <1>3 DEF CheckJetStreamFor
<1>. QED
  BY <1>3, <1>4, <1>5, <1>6, RequirementOf

-----------------------------------------------------------------------------
(* Under two conditions the map does not lose a connector that is out: no  *)
(* other connector has its id, under which only one of them is kept, and a *)
(* base that is taken off the map stands for a connector that is ready.    *)
(* The latter fails for a KafkaToStan listener, for whose base the pass    *)
(* does not ask for the STAN connection.                                   *)

IdsAreDistinct == \A c, d \in Connectors : IdOf[c] = IdOf[d] => c = d
NoErrorOfStanReader == MaxErrors = 0 \/ \A c \in Connectors : Kind[c] # "KafkaToStan"

\* A connector leaves the map only when it has what it needs.
LEMMA StaysQueued ==
  ASSUME IdsAreDistinct, NoErrorOfStanReader, ServedStep, ReadersReport, ContextIsReady,
         NEW c \in Connectors, Queued(c), ~Queued(c)'
  PROVE  CheckConnections(c)'
<1>0. reconnect \subseteq Entries
  BY DEF ServedStep, TypeOK
<1>1. PICK q \in reconnect : q.conn = c
  BY <1>0 DEF Queued, EntryId, Entries, IdsAreDistinct
<1>2. q \notin reconnect'
  BY <1>0, <1>1 DEF Queued, EntryId, Entries
<1>3. ASSUME NEW e, reconnect' = Put(e)
      PROVE  FALSE
  BY <1>1, <1>3 DEF Put, Queued, EntryId
<1>4. ASSUME NEW e \in Entries, NEW ok \in BOOLEAN, PassRestart(e, ok)
      PROVE  CheckConnections(c)'
  <2>1. ok /\ e = q /\ Restartable(q)
    BY <1>1, <1>2, <1>4 DEF PassRestart
  <2>2. CheckConnections(c)
    <3>1. CASE ~q.base
      BY <1>1, <1>4, <2>1, <3>1 DEF PassRestart, ConnectorStart
    <3>2. CASE q.base
      <4>1. q = Base(c)
        BY <1>0, <1>1, <3>2 DEF Entries, Base
      <4>2. Kind[c] \in {"KafkaToNATS", "KafkaToJetStream"}
        BY <1>1, <4>1 DEF ReadersReport, NoErrorOfStanReader, FromKafka
      <4>3. isConnected(Cluster[c])
        BY <1>1, <2>1 DEF Restartable, CheckNATSFor
      <4>4. CASE Kind[c] = "KafkaToNATS"
        BY <4>3, <4>4, RequirementOf DEF CheckNATSFor
      <4>5. CASE Kind[c] = "KafkaToJetStream"
        <5>1. Cluster[c] \in Cells /\ cellHasJetStream(Cluster[c])
          BY <4>5, BridgeAssumption DEF cellHasJetStream, JetStreamKinds
        <5>2. js[Cluster[c]] # 0
          BY <4>3, <5>1 DEF ContextIsReady, ServedStep, isConnected, IsClosed
        <5>. QED
          BY <4>3, <4>5, <5>2, RequirementOf DEF CheckJetStreamFor, JetStreamKinds
      <4>. QED
        BY <4>2, <4>4, <4>5
    <3>. QED
      BY <3>1, <3>2
  <2>3. UNCHANGED <<cellVars, stanVars>>
    BY <1>4 DEF PassRestart
  <2>. QED
    BY <2>2, <2>3, SameRequirements
<1>5. reconnect' # reconnect
  BY <1>2
<1>6. \/ \E e : reconnect' = Put(e)
      \/ \E e \in Entries, ok \in BOOLEAN : PassRestart(e, ok)
  <2>1. ~UNCHANGED queueVars
    BY <1>5 DEF queueVars
  <2>. QED
    BY <1>5, <2>1, QueueFrame DEF Start, startConnector, stopReconnectTimer, StopConnectors, PassEnd,
       CheckOne, CheckEnd, TimerFires, TimerCanceled, PassBegin, ConnectorError, ServedStep, Served
<1>. QED
  BY <1>3, <1>4, <1>6

\* Whoever has reached a connector has started it or put it into the map.
LEMMA ReachedIsNoticed ==
  ASSUME ServedStep, NEW c \in Connectors, Ahead(c), ~Ahead(c)'
  PROVE  CheckConnections(c)' \/ Queued(c)'
<1>1. reconnect' = Put(Self(c)) => Queued(c)'
  <2>1. Self(c) \in Put(Self(c))
    BY DEF Put
  <2>2. EntryId(Self(c)) = IdOf[c]
    BY DEF EntryId, Self
  <2>. QED
    BY <2>1, <2>2 DEF Queued, EntryId
<1>2. ASSUME NEW d \in Connectors, NEW ok \in BOOLEAN, startConnector(d, ok)
      PROVE  CheckConnections(c)' \/ Queued(c)'
  <2>1. d = c
    BY <1>2 DEF startConnector, Ahead, lockVars
  <2>2. CASE ConnectorStart(c)
    <3>1. CheckConnections(c) /\ UNCHANGED <<cellVars, stanVars>>
      BY <1>2, <2>2 DEF ConnectorStart, startConnector
    <3>. QED
      BY <3>1, SameRequirements
  <2>3. CASE reconnect' = Put(Self(c))
    BY <1>1, <2>3
  <2>. QED
    BY <1>2, <2>1, <2>2, <2>3 DEF startConnector, ServedStep, Served
<1>3. ASSUME NEW d \in Connectors, CheckOne(d)
      PROVE  CheckConnections(c)' \/ Queued(c)'
  <2>1. d = c
    BY <1>3 DEF CheckOne, Ahead, mainVars
  <2>2. CASE CheckConnections(c)
    <3>1. UNCHANGED <<cellVars, stanVars>>
      BY <1>3 DEF CheckOne
    <3>. QED
      BY <2>2, <3>1, SameRequirements
  <2>3. CASE Queued(c) /\ ~CheckConnections(c)
    BY <1>3, <2>1, <2>3 DEF CheckOne, Queued
  <2>4. CASE ~Queued(c) /\ ~CheckConnections(c)
    BY <1>1, <1>3, <2>1, <2>4 DEF CheckOne
  <2>. QED
    BY <2>2, <2>3, <2>4
<1>4. c \in toStart => \/ c \in toStart'
                       \/ \E d \in Connectors, ok \in BOOLEAN : startConnector(d, ok)
  <2>1. CASE ~UNCHANGED mainVars
    BY <2>1, MainFrame DEF Start, connectToNATS, StartSTAN, connectToJetStream, StartReturns, Stop,
       stopReconnectTimer, StopConnectors, StopConnections, natsClosed, Signal, ServedStep
  <2>. QED
    BY <2>1 DEF mainVars
<1>5. (holder = "check" /\ c \in checkTodo) => \/ holder' = "check" /\ c \in checkTodo'
                                               \/ \E d \in Connectors : CheckOne(d)
  <2>1. CASE ~UNCHANGED lockVars
    BY <2>1, LockFrame DEF PassStan, PassRedial, PassDial, PassDialError, PassRedialed, PassRestart,
       PassEnd, CheckEnd, PassBegin, CheckBegin, ServedStep
  <2>. QED
    BY <2>1 DEF lockVars
<1>. QED
  BY <1>2, <1>3, <1>4, <1>5 DEF Ahead

-----------------------------------------------------------------------------
\* A step keeps every connector noticed.
LEMMA EveryoneIsNoticedStep ==
  ASSUME IdsAreDistinct, NoErrorOfStanReader,
         IInv, ReadersReport, ContextIsReady, EveryoneIsNoticed, [Next]_vars
  PROVE  EveryoneIsNoticed'
<1>0. TypeOK /\ StartIsAlone /\ (phase \in Served => running)
  BY DEF IInv, WorkIsTracked, Served
<1>1. CASE connectToJetStream
  BY <1>1 DEF connectToJetStream, EveryoneIsNoticed, Ahead
<1>2. CASE ~connectToJetStream
  <2>1. phase' \in Served => phase \in Served
    <3>1. CASE ~UNCHANGED mainVars
      BY <1>2, <3>1, MainFrame DEF Start, connectToNATS, StartSTAN, startConnector, StartReturns,
         Stop, stopReconnectTimer, StopConnectors, StopConnections, natsClosed, Signal, Served
    <3>. QED
      BY <3>1 DEF mainVars
  <2>2. phase' = "up" => toStart' = {}
    <3>1. CASE ~UNCHANGED mainVars
      BY <1>2, <3>1, MainFrame DEF Start, connectToNATS, StartSTAN, startConnector, StartReturns,
         Stop, stopReconnectTimer, StopConnectors, StopConnections, natsClosed, Signal,
         EveryoneIsNoticed
    <3>. QED
      BY <3>1 DEF mainVars, EveryoneIsNoticed
  <2>3. ASSUME phase' \in Served, NEW c \in Connectors, ~Ahead(c)', ~CallbackDue'
        PROVE  CheckConnections(c)' \/ Queued(c)'
    <3>1. ServedStep
      BY <1>0, <2>1, <2>3 DEF ServedStep
    <3>2. CASE Ahead(c)
      BY <2>3, <3>1, <3>2, ReachedIsNoticed
    <3>3. CASE CheckConnections(c)
      BY <2>3, <3>1, <3>3, StaysReady
    <3>4. CASE Queued(c)
      BY <3>1, <3>4, StaysQueued
    <3>5. CASE CallbackDue
      <4>1. CheckBegin
        BY <2>3, <3>1, <3>5, StaysDue
      <4>. QED
        BY <2>3, <4>1 DEF CheckBegin, Ahead
    <3>. QED
      BY <2>1, <2>3, <3>2, <3>3, <3>4, <3>5 DEF EveryoneIsNoticed
  <2>. QED
    BY <2>2, <2>3 DEF EveryoneIsNoticed
<1>. QED
  BY <1>1, <1>2

\* No outage goes unnoticed: whenever nobody holds the reconnectLock, a connector
\* whose requirements do not hold is in the reconnect map, or a callback or a
\* check that is due will find it (natsDisconnected, natsClosed,
\* stanConnectionLost, checkConnections, startConnectors and the pass).
THEOREM NoOutageUnnoticed ==
  ASSUME IdsAreDistinct, NoErrorOfStanReader
  PROVE  Spec => []OutageIsNoticed
<1>. DEFINE Inv == ReadersReport /\ ContextIsReady /\ EveryoneIsNoticed
<1>1. Init => Inv
  BY DEF Init, ReadersReport, ContextIsReady, EveryoneIsNoticed, Served
<1>2. IInv /\ Inv /\ [Next]_vars => Inv'
  BY ReadersReportStep, ContextIsReadyStep, EveryoneIsNoticedStep DEF IInv
<1>3. Inv => OutageIsNoticed
  BY DEF EveryoneIsNoticed, OutageIsNoticed, Ahead, Served
<1>. HIDE DEF Inv
<1>. QED
  BY <1>1, <1>2, <1>3, BridgeInvariant, PTL DEF Spec
=============================================================================
