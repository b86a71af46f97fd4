----------------------------- MODULE Monitoring -----------------------------
(***************************************************************************)
(* The HTTP monitor beside the bridge it reports on.  Start and Stop hold  *)
(* the server's lock from their first step to their last; the handlers do  *)
(* not take it, although stats asks for it, and read server.connectors and *)
(* the holders of the connectors while callbacks fill them.  The holder's  *)
(* mutex and statsLock are held over one step each.                        *)
(***************************************************************************)
EXTENDS Statistics

CONSTANTS
  Connect,        \* the connectors of the configuration, a sequence
  Named,          \* those on a named cluster
  Streams,        \* those that read from JetStream
  Settings,       \* the monitoring settings to look at
  Requests,       \* HTTP requests that may be under way together
  Samples,        \* request times of each connector
  Bytes,          \* length of a message
  Pending,        \* messages a stream still has for the consumer
  MaxIn,          \* bound: messages that come in at each connector
  MaxFailed,      \* bound: those of them it does not pass on
  MaxHTTP         \* bound: HTTP requests

ASSUME MonitoringAssumption ==
  /\ Settings \subseteq {"none", "both", "http", "https", "https without key"}
  /\ Connect \in Seq(Range(Connect))
  /\ Samples \in [Range(Connect) -> SUBSET Nat]

Paths == {"/", "/varz", "/healthz"}

VARIABLES
  setting,       \* server.config.Monitoring
  main,          \* where the caller of Start and Stop is
  next,          \* the loop index of Start and of Stop
  connectors,    \* server.connectors
  cells,         \* whether the cells exist
  holder,        \* the statistics of each connector
  live,          \* the connectors whose callbacks may run
  http,          \* server.http: "nil", "serve", "shutdown" or "kept" after a timeout
  handler,       \* whether srv.Handler is still the mux
  httpReqStats,
  req,           \* the goroutine of each request
  requests,      \* requests so far
  seen           \* ghost: what was added to each histogram

serverVars == <<setting, main, next, connectors, cells, live, http, handler>>
httpVars == <<httpReqStats, req, requests>>
statVars == <<holder, seen>>
vars == <<serverVars, httpVars, statVars>>

All == Range(Connect)
Idle == [pc |-> "idle"]

\* What has been counted by the connectors on the list.
Total(list) == SumOf(LAMBDA c : holder[c].stats.count, list)

-----------------------------------------------------------------------------
\* Start
ResetState ==
  /\ main = "new"
  /\ connectors' = <<>> /\ main' = "connect"
  /\ UNCHANGED <<setting, next, cells, live, http, handler, httpVars, statVars>>

\* ValidateNATSClusters, connectToNATS, connectToSTAN and connectToJetStream.
Connections(ok) ==
  /\ main = "connect"
  /\ cells' = ok
  /\ main' = IF ok THEN "initialize" ELSE "failed"
  /\ UNCHANGED <<setting, next, connectors, live, http, handler, httpVars, statVars>>

initializeConnectors(ok) ==
  /\ main = "initialize"
  /\ IF Len(connectors) = Len(Connect)
       THEN ok /\ main' = "start" /\ next' = 1 /\ UNCHANGED connectors
       ELSE /\ UNCHANGED next
            /\ IF ok THEN main' = main /\ connectors' = Append(connectors, Connect[Len(connectors) + 1])
                     ELSE main' = "failed" /\ UNCHANGED connectors
  /\ UNCHANGED <<setting, cells, live, http, handler, httpVars, statVars>>

\* A connector on a named cluster that does not start is left to the reconnect timer.
startConnectors(ok) ==
  /\ main = "start"
  /\ IF next > Len(connectors)
       THEN ok /\ main' = "monitor" /\ UNCHANGED <<next, live, holder>>
       ELSE LET c == connectors[next] IN
            /\ next' = next + 1
            /\ live' = IF ok THEN live \cup {c} ELSE live
            /\ holder' = IF ok THEN [holder EXCEPT ![c] = AddConnect(@)] ELSE holder
            /\ main' = IF ok \/ c \in Named THEN main ELSE "failed"
  /\ UNCHANGED <<setting, connectors, cells, http, handler, httpVars, seen>>

\* Mutant of startMonitoring: the monitor is up before the connectors are made.
startMonitoringFirst(ok) ==
  /\ \/ main = "initialize" /\ http = "nil" /\ main' = main
     \/ main = "monitor" /\ http # "nil" /\ main' = "running"
  /\ setting \in {"http", "https"} /\ ok
  /\ http' = "serve" /\ handler' = TRUE
  /\ httpReqStats' = [p \in Paths |-> 0]
  /\ UNCHANGED <<setting, next, connectors, cells, live, req, requests, statVars>>

\* The certificate may not load, the port may be taken.  http.Server and
\* listener are set and Serve runs before the lock is free.
startMonitoring(ok) ==
  /\ main = "monitor"
  /\ CASE setting \in {"both", "https without key"} ->
            ~ok /\ main' = "failed" /\ UNCHANGED <<http, handler, httpReqStats>>
       [] setting = "none" ->
            ok /\ main' = "running" /\ UNCHANGED <<http, handler, httpReqStats>>
       [] OTHER ->
            /\ httpReqStats' = [p \in Paths |-> 0]
            /\ main' = IF ok THEN "running" ELSE "failed"
            /\ http' = IF ok THEN "serve" ELSE http
            /\ handler' = ok
  /\ UNCHANGED <<setting, next, connectors, cells, live, req, requests, statVars>>

-----------------------------------------------------------------------------
\* Stop, from the signal goroutine or, after an error of Start, from logErrorFatal.
StopBegin ==
  /\ main \in {"running", "failed"}
  /\ main' = "shutdown" /\ next' = 1
  /\ UNCHANGED <<setting, connectors, cells, live, http, handler, httpVars, statVars>>

\* Shutdown of every connector, then the connections are closed.  A callback
\* that is under way may still end.
StopConnector ==
  /\ main = "shutdown"
  /\ IF next > Len(connectors)
       THEN main' = "stop monitor" /\ UNCHANGED <<next, holder>>
       ELSE /\ next' = next + 1 /\ UNCHANGED main
            /\ holder' = [holder EXCEPT ![connectors[next]] = AddDisconnect(@)]
  /\ UNCHANGED <<setting, connectors, cells, live, http, handler, httpVars, seen>>

\* http.Shutdown stops the listener and waits.
StopMonitoring ==
  /\ main = "stop monitor"
  /\ http' = IF http = "serve" THEN "shutdown" ELSE http
  /\ main' = IF http = "serve" THEN "wait" ELSE "stopped"
  /\ UNCHANGED <<setting, next, connectors, cells, live, handler, httpVars, statVars>>

\* Serve has returned, srv.Handler = nil.
ServeReturns ==
  /\ http \in {"shutdown", "kept"} /\ handler
  /\ handler' = FALSE
  /\ UNCHANGED <<setting, main, next, connectors, cells, live, http, httpVars, statVars>>

\* Shutdown returns once no request is under way.
ShutdownDone ==
  /\ main = "wait"
  /\ \A r \in Requests : req[r] = Idle
  /\ http' = "nil" /\ main' = "stopped"
  /\ UNCHANGED <<setting, next, connectors, cells, live, handler, httpVars, statVars>>

\* The context of five seconds ends first: an error, server.http stays set.
ShutdownTimeout ==
  /\ main = "wait"
  /\ \E r \in Requests : req[r] # Idle
  /\ http' = "kept" /\ main' = "stopped"
  /\ UNCHANGED <<setting, next, connectors, cells, live, handler, httpVars, statVars>>

-----------------------------------------------------------------------------
\* The callbacks of connector c: a message that failed, and one that was passed on.
\* After Stop the process exits or goes on with another bridge.
CallbackFails(c) ==
  /\ c \in live /\ main # "stopped" /\ holder[c].stats.msgIn < MaxIn[c]
  /\ holder[c].stats.msgIn < holder[c].stats.msgOut + MaxFailed[c]
  /\ holder' = [holder EXCEPT ![c] = AddMessageIn(@, Bytes)]
  /\ UNCHANGED <<serverVars, httpVars, seen>>

CallbackDone(c, t) ==
  /\ c \in live /\ main # "stopped" /\ holder[c].stats.msgIn < MaxIn[c]
  /\ holder' = [holder EXCEPT ![c] = IF c \in Streams THEN AddStreamRequest(@, Bytes, t, Pending)
                                                      ELSE AddRequest(@, Bytes, t)]
  /\ seen' = [seen EXCEPT ![c] = [n |-> @.n + 1, sum |-> @.sum + t, times |-> @.times \cup {t}]]
  /\ UNCHANGED <<serverVars, httpVars>>

-----------------------------------------------------------------------------
\* A request comes in while the listener is open.
Arrive(r, path) ==
  /\ http = "serve" /\ req[r] = Idle /\ requests < MaxHTTP
  /\ requests' = requests + 1
  /\ req' = [req EXCEPT ![r] = [pc |-> "accepted", path |-> path, floor |-> Total(connectors)]]
  /\ UNCHANGED <<serverVars, httpReqStats, statVars>>

\* Without its handler the server answers 404, and HandleRoot does for a path it does not know.
NotFound(r) ==
  /\ req[r].pc = "accepted"
  /\ ~handler \/ req[r].path \notin Paths
  /\ req' = [req EXCEPT ![r] = Idle]
  /\ UNCHANGED <<serverVars, httpReqStats, requests, statVars>>

\* HandleRoot and HandleHealthz
HandlePage(r) ==
  /\ req[r].pc = "accepted" /\ handler
  /\ req[r].path \in {"/", "/healthz"}
  /\ httpReqStats' = [httpReqStats EXCEPT ![req[r].path] = @ + 1]
  /\ req' = [req EXCEPT ![r] = Idle]
  /\ UNCHANGED <<serverVars, requests, statVars>>

\* HandleVarz up to the loop of stats, which ranges over the slice found here.
HandleVarz(r) ==
  /\ req[r].pc = "accepted" /\ handler /\ req[r].path = "/varz"
  /\ httpReqStats' = [httpReqStats EXCEPT !["/varz"] = @ + 1]
  /\ req' = [req EXCEPT ![r] = [pc |-> "stats", floor |-> @.floor, nats |-> cells,
                                list |-> connectors, conns |-> <<>>, count |-> 0]]
  /\ UNCHANGED <<serverVars, requests, statVars>>

\* Mutant of statsConnector: the count is that of the last connector.
statsConnectorLast(r) ==
  /\ req[r].pc = "stats" /\ Len(req[r].conns) < Len(req[r].list)
  /\ LET c == req[r].list[Len(req[r].conns) + 1]
         s == Stats(holder[c])
     IN /\ holder' = [holder EXCEPT ![c] = s.holder]
        /\ req' = [req EXCEPT ![r].conns = Append(@, s.copy),
                              ![r].count = s.copy.count]
  /\ UNCHANGED <<serverVars, httpReqStats, requests, seen>>

\* Mutant of statsConnector: stats runs under the lock of the server, as SafeStats runs it.
statsConnectorSafe(r) ==
  /\ req[r].pc = "stats" /\ Len(req[r].conns) < Len(req[r].list)
  /\ main \in {"running", "failed", "stopped"}
  /\ LET c == req[r].list[Len(req[r].conns) + 1]
         s == Stats(holder[c])
     IN /\ holder' = [holder EXCEPT ![c] = s.holder]
        /\ req' = [req EXCEPT ![r].conns = Append(@, s.copy),
                              ![r].count = @ + s.copy.count]
  /\ UNCHANGED <<serverVars, httpReqStats, requests, seen>>

\* One connector of the loop of stats.
statsConnector(r) ==
  /\ req[r].pc = "stats" /\ Len(req[r].conns) < Len(req[r].list)
  /\ LET c == req[r].list[Len(req[r].conns) + 1]
         s == Stats(holder[c])
     IN /\ holder' = [holder EXCEPT ![c] = s.holder]
        /\ req' = [req EXCEPT ![r].conns = Append(@, s.copy),
                              ![r].count = @ + s.copy.count]
  /\ UNCHANGED <<serverVars, httpReqStats, requests, seen>>

\* The copy of httpReqStats ends stats.
statsHTTP(r) ==
  /\ req[r].pc = "stats" /\ Len(req[r].conns) = Len(req[r].list)
  /\ req' = [req EXCEPT ![r] = [pc |-> "write", floor |-> @.floor, nats |-> @.nats, conns |-> @.conns,
                                count |-> @.count, http |-> httpReqStats]]
  /\ UNCHANGED <<serverVars, httpReqStats, requests, statVars>>

\* The answer has been written.
WriteVarz(r) ==
  /\ req[r].pc = "write"
  /\ req' = [req EXCEPT ![r] = Idle]
  /\ UNCHANGED <<serverVars, httpReqStats, requests, statVars>>

-----------------------------------------------------------------------------
Init ==
  /\ setting \in Settings
  /\ main = "new" /\ next = 1
  /\ connectors = <<>> /\ cells = FALSE
  /\ holder = [c \in All |-> NewConnectorStatsHolder]
  /\ live = {} /\ http = "nil" /\ handler = FALSE
  /\ httpReqStats = [p \in Paths |-> 0]
  /\ req = [r \in Requests |-> Idle]
  /\ requests = 0
  /\ seen = [c \in All |-> [n |-> 0, sum |-> 0, times |-> {}]]

StartStep ==
  \/ ResetState
  \/ \E ok \in BOOLEAN : \/ Connections(ok) \/ initializeConnectors(ok)
                         \/ startConnectors(ok) \/ startMonitoring(ok)

StopStep == StopConnector \/ StopMonitoring \/ ServeReturns \/ ShutdownDone

Handle(r) ==
  \/ NotFound(r) \/ HandlePage(r) \/ HandleVarz(r)
  \/ statsConnector(r) \/ statsHTTP(r) \/ WriteVarz(r)

Next ==
  \/ StartStep \/ StopBegin \/ StopStep \/ ShutdownTimeout
  \/ \E c \in All : \/ CallbackFails(c)
                    \/ \E t \in Samples[c] : CallbackDone(c, t)
  \/ \E r \in Requests : \/ Handle(r)
                         \/ \E path \in Paths \cup {"/other"} : Arrive(r, path)

\* Start and Stop run on, and so does a handler, which waits for nothing but
\* short critical sections.  Nothing has to call Stop, and no timeout is needed.
Fairness == WF_vars(StartStep) /\ WF_vars(StopStep) /\ \A r \in Requests : WF_vars(Handle(r))

Spec == Init /\ [][Next]_vars /\ Fairness

-----------------------------------------------------------------------------
\* However often bins are merged, a histogram sums up its samples: the bins are
\* strictly ordered and no more than MaxBins, their counts add up to the
\* requests, and their mean is that of the samples (Add with its trim).
SumsUpTheSamples ==
  \A c \in All : LET h == holder[c].histogram IN
    /\ Len(h.bins) <= MaxBins
    /\ \A i \in 1..(Len(h.bins) - 1) : Below(h.bins[i], h.bins[i+1])
    /\ SumOf(LAMBDA b : b.count, h.bins) = seen[c].n /\ Count(h) = seen[c].n
    /\ MeanSum(h) = seen[c].sum

\* The running average, computed from the last average alone, is the mean of
\* all the request times (AddRequestTime).
AverageIsMean ==
  \A c \in All : LET s == holder[c].stats IN
    /\ s.count = seen[c].n
    /\ s.average.num * s.count = seen[c].sum * s.average.den

\* What an answer of /varz says of one connector is of one moment: the
\* quantiles are those of the requests it counts, -1 before the first one; a
\* higher percentage has no lower quantile; what went out came in (Stats under
\* the holder's mutex, beside callbacks).
SnapshotsAreConsistent ==
  \A r \in Requests : req[r].pc \in {"stats", "write"} =>
    \A i \in DOMAIN req[r].conns :
      LET s == req[r].conns[i]
          times == seen[Connect[i]].times
      IN /\ s.msgOut = s.count /\ s.count <= s.msgIn
         /\ s.bytesIn = Bytes * s.msgIn /\ s.bytesOut = Bytes * s.msgOut
         /\ IF s.count = 0
              THEN \A q \in Percents : s.quantiles[q] = NoValue
              ELSE \A q \in Percents :
                     /\ ~Above(s.quantiles[q], Max(times))
                     /\ s.quantiles[q].sum >= Min(times) * s.quantiles[q].count
                     /\ \A p \in Percents : p < q => ~Below(s.quantiles[q], s.quantiles[p])

\* The handlers read connectors and cells without the lock, and yet every
\* answer is about all of them (startMonitoring is the last step of Start,
\* and Stop leaves the list alone).
VarzListsAll ==
  \A r \in Requests : req[r].pc = "write" =>
    req[r].nats /\ Len(req[r].conns) = Len(Connect)

\* The request count of an answer is the sum of the connectors in it, and lies
\* between what had been handled when the request came in and what has been
\* handled by now; the answer counts its own request (stats, which reads the
\* holders one after the other).
VarzIsBetween ==
  \A r \in Requests : req[r].pc = "write" =>
    /\ req[r].count = SumOf(LAMBDA s : s.count, req[r].conns)
    /\ req[r].floor <= req[r].count /\ req[r].count <= Total(connectors)
    /\ req[r].http["/varz"] >= 1

\* Stop returns without the five seconds of http.Shutdown: no handler it waits
\* for waits for the lock that Stop holds (StopMonitoring, HandleVarz).
StopReturns == main = "shutdown" ~> main = "stopped"
=============================================================================
