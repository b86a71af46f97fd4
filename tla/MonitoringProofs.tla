-------------------------- MODULE MonitoringProofs --------------------------
(***************************************************************************)
(* What /varz reports, for any connectors, any number of requests beside   *)
(* each other and any number of messages.                                  *)
(***************************************************************************)
EXTENDS Monitoring, TLAPS

\* From here on connectors and cells are what the handlers may read.
Complete == cells /\ Len(connectors) = Len(Connect)

\* Start fills server.connectors before it opens the listener; server.http is
\* set for as long as a handler may run.
ListBeforeHTTP ==
  /\ connectors \in Seq(All) /\ cells \in BOOLEAN
  /\ main = "connect" => connectors = <<>>
  /\ main = "initialize" => cells /\ Len(connectors) <= Len(Connect)
  /\ main \in {"start", "monitor"} => Complete
  /\ http # "nil" =>
       Complete /\ main \in {"running", "shutdown", "stop monitor", "wait", "stopped"}

\* The request of goroutine r has its place in stats.
InStats(r) ==
  req[r] = [pc |-> "stats", floor |-> req[r].floor, nats |-> req[r].nats, list |-> req[r].list,
            conns |-> req[r].conns, count |-> req[r].count]

\* What a handler has found so far.
HandlersFindAll ==
  /\ req = [r \in Requests |-> req[r]]
  /\ \A r \in Requests :
       /\ req[r] # Idle => http # "nil"
       /\ req[r].pc = "stats" => InStats(r) /\ req[r].nats /\ Len(req[r].list) = Len(Connect)
       /\ req[r].pc = "write" => req[r].nats /\ Len(req[r].conns) = Len(Connect)

ListInv == ListBeforeHTTP /\ HandlersFindAll

-----------------------------------------------------------------------------
LEMMA ListBeforeHTTPStep ==
  ASSUME ListInv, [Next]_vars
  PROVE  ListBeforeHTTP'
<1>0. Connect \in Seq(All) /\ Len(Connect) \in Nat /\ \A i \in 1..Len(Connect) : Connect[i] \in All
  <2>1. Connect \in Seq(All)
    BY MonitoringAssumption, Zenon DEF All
  <2>. QED
    BY <2>1
<1>1. CASE UNCHANGED <<main, connectors, cells, http>>
  BY <1>1 DEF ListInv, ListBeforeHTTP, Complete
<1>2. CASE ResetState
  BY <1>2 DEF ResetState, ListInv, ListBeforeHTTP, Complete
<1>3. ASSUME NEW ok \in BOOLEAN, Connections(ok)
      PROVE  ListBeforeHTTP'
  <2>1. http = "nil" /\ http' = "nil" /\ connectors' = connectors /\ connectors \in Seq(All)
    BY <1>3 DEF Connections, ListInv, ListBeforeHTTP
  <2>2. cells' \in BOOLEAN /\ (main' = "initialize" => cells') /\ main' \in {"initialize", "failed"}
    BY <1>3, Zenon DEF Connections
  <2>3. Len(connectors') <= Len(Connect)
    <3>1. connectors = <<>>
      BY <1>3 DEF Connections, ListInv, ListBeforeHTTP
    <3>. QED
      BY <1>0, <2>1, <3>1
  <2>. QED
    BY <2>1, <2>2, <2>3 DEF ListBeforeHTTP
<1>4. ASSUME NEW ok \in BOOLEAN, initializeConnectors(ok)
      PROVE  ListBeforeHTTP'
  <2>1. /\ http = "nil" /\ http' = "nil" /\ cells /\ cells' = cells
        /\ connectors \in Seq(All) /\ Len(connectors) <= Len(Connect)
    BY <1>4 DEF initializeConnectors, ListInv, ListBeforeHTTP
  <2>2. CASE Len(connectors) = Len(Connect)
    BY <1>4, <2>1, <2>2 DEF initializeConnectors, ListInv, ListBeforeHTTP, Complete
  <2>3. CASE Len(connectors) # Len(Connect) /\ ok
    <3>1. /\ connectors' = Append(connectors, Connect[Len(connectors) + 1])
          /\ main' = "initialize"
      BY <1>4, <2>3 DEF initializeConnectors
    <3>2. Len(connectors) + 1 \in 1..Len(Connect)
      BY <1>0, <2>1, <2>3
    <3>3. connectors' \in Seq(All) /\ Len(connectors') <= Len(Connect)
      BY <1>0, <2>1, <3>1, <3>2
    <3>. QED
      BY <2>1, <3>1, <3>3 DEF ListInv, ListBeforeHTTP
  <2>4. CASE Len(connectors) # Len(Connect) /\ ~ok
    BY <1>4, <2>1, <2>4 DEF initializeConnectors, ListInv, ListBeforeHTTP
  <2>. QED
    BY <2>2, <2>3, <2>4
<1>5. ASSUME NEW ok \in BOOLEAN, startConnectors(ok)
      PROVE  ListBeforeHTTP'
  BY <1>5 DEF startConnectors, ListInv, ListBeforeHTTP, Complete
<1>6. ASSUME NEW ok \in BOOLEAN, startMonitoring(ok)
      PROVE  ListBeforeHTTP'
  <2>1. Complete /\ UNCHANGED <<connectors, cells>> /\ http = "nil"
    BY <1>6 DEF startMonitoring, ListInv, ListBeforeHTTP
  <2>2. main' \in {"running", "failed"} /\ (http' # http => main' = "running")
    <3>1. CASE setting \in {"both", "https without key"}
      BY <1>6, <3>1 DEF startMonitoring
    <3>2. CASE setting = "none"
      BY <1>6, <3>2 DEF startMonitoring
    <3>3. CASE setting \notin {"both", "https without key", "none"}
      BY <1>6, <3>3 DEF startMonitoring
    <3>. QED
      BY <3>1, <3>2, <3>3
  <2>. QED
    BY <2>1, <2>2 DEF ListInv, ListBeforeHTTP, Complete
<1>7. CASE StopBegin \/ StopConnector \/ StopMonitoring \/ ShutdownDone \/ ShutdownTimeout
  <2>1. /\ UNCHANGED <<connectors, cells>>
        /\ main \in {"running", "failed", "shutdown", "stop monitor", "wait"}
        /\ main' \in {"shutdown", "stop monitor", "wait", "stopped"}
        /\ http' # "nil" => http # "nil"
    <3>1. CASE StopBegin
      BY <3>1 DEF StopBegin
    <3>2. CASE StopConnector
      BY <3>2 DEF StopConnector
    <3>3. CASE StopMonitoring
      BY <3>3 DEF StopMonitoring
    <3>4. CASE ShutdownDone
      BY <3>4 DEF ShutdownDone
    <3>5. CASE ShutdownTimeout
      <4>1. PICK r \in Requests : req[r] # Idle
        BY <3>5 DEF ShutdownTimeout
      <4>2. http # "nil"
        BY <4>1 DEF ListInv, HandlersFindAll
      <4>. QED
        BY <3>5, <4>2 DEF ShutdownTimeout
    <3>. QED
      BY <1>7, <3>1, <3>2, <3>3, <3>4, <3>5
  <2>. QED
    BY <2>1 DEF ListInv, ListBeforeHTTP, Complete
<1>8. CASE ServeReturns
  BY <1>1, <1>8 DEF ServeReturns
<1>9. ASSUME NEW c \in All, CallbackFails(c) \/ \E t \in Samples[c] : CallbackDone(c, t)
      PROVE  ListBeforeHTTP'
  BY <1>1, <1>9 DEF CallbackFails, CallbackDone, serverVars
<1>10. ASSUME NEW r \in Requests,
              Handle(r) \/ \E path \in Paths \cup {"/other"} : Arrive(r, path)
       PROVE  ListBeforeHTTP'
  BY <1>1, <1>10 DEF Handle, NotFound, HandlePage, HandleVarz, statsConnector, statsHTTP,
     WriteVarz, Arrive, serverVars
<1>11. CASE UNCHANGED vars
  BY <1>1, <1>11 DEF vars, serverVars
<1>. QED
  BY <1>2, <1>3, <1>4, <1>5, <1>6, <1>7, <1>8, <1>9, <1>10, <1>11 DEF Next, StartStep, StopStep

\* A step that gives goroutine r the request x.
LEMMA OneRequest ==
  ASSUME HandlersFindAll, NEW r \in Requests, NEW x, req' = [req EXCEPT ![r] = x],
         x # Idle => http # "nil", http' = http,
         x.pc = "stats" =>
           /\ x = [pc |-> "stats", floor |-> x.floor, nats |-> x.nats, list |-> x.list,
                   conns |-> x.conns, count |-> x.count]
           /\ x.nats /\ Len(x.list) = Len(Connect),
         x.pc = "write" => x.nats /\ Len(x.conns) = Len(Connect)
  PROVE  HandlersFindAll'
<1>1. req' = [s \in Requests |-> IF s = r THEN x ELSE req[s]]
  BY DEF HandlersFindAll
<1>2. /\ req' = [s \in Requests |-> req'[s]] /\ req'[r] = x
      /\ \A s \in Requests : s # r => req'[s] = req[s]
  BY <1>1
<1>. QED
  BY <1>2 DEF HandlersFindAll, InStats

\* A handler that reads the list reads all of it: server.http was set after.
LEMMA HandlersFindAllStep ==
  ASSUME ListInv, [Next]_vars
  PROVE  HandlersFindAll'
<1>0. Idle.pc = "idle"
  BY DEF Idle
<1>1. ASSUME UNCHANGED req, http # "nil" => http' # "nil"
      PROVE  HandlersFindAll'
  BY <1>1 DEF ListInv, HandlersFindAll, InStats
<1>2. CASE StartStep
  <2>1. UNCHANGED req
    BY <1>2 DEF StartStep, ResetState, Connections, initializeConnectors, startConnectors,
       startMonitoring, httpVars
  <2>2. http = "nil"
    BY <1>2 DEF StartStep, ResetState, Connections, initializeConnectors, startConnectors,
       startMonitoring, ListInv, ListBeforeHTTP
  <2>. QED
    BY <1>1, <2>1, <2>2
<1>3. CASE StopBegin \/ StopConnector \/ StopMonitoring \/ ServeReturns \/ ShutdownTimeout
  BY <1>1, <1>3 DEF StopBegin, StopConnector, StopMonitoring, ServeReturns, ShutdownTimeout, httpVars
<1>4. CASE ShutdownDone
  BY <1>0, <1>4 DEF ShutdownDone, httpVars, ListInv, HandlersFindAll, InStats
<1>5. ASSUME NEW c \in All, CallbackFails(c) \/ \E t \in Samples[c] : CallbackDone(c, t)
      PROVE  HandlersFindAll'
  BY <1>1, <1>5 DEF CallbackFails, CallbackDone, serverVars, httpVars
<1>6. ASSUME NEW r \in Requests, NotFound(r) \/ HandlePage(r) \/ WriteVarz(r)
      PROVE  HandlersFindAll'
  <2>1. req' = [req EXCEPT ![r] = Idle] /\ http' = http
    BY <1>6 DEF NotFound, HandlePage, WriteVarz, serverVars
  <2>. QED
    BY <1>0, <2>1, OneRequest DEF ListInv
<1>7. ASSUME NEW r \in Requests, NEW path, Arrive(r, path)
      PROVE  HandlersFindAll'
  <2>. DEFINE x == [pc |-> "accepted", path |-> path, floor |-> Total(connectors)]
  <2>1. req' = [req EXCEPT ![r] = x] /\ http' = http /\ http # "nil" /\ x.pc = "accepted"
    BY <1>7 DEF Arrive, serverVars
  <2>. HIDE DEF x
  <2>. QED
    BY <2>1, OneRequest DEF ListInv
<1>8. ASSUME NEW r \in Requests, HandleVarz(r)
      PROVE  HandlersFindAll'
  <2>. DEFINE x == [pc |-> "stats", floor |-> req[r].floor, nats |-> cells,
                    list |-> connectors, conns |-> <<>>, count |-> 0]
  <2>1. req' = [req EXCEPT ![r] = x] /\ http' = http
    BY <1>8 DEF HandleVarz, serverVars, ListInv, HandlersFindAll
  <2>2. http # "nil"
    BY <1>0, <1>8 DEF HandleVarz, ListInv, HandlersFindAll
  <2>3. cells /\ Len(connectors) = Len(Connect)
    BY <2>2 DEF ListInv, ListBeforeHTTP, Complete
  <2>4. /\ x.pc = "stats" /\ x.nats /\ Len(x.list) = Len(Connect)
        /\ x = [pc |-> "stats", floor |-> x.floor, nats |-> x.nats, list |-> x.list,
                conns |-> x.conns, count |-> x.count]
    BY <2>3
  <2>. HIDE DEF x
  <2>. QED
    BY <2>1, <2>2, <2>4, OneRequest DEF ListInv
<1>9. ASSUME NEW r \in Requests, statsConnector(r)
      PROVE  HandlersFindAll'
  <2>1. PICK x, n : /\ req' = [req EXCEPT ![r].conns = x, ![r].count = n] /\ http' = http
    BY <1>9 DEF statsConnector, serverVars
  <2>. DEFINE y == [pc |-> "stats", floor |-> req[r].floor, nats |-> req[r].nats,
                    list |-> req[r].list, conns |-> x, count |-> n]
  <2>2. /\ req[r].pc = "stats" /\ InStats(r) /\ req[r].nats /\ Len(req[r].list) = Len(Connect)
        /\ http # "nil"
    BY <1>0, <1>9 DEF statsConnector, ListInv, HandlersFindAll
  <2>3. req' = [req EXCEPT ![r] = y]
    <3>1. req' = [req EXCEPT ![r] = [req[r] EXCEPT !.conns = x, !.count = n]]
      BY <2>1 DEF ListInv, HandlersFindAll
    <3>. DEFINE z == [pc |-> "stats", floor |-> req[r].floor, nats |-> req[r].nats,
                      list |-> req[r].list, conns |-> x, count |-> req[r].count]
    <3>2. [req[r] EXCEPT !.conns = x] = z
      <4>1. PICK f, a, l, c, k : req[r] = [pc |-> "stats", floor |-> f, nats |-> a, list |-> l,
                                           conns |-> c, count |-> k]
        BY <2>2, Zenon DEF InStats
      <4>. QED
        BY <4>1
    <3>3. [z EXCEPT !.count = n] = y
      OBVIOUS
    <3>4. [req[r] EXCEPT !.conns = x, !.count = n] = [z EXCEPT !.count = n]
      BY <3>2
    <3>. HIDE DEF y, z
    <3>. QED
      BY <3>1, <3>3, <3>4
  <2>4. /\ y.pc = "stats" /\ y.nats /\ Len(y.list) = Len(Connect)
        /\ y = [pc |-> "stats", floor |-> y.floor, nats |-> y.nats, list |-> y.list,
                conns |-> y.conns, count |-> y.count]
    BY <2>2
  <2>. HIDE DEF y
  <2>. QED
    BY <2>1, <2>2, <2>3, <2>4, OneRequest DEF ListInv
<1>10. ASSUME NEW r \in Requests, statsHTTP(r)
       PROVE  HandlersFindAll'
  <2>. DEFINE x == [pc |-> "write", floor |-> req[r].floor, nats |-> req[r].nats,
                    conns |-> req[r].conns, count |-> req[r].count, http |-> httpReqStats]
  <2>1. req' = [req EXCEPT ![r] = x] /\ http' = http
    BY <1>10 DEF statsHTTP, serverVars, ListInv, HandlersFindAll
  <2>2. /\ req[r].nats /\ Len(req[r].conns) = Len(Connect) /\ http # "nil"
    BY <1>0, <1>10 DEF statsHTTP, ListInv, HandlersFindAll
  <2>3. x.pc = "write" /\ x.nats /\ Len(x.conns) = Len(Connect)
    BY <2>2
  <2>. HIDE DEF x
  <2>. QED
    BY <2>1, <2>2, <2>3, OneRequest DEF ListInv
<1>11. CASE UNCHANGED vars
  BY <1>1, <1>11 DEF vars, serverVars, httpVars
<1>. QED
  BY <1>2, <1>3, <1>4, <1>5, <1>6, <1>7, <1>8, <1>9, <1>10, <1>11 DEF Next, StopStep, Handle

\* Every answer of /varz is about all the connectors and has the cells, although
\* stats reads them without the lock: Start fills both before startMonitoring
\* sets server.http, and Stop empties neither.
THEOREM EveryAnswerListsAll == Spec => []VarzListsAll
<1>1. Init => ListInv
  <2>. SUFFICES ASSUME Init PROVE ListInv
    OBVIOUS
  <2>1. ListBeforeHTTP
    <3>1. connectors = <<>> /\ cells = FALSE /\ main = "new" /\ http = "nil"
      BY DEF Init
    <3>2. connectors \in Seq(All)
      BY <3>1
    <3>3. cells \in BOOLEAN
      BY <3>1, Zenon
    <3>. QED
      BY <3>1, <3>2, <3>3, Zenon DEF ListBeforeHTTP
  <2>2. HandlersFindAll
    BY DEF Init, HandlersFindAll, Idle
  <2>. QED
    BY <2>1, <2>2 DEF ListInv
<1>2. ListInv /\ [Next]_vars => ListInv'
  BY ListBeforeHTTPStep, HandlersFindAllStep DEF ListInv
<1>3. ListInv => VarzListsAll
  BY DEF ListInv, HandlersFindAll, VarzListsAll
<1>. QED
  BY <1>1, <1>2, <1>3, PTL DEF Spec

-----------------------------------------------------------------------------
(* The running average.                                                    *)

\* A holder has a count and an average.
Averages(h) == "stats" \in DOMAIN h /\ {"count", "average"} \subseteq DOMAIN h.stats

\* h has the count and the average of g.
SameAverage(g, h) == Averages(h) /\ h.stats.count = g.stats.count /\ h.stats.average = g.stats.average

\* Only AddRequestTime changes them.
LEMMA OtherMethods ==
  ASSUME NEW h, Averages(h), NEW bytes
  PROVE  /\ SameAverage(h, AddMessageIn(h, bytes))
         /\ SameAverage(h, AddMessageOut(h, bytes))
         /\ SameAverage(h, AddConnect(h))
         /\ SameAverage(h, AddDisconnect(h))
         /\ SameAverage(h, Stats(h).holder)
<1>1. SameAverage(h, AddMessageIn(h, bytes))
  BY DEF Averages, SameAverage, AddMessageIn
<1>2. SameAverage(h, AddMessageOut(h, bytes))
  BY DEF Averages, SameAverage, AddMessageOut
<1>3. SameAverage(h, AddConnect(h))
  BY DEF Averages, SameAverage, AddConnect
<1>4. SameAverage(h, AddDisconnect(h))
  BY DEF Averages, SameAverage, AddDisconnect
<1>5. SameAverage(h, Stats(h).holder)
  <2>1. \A q : LET s == [h.stats EXCEPT !.quantiles = q]
               IN  SameAverage(h, [holder |-> [h EXCEPT !.stats = s], copy |-> s].holder)
    BY DEF Averages, SameAverage
  <2>. QED
    BY <2>1, Zenon DEF Stats
<1>. QED
  BY <1>1, <1>2, <1>3, <1>4, <1>5

\* AddRequestTime, alone and within the two kinds of request.
LEMMA AddRequestTimeAverage ==
  ASSUME NEW h, Averages(h), NEW t
  PROVE  LET n == h.stats.count + 1
             g == AddRequestTime(h, t)
         IN  /\ Averages(g) /\ g.stats.count = n
             /\ g.stats.average = [num |-> (n - 1) * h.stats.average.num + t * h.stats.average.den,
                                   den |-> n * h.stats.average.den]
<1>. DEFINE n == h.stats.count + 1
            a == [num |-> (n - 1) * h.stats.average.num + t * h.stats.average.den,
                  den |-> n * h.stats.average.den]
            b == Add(h.histogram, t)
<1>1. AddRequestTime(h, t) = [h EXCEPT !.stats.count = n, !.stats.average = a, !.histogram = b]
  BY DEF AddRequestTime, Averages
<1>. HIDE DEF n, a, b
<1>2. LET g == [h EXCEPT !.stats.count = n, !.stats.average = a, !.histogram = b]
      IN  Averages(g) /\ g.stats.count = n /\ g.stats.average = a
  BY DEF Averages
<1>. QED
  BY <1>1, <1>2 DEF n, a

LEMMA RequestAverage ==
  ASSUME NEW h, Averages(h), NEW bytes, NEW t, NEW numPending,
         NEW g \in {AddRequest(h, bytes, t), AddStreamRequest(h, bytes, t, numPending)}
  PROVE  LET n == h.stats.count + 1
         IN  /\ Averages(g) /\ g.stats.count = n
             /\ g.stats.average = [num |-> (n - 1) * h.stats.average.num + t * h.stats.average.den,
                                   den |-> n * h.stats.average.den]
<1>. DEFINE i == AddMessageIn(h, bytes)
            o == AddMessageOut(i, bytes)
            x == AddRequestTime(o, t)
<1>1. SameAverage(h, i)
  BY OtherMethods
<1>2. SameAverage(i, o)
  BY <1>1, OtherMethods DEF SameAverage
<1>3. Averages(o) /\ o.stats.count = h.stats.count /\ o.stats.average = h.stats.average
  BY <1>1, <1>2 DEF SameAverage
<1>. HIDE DEF i, o
<1>4. LET n == h.stats.count + 1
      IN  /\ Averages(x) /\ x.stats.count = n
          /\ x.stats.average = [num |-> (n - 1) * h.stats.average.num + t * h.stats.average.den,
                                den |-> n * h.stats.average.den]
  BY <1>3, AddRequestTimeAverage
<1>5. AddRequest(h, bytes, t) = x
  BY DEF AddRequest, i, o
<1>. HIDE DEF x
<1>6. SameAverage(x, [x EXCEPT !.stats.pending = numPending])
  BY <1>4 DEF SameAverage, Averages
<1>7. g = x \/ g = [x EXCEPT !.stats.pending = numPending]
  BY <1>5 DEF AddStreamRequest
<1>. QED
  BY <1>4, <1>6, <1>7 DEF SameAverage

\* ((n * a/d) + t) / (n + 1) is the mean of n + 1 numbers if a/d is that of n.
LEMMA MeanOfOneMore ==
  ASSUME NEW a \in Int, NEW d \in Int, NEW n \in Int, NEW s \in Int, NEW t \in Int, a * n = s * d
  PROVE  (((n + 1) - 1) * a + t * d) * (n + 1) = (s + t) * ((n + 1) * d)
<1>1. ((n + 1) - 1) * a = s * d
  OBVIOUS
<1>2. s * d + t * d = (s + t) * d
  OBVIOUS
<1>. DEFINE p == s + t
            m == n + 1
<1>3. p \in Int /\ m \in Int
  OBVIOUS
<1>4. ((n + 1) - 1) * a + t * d = p * d
  BY <1>1, <1>2
<1>. HIDE DEF p, m
<1>5. (p * d) * m = p * (m * d)
  BY <1>3
<1>. QED
  BY <1>4, <1>5 DEF p, m

\* Each connector's count and average are those of the request times seen.
AverageOf(h, x) ==
  /\ Averages(h) /\ x.n \in Nat /\ x.sum \in Nat
  /\ h.stats.average.num \in Nat /\ h.stats.average.den \in Nat
  /\ h.stats.count = x.n
  /\ h.stats.average.num * x.n = x.sum * h.stats.average.den

AverageInv ==
  /\ DOMAIN holder = All /\ DOMAIN seen = All
  /\ \A c \in All : AverageOf(holder[c], seen[c])

\* A step that changes one holder by another method keeps the averages.
LEMMA OtherMethodStep ==
  ASSUME AverageInv, NEW c, NEW h, holder' = [holder EXCEPT ![c] = h], seen' = seen,
         c \in All => SameAverage(holder[c], h)
  PROVE  AverageInv'
<1>1. \A d \in All : holder'[d] = IF d = c THEN h ELSE holder[d]
  BY DEF AverageInv
<1>2. DOMAIN holder' = All /\ DOMAIN seen' = All
  BY DEF AverageInv
<1>3. c \in All => AverageOf(h, seen[c])
  BY DEF AverageInv, AverageOf, SameAverage
<1>. QED
  BY <1>1, <1>2, <1>3 DEF AverageInv

\* Whatever the callbacks, Start, Stop and the handlers do to the holders.
LEMMA AverageStep ==
  ASSUME AverageInv, [Next]_vars
  PROVE  AverageInv'
<1>1. CASE UNCHANGED statVars
  BY <1>1 DEF statVars, AverageInv
<1>2. \A c \in All : Averages(holder[c])
  BY DEF AverageInv, AverageOf
<1>3. ASSUME NEW ok \in BOOLEAN, startConnectors(ok), ~UNCHANGED holder
      PROVE  AverageInv'
  <2>. DEFINE c == connectors[next]
  <2>1. holder' = [holder EXCEPT ![c] = AddConnect(holder[c])] /\ seen' = seen
    BY <1>3 DEF startConnectors, AverageInv
  <2>. HIDE DEF c
  <2>. QED
    BY <1>2, <2>1, OtherMethods, OtherMethodStep
<1>4. ASSUME StopConnector, ~UNCHANGED holder
      PROVE  AverageInv'
  <2>. DEFINE c == connectors[next]
  <2>1. holder' = [holder EXCEPT ![c] = AddDisconnect(holder[c])] /\ seen' = seen
    BY <1>4 DEF StopConnector, AverageInv
  <2>. HIDE DEF c
  <2>. QED
    BY <1>2, <2>1, OtherMethods, OtherMethodStep
<1>5. ASSUME NEW c \in All, CallbackFails(c)
      PROVE  AverageInv'
  <2>1. holder' = [holder EXCEPT ![c] = AddMessageIn(holder[c], Bytes)] /\ seen' = seen
    BY <1>5 DEF CallbackFails, AverageInv
  <2>. QED
    BY <1>2, <2>1, OtherMethods, OtherMethodStep
<1>6. ASSUME NEW c \in All, NEW t \in Samples[c], CallbackDone(c, t)
      PROVE  AverageInv'
  <2>1. t \in Nat
    BY MonitoringAssumption DEF All
  <2>. DEFINE g == IF c \in Streams THEN AddStreamRequest(holder[c], Bytes, t, Pending)
                                    ELSE AddRequest(holder[c], Bytes, t)
              x == [n |-> seen[c].n + 1, sum |-> seen[c].sum + t, times |-> seen[c].times \cup {t}]
  <2>2. holder' = [holder EXCEPT ![c] = g] /\ seen' = [seen EXCEPT ![c] = x]
    BY <1>6 DEF CallbackDone, AverageInv
  <2>3. AverageOf(holder[c], seen[c])
    BY DEF AverageInv
  <2>4. /\ Averages(g) /\ g.stats.count = holder[c].stats.count + 1
        /\ g.stats.average =
             [num |-> ((holder[c].stats.count + 1) - 1) * holder[c].stats.average.num
                        + t * holder[c].stats.average.den,
              den |-> (holder[c].stats.count + 1) * holder[c].stats.average.den]
    <3>1. g \in {AddRequest(holder[c], Bytes, t), AddStreamRequest(holder[c], Bytes, t, Pending)}
      OBVIOUS
    <3>. HIDE DEF g
    <3>. QED
      BY <1>2, <3>1, RequestAverage
  <2>5. AverageOf(g, x)
    <3>. DEFINE a == holder[c].stats.average.num
                d == holder[c].stats.average.den
                n == seen[c].n
                s == seen[c].sum
    <3>1. a \in Nat /\ d \in Nat /\ n \in Nat /\ s \in Nat /\ a * n = s * d
      BY <2>3 DEF AverageOf
    <3>2. x.n = n + 1 /\ x.sum = s + t /\ holder[c].stats.count = n
      BY <2>3 DEF AverageOf
    <3>3. /\ Averages(g) /\ g.stats.count = n + 1
          /\ g.stats.average = [num |-> ((n + 1) - 1) * a + t * d, den |-> (n + 1) * d]
      BY <2>4, <3>2, Zenon
    <3>. HIDE DEF a, d, n, s, g, x
    <3>4. (((n + 1) - 1) * a + t * d) * (n + 1) = (s + t) * ((n + 1) * d)
      BY <2>1, <3>1, MeanOfOneMore
    <3>5. ((n + 1) - 1) * a + t * d \in Nat /\ (n + 1) * d \in Nat /\ n + 1 \in Nat /\ s + t \in Nat
      BY <2>1, <3>1
    <3>. DEFINE p == ((n + 1) - 1) * a + t * d
                q == (n + 1) * d
    <3>6. g.stats.average.num = p /\ g.stats.average.den = q
      BY <3>3
    <3>. HIDE DEF p, q
    <3>. QED
      BY <3>2, <3>3, <3>4, <3>5, <3>6 DEF AverageOf, p, q
  <2>. HIDE DEF g, x
  <2>. QED
    BY <2>2, <2>5 DEF AverageInv
<1>7. ASSUME NEW r \in Requests, statsConnector(r)
      PROVE  AverageInv'
  <2>. DEFINE c == req[r].list[Len(req[r].conns) + 1]
  <2>1. holder' = [holder EXCEPT ![c] = Stats(holder[c]).holder] /\ seen' = seen
    BY <1>7 DEF statsConnector
  <2>. HIDE DEF c
  <2>. QED
    BY <1>2, <2>1, OtherMethods, OtherMethodStep
<1>8. CASE StartStep
  <2>1. UNCHANGED seen /\ (UNCHANGED holder \/ \E ok \in BOOLEAN : startConnectors(ok))
    BY <1>8 DEF StartStep, ResetState, Connections, initializeConnectors, startConnectors,
       startMonitoring, statVars
  <2>. QED
    BY <1>1, <1>3, <2>1 DEF statVars
<1>9. CASE StopBegin \/ StopStep \/ ShutdownTimeout
  <2>1. UNCHANGED seen /\ (UNCHANGED holder \/ StopConnector)
    BY <1>9 DEF StopBegin, StopStep, StopConnector, StopMonitoring, ServeReturns, ShutdownDone,
       ShutdownTimeout, statVars
  <2>. QED
    BY <1>1, <1>4, <2>1 DEF statVars
<1>10. ASSUME NEW r \in Requests,
              Handle(r) \/ \E path \in Paths \cup {"/other"} : Arrive(r, path)
       PROVE  AverageInv'
  <2>1. UNCHANGED statVars \/ statsConnector(r)
    BY <1>10 DEF Handle, NotFound, HandlePage, HandleVarz, statsHTTP, WriteVarz, Arrive
  <2>. QED
    BY <1>1, <1>7, <2>1
<1>11. CASE UNCHANGED vars
  BY <1>1, <1>11 DEF vars
<1>. QED
  BY <1>5, <1>6, <1>8, <1>9, <1>10, <1>11 DEF Next

\* The running average is the mean of all the request times for any number of
\* requests (AddRequestTime weights the last average with the count before it).
THEOREM AverageIsTheMean == Spec => []AverageIsMean
<1>1. Init => AverageInv
  <2>. SUFFICES ASSUME Init PROVE AverageInv
    OBVIOUS
  <2>. DEFINE h == NewConnectorStatsHolder
              x == [n |-> 0, sum |-> 0, times |-> {}]
  <2>1. holder = [c \in All |-> h] /\ seen = [c \in All |-> x]
    BY DEF Init
  <2>2. AverageOf(h, x)
    <3>1. Averages(h) /\ h.stats.count = 0 /\ h.stats.average.num = 0 /\ h.stats.average.den = 1
      BY DEF NewConnectorStatsHolder, Averages
    <3>. HIDE DEF h
    <3>. QED
      BY <3>1 DEF AverageOf
  <2>. HIDE DEF h, x
  <2>. QED
    BY <2>1, <2>2 DEF AverageInv
<1>2. AverageInv /\ [Next]_vars => AverageInv'
  BY AverageStep
<1>3. AverageInv => AverageIsMean
  BY DEF AverageInv, AverageOf, AverageIsMean
<1>. QED
  BY <1>1, <1>2, <1>3, PTL DEF Spec
=============================================================================
