---------------------------- MODULE BridgeProofs ----------------------------
(***************************************************************************)
(* What holds of the bridge for every set of clusters and connectors, and  *)
(* every number of outages, lost STAN connections and listener errors.     *)
(***************************************************************************)
EXTENDS BridgeTypes

-----------------------------------------------------------------------------
(* The inductive invariant, in layers.                                     *)

\* A dial is part of a pass, which waits for it, and its cell has no JetStream
\* context.
DialIsInPass ==
  /\ dialing # {} => holder = "redial"
  /\ dialing \subseteq dialTodo
  /\ \A k \in dialing : js[k] = 0

\* How many goroutines will run a pass, are running one, or were canceled.
PassCount == timers.armed + timers.canceled + timers.fired + (IF InPass THEN 1 ELSE 0)

\* While the bridge is not stopped, reconnectTimer says whether there is such a
\* goroutine; there is never a second one.
TimerIsTracked ==
  /\ PassCount <= 1
  /\ ~reconnectStopped => PassCount = (IF reconnectTimer THEN 1 ELSE 0) /\ timers.canceled = 0
  /\ reconnectStopped => ~reconnectTimer /\ ~InPass
  /\ reconnectStopped <=> phase \in {"shutdown", "drain", "stopped"}

\* The lock is released with a timer set whenever there is work, and STAN is
\* connected when Start reaches the connectors.
WorkIsTracked ==
  /\ (holder = "free" /\ ~reconnectStopped) =>
       /\ reconnect # {} => reconnectTimer
       /\ (phase = "up" /\ StanConfigured /\ stan = 0)
            => reconnectTimer \/ checkers > 0 \/ wantCheck > 0
  /\ (phase \in {"jetstream", "connectors"} /\ StanConfigured) => stan # 0
  /\ phase \in {"nats", "stan", "jetstream", "connectors", "up"} => running

\* A connector that startConnectors has not reached holds nothing and is not in
\* the map; what a pass has still to restart is.
NotYetStarted ==
  /\ phase = "connectors" =>
       /\ holder # "check"
       /\ \A c \in toStart : sub[c] = 0 /\ ~listening[c] /\ Self(c) \notin reconnect
  /\ holder = "restart" => startTodo \subseteq reconnect

\* What Stop has done so far stays done.
StopIsFinal ==
  /\ phase \in {"drain", "stopped"} =>
       \A c \in Connectors : ~listening[c] /\ (c \notin Durable => sub[c] = 0)
  /\ stanState = "alive" => stan # 0
  /\ phase = "stopped" =>
       /\ stanState # "alive"
       /\ \A k \in Cells : \A g \in 1..Len(conns[k]) : conns[k][g].status = "closed"

-----------------------------------------------------------------------------
(* The timer.                                                              *)

\* What a call of ensureReconnectTimer does to the goroutines it counts.
LEMMA EnsureFromTimer ==
  ASSUME TypeOK, ensureReconnectTimer(reconnectTimer)
  PROVE  /\ (reconnectTimer \/ reconnectStopped) =>
              timers' = timers /\ (reconnectTimer' <=> reconnectTimer)
         /\ ~(reconnectTimer \/ reconnectStopped) =>
              /\ timers'.armed = timers.armed + 1
              /\ timers'.canceled = timers.canceled /\ timers'.fired = timers.fired
              /\ reconnectTimer'
<1>1. timers \in [armed : Nat, canceled : Nat, fired : Nat]
  BY DEF TypeOK
<1>2. (reconnectTimer \/ reconnectStopped) =>
        timers' = timers /\ (reconnectTimer' <=> reconnectTimer)
  BY Zenon DEF ensureReconnectTimer
<1>3. ~(reconnectTimer \/ reconnectStopped) =>
        timers' = [timers EXCEPT !.armed = @ + 1] /\ reconnectTimer'
  BY Zenon DEF ensureReconnectTimer
<1>. QED
  BY <1>1, <1>2, <1>3

\* The same at the end of a pass, which has cleared reconnectTimer.
LEMMA EnsureFromNone ==
  ASSUME TypeOK, ensureReconnectTimer(FALSE)
  PROVE  /\ reconnectStopped => timers' = timers /\ ~reconnectTimer'
         /\ ~reconnectStopped =>
              /\ timers'.armed = timers.armed + 1
              /\ timers'.canceled = timers.canceled /\ timers'.fired = timers.fired
              /\ reconnectTimer'
<1>1. timers \in [armed : Nat, canceled : Nat, fired : Nat]
  BY DEF TypeOK
<1>2. reconnectStopped => timers' = timers /\ ~reconnectTimer'
  BY Zenon DEF ensureReconnectTimer
<1>3. ~reconnectStopped => timers' = [timers EXCEPT !.armed = @ + 1] /\ reconnectTimer'
  BY Zenon DEF ensureReconnectTimer
<1>. QED
  BY <1>1, <1>2, <1>3

\* The clauses of TimerIsTracked on reconnectStopped follow the phase.
StoppedPhases == {"shutdown", "drain", "stopped"}

\* Every step keeps reconnectTimer and the count of goroutines in step.
LEMMA TimerIsTrackedStep ==
  ASSUME TypeOK, StartIsAlone, TimerIsTracked, [Next]_vars
  PROVE  TimerIsTracked'
<1>0. /\ timers.armed \in Nat /\ timers.canceled \in Nat /\ timers.fired \in Nat
      /\ reconnectTimer \in BOOLEAN /\ reconnectStopped \in BOOLEAN
  BY DEF TypeOK
<1>1. ASSUME UNCHANGED <<timers, reconnectTimer, reconnectStopped>>, (InPass' <=> InPass),
             phase' \in StoppedPhases <=> phase \in StoppedPhases
      PROVE  TimerIsTracked'
  BY <1>1 DEF TimerIsTracked, PassCount, StoppedPhases
<1>10. ASSUME ensureReconnectTimer(reconnectTimer), UNCHANGED reconnectStopped,
              InPass' <=> InPass, phase' \in StoppedPhases <=> phase \in StoppedPhases
       PROVE  TimerIsTracked'
  <2>1. PassCount \in Nat
    BY <1>0 DEF PassCount
  <2>2. CASE reconnectTimer \/ reconnectStopped
    <3>1. timers' = timers /\ (reconnectTimer' <=> reconnectTimer)
      BY <1>10, <2>2, EnsureFromTimer, Zenon
    <3>2. PassCount' = PassCount
      BY <1>0, <1>10, <3>1 DEF PassCount
    <3>. QED
      BY <1>10, <2>1, <2>2, <3>1, <3>2 DEF TimerIsTracked, StoppedPhases
  <2>3. CASE ~(reconnectTimer \/ reconnectStopped)
    <3>1. /\ timers'.armed = timers.armed + 1 /\ timers'.canceled = timers.canceled
          /\ timers'.fired = timers.fired /\ reconnectTimer'
      BY <1>10, <2>3, EnsureFromTimer, Zenon
    <3>2. PassCount' = PassCount + 1
      BY <1>0, <1>10, <3>1 DEF PassCount
    <3>. QED
      BY <1>10, <2>1, <2>3, <3>1, <3>2 DEF TimerIsTracked, StoppedPhases
  <2>. QED
    BY <2>2, <2>3
<1>2. CASE StartStep
  <2>1. CASE Start
    <3>1. /\ phase' = "nats" /\ ~reconnectTimer /\ ~reconnectStopped' /\ holder' = "free"
          /\ timers.armed = 0 /\ timers.canceled = 0 /\ timers.fired = 0
          /\ UNCHANGED <<timers, reconnectTimer>>
      BY <2>1 DEF Start, StartIsAlone, lockVars
    <3>. QED
      BY <3>1 DEF TimerIsTracked, PassCount, InPass
  <2>2. ASSUME NEW c \in Connectors, NEW ok \in BOOLEAN, startConnector(c, ok)
        PROVE  TimerIsTracked'
    <3>1. /\ UNCHANGED <<reconnectStopped, holder>>
          /\ phase \notin StoppedPhases /\ phase' \notin StoppedPhases
      BY <2>2 DEF startConnector, StoppedPhases, lockVars
    <3>2. CASE UNCHANGED <<timers, reconnectTimer>>
      BY <1>1, <3>1, <3>2 DEF InPass
    <3>3. CASE ensureReconnectTimer(reconnectTimer)
      BY <1>10, <3>1, <3>3 DEF InPass
    <3>. QED
      BY <2>2, <3>2, <3>3 DEF startConnector
  <2>3. CASE ~Start /\ ~\E c \in Connectors, ok \in BOOLEAN : startConnector(c, ok)
    <3>1. /\ UNCHANGED <<timers, reconnectTimer, reconnectStopped, holder>>
          /\ phase \notin StoppedPhases /\ phase' \notin StoppedPhases
      BY <1>2, <2>3 DEF StartStep, connectToNATS, StartSTAN, connectToJetStream, StartReturns,
         StoppedPhases, queueVars, lockVars
    <3>. QED
      BY <1>1, <3>1 DEF InPass
  <2>. QED
    BY <2>1, <2>2, <2>3
<1>3. CASE StopStep
  <2>1. CASE stopReconnectTimer
    <3>1. /\ holder = "free" /\ UNCHANGED holder /\ phase = "stopTimer" /\ phase' = "shutdown"
          /\ ~reconnectTimer' /\ reconnectStopped'
      BY <2>1 DEF stopReconnectTimer, lockVars
    <3>2. CASE reconnectTimer
      <4>1. timers' = [timers EXCEPT !.armed = 0, !.canceled = @ + timers.armed]
        BY <2>1, <3>2 DEF stopReconnectTimer
      <4>2. /\ timers'.armed = 0 /\ timers'.canceled = timers.canceled + timers.armed
            /\ timers'.fired = timers.fired
        BY <4>1 DEF TypeOK
      <4>. QED
        BY <1>0, <3>1, <4>2 DEF TimerIsTracked, PassCount, InPass
    <3>3. CASE ~reconnectTimer
      <4>1. timers' = timers
        BY <2>1, <3>3 DEF stopReconnectTimer
      <4>. QED
        BY <1>0, <3>1, <3>3, <4>1 DEF TimerIsTracked, PassCount, InPass
    <3>. QED
      BY <3>2, <3>3
  <2>2. CASE Stop \/ StopConnectors \/ StopConnections
    <3>1. /\ UNCHANGED <<timers, reconnectTimer, reconnectStopped, holder>>
          /\ phase' \in StoppedPhases <=> phase \in StoppedPhases
      BY <2>2 DEF Stop, StopConnectors, StopConnections, StoppedPhases, queueVars, lockVars
    <3>. QED
      BY <1>1, <3>1 DEF InPass
  <2>. QED
    BY <1>3, <2>1, <2>2 DEF StopStep
<1>4. CASE OwnerStep
  <2>1. CASE PassEnd
    <3>1. /\ holder = "restart" /\ holder' = "free" /\ UNCHANGED <<reconnectStopped, phase>>
          /\ \/ ensureReconnectTimer(FALSE)
             \/ reconnectTimer' = FALSE /\ timers' = timers
      BY <2>1 DEF PassEnd, mainVars
    <3>2. CASE ensureReconnectTimer(FALSE)
      <4>1. ~reconnectStopped /\ InPass /\ ~InPass'
        BY <3>1 DEF TimerIsTracked, InPass
      <4>2. /\ timers'.armed = timers.armed + 1 /\ timers'.canceled = timers.canceled
            /\ timers'.fired = timers.fired /\ reconnectTimer'
        BY <3>2, <4>1, EnsureFromNone, Zenon
      <4>3. PassCount' = PassCount
        BY <1>0, <4>1, <4>2 DEF PassCount
      <4>4. PassCount = 1
        BY <1>0, <4>1 DEF PassCount, TimerIsTracked
      <4>. QED
        BY <1>0, <3>1, <4>1, <4>2, <4>3, <4>4 DEF TimerIsTracked
    <3>3. CASE reconnectTimer' = FALSE /\ timers' = timers
      BY <1>0, <3>1, <3>3 DEF TimerIsTracked, PassCount, InPass
    <3>. QED
      BY <3>1, <3>2, <3>3
  <2>2. CASE CheckEnd
    <3>1. /\ holder = "check" /\ holder' = "free" /\ UNCHANGED <<reconnectStopped, phase>>
          /\ ensureReconnectTimer(reconnectTimer)
      BY <2>2 DEF CheckEnd, mainVars
    <3>. QED
      BY <1>10, <3>1 DEF InPass
  <2>3. CASE ~PassEnd /\ ~CheckEnd
    <3>1. UNCHANGED <<timers, reconnectTimer, reconnectStopped, phase>>
      BY <1>4, <2>3 DEF OwnerStep, PassStan, PassRedial, PassDial, PassDialError, PassRedialed,
         PassRestart, CheckOne, queueVars, mainVars
    <3>2. (InPass' <=> InPass)
      BY <1>4, <2>3 DEF OwnerStep, PassStan, PassRedial, PassDial, PassDialError, PassRedialed,
         PassRestart, CheckOne, InPass
    <3>. QED
      BY <1>1, <3>1, <3>2
  <2>. QED
    BY <2>1, <2>2, <2>3
<1>5. CASE TimerStep
  <2>1. CASE TimerFires
    <3>1. UNCHANGED <<reconnectTimer, reconnectStopped, holder, phase>>
      BY <2>1 DEF TimerFires, lockVars, mainVars
    <3>2. /\ timers'.armed = timers.armed - 1 /\ timers'.canceled = timers.canceled
          /\ timers'.fired = timers.fired + 1
      BY <2>1 DEF TimerFires, TypeOK
    <3>. QED
      BY <1>0, <3>1, <3>2 DEF TimerIsTracked, PassCount, InPass
  <2>2. CASE TimerCanceled
    <3>1. UNCHANGED <<reconnectTimer, reconnectStopped, holder, phase>> /\ timers.canceled > 0
      BY <2>2 DEF TimerCanceled, lockVars, mainVars
    <3>2. \/ timers' = [timers EXCEPT !.canceled = @ - 1]
          \/ timers' = [timers EXCEPT !.canceled = @ - 1, !.fired = @ + 1]
      BY <2>2, Zenon DEF TimerCanceled
    <3>3. /\ timers'.armed = timers.armed /\ timers'.canceled = timers.canceled - 1
          /\ timers'.fired = timers.fired \/ timers'.fired = timers.fired + 1
      BY <3>2 DEF TypeOK
    <3>. QED
      BY <1>0, <3>1, <3>3 DEF TimerIsTracked, PassCount, InPass
  <2>3. CASE PassBegin
    <3>1. /\ UNCHANGED <<reconnectStopped, phase>> /\ timers.fired > 0 /\ holder = "free"
          /\ IF reconnectStopped THEN reconnectTimer' = FALSE /\ holder' = holder
             ELSE holder' = "stan" /\ reconnectTimer' = reconnectTimer
      BY <2>3 DEF PassBegin, mainVars
    <3>2. /\ timers'.armed = timers.armed /\ timers'.canceled = timers.canceled
          /\ timers'.fired = timers.fired - 1
      BY <2>3 DEF PassBegin, TypeOK
    <3>. QED
      <4>1. CASE reconnectStopped
        BY <1>0, <3>1, <3>2, <4>1 DEF TimerIsTracked, PassCount, InPass
      <4>2. CASE ~reconnectStopped
        BY <1>0, <3>1, <3>2, <4>2 DEF TimerIsTracked, PassCount, InPass
      <4>. QED
        BY <4>1, <4>2
  <2>. QED
    BY <1>5, <2>1, <2>2, <2>3 DEF TimerStep
<1>6. CASE CallbackStep
  <2>1. UNCHANGED <<timers, reconnectTimer, reconnectStopped, phase>> /\ (InPass' <=> InPass)
    BY <1>6 DEF CallbackStep, natsDisconnected, natsClosed, stanConnectionLost, CheckEnter,
       CheckBegin, InPass, queueVars, lockVars, mainVars
  <2>. QED
    BY <1>1, <2>1
<1>7. CASE ErrorStep
  <2>1. ASSUME NEW c \in Connectors, ConnectorError(c)
        PROVE  TimerIsTracked'
    <3>1. /\ UNCHANGED <<reconnectStopped, phase, holder>>
          /\ UNCHANGED <<timers, reconnectTimer>> \/ ensureReconnectTimer(reconnectTimer)
      BY <2>1 DEF ConnectorError, mainVars, lockVars
    <3>. QED
      BY <1>1, <1>10, <3>1 DEF InPass
  <2>2. CASE ~\E c \in Connectors : ConnectorError(c)
    <3>1. UNCHANGED <<timers, reconnectTimer, reconnectStopped, phase, holder>>
      BY <1>7, <2>2 DEF ErrorStep, ListenerFetchError, ListenerCommitError, ConnectorErrorEnter,
         queueVars, lockVars, mainVars
    <3>. QED
      BY <1>1, <3>1 DEF InPass
  <2>. QED
    BY <2>1, <2>2
<1>8. CASE EnvironmentStep
  <2>1. UNCHANGED <<timers, reconnectTimer, reconnectStopped, phase, holder>>
    BY <1>8 DEF EnvironmentStep, ClusterDown, ClusterUp, ClientReconnects, ClientGivesUp, StanLost,
       Signal, queueVars, lockVars, mainVars
  <2>. QED
    BY <1>1, <2>1 DEF InPass
<1>9. CASE UNCHANGED vars
  BY <1>1, <1>9 DEF vars, queueVars, lockVars, mainVars, InPass
<1>. QED
  BY <1>2, <1>3, <1>4, <1>5, <1>6, <1>7, <1>8, <1>9 DEF Next, Finished

-----------------------------------------------------------------------------
(* No lost wakeup.                                                         *)

\* Every critical section leaves a timer behind when there is work.
LEMMA WorkIsTrackedStep ==
  ASSUME TypeOK, StartIsAlone, TimerIsTracked, DialIsInPass, WorkIsTracked, [Next]_vars
  PROVE  WorkIsTracked'
<1>0. /\ wantCheck \in Nat /\ checkers \in Nat /\ stan \in Nat /\ stanGen \in Nat
      /\ reconnectTimer \in BOOLEAN /\ reconnectStopped \in BOOLEAN
  BY DEF TypeOK
<1>1. ASSUME UNCHANGED <<reconnect, reconnectTimer, reconnectStopped, holder, phase, running,
                         stan, wantCheck, checkers>>
      PROVE  WorkIsTracked'
  BY <1>1 DEF WorkIsTracked
<1>2. CASE StartStep
  <2>1. CASE Start \/ \E D \in SUBSET Cells : connectToNATS(D)
    <3>1. phase' \in {"nats", "stan", "failed"} /\ reconnect' = {}
      BY <2>1 DEF Start, connectToNATS, StartIsAlone, queueVars
    <3>2. phase' # "failed" => running'
      BY <2>1 DEF Start, connectToNATS, WorkIsTracked
    <3>. QED
      BY <3>1, <3>2 DEF WorkIsTracked
  <2>2. ASSUME NEW ok \in BOOLEAN, StartSTAN(ok)
        PROVE  WorkIsTracked'
    <3>1. /\ phase = "stan" /\ phase' \in {"jetstream", "failed"}
          /\ reconnect' = {} /\ running' = running
      BY <2>2 DEF StartSTAN, StartIsAlone, queueVars
    <3>2. (phase' = "jetstream" /\ StanConfigured) => stan' # 0
      BY <1>0, <2>2 DEF StartSTAN, connectToSTAN, stanVars
    <3>. QED
      BY <3>1, <3>2 DEF WorkIsTracked
  <2>3. CASE connectToJetStream
    <3>1. /\ phase = "jetstream" /\ phase' = "connectors" /\ reconnect' = {}
          /\ UNCHANGED <<stan, running>>
      BY <2>3 DEF connectToJetStream, StartIsAlone, queueVars, stanVars
    <3>. QED
      BY <3>1 DEF WorkIsTracked
  <2>4. ASSUME NEW c \in Connectors, NEW ok \in BOOLEAN, startConnector(c, ok)
        PROVE  WorkIsTracked'
    <3>1. /\ phase = "connectors" /\ phase' \in {"connectors", "failed"}
          /\ UNCHANGED <<running, stan, reconnectStopped, holder>>
          /\ \/ UNCHANGED <<reconnect, reconnectTimer>>
             \/ ensureReconnectTimer(reconnectTimer)
      BY <2>4 DEF startConnector, stanVars, lockVars
    <3>2. CASE UNCHANGED <<reconnect, reconnectTimer>>
      BY <3>1, <3>2 DEF WorkIsTracked
    <3>3. CASE ensureReconnectTimer(reconnectTimer)
      <4>1. ~reconnectStopped => reconnectTimer'
        BY <3>3, EnsureFromTimer, Zenon
      <4>. QED
        BY <3>1, <4>1 DEF WorkIsTracked
    <3>. QED
      BY <3>1, <3>2, <3>3
  <2>5. ASSUME NEW ok \in BOOLEAN, StartReturns(ok)
        PROVE  WorkIsTracked'
    <3>1. /\ phase = "connectors" /\ phase' \in {"up", "failed"}
          /\ UNCHANGED <<running, stan, reconnect, reconnectTimer, reconnectStopped, holder>>
      BY <2>5 DEF StartReturns, stanVars, queueVars, lockVars
    <3>. QED
      BY <3>1 DEF WorkIsTracked
  <2>. QED
    BY <1>2, <2>1, <2>2, <2>3, <2>4, <2>5 DEF StartStep
<1>3. CASE StopStep
  <2>1. CASE Stop
    <3>1. /\ phase' = "stopTimer"
          /\ UNCHANGED <<reconnect, reconnectTimer, reconnectStopped, holder>>
      BY <2>1 DEF Stop, queueVars, lockVars
    <3>. QED
      BY <3>1 DEF WorkIsTracked
  <2>2. CASE stopReconnectTimer \/ StopConnectors \/ StopConnections
    <3>1. phase' \in {"shutdown", "drain", "stopped"}
      BY <2>2 DEF stopReconnectTimer, StopConnectors, StopConnections
    <3>2. reconnectStopped'
      BY <2>2 DEF stopReconnectTimer, StopConnectors, StopConnections, TimerIsTracked, queueVars
    <3>. QED
      BY <3>1, <3>2 DEF WorkIsTracked
  <2>. QED
    BY <1>3, <2>1, <2>2 DEF StopStep
<1>4. CASE OwnerStep
  <2>0. UNCHANGED <<phase, running>>
    BY <1>4 DEF OwnerStep, PassStan, PassRedial, PassDial, PassDialError, PassRedialed, PassRestart,
       PassEnd, CheckOne, CheckEnd, mainVars
  <2>1. CASE PassEnd
    <3>1. UNCHANGED <<stan, reconnect, reconnectStopped>> /\ holder = "restart"
      BY <2>1 DEF PassEnd, stanVars
    <3>2. CASE reconnect # {} \/ (StanConfigured /\ stan = 0)
      <4>1. ensureReconnectTimer(FALSE) /\ ~reconnectStopped
        BY <2>1, <3>1, <3>2 DEF PassEnd, TimerIsTracked, InPass
      <4>2. reconnectTimer'
        BY <4>1, EnsureFromNone, Zenon
      <4>. QED
        BY <2>0, <3>1, <4>2 DEF WorkIsTracked
    <3>3. CASE ~(reconnect # {} \/ (StanConfigured /\ stan = 0))
      BY <2>0, <3>1, <3>3 DEF WorkIsTracked
    <3>. QED
      BY <3>2, <3>3
  <2>2. CASE CheckEnd
    <3>1. /\ UNCHANGED <<stan, reconnect, reconnectStopped>>
          /\ ensureReconnectTimer(reconnectTimer)
      BY <2>2 DEF CheckEnd, stanVars
    <3>2. ~reconnectStopped => reconnectTimer'
      BY <3>1, EnsureFromTimer, Zenon
    <3>. QED
      BY <2>0, <3>1, <3>2 DEF WorkIsTracked
  <2>3. CASE ~PassEnd /\ ~CheckEnd
    <3>1. holder' # "free"
      BY <1>4, <2>3 DEF OwnerStep, PassStan, PassRedial, PassDial, PassDialError, PassRedialed,
         PassRestart, CheckOne, DialIsInPass
    <3>2. stan # 0 => stan' # 0
      <4>1. ASSUME NEW ok \in BOOLEAN, PassStan(ok)
            PROVE  stan # 0 => stan' = stan
        BY <4>1 DEF PassStan, stanVars
      <4>2. CASE ~\E ok \in BOOLEAN : PassStan(ok)
        BY <1>4, <2>3, <4>2 DEF OwnerStep, PassRedial, PassDial, PassDialError, PassRedialed,
           PassRestart, CheckOne, stanVars
      <4>. QED
        BY <4>1, <4>2
    <3>. QED
      BY <2>0, <3>1, <3>2 DEF WorkIsTracked
  <2>. QED
    BY <2>1, <2>2, <2>3
<1>5. CASE TimerStep
  <2>1. CASE TimerFires \/ TimerCanceled
    BY <1>1, <2>1 DEF TimerFires, TimerCanceled, mainVars, stanVars, lockVars, checkVars
  <2>2. CASE PassBegin
    <3>1. UNCHANGED <<reconnect, reconnectStopped, phase, running, stan, wantCheck, checkers>>
      BY <2>2 DEF PassBegin, mainVars, stanVars, checkVars
    <3>2. ~reconnectStopped => holder' = "stan"
      BY <2>2 DEF PassBegin
    <3>. QED
      BY <3>1, <3>2 DEF WorkIsTracked
  <2>. QED
    BY <1>5, <2>1, <2>2 DEF TimerStep
<1>6. CASE CallbackStep
  <2>1. ASSUME NEW k \in Cells, NEW g \in 1..Len(conns[k]),
               natsDisconnected(k, g) \/ natsClosed(k, g)
        PROVE  WorkIsTracked'
    <3>1. UNCHANGED <<reconnect, reconnectTimer, reconnectStopped, holder, phase, running, stan,
                      checkers>>
      BY <2>1 DEF natsDisconnected, natsClosed, mainVars, queueVars, lockVars, stanVars
    <3>2. wantCheck' \in {wantCheck, wantCheck + 1}
      BY <2>1 DEF natsDisconnected, natsClosed
    <3>3. wantCheck > 0 => wantCheck' > 0
      BY <1>0, <3>2
    <3>. QED
      BY <3>1, <3>3 DEF WorkIsTracked
  <2>2. CASE stanConnectionLost
    <3>1. /\ UNCHANGED <<reconnect, reconnectTimer, reconnectStopped, holder, phase, running,
                         checkers>>
          /\ phase \notin {"jetstream", "connectors"}
      BY <2>2 DEF stanConnectionLost, ServerLocked, mainVars, queueVars, lockVars
    <3>2. IF running THEN wantCheck' = wantCheck + 1 ELSE stan' = stan /\ wantCheck' = wantCheck
      BY <2>2 DEF stanConnectionLost
    <3>3. running => wantCheck' > 0
      BY <1>0, <3>2
    <3>. QED
      BY <3>1, <3>2, <3>3 DEF WorkIsTracked
  <2>3. CASE CheckEnter
    <3>1. UNCHANGED <<reconnect, reconnectTimer, reconnectStopped, holder, phase, running, stan>>
      BY <2>3 DEF CheckEnter, mainVars, queueVars, lockVars, stanVars
    <3>2. running => checkers' = checkers + 1
      BY <2>3 DEF CheckEnter
    <3>3. running => checkers' > 0
      BY <1>0, <3>2
    <3>. QED
      BY <3>1, <3>3 DEF WorkIsTracked
  <2>4. CASE CheckBegin
    <3>1. UNCHANGED <<phase, running, stan>> /\ holder' = "check"
      BY <2>4 DEF CheckBegin, mainVars, stanVars
    <3>. QED
      BY <3>1 DEF WorkIsTracked
  <2>. QED
    BY <1>6, <2>1, <2>2, <2>3, <2>4 DEF CallbackStep
<1>7. CASE ErrorStep
  <2>1. ASSUME NEW c \in Connectors, ConnectorError(c)
        PROVE  WorkIsTracked'
    <3>1. /\ UNCHANGED <<reconnectStopped, holder, phase, running, stan, wantCheck, checkers>>
          /\ \/ UNCHANGED <<reconnect, reconnectTimer>>
             \/ ensureReconnectTimer(reconnectTimer)
      BY <2>1 DEF ConnectorError, mainVars, stanVars, lockVars, checkVars
    <3>2. CASE ensureReconnectTimer(reconnectTimer)
      <4>1. ~reconnectStopped => reconnectTimer'
        BY <3>2, EnsureFromTimer, Zenon
      <4>. QED
        BY <3>1, <4>1 DEF WorkIsTracked
    <3>. QED
      BY <1>1, <3>1, <3>2
  <2>2. CASE ~\E c \in Connectors : ConnectorError(c)
    BY <1>1, <1>7, <2>2 DEF ErrorStep, ListenerFetchError, ListenerCommitError,
       ConnectorErrorEnter, queueVars, lockVars, mainVars, stanVars, checkVars
  <2>. QED
    BY <2>1, <2>2
<1>8. CASE EnvironmentStep
  <2>1. UNCHANGED <<reconnect, reconnectTimer, reconnectStopped, holder, phase, running, stan,
                    wantCheck, checkers>>
    BY <1>8 DEF EnvironmentStep, ClusterDown, ClusterUp, ClientReconnects, ClientGivesUp, StanLost,
       Signal, queueVars, lockVars, mainVars, stanVars, checkVars
  <2>. QED
    BY <1>1, <2>1
<1>9. CASE UNCHANGED vars
  BY <1>1, <1>9 DEF vars, queueVars, lockVars, mainVars, stanVars, checkVars
<1>. QED
  BY <1>2, <1>3, <1>4, <1>5, <1>6, <1>7, <1>8, <1>9 DEF Next, Finished

-----------------------------------------------------------------------------
(* The cells.                                                              *)

\* A dial is part of a pass: the owner of the lock does nothing else meanwhile.
LEMMA DialIsInPassStep ==
  ASSUME TypeOK, StartIsAlone, DialIsInPass, [Next]_vars
  PROVE  DialIsInPass'
<1>0. js \in [Cells -> Nat]
  BY DEF TypeOK
<1>1. CASE UNCHANGED lockVars /\ UNCHANGED js
  BY <1>1 DEF DialIsInPass, lockVars
<1>2. ASSUME NEW k \in Cells, PassRedial(k)
      PROVE  DialIsInPass'
  <2>1. dialing = {} /\ holder = "redial" /\ holder' = holder
    BY <1>2 DEF PassRedial
  <2>2. \/ dialing' = {}
        \/ dialing' = {k} /\ js' = [js EXCEPT ![k] = 0] /\ k \in dialTodo /\ dialTodo' = dialTodo
    BY <1>2, <2>1 DEF PassRedial
  <2>3. \A j \in dialing' : js'[j] = 0
    BY <1>0, <2>2
  <2>. QED
    BY <2>1, <2>2, <2>3 DEF DialIsInPass
<1>3. ASSUME NEW k \in Cells, PassDial(k) \/ PassDialError(k)
      PROVE  DialIsInPass'
  BY <1>3 DEF PassDial, PassDialError, DialIsInPass
<1>4. CASE \/ \E ok \in BOOLEAN : PassStan(ok)
           \/ PassRedialed \/ PassEnd \/ CheckEnd \/ PassBegin \/ CheckBegin
           \/ \E e \in Entries, ok \in BOOLEAN : PassRestart(e, ok)
           \/ \E c \in Connectors : CheckOne(c)
  <2>1. dialing = {}
    BY <1>4 DEF PassStan, PassRedialed, PassEnd, CheckEnd, PassBegin, CheckBegin, PassRestart,
       CheckOne, DialIsInPass
  <2>2. dialing' = dialing
    BY <1>4 DEF PassStan, PassRedialed, PassEnd, CheckEnd, PassBegin, CheckBegin, PassRestart,
       CheckOne
  <2>. QED
    BY <2>1, <2>2 DEF DialIsInPass
<1>5. CASE UNCHANGED lockVars /\ ~UNCHANGED js
  <2>1. CASE connectToJetStream
    BY <1>5, <2>1 DEF connectToJetStream, StartIsAlone, DialIsInPass, lockVars
  <2>2. CASE ~connectToJetStream
    <3>1. CASE \E k \in Cells : PassRedial(k) \/ PassDial(k)
      BY <1>2, <1>3, <3>1
    <3>2. CASE ~\E k \in Cells : PassRedial(k) \/ PassDial(k)
      <4>1. ~UNCHANGED cellVars
        BY <1>5 DEF cellVars
      <4>. QED
        BY <1>5, <2>2, <3>2, <4>1, CellFrame DEF connectToNATS, StopConnections, natsDisconnected,
           natsClosed, ClusterDown, ClusterUp, ClientReconnects, ClientGivesUp
    <3>. QED
      BY <3>1, <3>2
  <2>. QED
    BY <2>1, <2>2
<1>. QED
  BY <1>1, <1>2, <1>3, <1>4, <1>5, LockFrame

\* A pass replaces a connection together with the context made from it.
LEMMA ContextStep ==
  ASSUME TypeOK, StartIsAlone, DialIsInPass, ContextOfCurrentConnection, [Next]_vars
  PROVE  ContextOfCurrentConnection'
<1>0. nc \in [Cells -> Nat] /\ js \in [Cells -> Nat]
  BY DEF TypeOK
<1>1. CASE UNCHANGED <<nc, js>>
  BY <1>1 DEF ContextOfCurrentConnection
<1>2. ASSUME NEW D \in SUBSET Cells, connectToNATS(D)
      PROVE  ContextOfCurrentConnection'
  BY <1>2 DEF connectToNATS, StartIsAlone, ContextOfCurrentConnection
<1>3. CASE connectToJetStream
  BY <1>0, <1>3 DEF connectToJetStream, ContextOfCurrentConnection
<1>4. ASSUME NEW k \in Cells, PassRedial(k)
      PROVE  ContextOfCurrentConnection'
  <2>1. PICK x \in {0, nc[k], js[k]} : js' = [js EXCEPT ![k] = x]
    BY <1>4 DEF PassRedial
  <2>2. nc' = nc
    BY <1>4 DEF PassRedial
  <2>. QED
    BY <1>0, <2>1, <2>2 DEF ContextOfCurrentConnection
<1>5. ASSUME NEW k \in Cells, PassDial(k)
      PROVE  ContextOfCurrentConnection'
  <2>1. js[k] = 0
    BY <1>5 DEF PassDial, DialIsInPass
  <2>2. CASE ~UNCHANGED <<nc, js>>
    <3>1. nc' = [nc EXCEPT ![k] = Len(conns[k]) + 1]
      BY <1>5, <2>2 DEF PassDial
    <3>2. PICK x \in {js[k], Len(conns[k]) + 1} : js' = [js EXCEPT ![k] = x]
      BY <1>5, <2>2 DEF PassDial
    <3>. QED
      BY <1>0, <2>1, <3>1, <3>2 DEF ContextOfCurrentConnection
  <2>. QED
    BY <1>1, <2>2
<1>6. CASE ~UNCHANGED cellVars
  <2>1. \/ UNCHANGED <<nc, js>>
        \/ \E D \in SUBSET Cells : connectToNATS(D)
        \/ connectToJetStream
        \/ \E k \in Cells : PassRedial(k)
        \/ \E k \in Cells : PassDial(k)
    BY <1>6, CellFrame DEF StopConnections, natsDisconnected, natsClosed, ClusterDown, ClusterUp,
       ClientReconnects, ClientGivesUp
  <2>. QED
    BY <1>1, <1>2, <1>3, <1>4, <1>5, <2>1
<1>. QED
  BY <1>1, <1>6 DEF cellVars

\* A connection that is closed stays closed, and only Start and a redial dial.
LEMMA ClosedStaysClosed ==
  ASSUME TypeOK, [Next]_vars, ~\E D \in SUBSET Cells : connectToNATS(D),
         ~\E k \in Cells : PassDial(k)
  PROVE  /\ nc' = nc
         /\ \A k \in Cells : Len(conns'[k]) = Len(conns[k])
         /\ \A k \in Cells : \A g \in 1..Len(conns[k]) :
              conns[k][g].status = "closed" => conns'[k][g].status = "closed"
<1>0. conns \in [Cells -> Seq(Conn)]
  BY DEF TypeOK
<1>1. ASSUME NEW k \in Cells, NEW g \in 1..Len(conns[k]), NEW x \in Conn,
             conns' = [conns EXCEPT ![k][g] = x],
             conns[k][g].status = "closed" => x.status = "closed"
      PROVE  /\ \A j \in Cells : Len(conns'[j]) = Len(conns[j])
             /\ \A j \in Cells : \A h \in 1..Len(conns[j]) :
                  conns[j][h].status = "closed" => conns'[j][h].status = "closed"
  BY <1>0, <1>1, OneConnRewritten
<1>2. ASSUME NEW k \in Cells, NEW g \in 1..Len(conns[k]),
             \/ natsDisconnected(k, g) \/ natsClosed(k, g)
             \/ ClientReconnects(k, g) \/ ClientGivesUp(k, g)
      PROVE  \E x \in Conn : /\ conns' = [conns EXCEPT ![k][g] = x]
                             /\ conns[k][g].status = "closed" => x.status = "closed"
  <2>1. conns[k][g] \in Conn
    BY <1>0
  <2>2. CASE natsDisconnected(k, g)
    <3>1. [conns[k][g] EXCEPT !.disconnects = @ - 1] \in Conn
      BY <2>1, <2>2, ConnTypes DEF natsDisconnected
    <3>2. [conns[k][g] EXCEPT !.disconnects = @ - 1].status = conns[k][g].status
      BY <2>1 DEF Conn
    <3>. QED
      BY <2>2, <3>1, <3>2 DEF natsDisconnected
  <2>3. CASE natsClosed(k, g)
    <3>1. [conns[k][g] EXCEPT !.closed = FALSE] \in Conn
      BY <2>1, ConnTypes
    <3>2. [conns[k][g] EXCEPT !.closed = FALSE].status = conns[k][g].status
      BY <2>1 DEF Conn
    <3>. QED
      BY <2>3, <3>1, <3>2 DEF natsClosed
  <2>4. CASE ClientReconnects(k, g)
    <3>1. [conns[k][g] EXCEPT !.status = "connected"] \in Conn
      BY <2>1, ConnTypes DEF Statuses
    <3>. QED
      BY <2>4, <3>1 DEF ClientReconnects
  <2>5. CASE ClientGivesUp(k, g)
    <3>1. conns' = [conns EXCEPT ![k][g] = [conns[k][g] EXCEPT !.status = "closed",
                                                               !.closed = TRUE]]
      BY <2>5 DEF ClientGivesUp
    <3>2. [conns[k][g] EXCEPT !.status = "closed", !.closed = TRUE] \in Conn
      BY <2>1, ConnTypes
    <3>3. conns[k][g].status # "closed"
      BY <2>5 DEF ClientGivesUp
    <3>. QED
      BY <3>1, <3>2, <3>3
  <2>. QED
    BY <1>2, <2>2, <2>3, <2>4, <2>5
<1>3. ASSUME NEW k \in Cells, ClusterDown(k)
      PROVE  /\ \A j \in Cells : Len(conns'[j]) = Len(conns[j])
             /\ \A j \in Cells : \A g \in 1..Len(conns[j]) :
                  conns[j][g].status = "closed" => conns'[j][g].status = "closed"
  <2>1. \A j \in Cells : j # k => conns'[j] = conns[j]
    BY <1>0, <1>3 DEF ClusterDown
  <2>2. conns'[k] = [g \in 1..Len(conns[k]) |->
          IF conns[k][g].status = "connected"
          THEN [conns[k][g] EXCEPT !.status = "reconnecting", !.disconnects = @ + 1]
          ELSE conns[k][g]]
    BY <1>0, <1>3 DEF ClusterDown
  <2>3. Len(conns'[k]) = Len(conns[k])
    <3>1. Len(conns[k]) \in Nat
      BY <1>0
    <3>2. conns'[k] = [g \in 1..Len(conns[k]) |-> conns'[k][g]]
      BY <2>2
    <3>. QED
      BY <3>1, <3>2
  <2>4. \A g \in 1..Len(conns[k]) : conns[k][g].status = "closed" => conns'[k][g] = conns[k][g]
    BY <2>2
  <2>. QED
    BY <2>1, <2>3, <2>4
<1>4. CASE StopConnections
  <2>. DEFINE F(k, g) == IF g = nc[k] THEN [conns[k][g] EXCEPT !.status = "closed"]
                         ELSE conns[k][g]
  <2>1. \A k \in Cells : conns'[k] = [g \in 1..Len(conns[k]) |-> F(k, g)]
    BY <1>4 DEF StopConnections
  <2>2. ASSUME NEW k \in Cells, NEW g \in 1..Len(conns[k]), conns[k][g].status = "closed"
        PROVE  F(k, g).status = "closed"
    <3>1. conns[k][g] \in Conn
      BY <1>0
    <3>. QED
      BY <2>2, <3>1 DEF Conn
  <2>. HIDE DEF F
  <2>3. ASSUME NEW k \in Cells
        PROVE  Len(conns'[k]) = Len(conns[k])
    <3>1. Len(conns[k]) \in Nat
      BY <1>0
    <3>2. conns'[k] = [g \in 1..Len(conns[k]) |-> F(k, g)]
      BY <2>1
    <3>. QED
      BY <3>1, <3>2
  <2>4. \A k \in Cells : \A g \in 1..Len(conns[k]) : conns'[k][g] = F(k, g)
    BY <2>1
  <2>. QED
    BY <1>4, <2>2, <2>3, <2>4 DEF StopConnections
<1>5. CASE UNCHANGED conns
  <2>1. nc' = nc
    <3>1. CASE ~UNCHANGED cellVars
      BY <3>1, CellFrame DEF connectToJetStream, PassRedial, StopConnections, natsDisconnected,
         natsClosed, ClusterDown, ClusterUp, ClientReconnects, ClientGivesUp
    <3>. QED
      BY <3>1 DEF cellVars
  <2>. QED
    BY <1>5, <2>1
<1>6. CASE ~UNCHANGED conns
  <2>1. ~UNCHANGED cellVars
    BY <1>6 DEF cellVars
  <2>2. \/ StopConnections
        \/ \E k \in Cells : \E g \in 1..Len(conns[k]) :
             \/ natsDisconnected(k, g) \/ natsClosed(k, g)
             \/ ClientReconnects(k, g) \/ ClientGivesUp(k, g)
        \/ \E k \in Cells : ClusterDown(k)
    BY <1>6, <2>1, CellFrame DEF connectToJetStream, PassRedial, ClusterUp
  <2>3. nc' = nc
    BY <2>2 DEF StopConnections, natsDisconnected, natsClosed, ClusterDown, ClientReconnects,
       ClientGivesUp
  <2>. QED
    BY <1>1, <1>2, <1>3, <1>4, <2>2, <2>3
<1>. QED
  BY <1>5, <1>6

\* Only the connection a cell holds is open: a redial replaces a closed one.
LEMMA OneOpenConnectionStep ==
  ASSUME TypeOK, OneOpenConnection, [Next]_vars
  PROVE  OneOpenConnection'
<1>0. conns \in [Cells -> Seq(Conn)] /\ nc \in [Cells -> Nat]
  BY DEF TypeOK
<1>1. ASSUME NEW D \in SUBSET Cells, connectToNATS(D)
      PROVE  OneOpenConnection'
  <2>1. \A k \in Cells : k \in D => Len(conns'[k]) = 1 /\ nc'[k] = 1
    BY <1>1 DEF connectToNATS
  <2>2. \A k \in Cells : k \notin D => Len(conns'[k]) = 0
    BY <1>1 DEF connectToNATS
  <2>. QED
    BY <2>1, <2>2 DEF OneOpenConnection
<1>2. ASSUME NEW k \in Cells, PassDial(k)
      PROVE  OneOpenConnection'
  <2>1. Len(conns[k]) \in Nat /\ conns[k] \in Seq(Conn)
    BY <1>0
  <2>2. ASSUME NEW x \in Conn, conns' = [conns EXCEPT ![k] = Append(@, x)]
        PROVE  /\ \A j \in Cells : j # k => conns'[j] = conns[j]
               /\ Len(conns'[k]) = Len(conns[k]) + 1
               /\ \A g \in 1..Len(conns[k]) : conns'[k][g] = conns[k][g]
               /\ conns'[k][Len(conns[k]) + 1] = x
    <3>1. conns'[k] = Append(conns[k], x) /\ \A j \in Cells : j # k => conns'[j] = conns[j]
      BY <1>0, <2>2
    <3>. HIDE DEF Conn
    <3>. QED
      BY <2>1, <3>1
  <2>3. CASE nc[k] # 0 /\ ~IsClosed(k)
    <3>1. /\ conns' = [conns EXCEPT ![k] = Append(@, [NewConn EXCEPT !.status = "closed"])]
          /\ nc' = nc
      BY <1>2, <2>3 DEF PassDial
    <3>2. [NewConn EXCEPT !.status = "closed"].status = "closed"
      BY DEF NewConn
    <3>3. [NewConn EXCEPT !.status = "closed"] \in Conn
      BY ConnTypes
    <3>4. /\ \A j \in Cells : j # k => conns'[j] = conns[j]
          /\ Len(conns'[k]) = Len(conns[k]) + 1
          /\ \A g \in 1..Len(conns[k]) : conns'[k][g] = conns[k][g]
          /\ conns'[k][Len(conns[k]) + 1].status = "closed"
      BY <2>2, <3>1, <3>2, <3>3
    <3>. QED
      BY <2>1, <3>1, <3>4 DEF OneOpenConnection
  <2>4. CASE ~(nc[k] # 0 /\ ~IsClosed(k))
    <3>1. /\ conns' = [conns EXCEPT ![k] = Append(@, NewConn)]
          /\ nc' = [nc EXCEPT ![k] = Len(conns[k]) + 1]
      BY <1>2, <2>4 DEF PassDial
    <3>2. NewConn \in Conn
      BY ConnTypes
    <3>3. /\ \A j \in Cells : j # k => conns'[j] = conns[j] /\ nc'[j] = nc[j]
          /\ Len(conns'[k]) = Len(conns[k]) + 1
          /\ \A g \in 1..Len(conns[k]) : conns'[k][g] = conns[k][g]
          /\ nc'[k] = Len(conns[k]) + 1
      BY <1>0, <2>2, <3>1, <3>2
    <3>4. \A g \in 1..Len(conns[k]) : conns[k][g].status = "closed"
      BY <1>0, <2>1, <2>4 DEF OneOpenConnection, IsClosed
    <3>. QED
      BY <2>1, <3>3, <3>4 DEF OneOpenConnection
  <2>. QED
    BY <2>3, <2>4
<1>3. CASE (~\E D \in SUBSET Cells : connectToNATS(D)) /\ ~\E k \in Cells : PassDial(k)
  BY <1>3, ClosedStaysClosed DEF OneOpenConnection
<1>. QED
  BY <1>1, <1>2, <1>3

-----------------------------------------------------------------------------
(* The connectors that wait to be restarted.                               *)

\* What ends up in the map when an entry is put in.
LEMMA PutAdds ==
  ASSUME NEW e, NEW c, Self(c) \in Put(e)
  PROVE  Self(c) \in reconnect \/ Self(c) = e
BY DEF Put

\* The two entries of a connector differ, and an entry says which it is.
LEMMA EntryForms ==
  /\ \A c \in Connectors, d \in Connectors : Self(c) # Base(d) /\ (Self(c) = Self(d) => c = d)
  /\ \A e \in Entries : ~e.base => e = Self(e.conn)
<1>1. \A c \in Connectors, d \in Connectors : Self(c) # Base(d) /\ (Self(c) = Self(d) => c = d)
  <2>1. \A c \in Connectors : ~Self(c).base /\ Self(c).conn = c /\ Base(c).base
    BY DEF Self, Base
  <2>. QED
    BY <2>1
<1>2. \A e \in Entries : ~e.base => e = Self(e.conn)
  BY DEF Entries, Self
<1>. QED
  BY <1>1, <1>2

\* What a restart or a shutdown does to the other connectors.
LEMMA ConnectorSteps ==
  ASSUME TypeOK
  PROVE  /\ \A c \in Connectors : ConnectorStart(c) =>
              \A d \in Connectors : d # c => sub'[d] = sub[d] /\ (listening'[d] <=> listening[d])
         /\ \A S \in SUBSET Connectors : ConnectorShutdown(S) =>
              \A d \in Connectors : /\ d \in S => ~listening'[d] /\ (d \notin Durable => sub'[d] = 0)
                                    /\ sub[d] = 0 => sub'[d] = 0
                                    /\ ~listening[d] => ~listening'[d]
<1>1. sub \in [Connectors -> Nat] /\ listening \in [Connectors -> BOOLEAN]
  BY DEF TypeOK
<1>2. ASSUME NEW c \in Connectors, ConnectorStart(c), NEW d \in Connectors, d # c
      PROVE  sub'[d] = sub[d] /\ (listening'[d] <=> listening[d])
  BY <1>1, <1>2 DEF ConnectorStart
<1>3. ASSUME NEW S \in SUBSET Connectors, ConnectorShutdown(S), NEW d \in Connectors
      PROVE  /\ d \in S => ~listening'[d] /\ (d \notin Durable => sub'[d] = 0)
             /\ sub[d] = 0 => sub'[d] = 0
             /\ ~listening[d] => ~listening'[d]
  BY <1>1, <1>3 DEF ConnectorShutdown
<1>. QED
  BY <1>2, <1>3

\* Nobody else starts or queues what startConnectors has still to reach, and
\* the map keeps what a pass has still to restart.
LEMMA NotYetStartedStep ==
  ASSUME TypeOK, StartIsAlone, TimerIsTracked, NotYetStarted, [Next]_vars
  PROVE  NotYetStarted'
<1>0. /\ toStart \subseteq Connectors /\ reconnect \subseteq Entries
      /\ sub \in [Connectors -> Nat] /\ listening \in [Connectors -> BOOLEAN]
  BY DEF TypeOK
<1>1. (holder = "restart" => startTodo \subseteq reconnect)'
  <2>1. CASE UNCHANGED queueVars /\ UNCHANGED lockVars
    BY <2>1 DEF NotYetStarted, queueVars, lockVars
  <2>2. ASSUME NEW e \in Entries, NEW ok \in BOOLEAN, PassRestart(e, ok)
        PROVE  holder' = "restart" => startTodo' \subseteq reconnect'
    <3>1. holder = "restart" /\ startTodo' = startTodo \ {e}
      BY <2>2 DEF PassRestart
    <3>2. reconnect' = reconnect \ {e} \/ reconnect' = reconnect
      BY <2>2 DEF PassRestart
    <3>. QED
      BY <3>1, <3>2 DEF NotYetStarted
  <2>3. CASE PassRedialed
    BY <2>3 DEF PassRedialed, queueVars
  <2>4. CASE ~UNCHANGED lockVars
    <3>1. \/ holder' # "restart"
          \/ PassRedialed
          \/ \E e \in Entries, ok \in BOOLEAN : PassRestart(e, ok)
          \/ \E k \in Cells : PassDial(k) \/ PassDialError(k)
      BY <2>4, LockFrame DEF PassStan, PassRedial, PassEnd, CheckOne, CheckEnd, PassBegin,
         CheckBegin
    <3>2. ASSUME NEW k \in Cells, PassDial(k) \/ PassDialError(k)
          PROVE  UNCHANGED <<holder, startTodo, reconnect>>
      BY <3>2 DEF PassDial, PassDialError, queueVars
    <3>. QED
      BY <2>2, <2>3, <3>1, <3>2 DEF NotYetStarted
  <2>5. CASE UNCHANGED lockVars /\ ~UNCHANGED queueVars
    <3>0. UNCHANGED <<holder, startTodo>>
      BY <2>5 DEF lockVars
    <3>1. CASE UNCHANGED reconnect
      BY <3>0, <3>1 DEF NotYetStarted
    <3>2. CASE ~UNCHANGED reconnect
      <4>1. \/ Start
            \/ \E c \in Connectors, ok \in BOOLEAN : startConnector(c, ok)
            \/ StopConnectors
            \/ \E e \in Entries, ok \in BOOLEAN : PassRestart(e, ok)
            \/ \E c \in Connectors : CheckOne(c)
            \/ \E c \in Connectors : ConnectorError(c)
        BY <2>5, <3>2, QueueFrame DEF stopReconnectTimer, PassEnd, CheckEnd, TimerFires,
           TimerCanceled, PassBegin
      <4>2. Start \/ StopConnectors => holder # "restart"
        BY DEF Start, StopConnectors, StartIsAlone, TimerIsTracked, InPass
      <4>3. ASSUME NEW c \in Connectors, NEW ok \in BOOLEAN,
                   startConnector(c, ok) \/ CheckOne(c) \/ ConnectorError(c)
            PROVE  holder # "restart"
        BY <3>2, <4>3 DEF startConnector, CheckOne, ConnectorError
      <4>. QED
        BY <2>2, <3>0, <4>1, <4>2, <4>3
    <3>. QED
      BY <3>1, <3>2
  <2>. QED
    BY <2>1, <2>4, <2>5
<1>2. ASSUME phase' = "connectors", phase # "connectors"
      PROVE  /\ holder' # "check"
             /\ \A c \in toStart' : sub'[c] = 0 /\ ~listening'[c] /\ Self(c) \notin reconnect'
  <2>1. ~UNCHANGED mainVars
    BY <1>2 DEF mainVars
  <2>2. connectToJetStream
    BY <1>2, <2>1, MainFrame DEF Start, connectToNATS, StartSTAN, startConnector, StartReturns,
       Stop, stopReconnectTimer, StopConnectors, StopConnections, natsClosed, Signal
  <2>3. /\ phase = "jetstream" /\ toStart' = Connectors
        /\ UNCHANGED <<holder, sub, listening, reconnect>>
    BY <2>2 DEF connectToJetStream, connVars, queueVars, lockVars
  <2>. QED
    BY <2>3 DEF StartIsAlone
<1>3. ASSUME phase' = "connectors", phase = "connectors"
      PROVE  /\ holder' # "check"
             /\ \A c \in toStart' : sub'[c] = 0 /\ ~listening'[c] /\ Self(c) \notin reconnect'
  <2>0. /\ holder # "check" /\ checkers = 0
        /\ \A c \in toStart : sub[c] = 0 /\ ~listening[c] /\ Self(c) \notin reconnect
    BY <1>3 DEF NotYetStarted, StartIsAlone
  <2>1. /\ toStart' \subseteq toStart
        /\ \A c \in Connectors, ok \in BOOLEAN : startConnector(c, ok) => c \notin toStart'
    <3>1. CASE ~UNCHANGED mainVars
      BY <1>3, <3>1, MainFrame DEF Start, connectToNATS, StartSTAN, connectToJetStream,
         startConnector, StartReturns, Stop, stopReconnectTimer, StopConnectors, StopConnections,
         natsClosed, Signal
    <3>2. CASE UNCHANGED mainVars
      BY <3>2 DEF startConnector, mainVars
    <3>. QED
      BY <3>1, <3>2
  <2>2. holder' # "check"
    <3>1. CASE ~UNCHANGED lockVars
      <4>1. \/ holder' = holder \/ holder' \in {"free", "stan", "redial", "restart"}
            \/ CheckBegin
        BY <3>1, LockFrame DEF PassStan, PassRedial, PassDial, PassDialError, PassRedialed,
           PassRestart, PassEnd, CheckOne, CheckEnd, PassBegin
      <4>2. ~CheckBegin
        BY <2>0 DEF CheckBegin
      <4>. QED
        BY <2>0, <4>1, <4>2
    <3>. QED
      BY <2>0, <3>1 DEF lockVars
  <2>3. ASSUME NEW e \in Entries, NEW ok \in BOOLEAN, PassRestart(e, ok), ~e.base
        PROVE  e.conn \notin toStart
    <3>1. e \in reconnect
      BY <2>3 DEF PassRestart, NotYetStarted
    <3>2. e = Self(e.conn)
      BY <2>3, EntryForms
    <3>. QED
      BY <2>0, <3>1, <3>2
  <2>4. ASSUME NEW c \in toStart'
        PROVE  sub'[c] = 0 /\ ~listening'[c]
    <3>0. c \in Connectors /\ c \in toStart /\ sub[c] = 0 /\ ~listening[c]
      BY <1>0, <2>0, <2>1
    <3>1. CASE UNCHANGED connVars
      BY <3>0, <3>1 DEF connVars
    <3>2. ASSUME NEW d \in Connectors, NEW ok \in BOOLEAN, startConnector(d, ok),
                 ~UNCHANGED connVars
          PROVE  sub'[c] = 0 /\ ~listening'[c]
      <4>1. ConnectorStart(d) /\ d # c
        BY <2>1, <3>2 DEF startConnector
      <4>. QED
        BY <3>0, <4>1, ConnectorSteps
    <3>3. ASSUME NEW e \in Entries, NEW ok \in BOOLEAN, PassRestart(e, ok), ~UNCHANGED connVars
          PROVE  sub'[c] = 0 /\ ~listening'[c]
      <4>1. ConnectorStart(e.conn) /\ ~e.base
        BY <3>3 DEF PassRestart
      <4>2. e.conn \in Connectors /\ e.conn # c
        BY <2>3, <3>0, <3>3, <4>1 DEF Entries
      <4>. QED
        BY <3>0, <4>1, <4>2, ConnectorSteps
    <3>4. ASSUME NEW d \in Connectors, ListenerFetchError(d)
          PROVE  sub'[c] = 0 /\ ~listening'[c]
      BY <1>0, <3>0, <3>4 DEF ListenerFetchError
    <3>5. ~StopConnectors /\ ~\E d \in Connectors : CheckOne(d)
      BY <1>3, <2>0 DEF StopConnectors, CheckOne
    <3>. QED
      BY <3>1, <3>2, <3>3, <3>4, <3>5, ConnFrame
  <2>5. ASSUME NEW c \in toStart', Self(c) \in reconnect'
        PROVE  FALSE
    <3>0. c \in Connectors /\ c \in toStart /\ Self(c) \notin reconnect
      BY <1>0, <2>0, <2>1
    <3>1. ~UNCHANGED reconnect
      BY <2>5, <3>0
    <3>2. \/ Start
          \/ \E d \in Connectors, ok \in BOOLEAN : startConnector(d, ok)
          \/ StopConnectors
          \/ \E e \in Entries, ok \in BOOLEAN : PassRestart(e, ok)
          \/ \E d \in Connectors : CheckOne(d)
          \/ \E d \in Connectors : ConnectorError(d)
      BY <3>1, QueueFrame DEF queueVars, stopReconnectTimer, PassEnd, CheckEnd, TimerFires,
         TimerCanceled, PassBegin
    <3>3. ~Start /\ ~StopConnectors /\ ~\E d \in Connectors : CheckOne(d)
      BY <1>3, <2>0 DEF Start, StopConnectors, CheckOne
    <3>4. ASSUME NEW d \in Connectors, NEW ok \in BOOLEAN, startConnector(d, ok)
          PROVE  FALSE
      <4>1. reconnect' = Put(Self(d)) /\ d # c
        BY <2>1, <3>1, <3>4 DEF startConnector
      <4>2. Self(c) = Self(d)
        BY <2>5, <3>0, <4>1, PutAdds
      <4>. QED
        BY <3>0, <4>1, <4>2, EntryForms
    <3>5. ASSUME NEW e \in Entries, NEW ok \in BOOLEAN, PassRestart(e, ok)
          PROVE  FALSE
      BY <2>5, <3>0, <3>5 DEF PassRestart
    <3>6. ASSUME NEW d \in Connectors, ConnectorError(d)
          PROVE  FALSE
      <4>1. reconnect' = Put(Base(d))
        BY <3>1, <3>6 DEF ConnectorError
      <4>2. Self(c) = Base(d)
        BY <2>5, <3>0, <4>1, PutAdds
      <4>. QED
        BY <3>0, <4>2, EntryForms
    <3>. QED
      BY <3>2, <3>3, <3>4, <3>5, <3>6
  <2>. QED
    BY <2>2, <2>4, <2>5
<1>. QED
  BY <1>1, <1>2, <1>3 DEF NotYetStarted

\* What is put in the map was shut down before, and what is started leaves it.
LEMMA QueuedIsShutDownStep ==
  ASSUME TypeOK, StartIsAlone, NotYetStarted, QueuedIsShutDown, [Next]_vars
  PROVE  QueuedIsShutDown'
<1>0. /\ sub \in [Connectors -> Nat] /\ listening \in [Connectors -> BOOLEAN]
      /\ toStart \subseteq Connectors
  BY DEF TypeOK
<1>. SUFFICES ASSUME NEW c \in Connectors \ Durable, Self(c) \in reconnect'
              PROVE  sub'[c] = 0 /\ ~listening'[c]
  BY DEF QueuedIsShutDown
<1>1. Self(c) \in reconnect => sub[c] = 0 /\ ~listening[c]
  BY DEF QueuedIsShutDown
<1>2. ASSUME NEW d \in Connectors, NEW ok \in BOOLEAN, startConnector(d, ok)
      PROVE  sub'[c] = 0 /\ ~listening'[c]
  <2>0. sub[d] = 0 /\ ~listening[d] /\ Self(d) \notin reconnect
    BY <1>2 DEF startConnector, NotYetStarted
  <2>1. CASE ConnectorStart(d) /\ reconnect' = reconnect
    <3>1. c # d
      BY <2>0, <2>1
    <3>. QED
      BY <1>1, <2>1, <3>1, ConnectorSteps
  <2>2. CASE UNCHANGED connVars /\ reconnect' = Put(Self(d))
    <3>1. Self(c) \in reconnect \/ Self(c) = Self(d)
      BY <2>2, PutAdds
    <3>2. Self(c) \in reconnect \/ c = d
      BY <3>1, EntryForms
    <3>. QED
      BY <1>1, <2>0, <2>2, <3>2 DEF connVars
  <2>3. CASE UNCHANGED connVars /\ UNCHANGED reconnect
    BY <1>1, <2>3 DEF connVars
  <2>. QED
    BY <1>2, <2>1, <2>2, <2>3 DEF startConnector
<1>3. CASE StopConnectors
  BY <1>3 DEF StopConnectors
<1>4. ASSUME NEW e \in Entries, NEW ok \in BOOLEAN, PassRestart(e, ok)
      PROVE  sub'[c] = 0 /\ ~listening'[c]
  <2>1. CASE ~ok \/ e.base
    <3>1. UNCHANGED connVars /\ reconnect' \subseteq reconnect
      BY <1>4, <2>1 DEF PassRestart
    <3>. QED
      BY <1>1, <3>1 DEF connVars
  <2>2. CASE ok /\ ~e.base
    <3>1. ConnectorStart(e.conn) /\ reconnect' = reconnect \ {e}
      BY <1>4, <2>2 DEF PassRestart
    <3>2. e = Self(e.conn) /\ e.conn \in Connectors
      BY <2>2, EntryForms DEF Entries
    <3>3. e.conn # c /\ Self(c) \in reconnect
      BY <3>1, <3>2
    <3>. QED
      BY <1>1, <3>1, <3>2, <3>3, ConnectorSteps
  <2>. QED
    BY <2>1, <2>2
<1>5. ASSUME NEW d \in Connectors, CheckOne(d)
      PROVE  sub'[c] = 0 /\ ~listening'[c]
  <2>1. CASE UNCHANGED connVars /\ UNCHANGED reconnect
    BY <1>1, <2>1 DEF connVars
  <2>2. CASE ConnectorShutdown({d}) /\ reconnect' = Put(Self(d))
    <3>1. Self(c) \in reconnect \/ Self(c) = Self(d)
      BY <2>2, PutAdds
    <3>2. Self(c) \in reconnect \/ c = d
      BY <3>1, EntryForms
    <3>3. /\ c = d => ~listening'[c] /\ sub'[c] = 0
          /\ sub[c] = 0 => sub'[c] = 0
          /\ ~listening[c] => ~listening'[c]
      BY <2>2, ConnectorSteps
    <3>. QED
      BY <1>1, <3>2, <3>3
  <2>. QED
    BY <1>5, <2>1, <2>2 DEF CheckOne
<1>6. ASSUME NEW d \in Connectors, ListenerFetchError(d)
      PROVE  sub'[c] = 0 /\ ~listening'[c]
  <2>1. UNCHANGED <<sub, reconnect>> /\ (~listening[c] => ~listening'[c])
    BY <1>0, <1>6 DEF ListenerFetchError, queueVars
  <2>. QED
    BY <1>1, <2>1
<1>7. ASSUME NEW d \in Connectors, ConnectorError(d)
      PROVE  sub'[c] = 0 /\ ~listening'[c]
  <2>1. UNCHANGED <<sub, listening>> /\ (reconnect' = reconnect \/ reconnect' = Put(Base(d)))
    BY <1>7 DEF ConnectorError, connVars
  <2>2. Self(c) \in reconnect
    BY <2>1, PutAdds, EntryForms
  <2>. QED
    BY <1>1, <2>1, <2>2
<1>8. CASE Start
  BY <1>8 DEF Start
<1>9. CASE UNCHANGED connVars /\ UNCHANGED reconnect
  BY <1>1, <1>9 DEF connVars
<1>10. CASE UNCHANGED connVars /\ ~UNCHANGED reconnect
  <2>1. \/ Start
        \/ \E d \in Connectors, ok \in BOOLEAN : startConnector(d, ok)
        \/ StopConnectors
        \/ \E e \in Entries, ok \in BOOLEAN : PassRestart(e, ok)
        \/ \E d \in Connectors : CheckOne(d)
        \/ \E d \in Connectors : ConnectorError(d)
    BY <1>10, QueueFrame DEF queueVars, stopReconnectTimer, PassEnd, CheckEnd, TimerFires,
       TimerCanceled, PassBegin
  <2>. QED
    BY <1>2, <1>3, <1>4, <1>5, <1>7, <1>8, <2>1
<1>11. CASE ~UNCHANGED connVars
  BY <1>2, <1>3, <1>4, <1>5, <1>6, <1>11, ConnFrame
<1>. QED
  BY <1>9, <1>10, <1>11

-----------------------------------------------------------------------------
(* Stop.                                                                   *)

\* Nothing Stop has ended comes back: no pass begins once it has the timer.
LEMMA StopIsFinalStep ==
  ASSUME TypeOK, DialIsInPass, TimerIsTracked, OneOpenConnection, StopIsFinal, [Next]_vars
  PROVE  StopIsFinal'
<1>0. /\ conns \in [Cells -> Seq(Conn)] /\ stan \in Nat /\ stanGen \in Nat
      /\ sub \in [Connectors -> Nat] /\ listening \in [Connectors -> BOOLEAN]
  BY DEF TypeOK
<1>1. phase \in {"shutdown", "drain", "stopped"} => ~InPass /\ dialing = {}
  BY DEF TimerIsTracked, DialIsInPass, InPass
<1>2. /\ phase' = "drain" => StopConnectors \/ phase = "drain"
      /\ phase' = "stopped" => StopConnections \/ phase = "stopped"
  <2>1. CASE UNCHANGED mainVars
    BY <2>1 DEF mainVars
  <2>2. CASE ~UNCHANGED mainVars
    BY <2>2, MainFrame DEF Start, connectToNATS, StartSTAN, connectToJetStream, startConnector,
       StartReturns, Stop, stopReconnectTimer, StopConnectors, StopConnections, natsClosed, Signal
  <2>. QED
    BY <2>1, <2>2
<1>3. ASSUME phase' \in {"drain", "stopped"}, NEW c \in Connectors
      PROVE  ~listening'[c] /\ (c \notin Durable => sub'[c] = 0)
  <2>1. CASE StopConnectors
    <3>1. ConnectorShutdown(Connectors)
      BY <2>1 DEF StopConnectors
    <3>. QED
      BY <3>1, ConnectorSteps
  <2>2. CASE ~StopConnectors
    <3>1. phase \in {"drain", "stopped"}
      BY <1>2, <1>3, <2>2 DEF StopConnections
    <3>2. ~listening[c] /\ (c \notin Durable => sub[c] = 0)
      BY <3>1 DEF StopIsFinal
    <3>3. CASE UNCHANGED connVars
      BY <3>2, <3>3 DEF connVars
    <3>4. ASSUME NEW d \in Connectors, CheckOne(d)
          PROVE  ~listening'[c] /\ (c \notin Durable => sub'[c] = 0)
      <4>1. ConnectorShutdown({d}) \/ UNCHANGED connVars
        BY <3>4 DEF CheckOne
      <4>. QED
        BY <3>2, <3>3, <4>1, ConnectorSteps
    <3>5. ASSUME NEW d \in Connectors, ListenerFetchError(d)
          PROVE  ~listening'[c] /\ (c \notin Durable => sub'[c] = 0)
      BY <1>0, <3>2, <3>5 DEF ListenerFetchError
    <3>6. /\ ~\E d \in Connectors, ok \in BOOLEAN : startConnector(d, ok)
          /\ ~\E e \in Entries, ok \in BOOLEAN : PassRestart(e, ok)
      BY <1>1, <3>1 DEF startConnector, PassRestart, InPass
    <3>. QED
      BY <2>2, <3>3, <3>4, <3>5, <3>6, ConnFrame
  <2>. QED
    BY <2>1, <2>2
<1>4. /\ stanState' = "alive" => stan' # 0
      /\ phase' = "stopped" => stanState' # "alive"
  <2>0. /\ stanState = "alive" => stan # 0
        /\ phase = "stopped" => stanState # "alive"
    BY DEF StopIsFinal
  <2>1. CASE UNCHANGED stanVars /\ ~StopConnections
    BY <1>2, <2>0, <2>1 DEF stanVars
  <2>2. CASE StopConnections
    BY <2>0, <2>2 DEF StopConnections
  <2>3. ASSUME NEW ok \in BOOLEAN, connectToSTAN(ok), stanState = "alive" => stan # 0
        PROVE  stanState' = "alive" => stan' # 0
    <3>1. \/ stan' = stan /\ stanState' = stanState
          \/ stan' = stanGen + 1
      BY <2>3 DEF connectToSTAN, stanVars
    <3>. QED
      BY <1>0, <2>3, <3>1
  <2>4. ASSUME NEW ok \in BOOLEAN, StartSTAN(ok)
        PROVE  (stanState' = "alive" => stan' # 0) /\ phase' # "stopped"
    <3>1. phase' # "stopped" /\ connectToSTAN(ok)
      BY <2>4 DEF StartSTAN
    <3>. QED
      BY <2>0, <2>3, <3>1
  <2>5. ASSUME NEW ok \in BOOLEAN, PassStan(ok)
        PROVE  (stanState' = "alive" => stan' # 0) /\ phase' # "stopped"
    <3>1. phase' # "stopped"
      BY <1>1, <2>5 DEF PassStan, InPass, mainVars
    <3>2. stanState' = "alive" => stan' # 0
      <4>1. connectToSTAN(ok) \/ UNCHANGED stanVars
        BY <2>5 DEF PassStan
      <4>. QED
        BY <2>0, <2>3, <4>1 DEF stanVars
    <3>. QED
      BY <3>1, <3>2
  <2>6. CASE stanConnectionLost \/ StanLost
    BY <2>6 DEF stanConnectionLost, StanLost
  <2>. QED
    BY <2>1, <2>2, <2>4, <2>5, <2>6, StanFrame
<1>5. ASSUME phase' = "stopped", NEW k \in Cells, NEW g \in 1..Len(conns'[k])
      PROVE  conns'[k][g].status = "closed"
  <2>1. /\ ~\E D \in SUBSET Cells : connectToNATS(D)
        /\ ~\E j \in Cells : PassDial(j)
    <3>1. ~\E D \in SUBSET Cells : connectToNATS(D)
      BY <1>5 DEF connectToNATS
    <3>2. ~\E j \in Cells : PassDial(j)
      BY <1>1, <1>5 DEF PassDial, mainVars
    <3>. QED
      BY <3>1, <3>2
  <2>2. /\ Len(conns'[k]) = Len(conns[k])
        /\ conns[k][g].status = "closed" => conns'[k][g].status = "closed"
    BY <2>1, ClosedStaysClosed
  <2>3. CASE phase = "stopped"
    BY <2>2, <2>3 DEF StopIsFinal
  <2>4. CASE StopConnections
    <3>1. CASE g = nc[k]
      <4>1. conns'[k] = [h \in 1..Len(conns[k]) |->
              IF h = nc[k] THEN [conns[k][h] EXCEPT !.status = "closed"] ELSE conns[k][h]]
        BY <2>4 DEF StopConnections
      <4>2. conns'[k][g] = [conns[k][g] EXCEPT !.status = "closed"]
        BY <2>2, <3>1, <4>1
      <4>3. conns[k][g] \in Conn
        BY <1>0, <2>2
      <4>. QED
        BY <4>2, <4>3 DEF Conn
    <3>2. CASE g # nc[k]
      BY <2>2, <3>2 DEF OneOpenConnection
    <3>. QED
      BY <3>1, <3>2
  <2>. QED
    BY <1>2, <1>5, <2>3, <2>4
<1>. QED
  BY <1>3, <1>4, <1>5 DEF StopIsFinal

-----------------------------------------------------------------------------
(* The theorems.                                                           *)

\* The inductive invariant.
IInv ==
  /\ TypeOK /\ StartIsAlone /\ DialIsInPass /\ TimerIsTracked /\ WorkIsTracked
  /\ ContextOfCurrentConnection /\ OneOpenConnection
  /\ NotYetStarted /\ QueuedIsShutDown /\ StopIsFinal

\* Every reachable state of the bridge satisfies IInv.
THEOREM BridgeInvariant == Spec => []IInv
<1>. DEFINE Rest == /\ DialIsInPass /\ TimerIsTracked /\ WorkIsTracked
                    /\ ContextOfCurrentConnection /\ OneOpenConnection
                    /\ NotYetStarted /\ QueuedIsShutDown /\ StopIsFinal
            Typed == TypeOK /\ StartIsAlone
<1>1. Init => Rest
  <2>. SUFFICES ASSUME Init PROVE Rest
    OBVIOUS
  <2>1. DialIsInPass /\ WorkIsTracked /\ NotYetStarted /\ QueuedIsShutDown
    BY DEF Init, DialIsInPass, WorkIsTracked, NotYetStarted, QueuedIsShutDown
  <2>2. TimerIsTracked
    <3>1. PassCount = 0 /\ timers.canceled = 0 /\ ~InPass
      BY DEF Init, PassCount, InPass
    <3>2. ~reconnectStopped /\ ~reconnectTimer /\ phase = "new"
      BY DEF Init
    <3>. QED
      BY <3>1, <3>2 DEF TimerIsTracked
  <2>3. ContextOfCurrentConnection /\ OneOpenConnection /\ StopIsFinal
    BY DEF Init, ContextOfCurrentConnection, OneOpenConnection, StopIsFinal
  <2>. QED
    BY <2>1, <2>2, <2>3
<1>2. Typed /\ Rest /\ [Next]_vars => Rest'
  BY DialIsInPassStep, TimerIsTrackedStep, WorkIsTrackedStep, ContextStep, OneOpenConnectionStep,
     NotYetStartedStep, QueuedIsShutDownStep, StopIsFinalStep
<1>3. Spec => []Typed
  BY TypeCorrect
<1>4. Typed /\ Rest => IInv
  BY DEF IInv
<1>. HIDE DEF Typed, Rest
<1>. QED
  BY <1>1, <1>2, <1>3, <1>4, PTL DEF Spec

\* At most one timer goroutine is armed, has fired, or is in its pass
\* (ensureReconnectTimer).
THEOREM OneTimer == Spec => []OneTimerGoroutine
<1>1. IInv => OneTimerGoroutine
  <2>. SUFFICES ASSUME IInv PROVE OneTimerGoroutine
    OBVIOUS
  <2>1. timers.armed \in Nat /\ timers.canceled \in Nat /\ timers.fired \in Nat
    BY DEF IInv, TypeOK
  <2>2. PassCount <= 1
    BY DEF IInv, TimerIsTracked
  <2>. QED
    BY <2>1, <2>2 DEF PassCount, OneTimerGoroutine
<1>. QED
  BY <1>1, BridgeInvariant, PTL

\* No lost wakeup: whoever releases the reconnectLock with work left leaves a
\* timer goroutine behind (ensureReconnectTimer, checkConnections,
\* ConnectorError, startConnectors).
THEOREM NoLostWakeup == Spec => []WorkHasTimer
<1>1. IInv => WorkHasTimer
  <2>. SUFFICES ASSUME IInv, holder = "free", ~reconnectStopped
                PROVE  /\ reconnect # {} => timers.armed + timers.fired >= 1
                       /\ (phase = "up" /\ StanConfigured /\ stan = 0)
                            => timers.armed + timers.fired >= 1 \/ checkers > 0 \/ wantCheck > 0
    BY DEF WorkHasTimer
  <2>1. /\ timers.armed \in Nat /\ timers.canceled \in Nat /\ timers.fired \in Nat
        /\ reconnectTimer \in BOOLEAN
    BY DEF IInv, TypeOK
  <2>2. PassCount = (IF reconnectTimer THEN 1 ELSE 0) /\ timers.canceled = 0
    BY DEF IInv, TimerIsTracked
  <2>3. reconnectTimer => timers.armed + timers.fired >= 1
    BY <2>1, <2>2 DEF PassCount, InPass
  <2>4. /\ reconnect # {} => reconnectTimer
        /\ (phase = "up" /\ StanConfigured /\ stan = 0)
             => reconnectTimer \/ checkers > 0 \/ wantCheck > 0
    BY DEF IInv, WorkIsTracked
  <2>. QED
    BY <2>3, <2>4
<1>. QED
  BY <1>1, BridgeInvariant, PTL

\* redialCell leaks no client: every connection but the cell's current one is
\* closed, whatever the outages, give-ups and redials.
THEOREM NoLeakedConnection == Spec => []OneOpenConnection
<1>1. IInv => OneOpenConnection
  BY DEF IInv
<1>. QED
  BY <1>1, BridgeInvariant, PTL

\* redialCell and connectCellJetStream never leave a cell with the context of a
\* connection it has replaced.
THEOREM FreshContext == Spec => []ContextOfCurrentConnection
<1>1. IInv => ContextOfCurrentConnection
  BY DEF IInv
<1>. QED
  BY <1>1, BridgeInvariant, PTL

\* What checkConnections and startConnectors queue holds no subscription and no
\* reader until a pass restarts it.
THEOREM QueuedHoldsNothing == Spec => []QueuedIsShutDown
<1>1. IInv => QueuedIsShutDown
  BY DEF IInv
<1>. QED
  BY <1>1, BridgeInvariant, PTL

\* Once Stop has returned, no timer, callback or listener brings a subscription
\* or a connection back.
THEOREM QuietAfterStop == Spec => []StoppedIsQuiet
<1>1. IInv => StoppedIsQuiet
  BY DEF IInv, StopIsFinal, StoppedIsQuiet
<1>. QED
  BY <1>1, BridgeInvariant, PTL
=============================================================================
