-------------------------------- MODULE Main --------------------------------
(***************************************************************************)
(* The process: the main goroutine, which makes and starts a bridge, and   *)
(* the goroutine that handles SIGINT and SIGHUP.  They share the variable  *)
(* server without synchronisation.  A bridge is here only whether it runs; *)
(* its Start and Stop are the subject of Bridge.                           *)
(***************************************************************************)
EXTENDS Naturals

CONSTANTS
  MaxSignals    \* bound: signals sent to the process

VARIABLES
  server,     \* the variable of main: the number of a bridge, 0 for nil
  bridges,    \* bridges made so far
  running,    \* the bridges that run
  locked,     \* the bridges whose Start holds their mutex
  main,       \* where the main goroutine is
  handler,    \* where the signal goroutine is
  inner,      \* the bridge of the SIGHUP case, which shadows server
  sigChan,    \* the signal in the channel of capacity one, "none" if empty
  signals,    \* signals so far
  process     \* "alive", "exited" or "panicked"

vars == <<server, bridges, running, locked, main, handler, inner, sigChan, signals, process>>

-----------------------------------------------------------------------------
\* The main goroutine.
MakeServer ==
  /\ process = "alive" /\ main = "make"
  /\ bridges' = bridges + 1 /\ server' = bridges + 1
  /\ main' = "init"
  /\ UNCHANGED <<running, locked, handler, inner, sigChan, signals, process>>

\* InitializeFromFlags; after an error logErrorFatal ends the process.
InitializeServer(ok) ==
  /\ process = "alive" /\ main = "init"
  /\ main' = "start"
  /\ process' = IF ok THEN process ELSE "exited"
  /\ UNCHANGED <<server, bridges, running, locked, handler, inner, sigChan, signals>>

\* Start takes the mutex of the bridge and sets running; logErrorFatal stops a
\* bridge that does not start.
StartServer ==
  /\ process = "alive" /\ main = "start"
  /\ running' = running \cup {server} /\ locked' = locked \cup {server}
  /\ main' = "starting"
  /\ UNCHANGED <<server, bridges, handler, inner, sigChan, signals, process>>

ServerStarted(ok) ==
  /\ process = "alive" /\ main = "starting"
  /\ locked' = locked \ {server}
  /\ running' = IF ok THEN running ELSE running \ {server}
  /\ process' = IF ok THEN process ELSE "exited"
  /\ main' = "exit"
  /\ UNCHANGED <<server, bridges, handler, inner, sigChan, signals>>

-----------------------------------------------------------------------------
\* The signal goroutine.  signal.Notify drops a signal the channel has no room for.
Signal(s) ==
  /\ process = "alive" /\ signals < MaxSignals
  /\ signals' = signals + 1
  /\ sigChan' = IF sigChan = "none" THEN s ELSE sigChan
  /\ UNCHANGED <<server, bridges, running, locked, main, handler, inner, process>>

\* Logger() of a nil server panics.
TakeSignal ==
  /\ process = "alive" /\ handler = "wait" /\ sigChan # "none"
  /\ handler' = sigChan /\ sigChan' = "none"
  /\ process' = IF server = 0 THEN "panicked" ELSE process
  /\ UNCHANGED <<server, bridges, running, locked, main, inner, signals>>

\* Stop waits for the mutex of the bridge.
Interrupt ==
  /\ process = "alive" /\ handler = "interrupt" /\ server \notin locked
  /\ running' = running \ {server}
  /\ process' = "exited"
  /\ UNCHANGED <<server, bridges, locked, main, handler, inner, sigChan, signals>>

Hangup ==
  /\ process = "alive" /\ handler = "hangup" /\ server \notin locked
  /\ running' = running \ {server}
  /\ bridges' = bridges + 1 /\ inner' = bridges + 1
  /\ handler' = "init"
  /\ UNCHANGED <<server, locked, main, sigChan, signals, process>>

InitializeInner(ok) ==
  /\ process = "alive" /\ handler = "init"
  /\ handler' = "start"
  /\ process' = IF ok THEN process ELSE "exited"
  /\ UNCHANGED <<server, bridges, running, locked, main, inner, sigChan, signals>>

\* Nobody else has a reference to the inner bridge: its Start is one step.
StartInner(ok) ==
  /\ process = "alive" /\ handler = "start"
  /\ running' = IF ok THEN running \cup {inner} ELSE running
  /\ process' = IF ok THEN process ELSE "exited"
  /\ handler' = "wait"
  /\ UNCHANGED <<server, bridges, locked, main, inner, sigChan, signals>>

-----------------------------------------------------------------------------
Init ==
  /\ server = 0 /\ bridges = 0 /\ running = {} /\ locked = {}
  /\ main = "make" /\ handler = "wait" /\ inner = 0
  /\ sigChan = "none" /\ signals = 0 /\ process = "alive"

Next ==
  \/ MakeServer \/ StartServer
  \/ \E ok \in BOOLEAN : InitializeServer(ok) \/ ServerStarted(ok)
  \/ \E s \in {"interrupt", "hangup"} : Signal(s)
  \/ TakeSignal \/ Interrupt \/ Hangup
  \/ \E ok \in BOOLEAN : InitializeInner(ok) \/ StartInner(ok)

Spec == Init /\ [][Next]_vars

-----------------------------------------------------------------------------
\* The bridge is reloaded, not multiplied: a SIGHUP stops the bridge that the
\* SIGHUP before it has started, so that of those bridges at most one runs.
ReloadReplaces ==
  \A a, b \in running : (a > 1 /\ b > 1) => a = b
=============================================================================
