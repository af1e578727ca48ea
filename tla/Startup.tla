------------------------------ MODULE Startup ------------------------------
(***************************************************************************)
(* The run command of gatewayd (runCmd.Run in src/plugin/plugin.go): load *)
(* the plugin and global configuration, start the plugin processes, fill  *)
(* the pool of backend clients and verify it, build the proxy and the      *)
(* server, install the signal handler, and run the server.  The handler    *)
(* runs in a goroutine of its own, beside the main one blocked in          *)
(* server.Run: on a signal it runs the OnSignal hooks, shuts the server    *)
(* (and with it the proxy) down, stops the plugins and exits.              *)
(*                                                                         *)
(* Configuration contents, hook payloads and log lines are abstracted      *)
(* away; a hook run whose error is only logged is not a step of its own.   *)
(* zerolog's Fatal().Msg exits the process (status 1).                     *)
(***************************************************************************)
EXTENDS Naturals

CONSTANTS
    PoolSize,             \* poolSize of poolConfig()
    Signals,              \* the signals of the list that can be caught
    Kill,                 \* os.Kill, in the list but never delivered to a channel
    Nil,
    MaxSignals,           \* bound on the signals the environment sends
    RunReturnsOnShutdown  \* server.Run returns once the server is shut down

ASSUME StartupConstants ==
    /\ PoolSize \in Nat
    /\ MaxSignals \in Nat
    /\ Kill \notin Signals
    /\ Nil \notin Signals \cup {Kill}
    /\ RunReturnsOnShutdown \in BOOLEAN

VARIABLES
    mpc,       \* where the main goroutine is in runCmd.Run
    i,         \* the index of the pool-filling loop
    pooled,    \* pool.Size(): clients put in the pool
    plugins,   \* plugin processes are running
    server,    \* "none", "running" or "stopped" (server.Status)
    notified,  \* signal.Notify(signalsCh, ...) has been called
    sigq,      \* the buffered signalsCh: a pending signal or Nil
    hpc,       \* where the signal-handling goroutine is
    caught,    \* a signal reached the process after signal.Notify
    sent,      \* signals sent so far
    proc       \* "running" or "exited"

vars == <<mpc, i, pooled, plugins, server, notified, sigq, hpc, caught, sent,
          proc>>

MainLabels == {"pluginCfg", "loadPlugins", "globalCfg", "configure",
               "populate", "verify", "build", "notify", "spawn", "run",
               "serving"}
HandlerLabels == {"none", "starting", "waiting", "shutdown", "plugins", "exit"}

Running == proc = "running"

\* The list of line 480: os.Interrupt and syscall.SIGINT are the same value.
SignalList == Signals \cup {Kill}

-----------------------------------------------------------------------------
(* The main goroutine.                                                      *)

Init ==
    /\ mpc = "pluginCfg"
    /\ i = 0
    /\ pooled = 0
    /\ plugins = FALSE
    /\ server = "none"
    /\ notified = FALSE
    /\ sigq = Nil
    /\ hpc = "none"
    /\ caught = FALSE
    /\ sent = 0
    /\ proc = "running"

\* Main moves from one label to the next, the rest of the state untouched.
Goto(from, to) ==
    /\ Running
    /\ mpc = from
    /\ mpc' = to

\* DefaultLogger.Fatal(): the process exits, plugins or not.
Fatal(from) ==
    /\ Running
    /\ mpc = from
    /\ proc' = "exited"
    /\ UNCHANGED <<mpc, i, pooled, plugins, server, notified, sigq, hpc,
                   caught, sent>>

\* pluginConfig.Load; a load error is fatal.
LoadPluginConfig ==
    \/ /\ Goto("pluginCfg", "loadPlugins")
       /\ UNCHANGED <<i, pooled, plugins, server, notified, sigq, hpc, caught,
                      sent, proc>>
    \/ Fatal("pluginCfg")

\* pluginRegistry.LoadPlugins starts the plugin processes.
LoadPlugins ==
    /\ Goto("loadPlugins", "globalCfg")
    /\ plugins' = TRUE
    /\ UNCHANGED <<i, pooled, server, notified, sigq, hpc, caught, sent, proc>>

\* globalConfig.Load; a load error is fatal.
LoadGlobalConfig ==
    \/ /\ Goto("globalCfg", "configure")
       /\ UNCHANGED <<i, pooled, plugins, server, notified, sigq, hpc, caught,
                      sent, proc>>
    \/ Fatal("globalCfg")

\* OnConfigLoaded hooks, whose verified result is merged (a merge error is
\* fatal); the new logger and the OnNewLogger hooks (errors logged).
Configure ==
    \/ /\ Goto("configure", "populate")
       /\ UNCHANGED <<i, pooled, plugins, server, notified, sigq, hpc, caught,
                      sent, proc>>
    \/ Fatal("configure")

\* Mutant: the loop condition i < poolSize dropped.
PopulatePoolUnbounded ==
    /\ Running
    /\ mpc = "populate"
    /\ \E connected \in BOOLEAN :
           pooled' = IF connected THEN pooled + 1 ELSE pooled
    /\ i' = i + 1
    /\ UNCHANGED <<mpc, plugins, server, notified, sigq, hpc, caught, sent,
                   proc>>

\* One turn of the loop: NewClient is nil when the backend cannot be
\* reached; otherwise the OnNewClient hooks run and pool.Put adds it.
PopulatePool ==
    /\ Running
    /\ mpc = "populate" /\ i < PoolSize
    /\ \E connected \in BOOLEAN :
           pooled' = IF connected THEN pooled + 1 ELSE pooled
    /\ i' = i + 1
    /\ UNCHANGED <<mpc, plugins, server, notified, sigq, hpc, caught, sent,
                   proc>>

\* The loop is over: pool.Size() != poolSize ends the process (os.Exit(1)).
VerifyPool ==
    /\ Running
    /\ mpc = "populate" /\ i = PoolSize
    /\ IF pooled # PoolSize
         THEN proc' = "exited" /\ UNCHANGED mpc
         ELSE mpc' = "build" /\ UNCHANGED proc
    /\ UNCHANGED <<i, pooled, plugins, server, notified, sigq, hpc, caught,
                   sent>>

\* OnNewPool hooks, NewProxy and the OnNewProxy hooks, NewServer and the
\* OnNewServer hooks: every error is only logged.
Build ==
    /\ Goto("build", "notify")
    /\ UNCHANGED <<i, pooled, plugins, server, notified, sigq, hpc, caught,
                   sent, proc>>

\* signal.Notify(signalsCh, signals...) on a channel of capacity 1.
Notify ==
    /\ Goto("notify", "spawn")
    /\ notified' = TRUE
    /\ UNCHANGED <<i, pooled, plugins, server, sigq, hpc, caught, sent, proc>>

\* go func(...): the handler goroutine is created; it runs later.
Spawn ==
    /\ Goto("spawn", "run")
    /\ hpc' = "starting"
    /\ UNCHANGED <<i, pooled, plugins, server, notified, sigq, caught, sent,
                   proc>>

\* server.Run: either it fails to start (logged) and runCmd.Run returns,
\* ending the process, or the server serves until it is shut down.
ServerRun ==
    /\ Running
    /\ mpc = "run"
    /\ \/ /\ proc' = "exited"
          /\ UNCHANGED <<mpc, server>>
       \/ /\ mpc' = "serving"
          /\ server' = IF server = "stopped" THEN "stopped" ELSE "running"
          /\ UNCHANGED proc
    /\ UNCHANGED <<i, pooled, plugins, notified, sigq, hpc, caught, sent>>

\* server.Run returns after Shutdown; runCmd.Run and main return with it.
ServerReturn ==
    /\ Running
    /\ mpc = "serving" /\ server = "stopped" /\ RunReturnsOnShutdown
    /\ proc' = "exited"
    /\ UNCHANGED <<mpc, i, pooled, plugins, server, notified, sigq, hpc,
                   caught, sent>>

\* While the server runs, the proxy serves connections (the Proxy module);
\* none of it changes the state of the run command.
Serve ==
    /\ Running
    /\ mpc = "serving" /\ server = "running"
    /\ UNCHANGED vars

-----------------------------------------------------------------------------
(* Signals and the handler goroutine.                                       *)

\* Mutant: an unbuffered signalsCh; a signal finds no receiver unless the
\* handler already waits in its range loop, and is dropped.
DeliverUnbuffered(s) ==
    /\ Running
    /\ sent < MaxSignals
    /\ sent' = sent + 1
    /\ IF s = Kill \/ ~notified
         THEN proc' = "exited" /\ UNCHANGED <<sigq, caught>>
         ELSE /\ caught' = TRUE
              /\ sigq' = IF sigq = Nil /\ hpc = "waiting" THEN s ELSE sigq
              /\ UNCHANGED proc
    /\ UNCHANGED <<mpc, i, pooled, plugins, server, notified, hpc>>

\* The environment sends a signal.  SIGKILL, and any signal before
\* signal.Notify, ends the process.  Afterwards the runtime sends it to
\* signalsCh without blocking: a full channel drops it.
Deliver(s) ==
    /\ Running
    /\ sent < MaxSignals
    /\ sent' = sent + 1
    /\ IF s = Kill \/ ~notified
         THEN proc' = "exited" /\ UNCHANGED <<sigq, caught>>
         ELSE /\ caught' = TRUE
              /\ sigq' = IF sigq = Nil THEN s ELSE sigq
              /\ UNCHANGED proc
    /\ UNCHANGED <<mpc, i, pooled, plugins, server, notified, hpc>>

\* The goroutine reaches `for sig := range signalsCh`.
HandlerStart ==
    /\ Running
    /\ hpc = "starting"
    /\ hpc' = "waiting"
    /\ UNCHANGED <<mpc, i, pooled, plugins, server, notified, sigq, caught,
                   sent, proc>>

\* A signal is received; the first s of the list with sig != s (there is
\* always one) runs the OnSignal hooks (errors logged).
HandlerReceive ==
    /\ Running
    /\ hpc = "waiting" /\ sigq # Nil
    /\ \E s \in SignalList : s # sigq
    /\ sigq' = Nil
    /\ hpc' = "shutdown"
    /\ UNCHANGED <<mpc, i, pooled, plugins, server, notified, caught, sent,
                   proc>>

\* server.Shutdown: the proxy is shut down and the server marked stopped.
HandlerServerShutdown ==
    /\ Running
    /\ hpc = "shutdown"
    /\ server' = "stopped"
    /\ hpc' = "plugins"
    /\ UNCHANGED <<mpc, i, pooled, plugins, notified, sigq, caught, sent, proc>>

\* pluginRegistry.Shutdown and goplugin.CleanupClients stop the plugins.
HandlerStopPlugins ==
    /\ Running
    /\ hpc = "plugins"
    /\ plugins' = FALSE
    /\ hpc' = "exit"
    /\ UNCHANGED <<mpc, i, pooled, server, notified, sigq, caught, sent, proc>>

\* os.Exit(0).
HandlerExit ==
    /\ Running
    /\ hpc = "exit"
    /\ proc' = "exited"
    /\ UNCHANGED <<mpc, i, pooled, plugins, server, notified, sigq, hpc,
                   caught, sent>>

Terminated == proc = "exited" /\ UNCHANGED vars

MainStep ==
    \/ LoadPluginConfig \/ LoadPlugins \/ LoadGlobalConfig \/ Configure
    \/ PopulatePool \/ VerifyPool \/ Build \/ Notify \/ Spawn
    \/ ServerRun \/ ServerReturn \/ Serve

HandlerStep ==
    HandlerStart \/ HandlerReceive \/ HandlerServerShutdown
    \/ HandlerStopPlugins \/ HandlerExit

Next ==
    \/ MainStep
    \/ HandlerStep
    \/ \E s \in SignalList : Deliver(s)
    \/ Terminated

\* Both goroutines are scheduled whenever they can run (Go's scheduler);
\* signals are the environment's and are never forced.
Fairness == WF_vars(MainStep) /\ WF_vars(HandlerStep)

Spec == Init /\ [][Next]_vars /\ Fairness

-----------------------------------------------------------------------------
(* Properties.                                                              *)

\* Type invariant of the run command's state.
TypeOK ==
    /\ mpc \in MainLabels
    /\ i \in 0..PoolSize /\ pooled \in 0..i
    /\ plugins \in BOOLEAN /\ notified \in BOOLEAN /\ caught \in BOOLEAN
    /\ server \in {"none", "running", "stopped"}
    /\ sigq \in Signals \cup {Nil}
    /\ hpc \in HandlerLabels
    /\ sent \in 0..MaxSignals
    /\ proc \in {"running", "exited"}

(***************************************************************************)
(* A signal caught after signal.Notify always ends the process: the        *)
(* buffered signalsCh keeps a signal sent before the handler goroutine     *)
(* reaches its receive, and the handler runs to os.Exit.                   *)
(***************************************************************************)
EventualExit == caught ~> proc = "exited"

(***************************************************************************)
(* A caught signal is never lost: signal.Notify sends without blocking to  *)
(* a signalsCh of capacity 1, dropping a signal only when one is already  *)
(* pending, so once a signal was caught either one waits in the channel or *)
(* the handler goroutine has received one and is shutting down.  Concerns *)
(* the channel's buffer against a handler that reaches its range loop     *)
(* only after main has spawned it.                                         *)
(***************************************************************************)
SignalNotLost ==
    caught => sigq # Nil \/ hpc \in {"shutdown", "plugins", "exit"}

(***************************************************************************)
(* Once the handler has shut the server down, the plugin processes are     *)
(* stopped before the process ends: server.Shutdown is followed by         *)
(* pluginRegistry.Shutdown and goplugin.CleanupClients, then os.Exit(0).   *)
(***************************************************************************)
SignalShutdownStopsPlugins ==
    (proc = "exited" /\ hpc \in {"plugins", "exit"}) => ~plugins

=============================================================================
