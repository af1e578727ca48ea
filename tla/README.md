# TLA+ models of the gatewayd proxy

This directory holds TLA+ specifications of gatewayd, the TLC configurations
that model-check them, and TLAPS proofs about them. gatewayd is a
database-protocol proxy: it sits between database clients and a PostgreSQL
server, keeps a pool of backend connections, and runs plugin hooks on the
traffic.

The proxy engine lives in `src/unnamed/part_000` (`network/proxy.go`). The
run command, with its startup sequence and signal handling, is in
`src/plugin/plugin.go` (this copy's `cmd/run.go`); configuration init is in
`src/unnamed/part_001`. The helpers `trafficData`, `extractField` and `GetID`
are in `src/network/utils.go`.

## 1. Inventory

### Components

| Component | Source | State | Operations | Module |
|---|---|---|---|---|
| Proxy engine | part_000 (`ProxyImpl`) | `availableConnections`, `busyConnections` | `Connect`, `Disconnect`, `PassThrough`, `Shutdown`, `IsExhausted`, `IsHealty` | `Proxy` |
| PassThrough data path | part_000 202-321, utils.go 64-112 | the request, response, hook results, errors | read, ingress hooks, `Send`, `Receive`, egress hooks, `AsyncWrite` | `Relay` |
| Connection pool | package `pool` (not under src/) | a mutex-guarded map | `Put` (refused when full), `Pop`, `Get`, `Remove`, `ForEach`, `Clear` | `Proxy`, spec-modelled |
| Backend client | package `network` (`Client`, not under src/) | a TCP connection, `ID` | `NewClient`, `Send`, `Receive`, `Close` | `Proxy`, `Relay`, spec-modelled |
| Run command | plugin.go 253-525 | configuration, plugins, pool, server, signal channel | load configs, fill the pool, build, `signal.Notify`, signal goroutine, `server.Run` | `Startup` |
| gnet server | plugin.go 406-448, gnet | event loops | `OnOpen`, `OnTraffic`, `OnClose` | `Proxy` (`LoopFree`) |
| Plugin processes, logging, config init, address resolution, rlimit | plugin.go, part_001, utils.go | processes, files | | not modelled |

### How the parts interact

- The run command loads configuration, starts the plugin processes, fills the
  pool, builds the proxy and the server, and installs a signal handler. Then
  it blocks in `server.Run`.
- gnet calls the three proxy callbacks. With `MultiCore` off there is one
  event loop, so a callback runs only after the previous one returns. With
  `MultiCore` on, the callbacks of different connections run in parallel.
- Each callback is **non-atomic**. Between its pool operations another
  callback, a backend drop, or `Shutdown` can run.
- The signal goroutine runs `server.Shutdown` (which calls the proxy's
  `Shutdown`), stops the plugins, and calls `os.Exit(0)`. All of this runs
  concurrently with the event loops and with the main goroutine.
- PassThrough moves bytes through `trafficData`, the hooks and `extractField`.
  The `Relay` module follows these bytes and errors for one connection.

## 2. Modules

| Module | Role |
|---|---|
| `Proxy.tla` | The engine, the pools it uses, backend drops, and the proxy's Shutdown. |
| `PoolOwnership.tla` | Abstract specification: who owns each backend client. |
| `ProxyOwnership.tla` | The refinement mapping from `Proxy` to `PoolOwnership`. |
| `OwnershipProofs.tla` | TLAPS proofs of the refinement and of `NoLeak`. |
| `MCProxy.tla` | Model values for `Proxy`: 3 connections, 4 client identities (2 pooled), and symmetry over the connections. It extends `ProxyOwnership`. |
| `ProxyProofs.tla` | TLAPS proofs about `Proxy`. |
| `Startup.tla` | The run command: main goroutine, signal delivery, and the signal goroutine. |
| `MCStartup.tla` | Model values for two catchable signals. |
| `StartupProofs.tla` | TLAPS proofs about `Startup`. |
| `Relay.tla` | PassThrough's data path, with `trafficData` and `extractField` as operators. |
| `MCRelay.tla` | Instantiates `Relay` for TLC. |
| `RelayProofs.tla` | TLAPS proofs about `Relay`. |

### Proxy: correspondence to the code

**State.**

- `avail` is the set of keys of `availableConnections`.
- `busy[g]` is the client bound to inbound connection `g`, or `Nil`.
- `cstate[c]` is the state of a client's backend connection. It is one of:
  - `unused`: not created yet;
  - `up`;
  - `down`: the backend closed its side;
  - `closed`: `Client.Close` was called.
- `pc[g]` is where the callback of `g` is.
- `cid[g]` is Connect's `clientID`, and `held[g]` the `*Client` a callback
  holds.
- `closedIn` is the set of inbound connections the proxy closed whose
  `OnClose` is pending.
- `sd` is the progress of `Shutdown` and of the exit that follows it.
- `crashed` records a nil `*Client` dereference.

**Actions.** A callback is cut between the pool operations at which
another goroutine (a second event loop, or Shutdown on the signal
goroutine) can change the pools. The code between two cuts is one step.

- Connect is `ConnectPick` (ForEach), `ConnectAcquire` (`IsExhausted`, and
  the `ErrPoolExhausted` close), `ConnectPop` (Pop), then `ConnectBind`
  (`IsHealty`, `busy.Put`, the `client.ID[:7]` dereference). A callback
  may start while Shutdown is running: nothing in the code stops gnet from
  calling OnOpen then.
- Disconnect is `DisconnectPop` or `DisconnectNotFound`, then
  `DisconnectReturn`. The last covers the recycle Put, a full pool, and the
  elastic drop.
- PassThrough has these steps:
  - `PassThroughGet`: the first `Get`.
  - `PassThroughCast`: the second `Get` and the cast, then read, ingress
    hooks and `Send`.
  - `PassThroughCastFailed`: the second `Get` returns nil, so the cast
    fails.
  - Then either `PassThroughReceive`, or `PassThroughEOF` followed by
    `PassThroughReconnect`.
- `BackendDrop(c)` is a database closing a connection.
- Shutdown is four steps, one per `ForEach` or `Clear`, followed by `Exit`.
- `LoopFree` serialises callbacks when `MultiCore` is FALSE.

**Abstractions.**

- `BackendDrop` is allowed only while an unused identity remains for the
  reconnection it causes. This bounds the run; it does not restrict the
  interleavings.
- `pool` and `network.Client` are not under `src/`, so they are modelled
  from the specification and marked `spec_modelled`.
- `Proxy`'s initial state is the pool filled by the run command: `Startup`
  models the `VerifyPool` check (`plugin.go:365`) that exits unless it is
  full.

### Startup: correspondence to the code

**Main goroutine.** Its position is `mpc`. Its steps are:

- `LoadPluginConfig`, `LoadGlobalConfig` and `Configure`, each with its fatal
  branch (zerolog `Fatal` exits);
- `LoadPlugins`, which sets `plugins`;
- `PopulatePool`, one loop turn in which `NewClient` may fail;
- `VerifyPool`, where a short pool means `os.Exit(1)`;
- `Build` (hooks, `NewProxy`, `NewServer`);
- `Notify`, which calls `signal.Notify` on `signalsCh`, a channel of
  capacity 1;
- `Spawn`, which starts the goroutine;
- `ServerRun`, `ServerReturn` and `Serve`.

**Signals.** `Deliver(s)` models the runtime:

- SIGKILL, or any signal before `Notify`, ends the process.
- After `Notify`, the signal is put in the channel if the channel is empty,
  and dropped otherwise.

**Signal goroutine.** Its position is `hpc`. Its steps are `HandlerStart`,
`HandlerReceive`, `HandlerServerShutdown`, `HandlerStopPlugins` and
`HandlerExit`.

### Relay: correspondence to the code

A byte slice is one of:

- `<<"req", k>>` or `<<"resp", k>>`, the request of exchange `k` and its
  answer;
- `Hooked`, a hook's replacement;
- `Empty`, an empty slice;
- `Nil`.

The backend answers each request it gets, in order. It may answer after the
receive deadline (`owed`). `TrafficData` keeps the type switch of
`trafficData`, including its empty case for `*gerr.GatewayDError`.
`ExtractField` returns the replacement and the message for every shape of hook
result (`HookResults`). The actions follow PassThrough's steps: `Read`,
`Ingress`, `Send`, `Receive` (deadline, EOF and reconnection), `Egress` and
`Write`. `ret` is what PassThrough returns.

Go's empty string, and an empty `[]byte` under a hook's field, is the
value `NoText`. The texts that `trafficData` can put under `"error"` form
the set `TrafficTexts`. Naming them, rather than writing `""` and
`STRING`, leaves every run's state space unchanged. It also lets the
provers reason about the texts: the SMT backend of TLAPS rejects the empty
string literal, and it cannot show that a literal is in `STRING`.

## 3. Runs

### Proxy runs

The Proxy runs use 3 inbound connections, 4 identities, 2 pooled clients and
`PoolCap = 2`. `single_loop` reaches 153,493 distinct states. With these bounds:

- two Connects compete for the last pooled client;
- a third Connect finds the pool exhausted;
- a drop is followed by a reconnection;
- Shutdown interleaves with every callback label.

Symmetry over connections is used only where no temporal property is checked.

| Run | Flags | Checks | Expect |
|---|---|---|---|
| `single_loop` | all FALSE, `FairSpec`, no symmetry | TypeOK, NilClientOnlyAfterClear, DroppedBackendReplaced, OwnershipRefinement, PutNeverRefused | pass |
| `multicore` | MultiCore | NoDoubleAssignment, NoLeak | pass |
| `connect_race` | MultiCore | NilClientOnlyAfterClear | violation |
| `elastic_connect` | Elastic, Reuse | NilClientOnlyAfterClear | violation |
| `reconnect_unreachable` | NewClientMayFail | NilClientOnlyAfterClear | violation |
| `shutdown_race` | all FALSE | NeverDereferencesNilClient | violation |

### Startup runs

These use `PoolSize = 3`, two catchable signals plus `Kill`, and up to 3
signals. That covers:

- a failed population turn;
- a signal before `Notify`;
- a signal while the channel is full;
- a signal at every point of startup.

| Run | Checks | Expect |
|---|---|---|
| `startup_signals` | TypeOK, SignalNotLost, EventualExit | pass |
| `startup_plugin_orphan` | SignalShutdownStopsPlugins | violation |

### Relay runs

These use two exchanges of one connection (`MaxExchanges = 2`). That is the
least that shows an answer carried from one exchange to the next. Every hook
result shape and every error kind is enumerated.

| Run | Checks | Expect |
|---|---|---|
| `relay_exchanges` (module `MCRelay`) | RequestSuperseded, IngressSeesReadError | pass |
| `relay_send_failure_cause` | SendFailureWrapsCause | violation |
| `relay_stale_response` | NoStaleResponse | violation |
| `relay_reconnect_answer` | ReconnectAnswers | violation |

### What the runs show

- **Exclusivity and accounting.** `multicore` checks that no client is
  bound to two connections and none is lost unclosed, with two event loops
  (its behaviours include every single-loop one), up to the panic.
- **Single event loop.** A nil client is dereferenced only after Shutdown's
  `Clear` of the available pool (`NilClientOnlyAfterClear`). Turning
  `IsExhausted`'s test around (`IsExhaustedInverted`) breaks it. The
  exception is not vacuous: `shutdown_race` reaches the dereference.
- **Liveness.** A dropped backend that a receiving connection has bound is
  always replaced.
- **Disconnect's Put.** The action property `PutNeverRefused` says that,
  while the proxy runs, Disconnect's `Put` always takes its client back.
  The code only logs a refused Put, so a refusal would silently lose an
  open client. A capacity test that is one short (`FullOneShort`) breaks
  the property within a few steps.
- **Refinement.** The proxy refines `PoolOwnership`:
  - a client is never lost before Shutdown;
  - a connection never holds two clients;
  - a client returns to the pool only from its owner;
  - a reconnection closes the client it replaces.

  The mapping (`ProxyOwnership`) reads each client's owner from the
  proxy's state, in this order:
  - its connection state, if the client is unused or closed;
  - `"free"`, if it is in the available pool;
  - the connection that has it bound or holds it in a callback's local
    variable;
  - `"lost"` otherwise.

  The mapping is an IF-chain, so its value is determined even in states
  where two of these tests hold. A `CASE` with two true arms is an
  arbitrary choice between them for TLAPS.

  `PoolOwnership` allows losing clients, and binding a new client to a
  connection, only once Shutdown has begun. These are exactly the Shutdown
  races of `shutdown_race`.
- **Startup.** The server runs only with a full pool. Every caught signal
  ends the process, because the buffered channel keeps a signal sent before
  the goroutine reaches its `range`. `SignalNotLost` states the safety half
  of this: once a signal is caught, `signalsCh` holds one until the handler
  has received it and is shutting down. An unbuffered channel
  (`DeliverUnbuffered`, where the runtime's non-blocking send drops the
  signal when nobody is receiving) breaks it.
- **Relay.** The backend gets the request that the ingress hooks chose: the
  read bytes, or a replacement, even an empty one. The ingress hooks see
  exactly the read errors.
- **Findings.** Each violation run reproduces one finding of `PROJECT.json`:
  - a Connect race that makes Pop return nil;
  - the elastic branch of Connect is dead code (a pool of capacity 0 takes
    the same path);
  - a nil returned by `NewClient` during reconnection is bound;
  - a signal while a connection is being opened: Shutdown's `Clear` between
    Connect's `IsExhausted` and its Pop makes Pop return nil, which Connect
    dereferences, so the process panics instead of exiting cleanly;
  - main returns before the plugins are stopped;
  - `ErrServerSendFailed` wraps the hooks' error, not the write's;
  - after a deadline, responses reach the peer one request late;
  - after a reconnection the request is not re-sent.
- **Reached but not checked.** Two behaviours occur in the runs, but no
  property is spent on them:
  - `PassThroughCastFailed`: Shutdown's `Clear` between PassThrough's two
    Gets makes it return `ErrCastFailed`. The spec reserves that error for
    a corrupted pool.
  - `TrafficData` gives the egress hooks `""` for every receive error, because
    of the empty `*gerr.GatewayDError` case.

### Fairness

- **Proxy** (`FairSpec`, used by `single_loop`). Each step *inside* a running callback is weakly
  fair: ConnectAcquire, ConnectPop, ConnectBind, DisconnectReturn, PassThroughCast,
  PassThroughCastFailed, PassThroughReceive, PassThroughEOF and
  PassThroughReconnect.
  - An event loop runs the callback it started to its end.
  - Shutdown's later steps and `Exit` are fair as well, because the signal
    goroutine is scheduled.
  - Starting a callback, a backend drop and a signal are not fair. They are
    driven by peers and by the environment.
- **Startup.** The main goroutine and the signal goroutine are each weakly
  fair, since Go's scheduler runs every runnable goroutine. Signal delivery
  is not fair.

## 4. Proofs

### `ProxyProofs.tla`

- `TypeCorrect`: `Spec => []TypeOK`. It is proved through
  `TypeInv == TypeOK /\ HeldOK`. `HeldOK` says that a callback at `d_put`,
  `p_recv` or `p_reconn` holds a real client.
- `ExclusiveAssignment`: `Spec => []NoDoubleAssignment`, for every set of
  connections and clients, every capacity and every flag.
  - Its inductive invariant is `TypeInv /\ NoDoubleAssignment /\
    UnusedNowhere`.
  - `UnusedNowhere`, which says that an identity not yet created is nowhere,
    is needed for the reconnection, which binds a fresh identity.

### `StartupProofs.tla`

- `StartupTypeCorrect`: `Spec => []TypeOK`.
- `SignalNeverLost`: `Spec => []SignalNotLost`, for every set of signals and
  every bound on them.
  - Its inductive invariant is `SInv == TypeOK /\ SignalNotLost /\ Spawned`.
  - `Spawned` says that the handler goroutine has left `"none"` only when
    main is in `server.Run` or serving. Without it, a state where a signal
    was caught and the handler already waits in its `range` before main
    spawned it would satisfy `SignalNotLost` and lose the signal on the next
    step; no reachable state is like that, and `Spawned` says why.
  - The lemma `DeliverKeepsOne` covers a delivery after `Notify`: the
    channel either takes the signal or already holds one.

The proofs of `ProxyProofs` and `StartupProofs` assume only the `ASSUME`s
of their modules: `ConstantsAssumption` and `StartupConstants`. Each
inductive invariant was checked by TLC before it
was proved. Each proof has one step per action.

- `NilClientSafety`: `Spec => []NilClientOnlyAfterClear`: a nil `*Client`
  is dereferenced only once Shutdown has cleared the available pool. It
  assumes one event loop (`~MultiCore`), a pool that is not elastic,
  `PoolCap > 0` and a `NewClient` that cannot fail. Each assumption is
  needed:
  - `connect_race` breaks the property with two event loops;
  - `elastic_connect` breaks it with an elastic pool;
  - `reconnect_unreachable` breaks it with a failing `NewClient`.

  The exception for Shutdown is real: `shutdown_race` shows a `Clear`
  between `IsExhausted` and Pop leading to the dereference, even with one
  event loop. So the theorem says exactly where the single-loop proxy is
  safe, and no more.

  **The inductive invariant** is `NInv == TypeInv /\ OneCallback /\
  PickInPool /\ BindHolds /\ NilClientOnlyAfterClear`, where `Cleared` says
  Shutdown has reached its `Clear` of the available pool:
  - `OneCallback`: with a single event loop, at most one callback is past
    its first step. Every other callback is idle, or has only just opened.
  - `PickInPool`: until `Cleared`, the key that Connect picked is still in
    the available pool at `IsExhausted` (or the pool is empty, and
    `IsExhausted` closes the connection) and at Pop. This
    holds only because no other callback can run in between, which is why
    `OneCallback` is needed.
  - `BindHolds`: until `Cleared`, the Pop found a client, so the binding is
    not nil.

  The reconnection step also needs `PoolCap > 0`, because of the
  `IsExhausted` test. TLC checked `NInv` on the single-loop instance with
  capacities 2 and 3 before it was proved.

### `RelayProofs.tla`

These results hold for every bound `MaxExchanges` and every sequence of
hook results.
- `RelayTypeCorrect`: `Spec => []TypeOK`.
- `RequestSupersededSafety`: `Spec => []RequestSuperseded`. The backend is
  sent the ingress hooks' replacement if there is one, an empty one
  included. Otherwise it is sent the bytes that were read.
- `IngressSeesReadErrorSafety`: `Spec => []IngressSeesReadError`.
- `SendCarriesChoice`: the action property
  `[][Send => sentReq' = ChosenRequest]_vars`. It is the step form of
  `RequestSuperseded`, about `client.Send` itself.

**The inductive invariant** is `RInv`, which is `TypeOK` plus five
conjuncts:
- `Counted`: an exchange under way has been counted.
- `Unhooked`: before the ingress hooks run, the request is the bytes that
  were read.
- `Chosen`: after the hooks run, the request is `ChosenRequest`. That is
  what `extractField` and the nil test leave of the hooks' result.
- `Passed`: after Send, the bytes sent are that request.
- `SawRead`: the hooks saw `trafficData`'s text for the read's error.

`Counted` is needed because `Send` appends `n` to the queue of owed
answers, and `owed` is typed as a sequence over `1..MaxExchanges`. The
other three conjuncts carry the request from `Read` through `Ingress` to
`Send`. This is needed because `RequestSuperseded` is stated at
`Receive`, two steps after the hooks chose the request.

The lemmas:
- `SupersededChoice` settles `extractField` followed by the nil test for
  each shape of hook result.
- `TrafficDataType` settles `trafficData`'s type switch for each error
  kind.

Both are proved one case at a time with Zenon, because the SMT backend
does not take `CASE`.

`TypeOK` is split into four parts (`TCtl`, `TData`, `TFlags`, `TObs`).
Each action re-establishes only the parts it changes. Given the whole
record in one obligation, Z3 does not finish.

The proofs use only `RelayConstants`: the bound is a natural number, and
`Nil` is none of the slices.

### `OwnershipProofs.tla`

- `RefinesOwnership`: `Spec => OwnershipRefinement`. This is the refinement
  that `single_loop` checks, proved for every number of connections and
  clients and every capacity.
- `NoClientLeak`: `Spec => []NoLeak`.
- `PutNeverRefusedSafety`: `Spec => PutNeverRefused`, an action property.
  - The lemma `PutStep` shows that only `DisconnectReturn` takes a
    callback from `d_put` to `idle`.
  - `NotFullWhileRunning`, applied to `OInv`, shows that the pool is not
    full at that step.

All three theorems assume `~Elastic` and `~NewClientMayFail`. TLC shows
the properties fail without these:
- with the elastic pool and no reuse, Disconnect drops a popped client
  without closing it;
- a nil `NewClient` crashes the process (`reconnect_unreachable`), and with
  it the refinement fails too.

`OwnershipNames` assumes that a connection is never one of the names
`"unused"`, `"free"`, `"closed"` or `"lost"`. gnet connections are not
strings.

**The inductive invariant** is `OInv`: `IInv` from `ProxyProofs`, plus the
following conjuncts.
- `HandEmpty`: a callback holds a client in a local variable only between
  its Pop or Get and the end. This lets `Owners` be "bound or held".
- `UnboundOutsideOpen`: there is no binding before Connect binds or after
  Disconnect pops.
- `InFlightBound`: during an exchange, the binding is the client in hand,
  unless Shutdown has cleared the busy pool.
- `HoldOnce` and `FreeUnheld`: each client has at most one holder, and a
  pooled client has none. Together they make `OwnerOf` a single
  connection.
- `ReconnDropped`: a reconnection replaces a dropped client, or one that
  Shutdown has closed.
- `RunningLive`: before Shutdown, everything held or pooled is open.
- `NoneAdrift`: before Shutdown, everything open is held or pooled.
- `LiveBounded`: the open clients form a finite set, and before Shutdown
  there are at most as many as startup pooled. A reconnection closes one
  client and opens one.

TLC checked `OInv` on the single-loop and multicore instances with pool
capacities 0, 2 and 3 before it was proved.

**The argument.**
- `NotFullWhileRunning`: before Shutdown, Disconnect's `Put` never meets a
  full pool. The argument:
  - the pool and the client in hand are distinct open clients;
  - there are at most `|Pooled|` open clients;
  - `StartupAssumption` gives `|Pooled| <= PoolCap`.

  This is what makes a loss before Shutdown impossible.
- `OwnerOfCases`, and its primed twin, characterise `OwnerOf` in terms of
  the state.
- `NextRefines` maps each step of `Proxy`:

  | Proxy step | Abstract step |
  |---|---|
  | ConnectAcquire | a stutter |
  | ConnectPop | `Lend`, or a stutter when the popped key is gone or closed |
  | DisconnectReturn | `Return`; `Abandon` for a full pool after Shutdown; a stutter for a closed client |
  | PassThroughReceive after `ClearBusy` | `Abandon` |
  | PassThroughReconnect | `Replace`, or `LateReplace` once Shutdown has closed the old client |
  | BackendDrop | `Drop` |
  | ShutdownCloseAvail | `Stop` |
  | ShutdownClearAvail | `Abandon` |
  | ShutdownCloseBusy | `CloseOwned` |
  | ShutdownClearBusy | `Abandon` |
  | every other step | a stutter |

### What stays with TLC

- `NilClientOnlyAfterClear`, `NoLeak` and the refinement are proved only
  under the assumptions above. The runs show the other settings.
- Every safety invariant of a passing run now has a theorem.
- Liveness (`DroppedBackendReplaced`, `EventualExit`) and `ENABLED` are out
  of reach of TLAPS.

## 5. Not modelled

- **Plugin processes** (go-plugin), **logging setup**, **config init**
  (file I/O), `Resolve` and `GetRLimit`: these are wrappers around external
  libraries or I/O, and have no state of their own.
- **The contents of hook payloads.** Addresses and configuration maps are
  left out, and the bytes are tagged values.
- **The pool package and `network.Client`.** They are not in this source.
  Only the behaviour the specification gives them is modelled.
- **Time.** Deadlines are nondeterministic outcomes of `Receive`.

## 6. Plan for later sittings

1. Add runs for the observations above that have none:
   - ErrCastFailed after Shutdown's Clear;
   - the receive error hidden from the egress hooks;
   - an empty egress replacement wiping out the answer. The spec (step 7)
     says only a non-empty replacement supersedes the response.
2. Compose `Relay` with `Proxy`'s reconnection, so that a stale client can
   be followed into the bytes written.
3. Add a run with Elastic and reuse against a full pool, one elastic
   without reuse (the unclosed drop at `part_000:153`), and one with a pool
   of capacity 0.
4. Prove more action properties of the proxy and the relay: `PutNeverRefused`
   and `SendCarriesChoice` are proved; a next candidate is that a
   reconnection never rebinds a connection that Disconnect has released.
