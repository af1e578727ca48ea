------------------------------- MODULE Proxy -------------------------------
(***************************************************************************)
(* The proxy engine of gatewayd (network/proxy.go): the available pool of  *)
(* backend clients, the busy pool binding inbound connections to clients,  *)
(* the gnet callbacks Connect (OnOpen), PassThrough (OnTraffic) and        *)
(* Disconnect (OnClose) cut at the points where other callbacks can run    *)
(* in between, backends that drop, and Shutdown run from the signal        *)
(* goroutine of cmd/run.go.                                                *)
(*                                                                         *)
(* Data is abstracted away: request and response bytes, addresses, hook    *)
(* payloads and log lines do not appear.  A client is its identity and the *)
(* state of its connection.  The pools (package pool, not part of this     *)
(* source) are mutex-guarded maps: every Put, Pop, Get, Remove and Clear   *)
(* is one atomic step.                                                     *)
(***************************************************************************)
EXTENDS Naturals, FiniteSets

CONSTANTS
    Conns,               \* inbound connections, the keys of the busy pool
    Clients,             \* identities a backend client can have (Client.ID)
    Pooled,              \* the clients cmd/run.go puts in the pool at startup
    Nil,                 \* Go's nil: absent entry, nil *Client, empty clientID
    PoolCap,             \* capacity of the available pool, 0 = unbounded
    Elastic,             \* ProxyImpl.Elastic
    ReuseElasticClients, \* ProxyImpl.ReuseElasticClients
    MultiCore,           \* gnet.WithMulticore: callbacks of different
                         \* connections run in parallel event loops
    NewClientMayFail     \* NewClient returns nil (backend unreachable)

ASSUME ConstantsAssumption ==
    /\ Pooled \subseteq Clients
    /\ Nil \notin Clients
    /\ PoolCap \in Nat
    /\ {Elastic, ReuseElasticClients, MultiCore, NewClientMayFail}
           \subseteq BOOLEAN

\* cmd/run.go exits unless every pooled client was Put, so startup only
\* succeeds when the pool can hold them all.
ASSUME StartupAssumption ==
    /\ IsFiniteSet(Pooled)
    /\ PoolCap > 0 => Cardinality(Pooled) <= PoolCap

VARIABLES
    avail,     \* keys (client IDs) of availableConnections
    busy,      \* busyConnections: busy[g] is the client bound to g, or Nil
    cstate,    \* state of each client's backend connection
    pc,        \* where the callback of each inbound connection is
    cid,       \* Connect's local clientID
    held,      \* the *Client a callback holds in a local variable
    closedIn,  \* inbound connections closed by the proxy, OnClose pending
    sd,        \* progress of Shutdown and of the exit that follows it
    crashed    \* the process panicked

vars == <<avail, busy, cstate, pc, cid, held, closedIn, sd, crashed>>

ConnStates == {"unused", "up", "down", "closed"}
Labels == {"idle", "c_acquire", "c_pop", "c_bind", "open", "d_put", "p_get",
           "p_recv", "p_reconn"}
Phases == {"running", "availClosed", "availCleared", "busyClosed", "done",
           "exited"}

-----------------------------------------------------------------------------
(* Helpers.                                                                 *)

\* Mutant: the capacity test one short, a pool with one free slot is full.
FullOneShort(S) == PoolCap > 0 /\ Cardinality(S) + 1 >= PoolCap

\* pool.Put refuses a key when the pool is bounded and full.
Full(S) == PoolCap > 0 /\ Cardinality(S) >= PoolCap

\* Mutant: the capacity test inverted, so a bounded empty pool is not
\* exhausted.
IsExhaustedInverted == ~Elastic /\ avail = {} /\ PoolCap = 0

\* ProxyImpl.IsExhausted: never when elastic; otherwise empty and bounded.
IsExhausted == ~Elastic /\ avail = {} /\ PoolCap > 0

\* Identities no client has had yet; NewClient hashes a fresh seed.
Fresh == {c \in Clients : cstate[c] = "unused"}

NewClient == CHOOSE c \in Fresh : TRUE

Bound == {g \in Conns : busy[g] # Nil}

\* With a single event loop, a callback starts only when none is running.
LoopFree == MultiCore \/ \A h \in Conns : pc[h] \in {"idle", "open"}

Alive == sd # "exited" /\ ~crashed

-----------------------------------------------------------------------------
(* Initial state: cmd/run.go has filled the pool and built the proxy.       *)

Init ==
    /\ avail = Pooled
    /\ busy = [g \in Conns |-> Nil]
    /\ cstate = [c \in Clients |-> IF c \in Pooled THEN "up" ELSE "unused"]
    /\ pc = [g \in Conns |-> "idle"]
    /\ cid = [g \in Conns |-> Nil]
    /\ held = [g \in Conns |-> Nil]
    /\ closedIn = {}
    /\ sd = "running"
    /\ crashed = FALSE

-----------------------------------------------------------------------------
(* Connect, run by OnOpen.                                                  *)

\* ForEach over the available pool remembers some key, "" if there is none.
ConnectPick(g) ==
    /\ Alive
    /\ pc[g] = "idle" /\ LoopFree
    /\ \E c \in IF avail = {} THEN {Nil} ELSE avail :
           cid' = [cid EXCEPT ![g] = c]
    /\ pc' = [pc EXCEPT ![g] = "c_acquire"]
    /\ UNCHANGED <<avail, busy, cstate, held, closedIn, sd, crashed>>

\* IsExhausted() (line 77): ErrPoolExhausted, and gnet closes the
\* connection.  The Elastic branch under it is dead code, IsExhausted being
\* FALSE when Elastic.  Otherwise Connect goes on to Pop, in a later step:
\* Shutdown's Clear, on the signal goroutine, can run in between.
ConnectAcquire(g) ==
    /\ Alive
    /\ pc[g] = "c_acquire"
    /\ IF IsExhausted
         THEN /\ pc' = [pc EXCEPT ![g] = "open"]
              /\ closedIn' = closedIn \cup {g}
              /\ cid' = [cid EXCEPT ![g] = Nil]
         ELSE /\ pc' = [pc EXCEPT ![g] = "c_pop"]
              /\ UNCHANGED <<closedIn, cid>>
    /\ UNCHANGED <<avail, busy, cstate, held, sd, crashed>>

\* Mutant: Get in place of Pop, the client stays in the available pool.
ConnectPopGet(g) ==
    /\ Alive
    /\ pc[g] = "c_pop"
    /\ held' = [held EXCEPT ![g] = IF cid[g] \in avail THEN cid[g] ELSE Nil]
    /\ UNCHANGED avail
    /\ cid' = [cid EXCEPT ![g] = Nil]
    /\ pc' = [pc EXCEPT ![g] = "c_bind"]
    /\ UNCHANGED <<busy, cstate, closedIn, sd, crashed>>

\* availableConnections.Pop(clientID), nil if the key is gone.
ConnectPop(g) ==
    /\ Alive
    /\ pc[g] = "c_pop"
    /\ held' = [held EXCEPT ![g] = IF cid[g] \in avail THEN cid[g] ELSE Nil]
    /\ avail' = avail \ {cid[g]}
    /\ cid' = [cid EXCEPT ![g] = Nil]
    /\ pc' = [pc EXCEPT ![g] = "c_bind"]
    /\ UNCHANGED <<busy, cstate, closedIn, sd, crashed>>

\* IsHealty only logs; busyConnections.Put(gconn, client) on an unbounded
\* pool.  A nil client is dereferenced (IsConnected, client.ID[:7]).
ConnectBind(g) ==
    /\ Alive
    /\ pc[g] = "c_bind"
    /\ IF held[g] = Nil
         THEN /\ crashed' = TRUE
              /\ UNCHANGED <<busy, pc, held>>
         ELSE /\ busy' = [busy EXCEPT ![g] = held[g]]
              /\ pc' = [pc EXCEPT ![g] = "open"]
              /\ held' = [held EXCEPT ![g] = Nil]
              /\ UNCHANGED crashed
    /\ UNCHANGED <<avail, cstate, cid, closedIn, sd>>

-----------------------------------------------------------------------------
(* Disconnect, run by OnClose (peer hang-up or a close by the proxy).        *)

\* busyConnections.Pop(gconn) finds the client.
DisconnectPop(g) ==
    /\ Alive
    /\ pc[g] = "open" /\ LoopFree
    /\ busy[g] # Nil
    /\ held' = [held EXCEPT ![g] = busy[g]]
    /\ busy' = [busy EXCEPT ![g] = Nil]
    /\ pc' = [pc EXCEPT ![g] = "d_put"]
    /\ UNCHANGED <<avail, cstate, cid, closedIn, sd, crashed>>

\* busyConnections.Pop(gconn) is nil: ErrClientNotFound.
DisconnectNotFound(g) ==
    /\ Alive
    /\ pc[g] = "open" /\ LoopFree
    /\ busy[g] = Nil
    /\ pc' = [pc EXCEPT ![g] = "idle"]
    /\ closedIn' = closedIn \ {g}
    /\ UNCHANGED <<avail, busy, cstate, cid, held, sd, crashed>>

\* Mutant: the local is cleared before it is put back in the pool.
DisconnectReturnAfterReset(g) ==
    /\ Alive
    /\ pc[g] = "d_put"
    /\ held' = [held EXCEPT ![g] = Nil]
    /\ avail' = IF (~Elastic \/ ReuseElasticClients) /\ ~Full(avail)
                  THEN avail \cup {held'[g]}
                  ELSE avail
    /\ pc' = [pc EXCEPT ![g] = "idle"]
    /\ closedIn' = closedIn \ {g}
    /\ UNCHANGED <<busy, cstate, cid, sd, crashed>>

\* Recycle: availableConnections.Put(client.ID, client), whose error is only
\* logged.  Elastic without reuse: ErrClientNotConnected, client dropped.
DisconnectReturn(g) ==
    /\ Alive
    /\ pc[g] = "d_put"
    /\ avail' = IF (~Elastic \/ ReuseElasticClients) /\ ~Full(avail)
                  THEN avail \cup {held[g]}
                  ELSE avail
    /\ pc' = [pc EXCEPT ![g] = "idle"]
    /\ held' = [held EXCEPT ![g] = Nil]
    /\ closedIn' = closedIn \ {g}
    /\ UNCHANGED <<busy, cstate, cid, sd, crashed>>

-----------------------------------------------------------------------------
(* PassThrough, run by OnTraffic.                                           *)

\* The first Get(gconn): nil returns ErrClientNotFound, with no step.
PassThroughGet(g) ==
    /\ Alive
    /\ pc[g] = "open" /\ g \notin closedIn /\ LoopFree
    /\ busy[g] # Nil
    /\ pc' = [pc EXCEPT ![g] = "p_get"]
    /\ UNCHANGED <<avail, busy, held, cstate, cid, closedIn, sd, crashed>>

\* The second Get(gconn) and its cast to *Client, then reading the request,
\* the OnIngressTraffic hooks and client.Send, whose errors are only logged.
PassThroughCast(g) ==
    /\ Alive
    /\ pc[g] = "p_get"
    /\ busy[g] # Nil
    /\ held' = [held EXCEPT ![g] = busy[g]]
    /\ pc' = [pc EXCEPT ![g] = "p_recv"]
    /\ UNCHANGED <<avail, busy, cstate, cid, closedIn, sd, crashed>>

\* The second Get(gconn) found no entry: the nil fails the cast and
\* PassThrough returns ErrCastFailed.
PassThroughCastFailed(g) ==
    /\ Alive
    /\ pc[g] = "p_get"
    /\ busy[g] = Nil
    /\ pc' = [pc EXCEPT ![g] = "open"]
    /\ UNCHANGED <<avail, busy, held, cstate, cid, closedIn, sd, crashed>>

\* client.Receive returns data, a deadline or the error of a connection
\* closed here, none of which is io.EOF: OnEgressTraffic hooks, AsyncWrite.
PassThroughReceive(g) ==
    /\ Alive
    /\ pc[g] = "p_recv"
    /\ cstate[held[g]] # "down"
    /\ pc' = [pc EXCEPT ![g] = "open"]
    /\ held' = [held EXCEPT ![g] = Nil]
    /\ UNCHANGED <<avail, busy, cstate, cid, closedIn, sd, crashed>>

\* Mutant: io.EOF not recognised behind the error's wrapper; the exchange
\* ends as after any other receive error and the dead client stays bound.
PassThroughEOFMissed(g) ==
    /\ Alive
    /\ pc[g] = "p_recv"
    /\ cstate[held[g]] = "down"
    /\ pc' = [pc EXCEPT ![g] = "open"]
    /\ held' = [held EXCEPT ![g] = Nil]
    /\ UNCHANGED <<avail, busy, cstate, cid, closedIn, sd, crashed>>

\* The backend closed its side: received == 0 and io.EOF.
PassThroughEOF(g) ==
    /\ Alive
    /\ pc[g] = "p_recv"
    /\ cstate[held[g]] = "down"
    /\ pc' = [pc EXCEPT ![g] = "p_reconn"]
    /\ UNCHANGED <<avail, busy, cstate, cid, held, closedIn, sd, crashed>>

\* Mutant: the dropped client is replaced without client.Close().
PassThroughReconnectNoClose(g) ==
    /\ Alive
    /\ pc[g] = "p_reconn"
    /\ Fresh # {}
    /\ \E new \in {NewClient} \cup (IF NewClientMayFail THEN {Nil} ELSE {}) :
         /\ cstate' = [c \in Clients |-> IF c = new THEN "up" ELSE cstate[c]]
         /\ busy' = [busy EXCEPT ![g] = new]
         /\ IF new = Nil
              THEN /\ crashed' = TRUE
                   /\ UNCHANGED <<pc, held>>
              ELSE /\ pc' = [pc EXCEPT ![g] = "open"]
                   /\ held' = [held EXCEPT ![g] = Nil]
                   /\ UNCHANGED crashed
    /\ UNCHANGED <<avail, cid, closedIn, sd>>

\* client.Close, NewClient, Remove(gconn), Put(gconn, client), then the
\* egress hooks and AsyncWrite.  A nil client from NewClient is bound and
\* then dereferenced by trafficData.
PassThroughReconnect(g) ==
    /\ Alive
    /\ pc[g] = "p_reconn"
    /\ Fresh # {}
    /\ \E new \in {NewClient} \cup (IF NewClientMayFail THEN {Nil} ELSE {}) :
         /\ cstate' = [c \in Clients |->
                         IF c = held[g] THEN "closed"
                         ELSE IF c = new THEN "up" ELSE cstate[c]]
         /\ busy' = [busy EXCEPT ![g] = new]
         /\ IF new = Nil
              THEN /\ crashed' = TRUE
                   /\ UNCHANGED <<pc, held>>
              ELSE /\ pc' = [pc EXCEPT ![g] = "open"]
                   /\ held' = [held EXCEPT ![g] = Nil]
                   /\ UNCHANGED crashed
    /\ UNCHANGED <<avail, cid, closedIn, sd>>

-----------------------------------------------------------------------------
(* The backend side: a database closes a connection.  Each drop leaves an    *)
(* unused identity for the reconnection it causes (the bound on Clients).   *)

BackendDrop(c) ==
    /\ Alive
    /\ cstate[c] = "up"
    /\ Cardinality(Fresh) > Cardinality({d \in Clients : cstate[d] = "down"})
    /\ cstate' = [cstate EXCEPT ![c] = "down"]
    /\ UNCHANGED <<avail, busy, pc, cid, held, closedIn, sd, crashed>>

-----------------------------------------------------------------------------
(* Shutdown, called from the signal goroutine of cmd/run.go, concurrently  *)
(* with every callback; os.Exit(0) follows it.                              *)

\* ForEach over the available pool: Close every client.
ShutdownCloseAvail ==
    /\ Alive
    /\ sd = "running"
    /\ cstate' = [c \in Clients |-> IF c \in avail THEN "closed" ELSE cstate[c]]
    /\ sd' = "availClosed"
    /\ UNCHANGED <<avail, busy, pc, cid, held, closedIn, crashed>>

ShutdownClearAvail ==
    /\ Alive
    /\ sd = "availClosed"
    /\ avail' = {}
    /\ sd' = "availCleared"
    /\ UNCHANGED <<busy, cstate, pc, cid, held, closedIn, crashed>>

\* ForEach over the busy pool: Close the inbound connection and the client.
ShutdownCloseBusy ==
    /\ Alive
    /\ sd = "availCleared"
    /\ closedIn' = closedIn \cup Bound
    /\ cstate' = [c \in Clients |->
                    IF \E g \in Bound : busy[g] = c THEN "closed" ELSE cstate[c]]
    /\ sd' = "busyClosed"
    /\ UNCHANGED <<avail, busy, pc, cid, held, crashed>>

ShutdownClearBusy ==
    /\ Alive
    /\ sd = "busyClosed"
    /\ busy' = [g \in Conns |-> Nil]
    /\ sd' = "done"
    /\ UNCHANGED <<avail, cstate, pc, cid, held, closedIn, crashed>>

\* pluginRegistry.Shutdown, CleanupClients, os.Exit(0).
Exit ==
    /\ Alive
    /\ sd = "done"
    /\ sd' = "exited"
    /\ UNCHANGED <<avail, busy, cstate, pc, cid, held, closedIn, crashed>>

\* The process has exited or panicked.
Terminated == ~Alive /\ UNCHANGED vars

Next ==
    \/ \E g \in Conns :
          \/ ConnectPick(g) \/ ConnectAcquire(g) \/ ConnectPop(g)
          \/ ConnectBind(g)
          \/ DisconnectPop(g) \/ DisconnectNotFound(g) \/ DisconnectReturn(g)
          \/ PassThroughGet(g) \/ PassThroughCast(g)
          \/ PassThroughCastFailed(g) \/ PassThroughReceive(g)
          \/ PassThroughEOF(g) \/ PassThroughReconnect(g)
    \/ \E c \in Clients : BackendDrop(c)
    \/ ShutdownCloseAvail \/ ShutdownClearAvail
    \/ ShutdownCloseBusy \/ ShutdownClearBusy \/ Exit
    \/ Terminated

Spec == Init /\ [][Next]_vars

\* A callback that has started runs to its end: its event loop (or, for
\* Shutdown, the signal goroutine) is not preempted forever.  Starting a
\* callback depends on the peers' traffic and is never forced, nor is a
\* signal.
Fairness ==
    /\ \A g \in Conns :
          /\ WF_vars(ConnectAcquire(g)) /\ WF_vars(ConnectPop(g))
          /\ WF_vars(ConnectBind(g))
          /\ WF_vars(DisconnectReturn(g))
          /\ WF_vars(PassThroughCast(g)) /\ WF_vars(PassThroughCastFailed(g))
          /\ WF_vars(PassThroughReceive(g)) /\ WF_vars(PassThroughEOF(g))
          /\ WF_vars(PassThroughReconnect(g))
    /\ WF_vars(ShutdownClearAvail) /\ WF_vars(ShutdownCloseBusy)
    /\ WF_vars(ShutdownClearBusy) /\ WF_vars(Exit)

FairSpec == Spec /\ Fairness

-----------------------------------------------------------------------------
(* Properties.                                                              *)

\* Type invariant: pool keys are client IDs, busy entries are clients or
\* nil, every callback is at one of its labels.
TypeOK ==
    /\ avail \subseteq Clients
    /\ busy \in [Conns -> Clients \cup {Nil}]
    /\ cstate \in [Clients -> ConnStates]
    /\ pc \in [Conns -> Labels]
    /\ cid \in [Conns -> Clients \cup {Nil}]
    /\ held \in [Conns -> Clients \cup {Nil}]
    /\ closedIn \subseteq Conns
    /\ sd \in Phases
    /\ crashed \in BOOLEAN

\* A client that Connect or Disconnect has popped and not yet put anywhere.
Popped(g) == pc[g] \in {"c_bind", "d_put"} /\ held[g] \in Clients

\* Clients whose backend connection is open (the backend may have dropped).
Live == {c \in Clients : cstate[c] \in {"up", "down"}}

\* Clients the proxy can still reach: pooled, bound, or popped in hand.
Accounted == avail \cup {busy[g] : g \in Bound}
                   \cup {held[g] : g \in {h \in Conns : Popped(h)}}

\* No client is both in the available pool and bound.
AvailNotBound == \A g \in Bound : busy[g] \notin avail

\* No client is bound to two inbound connections.
BoundOnce == \A g, h \in Bound : busy[g] = busy[h] => g = h

\* A client popped by a callback is in no pool and in no other hands.
PoppedAlone ==
    \A g \in Conns : Popped(g) =>
        /\ held[g] \notin avail
        /\ \A h \in Conns : busy[h] # held[g]
        /\ \A h \in Conns \ {g} : Popped(h) => held[h] # held[g]

(***************************************************************************)
(* No backend client is handed out twice (spec: never in two pools; Pop    *)
(* never returns a key to two callers): a client is in at most one of the  *)
(* available pool, the binding of one inbound connection, or the hands of  *)
(* one Connect or Disconnect between its Pop and its Put.  Concerns the    *)
(* ForEach/Pop of Connect, the Pop/Put of Disconnect and the Remove/Put of *)
(* the reconnection, interleaved across connections.                        *)
(***************************************************************************)
NoDoubleAssignment == AvailNotBound /\ BoundOnce /\ PoppedAlone

(***************************************************************************)
(* No leak and no stale client while the proxy runs: the clients in the    *)
(* pools or in a callback's hands are exactly those whose backend          *)
(* connection is still open.  Fails if Disconnect drops a client without   *)
(* closing it, if its Put into a full pool loses one, or if a reconnection *)
(* leaves a closed client bound.                                           *)
(***************************************************************************)
NoLeak == (sd = "running" /\ ~crashed) => Live = Accounted

(***************************************************************************)
(* Action property of Disconnect's recycle step: while the proxy runs and  *)
(* the pool recycles clients, availableConnections.Put never refuses the   *)
(* client Disconnect popped.  Its error is only logged, so a refusal would *)
(* leave an open backend connection that nothing holds.  Concerns Put's    *)
(* capacity test against the clients startup pooled and reconnections     *)
(* replaced, several callbacks and drops earlier.                          *)
(***************************************************************************)
PutNeverRefused ==
    [][\A g \in Conns :
         (/\ pc[g] = "d_put" /\ pc'[g] = "idle" /\ sd = "running"
          /\ (~Elastic \/ ReuseElasticClients))
             => held[g] \in avail']_vars

(***************************************************************************)
(* The process never dereferences a nil *Client (spec: Connect either     *)
(* yields a distinct client or fails with PoolExhausted; recovery from a   *)
(* backend drop is transparent): Connect never binds the nil that Pop      *)
(* returns for a key that is gone, and a reconnection never binds a nil    *)
(* client.  Concerns IsExhausted (line 77) and the Pop (line 96) with      *)
(* whatever runs between them, and the NewClient of the reconnection.     *)
(***************************************************************************)
NeverDereferencesNilClient == ~crashed

(***************************************************************************)
(* With one event loop, only Shutdown can make a callback dereference a    *)
(* nil *Client: while the available pool has not been cleared, the key    *)
(* Connect picked with ForEach is still there when it Pops it, and an      *)
(* empty bounded pool is refused by IsExhausted.  A crash is possible only *)
(* once ShutdownClearAvail ran between Connect's IsExhausted and its Pop.  *)
(***************************************************************************)
NilClientOnlyAfterClear ==
    crashed => sd \in {"availCleared", "busyClosed", "done"}

(***************************************************************************)
(* Spec: the proxy recovers from backend disconnects.  Once a PassThrough  *)
(* is waiting on the receive of a client whose backend has closed, that    *)
(* client is replaced in the connection's binding (Close, NewClient,       *)
(* Remove, Put), unless the process has ended first.                       *)
(***************************************************************************)
DroppedBackendReplaced ==
    \A g \in Conns, c \in Clients :
        (pc[g] = "p_recv" /\ busy[g] = c /\ cstate[c] = "down")
            ~> (busy[g] # c \/ ~Alive)

=============================================================================
