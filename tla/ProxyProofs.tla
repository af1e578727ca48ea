---------------------------- MODULE ProxyProofs ----------------------------
(***************************************************************************)
(* Proofs about Proxy for every value of the constants: type correctness, *)
(* that no backend client is ever handed out twice, and that with one   *)
(* event loop only Shutdown's Clear can make a nil *Client reach a bind.  *)
(***************************************************************************)
EXTENDS Proxy, TLAPS

\* A callback past its Get or Pop holds a client, never nil.
HeldOK ==
    \A g \in Conns :
        pc[g] \in {"d_put", "p_recv", "p_reconn"} => held[g] \in Clients

TypeInv == TypeOK /\ HeldOK

\* An identity NewClient has not used yet is nowhere in the proxy.
UnusedNowhere ==
    \A c \in Fresh :
        /\ c \notin avail
        /\ \A g \in Conns : busy[g] # c /\ held[g] # c

\* The inductive invariant behind NoDoubleAssignment.
IInv == TypeInv /\ NoDoubleAssignment /\ UnusedNowhere

-----------------------------------------------------------------------------

LEMMA InitTypeInv == Init => TypeInv
BY ConstantsAssumption
   DEF Init, TypeInv, TypeOK, HeldOK, ConnStates, Labels, Phases

LEMMA NextTypeInv == TypeInv /\ [Next]_vars => TypeInv'
<1> SUFFICES ASSUME TypeInv, [Next]_vars PROVE TypeInv'
    OBVIOUS
<1> USE ConstantsAssumption DEF TypeInv, TypeOK, HeldOK, ConnStates, Labels,
        Phases
<1>1. ASSUME NEW g \in Conns, ConnectPick(g) PROVE TypeInv'
    BY <1>1 DEF ConnectPick
<1>2. ASSUME NEW g \in Conns, ConnectAcquire(g) \/ ConnectPop(g)
      PROVE TypeInv'
    <2>1. CASE ConnectAcquire(g)
        BY <2>1 DEF ConnectAcquire
    <2>2. CASE ConnectPop(g)
        BY <2>2 DEF ConnectPop
    <2>. QED
        BY <1>2, <2>1, <2>2
<1>3. ASSUME NEW g \in Conns, ConnectBind(g) PROVE TypeInv'
    BY <1>3 DEF ConnectBind
<1>4. ASSUME NEW g \in Conns, DisconnectPop(g) PROVE TypeInv'
    BY <1>4 DEF DisconnectPop, Bound
<1>5. ASSUME NEW g \in Conns, DisconnectNotFound(g) PROVE TypeInv'
    BY <1>5 DEF DisconnectNotFound
<1>6. ASSUME NEW g \in Conns, DisconnectReturn(g) PROVE TypeInv'
    BY <1>6 DEF DisconnectReturn
<1>7. ASSUME NEW g \in Conns,
             PassThroughGet(g) \/ PassThroughCast(g) \/ PassThroughCastFailed(g)
      PROVE TypeInv'
    <2>1. CASE PassThroughGet(g)
        BY <2>1 DEF PassThroughGet
    <2>2. CASE PassThroughCast(g)
        BY <2>2 DEF PassThroughCast
    <2>3. CASE PassThroughCastFailed(g)
        BY <2>3 DEF PassThroughCastFailed
    <2>4. QED
        BY <1>7, <2>1, <2>2, <2>3
<1>8. ASSUME NEW g \in Conns, PassThroughReceive(g) PROVE TypeInv'
    BY <1>8 DEF PassThroughReceive
<1>9. ASSUME NEW g \in Conns, PassThroughEOF(g) PROVE TypeInv'
    BY <1>9 DEF PassThroughEOF
<1>10. ASSUME NEW g \in Conns, PassThroughReconnect(g) PROVE TypeInv'
    <2>1. NewClient \in Clients
        BY <1>10 DEF PassThroughReconnect, NewClient, Fresh
    <2>2. PICK new \in {NewClient} \cup (IF NewClientMayFail THEN {Nil} ELSE {}) :
             /\ cstate' = [c \in Clients |->
                             IF c = held[g] THEN "closed"
                             ELSE IF c = new THEN "up" ELSE cstate[c]]
             /\ busy' = [busy EXCEPT ![g] = new]
             /\ IF new = Nil
                  THEN /\ crashed' = TRUE
                       /\ UNCHANGED <<pc, held>>
                  ELSE /\ pc' = [pc EXCEPT ![g] = "open"]
                       /\ held' = [held EXCEPT ![g] = Nil]
                       /\ UNCHANGED crashed
        BY <1>10 DEF PassThroughReconnect
    <2>3. new \in Clients \cup {Nil}
        BY <2>1, <2>2
    <2>4. UNCHANGED <<avail, cid, closedIn, sd>>
        BY <1>10 DEF PassThroughReconnect
    <2>5. CASE new = Nil
        BY <2>2, <2>3, <2>4, <2>5
    <2>6. CASE new # Nil
        BY <2>2, <2>3, <2>4, <2>6
    <2>. QED
        BY <2>5, <2>6
<1>11. ASSUME NEW c \in Clients, BackendDrop(c) PROVE TypeInv'
    BY <1>11 DEF BackendDrop
<1>12. CASE ShutdownCloseAvail
    BY <1>12 DEF ShutdownCloseAvail
<1>13. CASE ShutdownClearAvail
    BY <1>13 DEF ShutdownClearAvail
<1>14. CASE ShutdownCloseBusy
    BY <1>14 DEF ShutdownCloseBusy, Bound
<1>15. CASE ShutdownClearBusy
    BY <1>15 DEF ShutdownClearBusy
<1>16. CASE Exit
    BY <1>16 DEF Exit
<1>17. CASE Terminated \/ UNCHANGED vars
    BY <1>17 DEF Terminated, vars
<1>. QED
    BY <1>1, <1>2, <1>3, <1>4, <1>5, <1>6, <1>7, <1>8, <1>9, <1>10, <1>11,
       <1>12, <1>13, <1>14, <1>15, <1>16, <1>17 DEF Next

(***************************************************************************)
(* Type correctness: every reachable state of the proxy has the types of  *)
(* TypeOK, whatever the sets of connections and clients and the flags.    *)
(***************************************************************************)
THEOREM TypeCorrect == Spec => []TypeOK
<1>1. Init => TypeInv
    BY InitTypeInv
<1>2. TypeInv /\ [Next]_vars => TypeInv'
    BY NextTypeInv
<1>3. TypeInv => TypeOK
    BY DEF TypeInv
<1>. QED
    BY <1>1, <1>2, <1>3, PTL DEF Spec

-----------------------------------------------------------------------------
(* Exclusive assignment of clients.                                         *)

\* The inductive invariant holds initially: nothing is bound or popped and
\* the pooled clients are not fresh.
LEMMA InitIInv == Init => IInv
<1> SUFFICES ASSUME Init PROVE IInv
    OBVIOUS
<1>1. TypeInv
    BY InitTypeInv
<1>2. \A g \in Conns : busy[g] = Nil /\ held[g] = Nil /\ ~Popped(g)
    BY ConstantsAssumption DEF Init, Popped
<1>3. \A c \in Fresh : c \notin avail
    BY DEF Init, Fresh
<1>. QED
    BY <1>1, <1>2, <1>3, ConstantsAssumption
    DEF IInv, NoDoubleAssignment, AvailNotBound, BoundOnce, PoppedAlone,
        UnusedNowhere, Bound, Fresh

LEMMA NextIInv == IInv /\ [Next]_vars => IInv'
<1> SUFFICES ASSUME IInv, [Next]_vars PROVE IInv'
    OBVIOUS
<1>0. TypeInv'
    BY NextTypeInv DEF IInv
<1> USE ConstantsAssumption, <1>0
    DEF IInv, TypeInv, TypeOK, HeldOK, NoDoubleAssignment, AvailNotBound,
        BoundOnce, PoppedAlone, UnusedNowhere, Popped, Bound, Fresh
<1>1. ASSUME NEW g \in Conns, ConnectPick(g) PROVE IInv'
    BY <1>1 DEF ConnectPick
<1>2. ASSUME NEW g \in Conns, ConnectAcquire(g) \/ ConnectPop(g)
      PROVE IInv'
    <2>1. CASE ConnectAcquire(g)
        BY <2>1 DEF ConnectAcquire
    <2>2. CASE ConnectPop(g)
        BY <2>2 DEF ConnectPop
    <2>. QED
        BY <1>2, <2>1, <2>2
<1>3. ASSUME NEW g \in Conns, ConnectBind(g) PROVE IInv'
    BY <1>3 DEF ConnectBind
<1>4. ASSUME NEW g \in Conns, DisconnectPop(g) PROVE IInv'
    BY <1>4 DEF DisconnectPop
<1>5. ASSUME NEW g \in Conns, DisconnectNotFound(g) PROVE IInv'
    BY <1>5 DEF DisconnectNotFound
<1>6. ASSUME NEW g \in Conns, DisconnectReturn(g) PROVE IInv'
    BY <1>6 DEF DisconnectReturn
<1>7. ASSUME NEW g \in Conns,
             PassThroughGet(g) \/ PassThroughCast(g) \/ PassThroughCastFailed(g)
      PROVE IInv'
    <2>1. CASE PassThroughGet(g)
        BY <2>1 DEF PassThroughGet
    <2>2. CASE PassThroughCast(g)
        BY <2>2 DEF PassThroughCast
    <2>3. CASE PassThroughCastFailed(g)
        BY <2>3 DEF PassThroughCastFailed
    <2>4. QED
        BY <1>7, <2>1, <2>2, <2>3
<1>8. ASSUME NEW g \in Conns, PassThroughReceive(g) PROVE IInv'
    BY <1>8 DEF PassThroughReceive
<1>9. ASSUME NEW g \in Conns, PassThroughEOF(g) PROVE IInv'
    BY <1>9 DEF PassThroughEOF
<1>10. ASSUME NEW g \in Conns, PassThroughReconnect(g) PROVE IInv'
    BY <1>10 DEF PassThroughReconnect, NewClient
<1>11. ASSUME NEW c \in Clients, BackendDrop(c) PROVE IInv'
    BY <1>11 DEF BackendDrop
<1>12. CASE ShutdownCloseAvail
    BY <1>12 DEF ShutdownCloseAvail
<1>13. CASE ShutdownClearAvail
    BY <1>13 DEF ShutdownClearAvail
<1>14. CASE ShutdownCloseBusy
    BY <1>14 DEF ShutdownCloseBusy
<1>15. CASE ShutdownClearBusy
    BY <1>15 DEF ShutdownClearBusy
<1>16. CASE Exit
    BY <1>16 DEF Exit
<1>17. CASE Terminated \/ UNCHANGED vars
    BY <1>17 DEF Terminated, vars
<1>. QED
    BY <1>1, <1>2, <1>3, <1>4, <1>5, <1>6, <1>7, <1>8, <1>9, <1>10, <1>11,
       <1>12, <1>13, <1>14, <1>15, <1>16, <1>17 DEF Next

(***************************************************************************)
(* No backend client is ever handed out twice (NoDoubleAssignment), for    *)
(* every number of connections and clients, pool capacity, elastic flags   *)
(* and event-loop mode, including while Shutdown runs beside callbacks.    *)
(***************************************************************************)
THEOREM ExclusiveAssignment == Spec => []NoDoubleAssignment
<1>1. Init => IInv
    BY InitIInv
<1>2. IInv /\ [Next]_vars => IInv'
    BY NextIInv
<1>3. IInv => NoDoubleAssignment
    BY DEF IInv
<1>. QED
    BY <1>1, <1>2, <1>3, PTL DEF Spec

-----------------------------------------------------------------------------
(* With one event loop, a nil *Client needs Shutdown's Clear.               *)

\* Shutdown has cleared the available pool (or gone further).
Cleared == sd \in {"availCleared", "busyClosed", "done", "exited"}

\* With a single event loop, at most one callback is past its first step.
OneCallback ==
    ~MultiCore =>
        \A g, h \in Conns :
            pc[g] \notin {"idle", "open"} /\ pc[h] \notin {"idle", "open"}
                => g = h

\* Until Shutdown clears the available pool, the key Connect picked is in
\* it when IsExhausted is asked (or the pool is empty and Connect picked
\* nothing), and still in it when Connect Pops it.
PickInPool ==
    \A g \in Conns : ~Cleared =>
        /\ pc[g] = "c_acquire" => cid[g] \in avail \/ avail = {}
        /\ pc[g] = "c_pop" => cid[g] \in avail

\* Until then, Connect's Pop found a client.
BindHolds ==
    \A g \in Conns : pc[g] = "c_bind" /\ ~Cleared => held[g] \in Clients

\* The inductive invariant behind NilClientOnlyAfterClear.
NInv == /\ TypeInv /\ OneCallback /\ PickInPool /\ BindHolds
        /\ NilClientOnlyAfterClear

LEMMA InitNInv == Init => NInv
BY InitTypeInv, ConstantsAssumption DEF Init, NInv, OneCallback, PickInPool,
   BindHolds, NilClientOnlyAfterClear

LEMMA NextNInv ==
    ASSUME ~MultiCore, ~Elastic, PoolCap > 0, ~NewClientMayFail,
           NInv, [Next]_vars
    PROVE  NInv'
<1>0. TypeInv'
    BY NextTypeInv DEF NInv
<1> DEFINE Busy(h) == pc[h] \notin {"idle", "open"}
<1>1. \A g, h \in Conns : Busy(g) /\ Busy(h) => g = h
    BY DEF NInv, OneCallback
<1> USE ConstantsAssumption, <1>0
    DEF NInv, TypeInv, TypeOK, HeldOK, OneCallback, PickInPool, BindHolds,
        NilClientOnlyAfterClear, Cleared, Phases
<1>2. ASSUME NEW g \in Conns, ConnectPick(g) PROVE NInv'
    BY <1>2 DEF ConnectPick, LoopFree, Alive
<1>3. ASSUME NEW g \in Conns, ConnectAcquire(g) PROVE NInv'
    <2>1. ~IsExhausted /\ ~Cleared => cid[g] \in avail
        BY <1>3 DEF IsExhausted, ConnectAcquire
    <2>. QED
        BY <1>1, <1>3, <2>1 DEF ConnectAcquire, Alive
<1>4. ASSUME NEW g \in Conns, ConnectPop(g) PROVE NInv'
    BY <1>1, <1>4 DEF ConnectPop, Alive
<1>5. ASSUME NEW g \in Conns, ConnectBind(g) PROVE NInv'
    BY <1>5 DEF ConnectBind, Alive
<1>6. ASSUME NEW g \in Conns, DisconnectPop(g) PROVE NInv'
    BY <1>6 DEF DisconnectPop, LoopFree, Alive
<1>7. ASSUME NEW g \in Conns, DisconnectNotFound(g) PROVE NInv'
    BY <1>7 DEF DisconnectNotFound, Alive
<1>8. ASSUME NEW g \in Conns, DisconnectReturn(g) PROVE NInv'
    BY <1>1, <1>8 DEF DisconnectReturn, Alive
<1>9. ASSUME NEW g \in Conns,
             PassThroughGet(g) \/ PassThroughCast(g) \/ PassThroughCastFailed(g)
      PROVE NInv'
    <2>1. CASE PassThroughGet(g)
        BY <2>1 DEF PassThroughGet, LoopFree, Alive
    <2>2. CASE PassThroughCast(g)
        BY <2>2 DEF PassThroughCast, Alive
    <2>3. CASE PassThroughCastFailed(g)
        BY <2>3 DEF PassThroughCastFailed, Alive
    <2>. QED
        BY <1>9, <2>1, <2>2, <2>3
<1>10. ASSUME NEW g \in Conns, PassThroughReceive(g) PROVE NInv'
    BY <1>10 DEF PassThroughReceive, Alive
<1>11. ASSUME NEW g \in Conns, PassThroughEOF(g) PROVE NInv'
    BY <1>11 DEF PassThroughEOF, Alive
<1>12. ASSUME NEW g \in Conns, PassThroughReconnect(g) PROVE NInv'
    <2>1. NewClient \in Clients
        BY <1>12 DEF PassThroughReconnect, NewClient, Fresh
    <2>6. PICK new \in {NewClient} :
             IF new = Nil
               THEN /\ crashed' = TRUE
                    /\ UNCHANGED <<pc, held>>
               ELSE /\ pc' = [pc EXCEPT ![g] = "open"]
                    /\ held' = [held EXCEPT ![g] = Nil]
                    /\ UNCHANGED crashed
        BY <1>12 DEF PassThroughReconnect
    <2>2. /\ pc' = [pc EXCEPT ![g] = "open"]
          /\ held' = [held EXCEPT ![g] = Nil]
          /\ ~crashed'
          /\ UNCHANGED <<avail, cid, sd>>
        BY <1>12, <2>1, <2>6 DEF PassThroughReconnect, Alive
    <2>3. OneCallback'
        BY <2>2
    <2>4. PickInPool'
        BY <2>2
    <2>5. BindHolds'
        BY <2>2
    <2>. QED
        BY <2>2, <2>3, <2>4, <2>5
<1>13. ASSUME NEW c \in Clients, BackendDrop(c) PROVE NInv'
    BY <1>13 DEF BackendDrop
<1>14. CASE ShutdownCloseAvail
    BY <1>14 DEF ShutdownCloseAvail
<1>15. CASE ShutdownClearAvail
    BY <1>15 DEF ShutdownClearAvail
<1>16. CASE ShutdownCloseBusy
    BY <1>16 DEF ShutdownCloseBusy
<1>17. CASE ShutdownClearBusy
    BY <1>17 DEF ShutdownClearBusy
<1>18. CASE Exit
    <2>1. Cleared' /\ ~crashed' /\ pc' = pc
        BY <1>18 DEF Exit, Alive
    <2>. QED
        BY <2>1
<1>19. CASE Terminated \/ UNCHANGED vars
    BY <1>19 DEF Terminated, vars
<1>. QED
    BY <1>2, <1>3, <1>4, <1>5, <1>6, <1>7, <1>8, <1>9, <1>10, <1>11, <1>12,
       <1>13, <1>14, <1>15, <1>16, <1>17, <1>18, <1>19 DEF Next

(***************************************************************************)
(* With one event loop, a pool that is bounded and not elastic, and a     *)
(* NewClient that reaches the backend, the process dereferences a nil     *)
(* *Client (NilClientOnlyAfterClear) only after Shutdown's Clear of the   *)
(* available pool: until then the key Connect's ForEach picked is still   *)
(* there at IsExhausted and at Pop, or the pool is empty and IsExhausted  *)
(* turns the connection away.  Each hypothesis is needed: the runs        *)
(* connect_race, elastic_connect and reconnect_unreachable break it, and  *)
(* shutdown_race shows that the Clear does make Pop return nil.           *)
(***************************************************************************)
THEOREM NilClientSafety ==
    ASSUME ~MultiCore, ~Elastic, PoolCap > 0, ~NewClientMayFail
    PROVE  Spec => []NilClientOnlyAfterClear
<1>1. Init => NInv
    BY InitNInv
<1>2. NInv /\ [Next]_vars => NInv'
    BY NextNInv
<1>3. NInv => NilClientOnlyAfterClear
    BY DEF NInv
<1>. QED
    BY <1>1, <1>2, <1>3, PTL DEF Spec

=============================================================================
