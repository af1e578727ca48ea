-------------------------- MODULE OwnershipProofs --------------------------
(***************************************************************************)
(* Proof that the proxy engine implements PoolOwnership under the mapping *)
(* of ProxyOwnership, for every number of connections and clients and     *)
(* every pool capacity, with the elastic pool off and a NewClient that    *)
(* does not fail (the two settings under which TLC finds the refinement   *)
(* broken, see README).                                                    *)
(***************************************************************************)
EXTENDS ProxyOwnership, ProxyProofs, FiniteSetTheorems, TLAPS

\* Client c is bound to connection g or in the hands of g's callback.
Holds(g, c) == busy[g] = c \/ held[g] = c

\* A callback holds a client in a local variable only between its Pop or
\* Get and the Put or the end of the exchange.
HandEmpty ==
    \A g \in Conns :
        pc[g] \in {"idle", "c_acquire", "c_pop", "open", "p_get"}
            => held[g] = Nil

\* No binding exists while Connect has not bound, or after Disconnect
\* popped it.
UnboundOutsideOpen ==
    \A g \in Conns :
        pc[g] \in {"idle", "c_acquire", "c_pop", "c_bind", "d_put"}
            => busy[g] = Nil

\* During an exchange the binding is the client in hand, unless Shutdown
\* has cleared the busy pool.
InFlightBound ==
    \A g \in Conns :
        pc[g] \in {"p_recv", "p_reconn"} =>
            \/ busy[g] = held[g]
            \/ busy[g] = Nil /\ sd \in {"done", "exited"}

\* No client is held by two connections, or both held and in the pool.
HoldOnce ==
    \A c \in Clients, g, h \in Conns : Holds(g, c) /\ Holds(h, c) => g = h

FreeUnheld == \A c \in avail, g \in Conns : ~Holds(g, c)

\* A reconnection replaces a client whose backend dropped (or that
\* Shutdown closed meanwhile).
ReconnDropped ==
    \A g \in Conns : pc[g] = "p_reconn" => cstate[held[g]] \in {"down", "closed"}

\* Before Shutdown, every client the proxy holds has an open connection.
RunningLive ==
    sd = "running" =>
        \A c \in Clients :
            (c \in avail \/ \E g \in Conns : Holds(g, c)) => c \in Live

\* Before Shutdown, every open client is in the pool or held (with the
\* elastic pool off, Disconnect always finds room to put it back).
NoneAdrift ==
    sd = "running" =>
        \A c \in Live : c \in avail \/ \E g \in Conns : Holds(g, c)

\* Before Shutdown, reconnections keep the number of open clients at most
\* the number cmd/run.go pooled.
LiveBounded ==
    /\ IsFiniteSet(Live)
    /\ sd = "running" => Cardinality(Live) <= Cardinality(Pooled)

\* The inductive invariant behind the refinement.
OInv ==
    /\ IInv /\ HandEmpty /\ UnboundOutsideOpen /\ InFlightBound
    /\ HoldOnce /\ FreeUnheld /\ ReconnDropped /\ RunningLive /\ LiveBounded
    /\ NoneAdrift

-----------------------------------------------------------------------------
(* The invariant.                                                           *)

LEMMA InitOInv == Init => OInv
<1> SUFFICES ASSUME Init PROVE OInv
    OBVIOUS
<1>1. IInv
    BY InitIInv
<1>2. \A g \in Conns : busy[g] = Nil /\ held[g] = Nil /\ pc[g] = "idle"
    BY DEF Init
<1>3. Live = Pooled
    BY ConstantsAssumption DEF Init, Live
<1>4. HandEmpty /\ UnboundOutsideOpen /\ InFlightBound /\ ReconnDropped
    BY <1>2 DEF HandEmpty, UnboundOutsideOpen, InFlightBound, ReconnDropped
<1>5. HoldOnce /\ FreeUnheld
    BY <1>2, ConstantsAssumption DEF HoldOnce, FreeUnheld, Holds, Init
<1>6. RunningLive
    BY <1>2, <1>3, ConstantsAssumption DEF RunningLive, Holds, Init
<1>7. LiveBounded
    BY <1>3, StartupAssumption, FS_CardinalityType DEF LiveBounded
<1>8. NoneAdrift
    BY <1>3 DEF NoneAdrift, Init
<1>. QED
    BY <1>1, <1>4, <1>5, <1>6, <1>7, <1>8 DEF OInv

(***************************************************************************)
(* Before Shutdown, Disconnect's Put never meets a full pool: the pool and *)
(* the client in hand are distinct open clients, and reconnections keep    *)
(* their number at most what startup pooled, which fits the capacity.      *)
(***************************************************************************)
LEMMA NotFullWhileRunning ==
    ASSUME OInv, sd = "running", NEW g \in Conns, pc[g] = "d_put"
    PROVE  ~Full(avail)
<1> DEFINE x == held[g]
<1>1. x \in Live /\ x \notin avail
    BY DEF OInv, IInv, TypeInv, HeldOK, RunningLive, FreeUnheld, Holds
<1>2. avail \subseteq Live \ {x}
    BY <1>1 DEF OInv, IInv, TypeInv, TypeOK, RunningLive
<1>3. IsFiniteSet(Live) /\ Cardinality(Live) <= Cardinality(Pooled)
    BY DEF OInv, LiveBounded
<1>4. IsFiniteSet(Live \ {x}) /\ Cardinality(Live \ {x}) = Cardinality(Live) - 1
    BY <1>1, <1>3, FS_RemoveElement
<1>5. IsFiniteSet(avail) /\ Cardinality(avail) <= Cardinality(Live \ {x})
    BY <1>2, <1>4, FS_Subset
<1>6. /\ Cardinality(avail) \in Nat
      /\ Cardinality(Live) \in Nat /\ Cardinality(Pooled) \in Nat
    BY <1>3, <1>5, StartupAssumption, FS_CardinalityType
<1>. QED
    BY <1>3, <1>4, <1>5, <1>6, StartupAssumption, ConstantsAssumption DEF Full

\* The step lemma needs a NewClient that succeeds (a nil one crashes the
\* process with the callback stopped between Remove and Put), and the
\* elastic pool off (Disconnect then drops the client it popped).
LEMMA NextOInv ==
    ASSUME ~Elastic, ~NewClientMayFail, OInv, [Next]_vars
    PROVE  OInv'
<1>0. IInv'
    BY NextIInv DEF OInv
<1> DEFINE Ext == HandEmpty /\ UnboundOutsideOpen /\ InFlightBound /\ HoldOnce
                  /\ FreeUnheld /\ ReconnDropped /\ RunningLive /\ LiveBounded
                  /\ NoneAdrift
<1> SUFFICES Ext'
    BY <1>0 DEF OInv
<1> USE ConstantsAssumption
    DEF OInv, IInv, TypeInv, TypeOK, HeldOK, NoDoubleAssignment, AvailNotBound,
        BoundOnce, PoppedAlone, UnusedNowhere, Popped, Bound, Fresh,
        HandEmpty, UnboundOutsideOpen, InFlightBound, HoldOnce, FreeUnheld,
        ReconnDropped, RunningLive, LiveBounded, NoneAdrift, Holds
<1>1. ASSUME NEW g \in Conns, ConnectPick(g) PROVE Ext'
    BY <1>1 DEF ConnectPick, Live
<1>2. ASSUME NEW g \in Conns, ConnectAcquire(g) \/ ConnectPop(g) PROVE Ext'
    <2>1. CASE ConnectAcquire(g)
        BY <2>1 DEF ConnectAcquire, Live
    <2>2. CASE ConnectPop(g)
        BY <2>2 DEF ConnectPop, Live
    <2>. QED
        BY <1>2, <2>1, <2>2
<1>3. ASSUME NEW g \in Conns, ConnectBind(g) PROVE Ext'
    BY <1>3 DEF ConnectBind, Live
<1>4. ASSUME NEW g \in Conns, DisconnectPop(g) PROVE Ext'
    BY <1>4 DEF DisconnectPop, Live
<1>5. ASSUME NEW g \in Conns, DisconnectNotFound(g) PROVE Ext'
    BY <1>5 DEF DisconnectNotFound, Live
<1>6. ASSUME NEW g \in Conns, DisconnectReturn(g) PROVE Ext'
    <2>1. sd = "running" => ~Full(avail)
        BY <1>6, NotFullWhileRunning DEF DisconnectReturn
    <2>. QED
        BY <1>6, <2>1 DEF DisconnectReturn, Live
<1>7. ASSUME NEW g \in Conns, PassThroughGet(g) PROVE Ext'
    BY <1>7 DEF PassThroughGet, Live
<1>8. ASSUME NEW g \in Conns, PassThroughCast(g) PROVE Ext'
    BY <1>8 DEF PassThroughCast, Live
<1>9. ASSUME NEW g \in Conns, PassThroughCastFailed(g) PROVE Ext'
    BY <1>9 DEF PassThroughCastFailed, Live
<1>10. ASSUME NEW g \in Conns, PassThroughReceive(g) PROVE Ext'
    BY <1>10 DEF PassThroughReceive, Live
<1>11. ASSUME NEW g \in Conns, PassThroughEOF(g) PROVE Ext'
    BY <1>11 DEF PassThroughEOF, Live
<1>12. ASSUME NEW g \in Conns, PassThroughReconnect(g) PROVE Ext'
    <2> DEFINE old == held[g]
    <2>0. NewClient \in Clients /\ cstate[NewClient] = "unused"
        BY <1>12 DEF PassThroughReconnect, NewClient
    <2>1. PICK new \in {NewClient} :
             /\ cstate' = [c \in Clients |->
                             IF c = old THEN "closed"
                             ELSE IF c = new THEN "up" ELSE cstate[c]]
             /\ busy' = [busy EXCEPT ![g] = new]
             /\ pc' = [pc EXCEPT ![g] = "open"]
             /\ held' = [held EXCEPT ![g] = Nil]
        <3>1. PICK new \in {NewClient} \cup (IF NewClientMayFail THEN {Nil} ELSE {}) :
                 /\ cstate' = [c \in Clients |->
                                 IF c = held[g] THEN "closed"
                                 ELSE IF c = new THEN "up" ELSE cstate[c]]
                 /\ busy' = [busy EXCEPT ![g] = new]
                 /\ IF new = Nil
                      THEN /\ crashed' = TRUE
                           /\ UNCHANGED <<pc, held>>
                      ELSE /\ pc' = [pc EXCEPT ![g] = "open"]
                           /\ held' = [held EXCEPT ![g] = Nil]
                           /\ UNCHANGED crashed
            BY <1>12 DEF PassThroughReconnect
        <3>2. new = NewClient /\ new # Nil
            BY <2>0, <3>1
        <3>. QED
            BY <3>1, <3>2
    <2>2. /\ new \in Clients /\ cstate[new] = "unused"
          /\ old \in Clients /\ cstate[old] \in {"down", "closed"}
          /\ UNCHANGED <<avail, cid, closedIn, sd, crashed>>
        BY <1>12, <2>0, <2>1 DEF PassThroughReconnect
    <2>3. HandEmpty' /\ UnboundOutsideOpen' /\ InFlightBound' /\ ReconnDropped'
        BY <2>1, <2>2
    <2>4. HoldOnce' /\ FreeUnheld'
        BY <2>1, <2>2
    <2>5. RunningLive'
        BY <2>1, <2>2 DEF Live
    <2>6. Live' = (Live \ {old}) \cup {new}
        BY <2>1, <2>2 DEF Live
    <2>7. IsFiniteSet(Live')
        <3>1. IsFiniteSet(Live \ {old})
            BY FS_RemoveElement
        <3>. QED
            BY <2>6, <3>1, FS_AddElement
    <2>8. ASSUME sd' = "running" PROVE Cardinality(Live') <= Cardinality(Pooled)
        <3>1. old \in Live /\ new \notin Live
            BY <2>2, <2>8 DEF Live
        <3>2. Cardinality(Live \ {old}) = Cardinality(Live) - 1
            BY <3>1, FS_RemoveElement
        <3>3. Cardinality((Live \ {old}) \cup {new}) = Cardinality(Live)
            <4>1. IsFiniteSet(Live \ {old}) /\ new \notin Live \ {old}
                BY <3>1, FS_RemoveElement
            <4>2. Cardinality((Live \ {old}) \cup {new})
                    = Cardinality(Live \ {old}) + 1
                BY <4>1, FS_AddElement
            <4>. QED
                BY <3>2, <4>2, <3>1, FS_CardinalityType
        <3>. QED
            BY <2>2, <2>6, <2>8, <3>3
    <2>9. ASSUME sd' = "running", NEW c \in Live'
          PROVE  c \in avail' \/ \E h \in Conns : Holds(h, c)'
        <3>1. CASE c = new
            BY <2>1, <3>1
        <3>2. CASE c # new
            <4>1. c \in Live /\ c # old /\ c \in Clients
                BY <2>1, <2>2, <3>2 DEF Live
            <4>2. c \in avail \/ \E h \in Conns : Holds(h, c)
                BY <2>2, <2>9, <4>1
            <4>3. ~Holds(g, c)
                BY <1>12, <4>1 DEF PassThroughReconnect
            <4>. QED
                BY <2>1, <2>2, <4>2, <4>3
        <3>. QED
            BY <3>1, <3>2
    <2>10. NoneAdrift'
        BY <2>9, Zenon
    <2>. QED
        BY <2>3, <2>4, <2>5, <2>7, <2>8, <2>10
<1>13. ASSUME NEW c \in Clients, BackendDrop(c) PROVE Ext'
    <2>1. Live' = Live
        BY <1>13 DEF BackendDrop, Live
    <2>. QED
        BY <1>13, <2>1 DEF BackendDrop
<1>14. CASE ShutdownCloseAvail
    <2>1. Live' \subseteq Live
        BY <1>14 DEF ShutdownCloseAvail, Live
    <2>2. IsFiniteSet(Live')
        BY <2>1, FS_Subset
    <2>. QED
        BY <1>14, <2>2 DEF ShutdownCloseAvail, Live
<1>15. CASE ShutdownClearAvail
    BY <1>15 DEF ShutdownClearAvail, Live
<1>16. CASE ShutdownCloseBusy
    <2>1. Live' \subseteq Live
        BY <1>16 DEF ShutdownCloseBusy, Live
    <2>2. IsFiniteSet(Live')
        BY <2>1, FS_Subset
    <2>. QED
        BY <1>16, <2>2 DEF ShutdownCloseBusy, Live
<1>17. CASE ShutdownClearBusy
    BY <1>17 DEF ShutdownClearBusy, Live
<1>18. CASE Exit
    BY <1>18 DEF Exit, Live
<1>19. CASE Terminated \/ UNCHANGED vars
    <2>1. UNCHANGED vars
        BY <1>19 DEF Terminated
    <2>2. Live' = Live
        BY <2>1 DEF vars, Live
    <2>. QED
        BY <2>1, <2>2 DEF vars
<1>. QED
    BY <1>1, <1>2, <1>3, <1>4, <1>5, <1>6, <1>7, <1>8, <1>9, <1>10, <1>11,
       <1>12, <1>13, <1>14, <1>15, <1>16, <1>17, <1>18, <1>19 DEF Next

-----------------------------------------------------------------------------
(* No leak.                                                                 *)

LEMMA OInvNoLeak == OInv => NoLeak
<1> SUFFICES ASSUME OInv, sd = "running" PROVE Live = Accounted
    BY DEF NoLeak
<1>1. ASSUME NEW c \in Live PROVE c \in Accounted
    <2>1. CASE c \in avail
        BY <2>1 DEF Accounted
    <2>2. CASE \E h \in Conns : busy[h] = c
        BY <2>2, ConstantsAssumption DEF Accounted, Bound, Live
    <2>3. CASE \E h \in Conns : held[h] = c /\ busy[h] # c
        <3>1. PICK h \in Conns : held[h] = c /\ busy[h] # c
            BY <2>3
        <3>2. pc[h] \in {"c_bind", "d_put"}
            BY <3>1, ConstantsAssumption
            DEF OInv, HandEmpty, InFlightBound, IInv, TypeInv, TypeOK, Labels,
                Live
        <3>. QED
            BY <3>1, <3>2 DEF Accounted, Popped, Live
    <2>. QED
        BY <2>1, <2>2, <2>3 DEF OInv, NoneAdrift, Holds
<1>2. ASSUME NEW c \in Accounted PROVE c \in Live
    BY DEF Accounted, Popped, Bound, OInv, RunningLive, Holds, IInv, TypeInv,
       TypeOK
<1>. QED
    BY <1>1, <1>2

(***************************************************************************)
(* No leak and no stale client while the proxy runs (NoLeak), for every    *)
(* number of connections and clients and every pool capacity: the clients *)
(* in the pools or in a callback's hands are exactly the open ones.       *)
(* Assumes the elastic pool off (without reuse, Disconnect drops the       *)
(* client it popped without closing it, and TLC finds NoLeak violated) and *)
(* a NewClient that succeeds (a nil one crashes the process, run           *)
(* reconnect_unreachable).                                                 *)
(***************************************************************************)
THEOREM NoClientLeak ==
    ASSUME ~Elastic, ~NewClientMayFail
    PROVE  Spec => []NoLeak
<1>1. Init => OInv
    BY InitOInv
<1>2. OInv /\ [Next]_vars => OInv'
    BY NextOInv
<1>3. OInv => NoLeak
    BY OInvNoLeak
<1>. QED
    BY <1>1, <1>2, <1>3, PTL DEF Spec

-----------------------------------------------------------------------------
(* What OwnerOf maps a client to, in terms of the proxy's state.           *)

\* The abstract image of the proxy's state.
Owner == [c \in Clients |-> OwnerOf(c)]
Dropped == {c \in Clients : cstate[c] = "down"}

OwnerCases ==
    \A c \in Clients :
        /\ cstate[c] \in {"unused", "closed"} => OwnerOf(c) = cstate[c]
        /\ c \in Live /\ c \in avail => OwnerOf(c) = "free"
        /\ c \in Live /\ c \notin avail =>
               \A g \in Conns : Holds(g, c) => OwnerOf(c) = g
        /\ c \in Live /\ c \notin avail /\ (\A g \in Conns : ~Holds(g, c))
               => OwnerOf(c) = "lost"

LEMMA OwnerOfCases == TypeOK /\ HoldOnce => OwnerCases
<1> SUFFICES ASSUME TypeOK, HoldOnce, NEW c \in Clients
             PROVE  (/\ cstate[c] \in {"unused", "closed"} => OwnerOf(c) = cstate[c]
                     /\ c \in Live /\ c \in avail => OwnerOf(c) = "free"
                     /\ c \in Live /\ c \notin avail =>
                            \A g \in Conns : Holds(g, c) => OwnerOf(c) = g
                     /\ c \in Live /\ c \notin avail /\ (\A g \in Conns : ~Holds(g, c))
                            => OwnerOf(c) = "lost")
    BY DEF OwnerCases
<1>0. /\ cstate[c] \in {"unused", "closed"} => OwnerOf(c) = cstate[c]
      /\ c \in Live /\ c \in avail => OwnerOf(c) = "free"
    BY DEF OwnerOf, Live
<1>1. ASSUME c \in Live, c \notin avail, NEW g \in Conns, Holds(g, c)
      PROVE  OwnerOf(c) = g
    <2>1. Owners(c) = {g}
        BY <1>1 DEF HoldOnce, Owners, Holds
    <2>. QED
        BY <1>1, <2>1 DEF OwnerOf, Live
<1>2. ASSUME c \in Live, c \notin avail, \A g \in Conns : ~Holds(g, c)
      PROVE  OwnerOf(c) = "lost"
    <2>1. Owners(c) = {}
        BY <1>2 DEF Owners, Holds
    <2>. QED
        BY <1>2, <2>1 DEF OwnerOf, Live
<1>. QED
    BY <1>0, <1>1, <1>2

LEMMA OwnerOfCasesPrimed == TypeOK' /\ HoldOnce' => OwnerCases'
<1> SUFFICES ASSUME TypeOK', HoldOnce', NEW c \in Clients
             PROVE  (/\ cstate[c] \in {"unused", "closed"} => OwnerOf(c) = cstate[c]
                     /\ c \in Live /\ c \in avail => OwnerOf(c) = "free"
                     /\ c \in Live /\ c \notin avail =>
                            \A g \in Conns : Holds(g, c) => OwnerOf(c) = g
                     /\ c \in Live /\ c \notin avail /\ (\A g \in Conns : ~Holds(g, c))
                            => OwnerOf(c) = "lost")'
    BY DEF OwnerCases
<1>0. /\ cstate'[c] \in {"unused", "closed"} => OwnerOf(c)' = cstate'[c]
      /\ c \in Live' /\ c \in avail' => OwnerOf(c)' = "free"
    BY DEF OwnerOf, Live
<1>1. ASSUME c \in Live', c \notin avail', NEW g \in Conns, Holds(g, c)'
      PROVE  OwnerOf(c)' = g
    <2>1. Owners(c)' = {g}
        BY <1>1 DEF HoldOnce, Owners, Holds
    <2>. QED
        BY <1>1, <2>1 DEF OwnerOf, Live
<1>2. ASSUME c \in Live', c \notin avail', \A g \in Conns : ~Holds(g, c)'
      PROVE  OwnerOf(c)' = "lost"
    <2>1. Owners(c)' = {}
        BY <1>2 DEF Owners, Holds
    <2>. QED
        BY <1>2, <2>1 DEF OwnerOf, Live
<1>. QED
    BY <1>0, <1>1, <1>2

-----------------------------------------------------------------------------
(* Refinement.                                                              *)

LEMMA InitRefines == Init => Ownership!Init
<1> SUFFICES ASSUME Init PROVE Ownership!Init
    OBVIOUS
<1>1. OwnerCases
    BY InitOInv, OwnerOfCases DEF OInv, IInv, TypeInv
<1>2. \A c \in Clients : OwnerOf(c) = IF c \in Pooled THEN "free" ELSE "unused"
    BY <1>1, ConstantsAssumption DEF OwnerCases, Init, Live
<1>3. {c \in Clients : cstate[c] = "down"} = {} /\ ~(sd # "running")
    BY DEF Init
<1>. QED
    BY <1>2, <1>3 DEF Ownership!Init

\* A client whose connection state, pool membership and holders a step
\* leaves alone keeps its abstract owner.
LEMMA OwnerKept ==
    ASSUME TypeOK, OwnerCases, OwnerCases', NEW c \in Clients,
           cstate'[c] = cstate[c],
           c \in Live => /\ (c \in avail') = (c \in avail)
                         /\ \A g \in Conns : Holds(g, c)' = Holds(g, c)
    PROVE  OwnerOf(c)' = OwnerOf(c)
<1>1. CASE cstate[c] \in {"unused", "closed"}
    BY <1>1 DEF OwnerCases
<1>2. CASE c \in Live /\ c \in avail
    BY <1>2 DEF OwnerCases, Live
<1>3. CASE c \in Live /\ c \notin avail /\ \E g \in Conns : Holds(g, c)
    <2>1. PICK g \in Conns : Holds(g, c) /\ Holds(g, c)'
        BY <1>3
    <2>. QED
        BY <1>3, <2>1 DEF OwnerCases, Live
<1>4. CASE c \in Live /\ c \notin avail /\ ~\E g \in Conns : Holds(g, c)
    BY <1>4 DEF OwnerCases, Live
<1>. QED
    BY <1>1, <1>2, <1>3, <1>4 DEF Live, TypeOK, ConnStates

\* A connection that is a client's abstract owner holds it, and the client
\* is open and out of the pool.
LEMMA OwnerHolds ==
    ASSUME TypeOK, OwnerCases, OwnershipNames, NEW c \in Clients,
           NEW g \in Conns, OwnerOf(c) = g
    PROVE  Holds(g, c) /\ c \in Live /\ c \notin avail
<1>1. c \in Live /\ c \notin avail
    BY DEF OwnerCases, Live, TypeOK, ConnStates
<1>2. PICK h \in Conns : Holds(h, c)
    BY <1>1 DEF OwnerCases
<1>. QED
    BY <1>1, <1>2 DEF OwnerCases

\* A step that changes neither the pool, the connection states, nor which
\* connections hold each client, nor whether Shutdown has begun, leaves the
\* abstract state as it was.
LEMMA OwnershipUnchanged ==
    ASSUME TypeOK, OwnerCases, OwnerCases',
           UNCHANGED <<avail, cstate>>, (sd' = "running") = (sd = "running"),
           \A c \in Clients : Owners(c)' = Owners(c)
    PROVE  UNCHANGED Ownership!vars
<1>1. ASSUME NEW c \in Clients PROVE OwnerOf(c)' = OwnerOf(c)
    <2>1. \A g \in Conns : Holds(g, c)' = Holds(g, c)
        BY DEF Owners, Holds
    <2>. QED
        BY <2>1, OwnerKept
<1>. QED
    BY <1>1 DEF Ownership!vars

LEMMA NextRefines ==
    ASSUME ~Elastic, ~NewClientMayFail, OInv, OInv', [Next]_vars
    PROVE  [Ownership!Next]_Ownership!vars
<1>0. TypeOK /\ OwnerCases /\ OwnerCases'
    BY OwnerOfCases, OwnerOfCasesPrimed DEF OInv, IInv, TypeInv
<1> DEFINE Names == {"unused", "free", "closed", "lost"}
<1> USE ConstantsAssumption, OwnershipNames
<1>1. ASSUME UNCHANGED <<avail, busy, cstate, held>>,
             (sd' = "running") = (sd = "running")
      PROVE  UNCHANGED Ownership!vars
    BY <1>0, <1>1, OwnershipUnchanged DEF Owners
<1>2. ASSUME NEW g \in Conns,
             \/ ConnectPick(g) \/ ConnectAcquire(g) \/ DisconnectNotFound(g)
             \/ PassThroughGet(g) \/ PassThroughCastFailed(g)
             \/ PassThroughEOF(g)
      PROVE  UNCHANGED Ownership!vars
    BY <1>1, <1>2
    DEF ConnectPick, ConnectAcquire, DisconnectNotFound, PassThroughGet,
        PassThroughCastFailed,
        PassThroughEOF
<1>3. CASE Exit \/ Terminated \/ UNCHANGED vars
    BY <1>1, <1>3 DEF Exit, Terminated, vars
<1>4. ASSUME NEW g \in Conns, ConnectBind(g) PROVE UNCHANGED Ownership!vars
    <2>1. \A c \in Clients : Owners(c)' = Owners(c)
        BY <1>4 DEF ConnectBind, Owners, OInv, UnboundOutsideOpen, IInv, TypeInv,
           TypeOK
    <2>. QED
        BY <1>4, <2>1, <1>0, OwnershipUnchanged DEF ConnectBind
<1>5. ASSUME NEW g \in Conns, DisconnectPop(g) PROVE UNCHANGED Ownership!vars
    <2>1. \A c \in Clients : Owners(c)' = Owners(c)
        BY <1>5 DEF DisconnectPop, Owners, OInv, HandEmpty, IInv, TypeInv, TypeOK
    <2>. QED
        BY <1>5, <2>1, <1>0, OwnershipUnchanged DEF DisconnectPop
<1>6. ASSUME NEW g \in Conns, PassThroughCast(g) PROVE UNCHANGED Ownership!vars
    <2>1. \A c \in Clients : Owners(c)' = Owners(c)
        BY <1>6 DEF PassThroughCast, Owners, OInv, HandEmpty, IInv, TypeInv,
           TypeOK
    <2>. QED
        BY <1>6, <2>1, <1>0, OwnershipUnchanged DEF PassThroughCast

<1>7. ASSUME NEW g \in Conns, ConnectPop(g) PROVE [Ownership!Next]_Ownership!vars
    <2>0. PICK c0 \in Clients \cup {Nil} : c0 = cid[g]
        BY <1>7 DEF OInv, IInv, TypeInv, TypeOK
    <2>1. CASE c0 \notin avail
        <3>1. held[g] = Nil /\ held \in [Conns -> Clients \cup {Nil}]
            BY <1>7 DEF ConnectPop, OInv, HandEmpty, IInv, TypeInv, TypeOK
        <3>2. UNCHANGED <<avail, busy, cstate, held, sd>>
            BY <1>7, <2>0, <2>1, <3>1 DEF ConnectPop
        <3>. QED
            BY <1>1, <3>2
    <2>2. CASE c0 \in avail /\ cstate[c0] = "closed"
        <3>1. held' = [held EXCEPT ![g] = c0] /\ avail' = avail \ {c0}
              /\ UNCHANGED <<busy, cstate, sd>>
            BY <1>7, <2>0, <2>2 DEF ConnectPop
        <3>2. held[g] = Nil /\ busy[g] = Nil
            BY <1>7 DEF ConnectPop, OInv, HandEmpty, UnboundOutsideOpen
        <3>3. \A c \in Clients : OwnerOf(c)' = OwnerOf(c)
            BY <1>0, <2>2, <3>1, <3>2, OwnerKept
            DEF Holds, Live, OInv, IInv, TypeInv, TypeOK
        <3>. QED
            BY <3>1, <3>3 DEF Ownership!vars
    <2>3. CASE c0 \in avail /\ c0 \in Live
        <3>1. held' = [held EXCEPT ![g] = c0] /\ avail' = avail \ {c0}
              /\ UNCHANGED <<busy, cstate, sd>>
            BY <1>7, <2>0, <2>3 DEF ConnectPop
        <3>2. held[g] = Nil /\ busy[g] = Nil
            BY <1>7 DEF ConnectPop, OInv, HandEmpty, UnboundOutsideOpen
        <3>3. c0 \in Clients
            BY <2>3 DEF OInv, IInv, TypeInv, TypeOK
        <3>4. Owner[c0] = "free"
            BY <1>0, <2>3, <3>3 DEF OwnerCases, Owner
        <3>5. \A d \in Clients : Owner[d] # g
            BY <1>0, <3>2, OwnerHolds DEF Holds, Owner, OInv, IInv, TypeInv,
               TypeOK
        <3>6. OwnerOf(c0)' = g
            <4>1. c0 \in Live' /\ c0 \notin avail' /\ Holds(g, c0)'
                BY <2>3, <3>1, <3>3 DEF Holds, Live, OInv, IInv, TypeInv, TypeOK
            <4>. QED
                BY <1>0, <3>3, <4>1 DEF OwnerCases
        <3>7. \A c \in Clients \ {c0} : OwnerOf(c)' = OwnerOf(c)
            BY <1>0, <3>1, <3>2, OwnerKept
            DEF Holds, Live, OInv, IInv, TypeInv, TypeOK
        <3>8. Owner' = [Owner EXCEPT ![c0] = g]
            <4>1. Owner' = [c \in Clients |-> IF c = c0 THEN g ELSE Owner[c]]
                BY <3>6, <3>7 DEF Owner
            <4>. QED
                BY <3>3, <4>1 DEF Owner
        <3>9. Ownership!Lend(c0, g)
            BY <3>1, <3>4, <3>5, <3>8 DEF Ownership!Lend, Owner
        <3>. QED
            BY <3>3, <3>9 DEF Ownership!Next
    <2>. QED
        BY <2>0, <2>1, <2>2, <2>3 DEF Live, OInv, IInv, TypeInv, TypeOK, ConnStates,
           UnusedNowhere, Fresh

<1>8. ASSUME NEW g \in Conns, DisconnectReturn(g)
      PROVE  [Ownership!Next]_Ownership!vars
    <2>0. PICK c0 \in Clients : c0 = held[g]
        BY <1>8 DEF DisconnectReturn, OInv, IInv, TypeInv, HeldOK
    <2>1. /\ avail' = IF ~Full(avail) THEN avail \cup {c0} ELSE avail
          /\ held' = [held EXCEPT ![g] = Nil]
          /\ UNCHANGED <<busy, cstate, sd>>
        BY <1>8, <2>0 DEF DisconnectReturn
    <2>2. busy[g] = Nil /\ c0 \notin avail /\ Holds(g, c0)
        BY <1>8, <2>0 DEF DisconnectReturn, OInv, UnboundOutsideOpen, FreeUnheld,
           Holds
    <2>3. \A c \in Clients \ {c0} : OwnerOf(c)' = OwnerOf(c)
        BY <1>0, <2>0, <2>1, OwnerKept
        DEF Holds, Live, OInv, IInv, TypeInv, TypeOK
    <2>4. CASE c0 \notin Live
        <3>1. OwnerOf(c0)' = OwnerOf(c0)
            BY <1>0, <2>1, <2>4, OwnerKept
        <3>. QED
            BY <2>1, <2>3, <3>1 DEF Ownership!vars
    <2>5. CASE c0 \in Live /\ ~Full(avail)
        <3>1. Owner[c0] = g
            BY <1>0, <2>2, <2>5 DEF OwnerCases, Owner
        <3>2. OwnerOf(c0)' = "free"
            <4>1. c0 \in Live' /\ c0 \in avail'
                BY <2>1, <2>5 DEF Live
            <4>. QED
                BY <1>0, <4>1 DEF OwnerCases
        <3>3. Owner' = [Owner EXCEPT ![c0] = "free"]
            <4>1. Owner' = [c \in Clients |-> IF c = c0 THEN "free" ELSE Owner[c]]
                BY <2>3, <3>2 DEF Owner
            <4>. QED
                BY <4>1 DEF Owner
        <3>4. Ownership!Return(c0, g)
            BY <2>1, <3>1, <3>3 DEF Ownership!Return, Owner
        <3>. QED
            BY <3>4 DEF Ownership!Next
    <2>6. CASE c0 \in Live /\ Full(avail)
        <3>1. sd # "running"
            BY <1>8, <2>6, NotFullWhileRunning DEF DisconnectReturn
        <3>2. Owner[c0] = g
            BY <1>0, <2>2, <2>6 DEF OwnerCases, Owner
        <3>3. OwnerOf(c0)' = "lost"
            <4>1. \A h \in Conns \ {g} : ~Holds(h, c0)
                BY <2>2 DEF OInv, HoldOnce
            <4>2. c0 \in Live' /\ c0 \notin avail' /\ \A h \in Conns : ~Holds(h, c0)'
                BY <2>1, <2>2, <2>6, <4>1 DEF Live, Holds, OInv, IInv, TypeInv,
                   TypeOK
            <4>. QED
                BY <1>0, <4>2 DEF OwnerCases
        <3>4. Owner' = [c \in Clients |-> IF c \in {c0} THEN "lost" ELSE Owner[c]]
            BY <2>3, <3>3 DEF Owner
        <3>5. Ownership!Abandon({c0})
            BY <2>1, <3>1, <3>2, <3>4 DEF Ownership!Abandon, Ownership!Held, Owner
        <3>. QED
            BY <3>5 DEF Ownership!Next
    <2>. QED
        BY <2>4, <2>5, <2>6
<1>9. ASSUME NEW g \in Conns, PassThroughReceive(g)
      PROVE  [Ownership!Next]_Ownership!vars
    <2>0. PICK c0 \in Clients : c0 = held[g]
        BY <1>9 DEF PassThroughReceive, OInv, IInv, TypeInv, HeldOK
    <2>1. /\ held' = [held EXCEPT ![g] = Nil]
          /\ UNCHANGED <<avail, busy, cstate, sd>>
        BY <1>9, <2>0 DEF PassThroughReceive
    <2>2. \/ busy[g] = c0
          \/ busy[g] = Nil /\ sd \in {"done", "exited"}
        BY <1>9, <2>0 DEF PassThroughReceive, OInv, InFlightBound
    <2>3. CASE busy[g] = c0
        <3>1. \A c \in Clients : Owners(c)' = Owners(c)
            BY <2>0, <2>1, <2>3 DEF Owners, OInv, IInv, TypeInv, TypeOK
        <3>. QED
            BY <1>0, <2>1, <3>1, OwnershipUnchanged
    <2>4. CASE busy[g] = Nil
        <3>1. \A c \in Clients \ {c0} : OwnerOf(c)' = OwnerOf(c)
            BY <1>0, <2>0, <2>1, <2>4, OwnerKept
            DEF Holds, Live, OInv, IInv, TypeInv, TypeOK
        <3>2. CASE c0 \notin Live
            <4>1. OwnerOf(c0)' = OwnerOf(c0)
                BY <1>0, <2>1, <3>2, OwnerKept
            <4>. QED
                BY <2>1, <3>1, <4>1 DEF Ownership!vars
        <3>3. CASE c0 \in Live
            <4>1. sd # "running" /\ c0 \notin avail /\ Holds(g, c0)
                BY <2>0, <2>2, <2>4 DEF OInv, FreeUnheld, Holds
            <4>2. Owner[c0] = g
                BY <1>0, <3>3, <4>1 DEF OwnerCases, Owner
            <4>3. OwnerOf(c0)' = "lost"
                <5>1. \A h \in Conns \ {g} : ~Holds(h, c0)
                    BY <4>1 DEF OInv, HoldOnce
                <5>2. c0 \in Live' /\ c0 \notin avail' /\ \A h \in Conns : ~Holds(h, c0)'
                    BY <2>1, <2>4, <3>3, <4>1, <5>1 DEF Live, Holds, OInv, IInv,
                       TypeInv, TypeOK
                <5>. QED
                    BY <1>0, <5>2 DEF OwnerCases
            <4>4. Owner' = [c \in Clients |-> IF c \in {c0} THEN "lost" ELSE Owner[c]]
                BY <3>1, <4>3 DEF Owner
            <4>5. Ownership!Abandon({c0})
                BY <2>1, <4>1, <4>2, <4>4
                DEF Ownership!Abandon, Ownership!Held, Owner
            <4>. QED
                BY <4>5 DEF Ownership!Next
        <3>. QED
            BY <3>2, <3>3
    <2>. QED
        BY <2>2, <2>3, <2>4
<1>10. ASSUME NEW g \in Conns, PassThroughReconnect(g)
       PROVE  [Ownership!Next]_Ownership!vars
    <2>0. PICK c0 \in Clients : c0 = held[g]
        BY <1>10 DEF PassThroughReconnect, OInv, IInv, TypeInv, HeldOK
    <2>1. PICK new \in Clients :
             /\ cstate[new] = "unused"
             /\ new \in Fresh /\ new = NewClient
             /\ cstate' = [c \in Clients |->
                             IF c = c0 THEN "closed"
                             ELSE IF c = new THEN "up" ELSE cstate[c]]
             /\ busy' = [busy EXCEPT ![g] = new]
             /\ held' = [held EXCEPT ![g] = Nil]
             /\ UNCHANGED <<avail, sd>>
        <3>1. NewClient \in Clients /\ cstate[NewClient] = "unused"
            BY <1>10 DEF PassThroughReconnect, NewClient, Fresh
        <3>2. PICK n \in {NewClient} \cup (IF NewClientMayFail THEN {Nil} ELSE {}) :
                 /\ cstate' = [c \in Clients |->
                                 IF c = held[g] THEN "closed"
                                 ELSE IF c = n THEN "up" ELSE cstate[c]]
                 /\ busy' = [busy EXCEPT ![g] = n]
                 /\ IF n = Nil
                      THEN /\ crashed' = TRUE
                           /\ UNCHANGED <<pc, held>>
                      ELSE /\ pc' = [pc EXCEPT ![g] = "open"]
                           /\ held' = [held EXCEPT ![g] = Nil]
                           /\ UNCHANGED crashed
            BY <1>10 DEF PassThroughReconnect
        <3>3. n = NewClient /\ n # Nil
            BY <3>1, <3>2
        <3>4. UNCHANGED <<avail, sd>>
            BY <1>10 DEF PassThroughReconnect
        <3>. QED
            BY <2>0, <3>1, <3>2, <3>3, <3>4 DEF Fresh
    <2>2. /\ new \notin avail /\ \A h \in Conns : ~Holds(h, new)
          /\ c0 \notin avail /\ Holds(g, c0) /\ c0 # new
          /\ busy[g] \in {c0, Nil}
          /\ cstate[c0] \in {"down", "closed"}
        BY <1>10, <2>0, <2>1
        DEF PassThroughReconnect, OInv, IInv, UnusedNowhere, FreeUnheld, Holds,
            InFlightBound, ReconnDropped
    <2>3. \A c \in Clients \ {c0, new} : OwnerOf(c)' = OwnerOf(c)
        BY <1>0, <2>0, <2>1, <2>2, OwnerKept
        DEF Holds, Live, OInv, IInv, TypeInv, TypeOK
    <2>4. OwnerOf(new)' = g /\ Owner[new] = "unused"
        <3>1. new \in Live' /\ new \notin avail' /\ Holds(g, new)'
            BY <2>1, <2>2 DEF Live, Holds, OInv, IInv, TypeInv, TypeOK
        <3>. QED
            BY <1>0, <2>1, <3>1 DEF OwnerCases, Owner
    <2>5. CASE cstate[c0] = "down"
        <3>1. Owner[c0] = g /\ OwnerOf(c0)' = "closed"
            BY <1>0, <2>1, <2>2, <2>5 DEF OwnerCases, Owner, Live
        <3>2. Owner' = [Owner EXCEPT ![c0] = "closed", ![new] = g]
            <4>1. Owner' = [c \in Clients |-> IF c = new THEN g
                                              ELSE IF c = c0 THEN "closed"
                                              ELSE Owner[c]]
                BY <2>3, <2>4, <3>1 DEF Owner
            <4>. QED
                BY <2>2, <4>1 DEF Owner
        <3>3. {c \in Clients : cstate[c] = "down"}'
                = {c \in Clients : cstate[c] = "down"} \ {c0}
            BY <2>1, <2>5
        <3>4. Ownership!Replace(g, c0, new)
            BY <2>1, <2>4, <2>5, <3>1, <3>2, <3>3 DEF Ownership!Replace, Owner
        <3>. QED
            BY <3>4 DEF Ownership!Next
    <2>6. CASE cstate[c0] = "closed"
        <3>1. sd # "running"
            BY <2>2, <2>6 DEF OInv, RunningLive, Live
        <3>2. \A d \in Clients : Owner[d] # g
            <4>1. SUFFICES ASSUME NEW d \in Clients, Owner[d] = g PROVE FALSE
                OBVIOUS
            <4>2. Holds(g, d) /\ d \in Live
                BY <1>0, <4>1, OwnerHolds DEF Owner, OInv, IInv, TypeInv
            <4>. QED
                BY <2>0, <2>2, <2>6, <4>2 DEF Holds, Live
        <3>3. OwnerOf(c0)' = OwnerOf(c0)
            BY <1>0, <2>1, <2>6 DEF OwnerCases
        <3>4. Owner' = [Owner EXCEPT ![new] = g]
            <4>1. Owner' = [c \in Clients |-> IF c = new THEN g ELSE Owner[c]]
                BY <2>3, <2>4, <3>3 DEF Owner
            <4>. QED
                BY <4>1 DEF Owner
        <3>5. {c \in Clients : cstate[c] = "down"}'
                = {c \in Clients : cstate[c] = "down"}
            BY <2>1, <2>6
        <3>6. Ownership!LateReplace(g, new)
            BY <2>1, <2>4, <3>1, <3>2, <3>4, <3>5 DEF Ownership!LateReplace, Owner
        <3>. QED
            BY <3>6 DEF Ownership!Next
    <2>. QED
        BY <2>2, <2>5, <2>6
<1>11. ASSUME NEW c0 \in Clients, BackendDrop(c0)
       PROVE  [Ownership!Next]_Ownership!vars
    <2>1. /\ cstate[c0] = "up"
          /\ cstate' = [cstate EXCEPT ![c0] = "down"]
          /\ UNCHANGED <<avail, busy, held, sd>>
        BY <1>11 DEF BackendDrop
    <2>2. \A c \in Clients \ {c0} : OwnerOf(c)' = OwnerOf(c)
        BY <1>0, <2>1, OwnerKept DEF Holds, Live, OInv, IInv, TypeInv, TypeOK
    <2>3. /\ OwnerOf(c0)' = OwnerOf(c0)
          /\ OwnerOf(c0) \in {"free", "lost"} \cup Conns
        <3>1. c0 \in Live /\ c0 \in Live'
            BY <2>1 DEF Live, OInv, IInv, TypeInv, TypeOK
        <3>2. \A h \in Conns : Holds(h, c0)' = Holds(h, c0)
            BY <2>1 DEF Holds
        <3>3. CASE c0 \in avail
            BY <1>0, <2>1, <3>1, <3>3 DEF OwnerCases
        <3>4. CASE c0 \notin avail /\ \E h \in Conns : Holds(h, c0)
            <4>1. PICK h \in Conns : Holds(h, c0)
                BY <3>4
            <4>. QED
                BY <1>0, <2>1, <3>1, <3>2, <3>4, <4>1 DEF OwnerCases
        <3>5. CASE c0 \notin avail /\ ~\E h \in Conns : Holds(h, c0)
            BY <1>0, <2>1, <3>1, <3>2, <3>5 DEF OwnerCases
        <3>. QED
            BY <3>3, <3>4, <3>5
    <2>4. Owner' = Owner
        BY <2>2, <2>3 DEF Owner
    <2>5. {c \in Clients : cstate[c] = "down"}'
            = {c \in Clients : cstate[c] = "down"} \cup {c0}
        BY <2>1 DEF OInv, IInv, TypeInv, TypeOK
    <2>6. Ownership!Drop(c0)
        BY <2>1, <2>3, <2>4, <2>5 DEF Ownership!Drop, Owner
    <2>. QED
        BY <2>6 DEF Ownership!Next
<1>12. CASE ShutdownCloseAvail
    <2>1. /\ sd = "running" /\ sd' = "availClosed"
          /\ cstate' = [c \in Clients |-> IF c \in avail THEN "closed" ELSE cstate[c]]
          /\ UNCHANGED <<avail, busy, held>>
        BY <1>12 DEF ShutdownCloseAvail
    <2>2. \A c \in avail : c \in Live /\ Owner[c] = "free"
        BY <1>0, <2>1 DEF OInv, RunningLive, OwnerCases, Owner, IInv, TypeInv,
           TypeOK
    <2>3. \A c \in Clients \ avail : OwnerOf(c)' = OwnerOf(c) /\ Owner[c] # "free"
        <3>1. SUFFICES ASSUME NEW c \in Clients \ avail
                       PROVE  OwnerOf(c)' = OwnerOf(c) /\ Owner[c] # "free"
            OBVIOUS
        <3>2. OwnerOf(c)' = OwnerOf(c)
            BY <1>0, <2>1, OwnerKept DEF Holds
        <3>3. OwnerOf(c) # "free"
            BY <1>0 DEF OwnerCases, Live, TypeOK, ConnStates
        <3>. QED
            BY <3>2, <3>3 DEF Owner
    <2>4. \A c \in avail : OwnerOf(c)' = "closed"
        BY <1>0, <2>1 DEF OwnerCases, OInv, IInv, TypeInv, TypeOK
    <2>5. Owner' = [c \in Clients |-> IF Owner[c] = "free" THEN "closed"
                                      ELSE Owner[c]]
        BY <2>2, <2>3, <2>4 DEF Owner
    <2>6. {c \in Clients : cstate[c] = "down"}'
            = {c \in {c \in Clients : cstate[c] = "down"} : Owner[c] # "free"}
        BY <2>1, <2>2, <2>3
    <2>7. Ownership!Stop
        BY <2>1, <2>5, <2>6 DEF Ownership!Stop, Owner
    <2>. QED
        BY <2>7 DEF Ownership!Next
<1>13. CASE ShutdownClearAvail
    <2> DEFINE Freed == {c \in avail : c \in Live}
    <2>1. /\ sd = "availClosed" /\ sd' = "availCleared" /\ avail' = {}
          /\ UNCHANGED <<busy, cstate, held>>
        BY <1>13 DEF ShutdownClearAvail
    <2>2. \A c \in Freed : Owner[c] = "free" /\ OwnerOf(c)' = "lost"
        <3>1. SUFFICES ASSUME NEW c \in Freed
                       PROVE  Owner[c] = "free" /\ OwnerOf(c)' = "lost"
            OBVIOUS
        <3>2. c \in Clients /\ c \in Live /\ c \in avail
            BY <1>0 DEF TypeOK
        <3>3. Owner[c] = "free"
            BY <1>0, <3>2 DEF OwnerCases, Owner
        <3>4. \A g \in Conns : ~Holds(g, c)'
            BY <2>1, <3>2 DEF OInv, FreeUnheld, Holds
        <3>5. c \in Live' /\ c \notin avail'
            BY <2>1, <3>2 DEF Live
        <3>6. OwnerOf(c)' = "lost"
            BY <1>0, <3>2, <3>4, <3>5 DEF OwnerCases
        <3>. QED
            BY <3>3, <3>6
    <2>3. \A c \in Clients \ Freed : OwnerOf(c)' = OwnerOf(c)
        <3>1. SUFFICES ASSUME NEW c \in Clients \ Freed
                       PROVE  OwnerOf(c)' = OwnerOf(c)
            OBVIOUS
        <3>2. c \in Live => c \notin avail /\ c \notin avail'
            BY <2>1
        <3>3. \A g \in Conns : Holds(g, c)' = Holds(g, c)
            BY <2>1 DEF Holds
        <3>4. cstate'[c] = cstate[c]
            BY <2>1
        <3>5. c \in Live => /\ (c \in avail') = (c \in avail)
                             /\ \A g \in Conns : Holds(g, c)' = Holds(g, c)
            BY <3>2, <3>3
        <3>. QED
            BY <1>0, <3>4, <3>5, OwnerKept
    <2>4. Freed \subseteq Clients
        BY DEF OInv, IInv, TypeInv, TypeOK
    <2>5. Owner' = [c \in Clients |-> IF c \in Freed THEN "lost" ELSE Owner[c]]
        BY <2>2, <2>3, <2>4 DEF Owner
    <2>6. Ownership!Abandon(Freed)
        BY <2>1, <2>2, <2>5 DEF Ownership!Abandon, Ownership!Held, Owner
    <2>. QED
        BY <2>4, <2>6 DEF Ownership!Next
<1>14. CASE ShutdownCloseBusy
    <2>0. PICK Closing \in SUBSET Clients :
                 Closing = {c \in Live : \E h \in Bound : busy[h] = c}
        BY DEF Live
    <2> USE <2>0
    <2>1. /\ sd = "availCleared" /\ sd' = "busyClosed"
          /\ cstate' = [c \in Clients |->
                          IF \E h \in Bound : busy[h] = c THEN "closed"
                          ELSE cstate[c]]
          /\ UNCHANGED <<avail, busy, held>>
        BY <1>14 DEF ShutdownCloseBusy
    <2>2. Closing \subseteq Clients
        BY DEF Live
    <2>3. \A c \in Closing : Owner[c] \in Conns /\ OwnerOf(c)' = "closed"
        <3>1. SUFFICES ASSUME NEW c \in Closing
                       PROVE  Owner[c] \in Conns /\ OwnerOf(c)' = "closed"
            OBVIOUS
        <3>2. PICK h \in Bound : busy[h] = c
            OBVIOUS
        <3>3. c \notin avail /\ Holds(h, c) /\ h \in Conns
            BY <3>2 DEF OInv, FreeUnheld, Holds, Bound
        <3>4. Owner[c] = h
            BY <1>0, <3>3 DEF OwnerCases, Owner, Live
        <3>5. OwnerOf(c)' = "closed"
            BY <1>0, <2>1, <3>2 DEF OwnerCases, Live
        <3>. QED
            BY <3>3, <3>4, <3>5
    <2>4. \A c \in Clients \ Closing : OwnerOf(c)' = OwnerOf(c)
        <3>1. SUFFICES ASSUME NEW c \in Clients \ Closing
                       PROVE  OwnerOf(c)' = OwnerOf(c)
            OBVIOUS
        <3>2. cstate'[c] = cstate[c]
            BY <2>1 DEF OInv, IInv, UnusedNowhere, Fresh, Live, Bound, TypeInv,
               TypeOK, ConnStates
        <3>. QED
            BY <1>0, <2>1, <3>2, OwnerKept DEF Holds
    <2>5. Owner' = [c \in Clients |-> IF c \in Closing THEN "closed" ELSE Owner[c]]
        BY <2>2, <2>3, <2>4 DEF Owner
    <2>6. {c \in Clients : cstate[c] = "down"}'
            = {c \in Clients : cstate[c] = "down"} \ Closing
        BY <2>1 DEF Live, OInv, IInv, TypeInv, TypeOK
    <2>7. Ownership!CloseOwned(Closing)
        BY <2>1, <2>3, <2>5, <2>6 DEF Ownership!CloseOwned, Owner
    <2>8. \E T \in SUBSET Clients : Ownership!CloseOwned(T)
        BY <2>2, <2>7
    <2>. QED
        BY <2>8 DEF Ownership!Next
<1>15. CASE ShutdownClearBusy
    <2> DEFINE Abandoned == {c \in Live : /\ c \notin avail
                                          /\ \E h \in Conns : busy[h] = c
                                          /\ \A h \in Conns : held[h] # c}
    <2>1. /\ sd = "busyClosed" /\ sd' = "done"
          /\ busy' = [h \in Conns |-> Nil]
          /\ UNCHANGED <<avail, cstate, held>>
        BY <1>15 DEF ShutdownClearBusy
    <2>2. Abandoned \subseteq Clients
        BY DEF Live
    <2>3. \A c \in Abandoned : Owner[c] \in Conns /\ OwnerOf(c)' = "lost"
        <3>1. SUFFICES ASSUME NEW c \in Abandoned
                       PROVE  Owner[c] \in Conns /\ OwnerOf(c)' = "lost"
            OBVIOUS
        <3>2. PICK h \in Conns : busy[h] = c
            OBVIOUS
        <3>3. Owner[c] = h
            BY <1>0, <3>2 DEF OwnerCases, Owner, Live, Holds
        <3>4. \A k \in Conns : ~Holds(k, c)'
            BY <2>1 DEF Holds, Live
        <3>5. OwnerOf(c)' = "lost"
            BY <1>0, <2>1, <3>4 DEF OwnerCases, Live
        <3>. QED
            BY <3>3, <3>5
    <2>4. \A c \in Clients \ Abandoned : OwnerOf(c)' = OwnerOf(c)
        <3>1. SUFFICES ASSUME NEW c \in Clients \ Abandoned
                       PROVE  OwnerOf(c)' = OwnerOf(c)
            OBVIOUS
        <3>2. CASE c \notin Live \/ c \in avail \/ \A h \in Conns : busy[h] # c
            <4>1. c \in Live => \A h \in Conns : Holds(h, c)' = Holds(h, c)
                BY <2>1, <3>2 DEF Holds, Live, OInv, FreeUnheld
            <4>. QED
                BY <1>0, <2>1, <4>1, OwnerKept
        <3>3. CASE c \in Live /\ c \notin avail /\ \E h \in Conns : held[h] = c
            <4>1. PICK h \in Conns : held[h] = c
                BY <3>3
            <4>2. OwnerOf(c) = h /\ OwnerOf(c)' = h
                BY <1>0, <2>1, <3>3, <4>1 DEF OwnerCases, Holds, Live
            <4>. QED
                BY <4>2
        <3>. QED
            BY <3>2, <3>3
    <2>5. Owner' = [c \in Clients |-> IF c \in Abandoned THEN "lost" ELSE Owner[c]]
        BY <2>2, <2>3, <2>4 DEF Owner
    <2>6. Ownership!Abandon(Abandoned)
        BY <2>1, <2>3, <2>5 DEF Ownership!Abandon, Ownership!Held, Owner
    <2>. QED
        BY <2>2, <2>6 DEF Ownership!Next
<1>. QED
    BY <1>2, <1>3, <1>4, <1>5, <1>6, <1>7, <1>8, <1>9, <1>10, <1>11, <1>12,
       <1>13, <1>14, <1>15 DEF Next

(***************************************************************************)
(* The proxy engine implements PoolOwnership (OwnershipRefinement): under *)
(* every interleaving of Connect, Disconnect, PassThrough, backend drops  *)
(* and Shutdown, and for every number of connections and clients and      *)
(* every pool capacity, each step hands a free client to a connection     *)
(* with none, returns a client only from its owner, replaces only a       *)
(* dropped client (closing it), and loses a client only once Shutdown has *)
(* begun.  Assumes the elastic pool off and a NewClient that succeeds.    *)
(***************************************************************************)
THEOREM RefinesOwnership ==
    ASSUME ~Elastic, ~NewClientMayFail
    PROVE  Spec => OwnershipRefinement
<1>1. Init => OInv
    BY InitOInv
<1>2. OInv /\ [Next]_vars => OInv'
    BY NextOInv
<1>3. Spec => []OInv
    BY <1>1, <1>2, PTL DEF Spec
<1>4. OInv /\ OInv' /\ [Next]_vars => [Ownership!Next]_Ownership!vars
    BY NextRefines
<1>5. Init => Ownership!Init
    BY InitRefines
<1>. QED
    BY <1>3, <1>4, <1>5, PTL DEF Spec, OwnershipRefinement, Ownership!Spec

-----------------------------------------------------------------------------
(* Disconnect's Put never refuses a client while the proxy runs.           *)

\* Only Disconnect's recycle step takes a callback from before its Put to
\* its end: every other step of that connection starts elsewhere, and a
\* step of another connection or of Shutdown leaves its label alone.
LEMMA PutStep ==
    ASSUME TypeOK, [Next]_vars, NEW g \in Conns,
           pc[g] = "d_put", pc'[g] = "idle"
    PROVE  DisconnectReturn(g)
<1>1. CASE \E h \in Conns :
             \/ ConnectPick(h) \/ ConnectAcquire(h) \/ ConnectPop(h)
             \/ ConnectBind(h) \/ DisconnectPop(h) \/ DisconnectNotFound(h)
             \/ DisconnectReturn(h)
             \/ PassThroughGet(h) \/ PassThroughCast(h)
             \/ PassThroughCastFailed(h) \/ PassThroughReceive(h)
             \/ PassThroughEOF(h) \/ PassThroughReconnect(h)
    <2>1. PICK h \in Conns :
             \/ ConnectPick(h) \/ ConnectAcquire(h) \/ ConnectPop(h)
             \/ ConnectBind(h) \/ DisconnectPop(h) \/ DisconnectNotFound(h)
             \/ DisconnectReturn(h)
             \/ PassThroughGet(h) \/ PassThroughCast(h)
             \/ PassThroughCastFailed(h) \/ PassThroughReceive(h)
             \/ PassThroughEOF(h) \/ PassThroughReconnect(h)
        BY <1>1
    <2>2. CASE h = g
        <3>1. ~(\/ ConnectPick(h) \/ ConnectAcquire(h) \/ ConnectPop(h)
                \/ ConnectBind(h) \/ DisconnectPop(h) \/ DisconnectNotFound(h))
            BY <2>2 DEF ConnectPick, ConnectAcquire, ConnectPop, ConnectBind,
               DisconnectPop, DisconnectNotFound
        <3>2. ~(\/ PassThroughGet(h) \/ PassThroughCast(h)
                \/ PassThroughCastFailed(h) \/ PassThroughReceive(h)
                \/ PassThroughEOF(h) \/ PassThroughReconnect(h))
            BY <2>2 DEF PassThroughGet, PassThroughCast,
               PassThroughCastFailed, PassThroughReceive, PassThroughEOF,
               PassThroughReconnect
        <3>. QED
            BY <2>1, <2>2, <3>1, <3>2
    <2>3. CASE h # g
        <3>1. pc'[g] = pc[g]
            BY <2>1, <2>3 DEF TypeOK, ConnectPick, ConnectAcquire, ConnectPop,
               ConnectBind, DisconnectPop, DisconnectNotFound,
               DisconnectReturn, PassThroughGet, PassThroughCast,
               PassThroughCastFailed, PassThroughReceive, PassThroughEOF,
               PassThroughReconnect
        <3>. QED
            BY <3>1
    <2>. QED
        BY <2>2, <2>3
<1>2. CASE \/ \E c \in Clients : BackendDrop(c)
           \/ ShutdownCloseAvail \/ ShutdownClearAvail
           \/ ShutdownCloseBusy \/ ShutdownClearBusy \/ Exit
           \/ Terminated \/ UNCHANGED vars
    <2>1. pc' = pc
        BY <1>2 DEF BackendDrop, ShutdownCloseAvail, ShutdownClearAvail,
           ShutdownCloseBusy, ShutdownClearBusy, Exit, Terminated, vars
    <2>. QED
        BY <2>1
<1>. QED
    BY <1>1, <1>2 DEF Next

(***************************************************************************)
(* PutNeverRefused, for every number of connections and clients and every  *)
(* pool capacity: while the proxy runs, availableConnections.Put in        *)
(* Disconnect's recycle step always takes the client back, so no open      *)
(* client is lost to the error that is only logged.  The argument is       *)
(* NotFullWhileRunning: the pool and the client in hand are distinct open  *)
(* clients, there are no more open clients than startup pooled, and        *)
(* startup pooled no more than the capacity.  Assumes the elastic pool off *)
(* and a NewClient that succeeds, as NoClientLeak does.                    *)
(***************************************************************************)
THEOREM PutNeverRefusedSafety ==
    ASSUME ~Elastic, ~NewClientMayFail
    PROVE  Spec => PutNeverRefused
<1>1. Spec => []OInv
    BY InitOInv, NextOInv, PTL DEF Spec
<1>2. OInv /\ [Next]_vars =>
        [\A g \in Conns :
           (/\ pc[g] = "d_put" /\ pc'[g] = "idle" /\ sd = "running"
            /\ (~Elastic \/ ReuseElasticClients))
               => held[g] \in avail']_vars
    <2> SUFFICES ASSUME OInv, [Next]_vars, NEW g \in Conns,
                        pc[g] = "d_put", pc'[g] = "idle", sd = "running"
                 PROVE  held[g] \in avail'
        OBVIOUS
    <2>1. DisconnectReturn(g)
        BY PutStep DEF OInv, IInv, TypeInv
    <2>2. ~Full(avail)
        BY NotFullWhileRunning
    <2>. QED
        BY <2>1, <2>2 DEF DisconnectReturn
<1>3. Spec => [][Next]_vars
    BY DEF Spec
<1>. QED
    BY <1>1, <1>2, <1>3, PTL DEF PutNeverRefused

=============================================================================
