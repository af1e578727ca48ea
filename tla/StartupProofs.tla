--------------------------- MODULE StartupProofs ---------------------------
(***************************************************************************)
(* Proofs about the run command: its type invariant and that a caught     *)
(* signal is never lost, for every pool size, signal set and bound.       *)
(***************************************************************************)
EXTENDS Startup, TLAPS

\* Every step keeps the types.
LEMMA NextTypeOK == TypeOK /\ [Next]_vars => TypeOK'
<1> SUFFICES ASSUME TypeOK, [Next]_vars PROVE TypeOK'
    OBVIOUS
<1> USE StartupConstants DEF TypeOK, MainLabels, HandlerLabels, Running,
        SignalList
<1>1. CASE MainStep
  <2>1. CASE LoadPluginConfig
       BY <2>1 DEF LoadPluginConfig, Goto, Fatal
  <2>2. CASE LoadPlugins
       BY <2>2 DEF LoadPlugins, Goto, Fatal
  <2>3. CASE LoadGlobalConfig
       BY <2>3 DEF LoadGlobalConfig, Goto, Fatal
  <2>4. CASE Configure
       BY <2>4 DEF Configure, Goto, Fatal
  <2>5. CASE PopulatePool
       BY <2>5 DEF PopulatePool
  <2>6. CASE VerifyPool
       BY <2>6 DEF VerifyPool
  <2>7. CASE Build
       BY <2>7 DEF Build, Goto, Fatal
  <2>8. CASE Notify
       BY <2>8 DEF Notify, Goto, Fatal
  <2>9. CASE Spawn
       BY <2>9 DEF Spawn, Goto, Fatal
  <2>10. CASE ServerRun
       BY <2>10 DEF ServerRun
  <2>11. CASE ServerReturn
       BY <2>11 DEF ServerReturn
  <2>12. CASE Serve
       BY <2>12 DEF Serve, vars
  <2>. QED
       BY <1>1, <2>1, <2>2, <2>3, <2>4, <2>5, <2>6, <2>7, <2>8, <2>9, <2>10, <2>11, <2>12 DEF MainStep
<1>2. CASE HandlerStep
    BY <1>2 DEF HandlerStep, HandlerStart, HandlerReceive,
               HandlerServerShutdown, HandlerStopPlugins, HandlerExit
<1>3. CASE \E s \in SignalList : Deliver(s)
  <2>1. PICK s \in SignalList : Deliver(s)
        BY <1>3
  <2>2. CASE s = Kill \/ ~notified
        BY <2>1, <2>2 DEF Deliver
  <2>3. CASE s # Kill /\ notified
        BY <2>1, <2>3 DEF Deliver
  <2>. QED
        BY <2>2, <2>3
<1>4. CASE Terminated \/ UNCHANGED vars
    BY <1>4 DEF Terminated, vars
<1>. QED
    BY <1>1, <1>2, <1>3, <1>4 DEF Next

\* The initial state has the types.
LEMMA InitTypeOK == Init => TypeOK
<1> SUFFICES ASSUME Init PROVE TypeOK
    OBVIOUS
<1>1. i \in 0..PoolSize /\ pooled \in 0..i /\ sent \in 0..MaxSignals
    BY StartupConstants DEF Init
<1>2. plugins \in BOOLEAN /\ notified \in BOOLEAN /\ caught \in BOOLEAN
    BY DEF Init
<1>3. /\ mpc \in MainLabels /\ hpc \in HandlerLabels
      /\ server \in {"none", "running", "stopped"} /\ sigq \in Signals \cup {Nil}
      /\ proc \in {"running", "exited"}
    BY DEF Init, MainLabels, HandlerLabels
<1>. QED
    BY <1>1, <1>2, <1>3 DEF TypeOK

(***************************************************************************)
(* Type correctness of the run command, for every pool size and bound.     *)
(***************************************************************************)
THEOREM StartupTypeCorrect == Spec => []TypeOK
<1>1. Init => TypeOK
    BY InitTypeOK
<1>2. TypeOK /\ [Next]_vars => TypeOK'
    BY NextTypeOK
<1>. QED
    BY <1>1, <1>2, PTL DEF Spec

-----------------------------------------------------------------------------
(* A caught signal is never lost.                                          *)

\* A signal the runtime delivers after signal.Notify is a catchable one,
\* never Nil: the channel then holds a signal.
LEMMA DeliverKeepsOne ==
    ASSUME TypeOK, NEW s \in SignalList, Deliver(s), s # Kill, notified
    PROVE  caught' /\ sigq' # Nil
<1>1. s \in Signals
    BY DEF SignalList
<1>2. sigq' = s \/ (sigq' = sigq /\ sigq # Nil)
    BY DEF Deliver
<1>. QED
    BY <1>1, <1>2, StartupConstants DEF Deliver

\* The handler goroutine runs only once main has spawned it: main is then
\* in server.Run or serving.
Spawned == hpc # "none" => mpc \in {"run", "serving"}

\* The inductive invariant behind SignalNotLost.
SInv == TypeOK /\ SignalNotLost /\ Spawned

\* Every step keeps SignalNotLost and Spawned: Deliver fills the channel or
\* finds it full, only the handler empties it and then leaves its range
\* loop, the handler's label never goes back, and it leaves "none" only
\* when main spawns it.
LEMMA NextSignalNotLost ==
    SInv /\ [Next]_vars => (SignalNotLost /\ Spawned)'
<1> SUFFICES ASSUME TypeOK, SignalNotLost, Spawned, [Next]_vars
             PROVE  (SignalNotLost /\ Spawned)'
    BY DEF SInv
<1> USE DEF SignalNotLost, Spawned
<1>1. CASE \E s \in SignalList : Deliver(s)
    <2>1. PICK s \in SignalList : Deliver(s)
        BY <1>1
    <2>2. CASE s = Kill \/ ~notified
        BY <2>1, <2>2 DEF Deliver
    <2>3. CASE s # Kill /\ notified
        BY <2>1, <2>3, DeliverKeepsOne DEF Deliver
    <2>. QED
        BY <2>2, <2>3
<1>2. CASE HandlerReceive
    BY <1>2 DEF HandlerReceive
<1>3. CASE HandlerStart
    BY <1>3 DEF HandlerStart
<1>6. CASE HandlerServerShutdown \/ HandlerStopPlugins \/ HandlerExit
    BY <1>6 DEF HandlerServerShutdown, HandlerStopPlugins, HandlerExit
<1>4. CASE Spawn
    <2>1. hpc = "none"
        BY <1>4 DEF Spawn, Goto
    <2>. QED
        BY <1>4, <2>1 DEF Spawn, Goto
<1>7. CASE ServerRun \/ ServerReturn \/ Serve
    BY <1>7 DEF ServerRun, ServerReturn, Serve, vars
<1>8. CASE \/ LoadPluginConfig \/ LoadPlugins \/ LoadGlobalConfig
           \/ Configure \/ PopulatePool \/ VerifyPool \/ Build \/ Notify
    <2>1. UNCHANGED <<caught, sigq, hpc>>
        BY <1>8 DEF LoadPluginConfig, LoadPlugins, LoadGlobalConfig,
           Configure, PopulatePool, VerifyPool, Build, Notify, Fatal
    <2>2. hpc = "none" \/ mpc' = mpc
        BY <1>8 DEF LoadPluginConfig, LoadPlugins, LoadGlobalConfig,
           Configure, PopulatePool, VerifyPool, Build, Notify, Goto, Fatal
    <2>. QED
        BY <2>1, <2>2
<1>5. CASE Terminated \/ UNCHANGED vars
    BY <1>5 DEF Terminated, vars
<1>. QED
    BY <1>1, <1>2, <1>3, <1>4, <1>5, <1>6, <1>7, <1>8
       DEF Next, HandlerStep, MainStep

(***************************************************************************)
(* A signal caught after signal.Notify is never lost, for every set of     *)
(* signals and every bound on them: signalsCh of capacity 1 drops a        *)
(* signal only when one is pending, so the channel holds a signal until    *)
(* the handler goroutine receives it and goes on to shut down.  Its        *)
(* inductive invariant SInv adds Spawned: the handler starts only after   *)
(* main spawned it, so a signal caught earlier is still in the channel.   *)
(***************************************************************************)
THEOREM SignalNeverLost == Spec => []SignalNotLost
<1>1. Init => SInv
    BY InitTypeOK DEF Init, SInv, SignalNotLost, Spawned
<1>2. SInv /\ [Next]_vars => SInv'
    BY NextTypeOK, NextSignalNotLost DEF SInv
<1>3. SInv => SignalNotLost
    BY DEF SInv
<1>. QED
    BY <1>1, <1>2, <1>3, PTL DEF Spec

=============================================================================
