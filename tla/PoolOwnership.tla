--------------------------- MODULE PoolOwnership ---------------------------
(***************************************************************************)
(* What the proxy promises about its backend clients (spec sections 3 and  *)
(* 5), with no callbacks, no pools and no interleaving: each client is     *)
(* unused, free, owned by one inbound connection, closed, or (only once    *)
(* Shutdown has begun) lost.  A connection owns at most one client.  A     *)
(* client goes back to the free pool only from the connection that owned   *)
(* it, and a connection's client is replaced only after its backend has    *)
(* dropped, the old one being closed in the same step.                     *)
(***************************************************************************)
CONSTANTS Conns, Clients, Pooled

VARIABLES
    owner,     \* owner[c]: "unused", "free", "closed", "lost" or a connection
    dropped,   \* clients whose backend has closed its side
    stopping   \* Shutdown has begun

vars == <<owner, dropped, stopping>>

Places == {"unused", "free", "closed", "lost"} \cup Conns

\* A client with an open backend connection that the proxy still holds.
Held(c) == owner[c] \in {"free"} \cup Conns

Init ==
    /\ owner = [c \in Clients |-> IF c \in Pooled THEN "free" ELSE "unused"]
    /\ dropped = {}
    /\ stopping = FALSE

\* A free client is handed to a connection that owns none.
Lend(c, g) ==
    /\ owner[c] = "free"
    /\ \A d \in Clients : owner[d] # g
    /\ owner' = [owner EXCEPT ![c] = g]
    /\ UNCHANGED <<dropped, stopping>>

\* A connection gives its client back to the free pool.
Return(c, g) ==
    /\ owner[c] = g
    /\ owner' = [owner EXCEPT ![c] = "free"]
    /\ UNCHANGED <<dropped, stopping>>

\* The backend of a client the proxy holds (or has lost) closes its side.
Drop(c) ==
    /\ owner[c] \in {"free", "lost"} \cup Conns
    /\ c \notin dropped
    /\ dropped' = dropped \cup {c}
    /\ UNCHANGED <<owner, stopping>>

\* A connection's dropped client is closed and a new one takes its place.
Replace(g, c, n) ==
    /\ owner[c] = g /\ c \in dropped
    /\ owner[n] = "unused"
    /\ owner' = [owner EXCEPT ![c] = "closed", ![n] = g]
    /\ dropped' = dropped \ {c}
    /\ UNCHANGED stopping

\* During Shutdown, a reconnection that was under way when Shutdown closed
\* the old client gives its connection a new one.
LateReplace(g, n) ==
    /\ stopping
    /\ owner[n] = "unused"
    /\ \A d \in Clients : owner[d] # g
    /\ owner' = [owner EXCEPT ![n] = g]
    /\ UNCHANGED <<dropped, stopping>>

\* Shutdown begins by closing every free client.
Stop ==
    /\ ~stopping
    /\ stopping' = TRUE
    /\ owner' = [c \in Clients |-> IF owner[c] = "free" THEN "closed"
                                    ELSE owner[c]]
    /\ dropped' = {c \in dropped : owner[c] # "free"}

\* During Shutdown, some owned clients are closed.
CloseOwned(S) ==
    /\ stopping
    /\ \A c \in S : owner[c] \in Conns
    /\ owner' = [c \in Clients |-> IF c \in S THEN "closed" ELSE owner[c]]
    /\ dropped' = dropped \ S
    /\ UNCHANGED stopping

\* During Shutdown, held clients may be lost without being closed.
Abandon(S) ==
    /\ stopping
    /\ \A c \in S : Held(c)
    /\ owner' = [c \in Clients |-> IF c \in S THEN "lost" ELSE owner[c]]
    /\ UNCHANGED <<dropped, stopping>>

Next ==
    \/ \E c \in Clients, g \in Conns : Lend(c, g) \/ Return(c, g)
    \/ \E c \in Clients : Drop(c)
    \/ \E g \in Conns, c, n \in Clients : Replace(g, c, n)
    \/ \E g \in Conns, n \in Clients : LateReplace(g, n)
    \/ Stop
    \/ \E S \in SUBSET Clients : CloseOwned(S) \/ Abandon(S)

Spec == Init /\ [][Next]_vars
=============================================================================
