--------------------------- MODULE ProxyOwnership ---------------------------
(***************************************************************************)
(* The proxy engine implements the ownership discipline of PoolOwnership.  *)
(* The refinement mapping reads off who owns each client: its connection   *)
(* state first (never created, or closed), then the available pool, then   *)
(* the connection that has it bound or holds it in a running callback.    *)
(***************************************************************************)
EXTENDS Proxy

\* Inbound connections are gnet.Conn values, never one of the names the
\* abstract owner takes for a client no connection owns.
ASSUME OwnershipNames == Conns \cap {"unused", "free", "closed", "lost"} = {}

\* The connections that have client c bound, or hold it in a callback's
\* local variable (between a Pop and a Put, or during PassThrough).
Owners(c) == {g \in Conns : busy[g] = c \/ held[g] = c}

\* A client whose connection is open is free in the pool, else owned by the
\* connection holding it, else lost.
OwnerOf(c) ==
    IF cstate[c] \in {"unused", "closed"} THEN cstate[c]
    ELSE IF c \in avail THEN "free"
    ELSE IF Owners(c) # {} THEN CHOOSE g \in Owners(c) : TRUE
    ELSE "lost"

Ownership == INSTANCE PoolOwnership
    WITH owner <- [c \in Clients |-> OwnerOf(c)],
         dropped <- {c \in Clients : cstate[c] = "down"},
         stopping <- sd # "running"

(***************************************************************************)
(* Refinement: every step of Connect, PassThrough, Disconnect, a backend   *)
(* drop or Shutdown is a step of PoolOwnership or leaves ownership as it   *)
(* was.  So no client is ever lost before Shutdown, a connection never     *)
(* takes a second client, a client only returns to the pool from its      *)
(* owner, and a reconnection closes the dropped client it replaces.        *)
(***************************************************************************)
OwnershipRefinement == Ownership!Spec
=============================================================================
