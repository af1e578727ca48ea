------------------------------ MODULE MCProxy ------------------------------
(* Small instances of Proxy for TLC: two pooled clients and two spare      *)
(* identities for the clients that reconnections create.                    *)
EXTENDS ProxyOwnership, TLC

CONSTANTS g1, g2, g3, c1, c2, c3, c4

MCConns == {g1, g2, g3}
MCClients == {c1, c2, c3, c4}
MCPooled == {c1, c2}

\* Inbound connections are interchangeable; clients are not (CHOOSE picks
\* the identity of a new client, and two of them start in the pool).
MCSymmetry == Permutations(MCConns)
=============================================================================
