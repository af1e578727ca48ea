\* gnet with one event loop (MultiCore off): callbacks never overlap; only
\* the signal goroutine's Shutdown runs beside them.  Callbacks already
\* running are fair.  No symmetry: the temporal properties name connections
\* and clients.
CONSTANTS
    g1 = g1  g2 = g2  g3 = g3
    c1 = c1  c2 = c2  c3 = c3  c4 = c4
    Nil = Nil
    Conns <- MCConns
    Clients <- MCClients
    Pooled <- MCPooled
    PoolCap = 2
    Elastic = FALSE
    ReuseElasticClients = FALSE
    MultiCore = FALSE
    NewClientMayFail = FALSE
SPECIFICATION FairSpec
INVARIANT TypeOK
INVARIANT NilClientOnlyAfterClear
PROPERTY DroppedBackendReplaced
PROPERTY OwnershipRefinement
PROPERTY PutNeverRefused
