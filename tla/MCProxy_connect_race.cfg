\* Default pool, one event loop per core: two Connects interleave.
CONSTANTS
    g1 = g1  g2 = g2  g3 = g3
    c1 = c1  c2 = c2  c3 = c3  c4 = c4
    Nil = Nil
    Conns <- MCConns
    Clients <- MCClients
    Pooled <- MCPooled
    PoolCap = 2
    Elastic = FALSE
    ReuseElasticClients = FALSE
    MultiCore = TRUE
    NewClientMayFail = FALSE
SYMMETRY MCSymmetry
SPECIFICATION Spec
INVARIANT NilClientOnlyAfterClear
