\* The run command with a pool of 3, failing backends, and up to 3 signals.
CONSTANTS
    sigint = sigint
    sigterm = sigterm
    Signals <- MCSignals
    Kill = Kill
    Nil = Nil
    PoolSize = 3
    MaxSignals = 3
    RunReturnsOnShutdown = TRUE
SPECIFICATION Spec
INVARIANT TypeOK
INVARIANT SignalNotLost
PROPERTY EventualExit
