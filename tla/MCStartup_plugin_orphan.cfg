\* One caught signal; server.Run returns once the server is shut down.
CONSTANTS
    sigint = sigint
    sigterm = sigterm
    Signals <- MCSignals
    Kill = Kill
    Nil = Nil
    PoolSize = 2
    MaxSignals = 1
    RunReturnsOnShutdown = TRUE
SPECIFICATION Spec
INVARIANT SignalShutdownStopsPlugins
