\* Two PassThrough calls of one connection.
CONSTANTS
    Nil = Nil
    MaxExchanges = 2
SPECIFICATION Spec
INVARIANT NoStaleResponse
