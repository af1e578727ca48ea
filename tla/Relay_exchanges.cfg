\* Two PassThrough calls of one connection, with drops, deadlines and
\* every shape of hook result.
CONSTANTS
    Nil = Nil
    MaxExchanges = 2
SPECIFICATION Spec
INVARIANT RequestSuperseded
INVARIANT IngressSeesReadError
