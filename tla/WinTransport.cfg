SPECIFICATION FairTransport
CONSTANTS
    Rivals = {r1, r2}
    Us = us
    Backlog = 2
    PeerPid = TRUE
    MaxConnects = 3
    Size <- MCSize
    Usize = 2
    Room = 3
    Garbled = {0, 1, 5}
    Reuse = FALSE
\* Both ends may be closed, or all messages sent and nobody receiving.
CHECK_DEADLOCK FALSE
INVARIANTS
    PairIsOurs
PROPERTIES
    PairReturns
    ImplementsObjectChannel
    Delivery
