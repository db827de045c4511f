SPECIFICATION FairSpec
CONSTANTS
    Workers = {w1, w2}
    Tasks = {t1, t2, t3}
    Nobody = Nobody
INVARIANTS
    OwnReply
    LossesPaid
    CloseJoinsAll
PROPERTIES
    CloseReturns
    RunEnds
    LostWorkersEnd
    ImplementsRemoteCall
\* Closed, and every task over.
CHECK_DEADLOCK FALSE
