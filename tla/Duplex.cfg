SPECIFICATION FairSpec
CONSTANTS
    Values <- MCLongValues
    MaxData = 2
    MaxFds = 1
    Capacity = 2
    Senders <- Ends
    Receivers <- Ends
    Blocking <- OnlyB
    Reuse = FALSE
    MaxSends = 2
\* Both ends may be closed, or every send used up and nobody receiving.
CHECK_DEADLOCK FALSE
INVARIANTS
    DeliveredIntact
    NothingLostAtEof
PROPERTIES
    ImplementsObjectChannel
    SendEnds
    RecvEndsAfterClose
    Delivery
