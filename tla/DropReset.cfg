SPECIFICATION Spec
CONSTANTS
    Values <- MCValues
    MaxData = 2
    MaxFds = 1
    Capacity = 2
    Senders <- Ends
    Receivers <- Ends
    Blocking <- Ends
    Reuse = FALSE
    MaxSends = 1
\* Both ends may be closed, or every send used up and nobody receiving.
CHECK_DEADLOCK FALSE
INVARIANTS
    DropIsNotAnError
