SPECIFICATION Spec
CONSTANTS
    Values <- MCValues
    MaxData = 2
    MaxFds = 1
    Capacity = 2
    Senders <- OnlyA
    Receivers <- OnlyB
    Blocking <- Nobody
    Reuse = TRUE
    MaxSends = 3
\* The sends may be used up and nobody receiving.
CHECK_DEADLOCK FALSE
INVARIANTS
    TornLocally
PROPERTIES
    NoneOnlyAtBoundary
