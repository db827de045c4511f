SPECIFICATION FairSpec
CONSTANTS
    Word = 16
    Processes = {"a", "b"}
    Base <- MCBase
    Places <- MCPlaces
    Captures <- MCCaptures
    CopyHeads = TRUE
    Body = 2
    Values = {0, 1}
    Arity = 2
    MaxCalls = 3
INVARIANTS
    BodySeesEnvironment
PROPERTIES
    ReachesBody
\* A consumed callable is gone.
CHECK_DEADLOCK FALSE
