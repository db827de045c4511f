SPECIFICATION Spec
CONSTANTS
    Objects <- MCObjects
    Resources <- MCResources
    Values = {v1, v2, v3}
    Free = Free
INVARIANTS
    RightHandles
    InFlight
    OnlyFailuresLeak
\* Objects are sent once, and the broker may be full.
CHECK_DEADLOCK FALSE
