SPECIFICATION FairSpec
CONSTANTS
    Procs = {root, p1, p2}
    Root = root
INVARIANTS
    UserCodeSafe
    RunsWithBroker
PROPERTIES
    NoComa
\* Everybody may be dead.
CHECK_DEADLOCK FALSE
