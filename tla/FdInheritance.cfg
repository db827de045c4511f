SPECIFICATION FairSpec
CONSTANTS
    Procs = {root, a, b}
    Root = root
    Threads = {t1, t2}
    Large = {a}
    MaxFd = 7
    None = None
\* Processes may all have ended.
CHECK_DEADLOCK FALSE
INVARIANTS
    NoStrayEnds
    RightEnd
PROPERTIES
    EndsClose
