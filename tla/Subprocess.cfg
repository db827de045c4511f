SPECIFICATION FairSpec
CONSTANTS
    Children = {c1, c2}
    Pids = {p1}
    Jobs <- MCJobs
    Capacity = 1
    MaxKills = 2
INVARIANTS
    JoinOkMeansSuccess
    KillHitsChild
PROPERTIES
    JoinReturns
    KillReturns
    SpawnReturnsOrChildDies
    OrphansEnd
    ImplementsRemoteCall
\* The system may come to rest: every process ended, nobody joining.
CHECK_DEADLOCK FALSE
