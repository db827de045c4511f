SPECIFICATION FairSpec
CONSTANTS
    Children = {c1}
    Pids = {p1}
    Jobs <- MCJobs
    Capacity = 1
    MaxKills = 1
PROPERTIES
    SpawnReturns
\* The system may come to rest: every process ended, nobody joining.
CHECK_DEADLOCK FALSE
