\* Filters of up to two addresses and two topic positions of up to two
\* choices (the wildcard among them), against up to two logs with up to two
\* topics each.
CONSTANTS
    a1 = a1  a2 = a2  t1 = t1  t2 = t2  W = W
    Addresses = {a1, a2}
    Topics = {t1, t2}
    Wild = W
    MaxAddrs = 2
    MaxPositions = 2
    MaxChoices = 2
    MaxLogs = 2
    MaxLogTopics = 2
    Earliest = 0
    Latest <- LatestHead
    FindMax = 10
    FindSkip = 0
SPECIFICATION Spec
INVARIANTS
    FilterLogsSound
    BloomNoFalseNegative
CHECK_DEADLOCK FALSE
