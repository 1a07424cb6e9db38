\* Two processes of one loop; job 1 is slow (it may be recovered while it runs),
\* job 2 belongs to a project that is deleted; two cancel requests, one death.
SPECIFICATION Spec
CONSTANTS
    w1 = w1  w2 = w2  l1 = l1  l2 = l2   c1 = c1  c2 = c2
    Jobs = {1, 2}
    Owned = {2}
    Slow = {1}
    Workers = {w1, w2}
    Loops = {l1, l2}
    Home <- TwoHomes
    Clients = {c1, c2}
    MaxConcurrent = 1
    MaxDeaths = 1
    MaxStops = 0
SYMMETRY Requests
INVARIANTS
    OvershootBound
    LossPerDeath
    NoDuplicateRun
    CancelAnswer
PROPERTIES
    RefinesLifecycle
CHECK_DEADLOCK FALSE
