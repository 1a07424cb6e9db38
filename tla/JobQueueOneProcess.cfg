\* One unit: one process with max_concurrent_jobs = 2 loops, stopped once and
\* dying at most twice; job 1 is slow, job 2 belongs to a project that is deleted.
\* Rows left RUNNING may take up the cap; then the loops poll without a step.
SPECIFICATION FairSpec
CONSTANTS
    w1 = w1  w2 = w2  l1 = l1  l2 = l2  c1 = c1  c2 = c2
    Jobs = {1, 2, 3}
    Owned = {2}
    Slow = {1}
    Workers = {w1}
    Loops = {l1, l2}
    Home <- OneHome
    Clients = {}
    MaxConcurrent = 2
    MaxDeaths = 2
    MaxStops = 1
INVARIANT
    CapHolds
PROPERTY
    EveryJobSettles
CHECK_DEADLOCK FALSE
