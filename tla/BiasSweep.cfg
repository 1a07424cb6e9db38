\* The bisection limit of the code: a step of 0.25 V may be halved three times.
CONSTANTS
    Plans <- SmallPlans
    MAX_BIAS_STEP = 8
    MAX_BISECTIONS = 3
    Garbage = Garbage
SPECIFICATION FairSweep
INVARIANTS SweepTypes RowsAreSolved EveryPointOnce
PROPERTY SweepEnds
CHECK_DEADLOCK FALSE
