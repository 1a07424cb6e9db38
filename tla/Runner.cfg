SPECIFICATION FairSpec
CONSTANTS
    a = a  b = b  c = c  panicStr = panicStr
    N = 5
    Names = {a, b, c, panicStr}
    Out <- SavesTwice
    Dump = panicStr
    MaxRequeues = 1
INVARIANTS
    NothingSkipped
    NoStepRepeated
    SuccessIsClean
    KillIsExplained
PROPERTY
    RunEnds
CHECK_DEADLOCK FALSE
