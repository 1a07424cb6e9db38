CONSTANTS
    Jobs <- TwoJobs
    MaxStops = 2
    MaxFaults = 2
    MaxBlanks = 1
SPECIFICATION FairSpec
INVARIANTS ConsoleIsOfTheJob OnePollAtATime
PROPERTIES ScreenConverges
CHECK_DEADLOCK FALSE
