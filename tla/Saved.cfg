SPECIFICATION FairSpec
CONSTANTS
    j1 = j1  j2 = j2  j3 = j3  none = none  gate = gate  final = final  r1 = r1
    Jobs = {j1, j2, j3}
    NoJob = none
    Names = {gate, final}
    Yields <- Versions
    Readers = {r1}
    Unwanted = {j2}
    MaxDeaths = 2
INVARIANTS
    DeathNeedsOverlap
    RowsMatchFiles
    ReaderIsServed
PROPERTY
    RecordingsEnd
CHECK_DEADLOCK FALSE
