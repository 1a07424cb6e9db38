CONSTANTS
    Paths = {a, b}
    Nowhere = Nowhere
    MaxEdits = 2
    MaxActs = 3
    MaxVisits = 1
    MaxPuts = 1
SPECIFICATION Spec
SYMMETRY Renamings
INVARIANTS TypeOK WorkIsKept CleanMeansSaved RunIsNotStale
CHECK_DEADLOCK FALSE
CONSTRAINT Waits
