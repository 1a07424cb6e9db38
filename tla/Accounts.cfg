SPECIFICATION Spec
CONSTANTS
    r1 = r1  r2 = r2  t1 = t1  k1 = k1  bogus = bogus  e1 = e1  e2 = e2
    Requests = {r1, r2}
    Tools = {t1}
    Clients = {k1}
    Codes = {c1}
    Bogus = bogus
    Emails = {e1, e2}
    MaxUses <- TwoUses
    Validity = 1
    FloodLimit = 2  FloodWindow = 1
    FailLimit = 1  FailWindow = 1
    MaxTime = 2
    MaxCrashes = 1
SYMMETRY Senders
INVARIANTS
    UsesAddUp
    ReasonIsTrue
    AnswersMatchAccounts
    GuessesAreBounded
    WaitIsExact
CHECK_DEADLOCK FALSE
