\* Safety: two entries, two requests, a crash and a failing file operation.
SPECIFICATION Spec
CONSTANTS
    Entry = {e1, e2}
    NoEntry = NoEntry
    MaxRequests = 2
    MaxCrashes = 1
    MaxFaults = 1
INVARIANTS TypeOK GoneForGood JournalKept OnlyAStrangerWipes ReadIsLogged
PROPERTIES ForbiddenIsFinal SealNeverUnbreaks SealSpec
SYMMETRY Symmetry
CHECK_DEADLOCK FALSE
