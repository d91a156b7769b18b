\* Liveness: a wipe reaches the feed through the race on status.tmp.
SPECIFICATION FairSpec
CONSTANTS
    Entry = {e1}
    NoEntry = NoEntry
    MaxRequests = 2
    MaxCrashes = 1
    MaxFaults = 0
PROPERTIES WipeShows
CHECK_DEADLOCK FALSE
