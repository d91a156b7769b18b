\* Liveness: the feed catches up.
SPECIFICATION FairSpec
CONSTANTS
    Word <- MCWord
    None = None
    Absent = Absent
    Foreign = Foreign
    Commands <- FewCommands
    OldRows <- FreshRows
    MaxCommands = 2
    MaxSamples = 0
    MaxOutages = 1
    MaxCrashes = 1
PROPERTIES FeedConverges
CHECK_DEADLOCK FALSE
