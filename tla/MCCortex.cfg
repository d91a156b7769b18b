\* Safety: two commands, a sample, an outage and a crash.
SPECIFICATION Spec
CONSTANTS
    Word <- MCWord
    None = None
    Absent = Absent
    Foreign = Foreign
    Commands <- MCCommands
    OldRows <- OlderRows
    MaxCommands = 2
    MaxSamples = 1
    MaxOutages = 1
    MaxCrashes = 1
INVARIANTS TypeOK RebootEquivalent FeedFresh EventsInOrder
CHECK_DEADLOCK FALSE
