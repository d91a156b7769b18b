\* A boot without the store, and then a pressure sample.
SPECIFICATION Spec
CONSTANTS
    Word <- MCWord
    None = None
    Absent = Absent
    Foreign = Foreign
    Commands <- MCCommands
    OldRows <- OlderRows
    MaxCommands = 0
    MaxSamples = 1
    MaxOutages = 0
    MaxCrashes = 0
PROPERTIES DecisionsSurvive
CHECK_DEADLOCK FALSE
