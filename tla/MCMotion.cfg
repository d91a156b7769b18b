\* One crash of either side, two asks, a pipe of three messages.
SPECIFICATION Spec
CONSTANTS
    Field <- PirField
    None = None
    Asks = 2
    Hwm = 3
    MaxCrashes = 1
    Cooldown = 2
    MaxPolls = 3
INVARIANTS TypeOK Agrees
PROPERTIES ScanIsConfirmed
CHECK_DEADLOCK FALSE
