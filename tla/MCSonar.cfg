\* One crash, one ask, a pipe of two messages, a wall that creeps.
SPECIFICATION Spec
CONSTANTS
    Field <- SonarField
    None = None
    Asks = 1
    Hwm = 2
    MaxCrashes = 1
    Ranges = {1, 2, 3}
    MoveCm = 2
    QuietS = 3
    MaxPings = 5
INVARIANTS SonarNear Heals
CHECK_DEADLOCK FALSE
