SPECIFICATION FairSpec
CONSTANTS
    None = None
    Ailment <- OneAilment
    Device = {"ring"}
    Setting = {s1}
    Asks = 1
    Hwm = 1
    Window = 2
    MaxChanges = 1
    MaxCommands = 1
    MaxCrashes = 1
INVARIANTS RingInStep AskAnswered ReportWhole
PROPERTIES PainShown
CHECK_DEADLOCK FALSE
