\* Four messages, two refused writes, two frames waiting, two washes and more.
SPECIFICATION Spec
CONSTANTS
    Every = 3
    Secs = 1
    Blink = 1
    WakeMax = 2
    Slack = 1
    StateSays <- MCStateSays
    MaxTime = 8
    MaxNews = 4
    MaxFails = 2
    MaxQueue = 2
INVARIANTS GlassTrue WashKept FaceReturns
CHECK_DEADLOCK FALSE
