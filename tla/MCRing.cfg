\* Two messages or three against the clock.
SPECIFICATION RingSpec
CONSTANTS
    Nothing = Nothing
    Record <- MCRecord
    Length <- MCLength
    Period = 5
    Tick = 1
    MaxTime = 14
    MaxNews = 3
    MaxQueue = 2
INVARIANTS NotesOnce
PROPERTIES PlaysInFull NiggleRare StripNewest
CHECK_DEADLOCK FALSE
