CONSTANTS
    MaxUpdates = 2
    MaxStarts = 3
    MaxLives = 2
    MaxCrashes = 1

SPECIFICATION FairSpec

INVARIANTS
    NothingLost
    NeverTwice
    CancelsNoPoller
    CleanExitIsSilent

PROPERTIES
    Served
    ExitEnds

\* Every start made, every update handled, the last actor gone: the bot stops.
CHECK_DEADLOCK FALSE
