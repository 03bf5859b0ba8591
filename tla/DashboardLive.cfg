\* Any order of commands, every fault, under fairness.
SPECIFICATION FairSpec
CONSTANTS
    MaxStarts = 2
    Orderly = FALSE
    Faults <- AllFaults
PROPERTIES ExitEnds StopEnds StartSettles
\* No step is left after exit() when every process has ended.
CHECK_DEADLOCK FALSE
