\* An orderly sender of commands, every fault.
SPECIFICATION Spec
CONSTANTS
    MaxStarts = 3
    Orderly = TRUE
    Faults <- AllFaults
INVARIANTS NoOrphan BridgeOutlivesProcess ExitComplete
\* No step is left after exit() when every process has ended.
CHECK_DEADLOCK FALSE
