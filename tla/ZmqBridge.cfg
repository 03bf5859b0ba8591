\* Every fault: safety, liveness and refinement.
SPECIFICATION FairSpec
CONSTANTS
    Call = {c1, c2, c3, c4}
    NoCall = NoCall
    NoFrame = NoFrame
    MaxErrors = 2
    Faults <- AllFaults
INVARIANTS Custody AtMostOnce
PROPERTIES StuckForEver EndsOrStuck ImplementsRpc
\* No step is left when the server is stuck or every call was made.
CHECK_DEADLOCK FALSE
