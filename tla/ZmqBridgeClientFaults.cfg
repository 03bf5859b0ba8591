\* Only the client's socket fails.
SPECIFICATION FairSpec
CONSTANTS
    Call = {c1, c2, c3, c4}
    NoCall = NoCall
    NoFrame = NoFrame
    MaxErrors = 2
    Faults <- ClientFaults
PROPERTIES Ends
\* No step is left when every call was made.
CHECK_DEADLOCK FALSE
