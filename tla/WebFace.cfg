\* Connections that come and go, before and during exit(), over two starts.
SPECIFICATION FairSpec
CONSTANTS
    Socket = {s1, s2, s3}
    Slow = {s3}
    Port = {p1, p2}
    None = None
INVARIANTS ListedOnce ExitClosesAll
PROPERTIES ExitEnds ClosedEnds
\* No step is left when exit() has ended and every connection is over.
CHECK_DEADLOCK FALSE
