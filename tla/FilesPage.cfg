\* Two browsers of one user, one of which reads files, and a restart.
SPECIFICATION Spec
CONSTANTS
    Browser = {b1, b2}
    User = {u1}
    NoToken = NoToken
    Lifetime = 1
    MaxTime = 1
    MaxAsked = 3
    MaxRestarts = 1
    Reader = b1
    Dir = {root, sub}
    Root = root
    MaxClicks = 3
INVARIANTS SessionLasts LogoutSticks PageAgrees OpensWhatWasListed LoginPageHasReason
PROPERTIES EndsForGood
\* Every request made, the clock at its end: nothing is left to do.
CHECK_DEADLOCK FALSE
