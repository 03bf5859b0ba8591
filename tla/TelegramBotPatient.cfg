\* Users who wait for an answer before they go on.
SPECIFICATION Spec
CONSTANTS
    Chat = {c1}
    NoChat = NoChat
    Update = {u1, u2, u3, u4}
    Member <- MCMember
    Menu <- MCMenu
    MaxMessages = 3
    Patient = TRUE
    Faults <- AskFaults
SYMMETRY Symmetry
INVARIANTS NewestMenuIsAlive
\* No step is left when every update was handled and exit() has ended.
CHECK_DEADLOCK FALSE
