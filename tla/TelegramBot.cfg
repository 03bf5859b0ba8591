\* Concurrent updates of one chat, every fault.
SPECIFICATION Spec
CONSTANTS
    Chat = {c1}
    NoChat = NoChat
    Update = {u1, u2, u3}
    Member <- MCMember
    Menu <- MCMenu
    MaxMessages = 2
    Patient = FALSE
    Faults <- AllFaults
SYMMETRY Symmetry
INVARIANTS ClickMeansWhatItSays EntryWasShown EditsExist
\* No step is left when every update was handled and exit() has ended.
CHECK_DEADLOCK FALSE
