\* exit() while two chats are in use.
SPECIFICATION FairSpec
CONSTANTS
    Chat = {c1, c2}
    NoChat = NoChat
    Update = {u1, u2}
    Member <- MCMember
    Menu <- MCMenu
    MaxMessages = 2
    Patient = FALSE
    Faults <- AllFaults
PROPERTIES EveryChatIsTold ExitEnds
\* No step is left when every update was handled and exit() has ended.
CHECK_DEADLOCK FALSE
