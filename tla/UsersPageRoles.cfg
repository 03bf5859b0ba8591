\* A patient user again, among users and their roles, with one more command: enough to
\* have an id given a second time while the first one is still shown.
SPECIFICATION Spec
CONSTANTS
    Column <- RoleColumns
    InitialRows <- RoleRows
    NoRow = NoRow
    Awaited = {"load", "add", "edit", "delete"}
    MaxClicks = 3
    MaxOpen = 5
INVARIANTS LinksAgree 
\* No step is left when nothing is listed, or the clicks are used up.
CHECK_DEADLOCK FALSE
