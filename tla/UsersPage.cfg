\* A patient user; answers in any order, some of them lost.
SPECIFICATION Spec
CONSTANTS
    Column <- PermissionColumns
    InitialRows <- PermissionRows
    NoRow = NoRow
    Awaited = {"load", "add", "edit", "delete"}
    MaxClicks = 2
    MaxOpen = 5
INVARIANTS TypeOK ListsAgree LinksAgree SelectionShown
\* No step is left when nothing is listed, or the clicks are used up.
CHECK_DEADLOCK FALSE
