---------------------------- MODULE MCUsersPage ----------------------------
(* Instances of UsersPage for TLC. *)
EXTENDS UsersPage

RoleColumns == {"roles", "users", "userRoles"}
PermissionColumns == {"packs", "classes", "commands", "roles", "roleCommands"}

MCRow(table, id, parent, link) ==
    [table |-> table, id |-> id, parent |-> parent, link |-> link, stamp |-> 0]

\* One role and one user who has it.
RoleRows == {MCRow("roles", 1, 0, 0), MCRow("users", 1, 0, 0), MCRow("userRoles", 1, 1, 1)}

\* One pack with a class and a command, and a role that may send it.
PermissionRows == {MCRow("packs", 1, 0, 0), MCRow("classes", 1, 1, 0),
                   MCRow("commands", 1, 1, 0), MCRow("roles", 1, 0, 0),
                   MCRow("roleCommands", 1, 1, 1)}
=============================================================================
