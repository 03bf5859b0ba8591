----------------------------- MODULE UsersPage -----------------------------
(***************************************************************************)
(* The accounts page: the script of templates/users_vue.html in a browser, *)
(* the routes of api/users.py in the web process, and the tables they are  *)
(* about. Each column of the page shows one list, and the list of a nested *)
(* column (classes of a pack, commands of a class, commands of a role,     *)
(* roles of a user) belongs to the row selected in its parent column.      *)
(*                                                                         *)
(* Every function of the script sends a request and goes on when the       *)
(* answer is there, with the lists and the selection as they are then. The *)
(* web process handles one request at a time (zmq_client.client.ask blocks *)
(* its loop); requests and answers overtake each other on the way.  An     *)
(* answer that is lost is an error to the page, whether or not the request *)
(* was carried out, or is carried out yet (see ZmqBridge).                 *)
(*                                                                         *)
(* The tables (external: the actor account_admin, the schema of            *)
(* databases/users.db) delete in cascades and give a new row the largest   *)
(* id in use plus one, so that ids come back.                              *)
(***************************************************************************)
EXTENDS Naturals, FiniteSets, SequencesExt

CONSTANTS Column,       \* bound: the columns in use
          InitialRows,  \* what the tables hold when the page is opened
          NoRow,        \* nothing is selected (null)
          Awaited,      \* what the user waits for before the next click
          MaxClicks,    \* bound: how often add, edit and delete are clicked
          MaxOpen       \* bound: requests of the browser at a time

Table == {"packs", "classes", "commands", "roles", "roleCommands", "users", "userRoles"}

\* The column whose selection a nested list belongs to.
Parent == [classes |-> "packs", commands |-> "classes",
           roleCommands |-> "roles", userRoles |-> "users"]

\* The other column a row of a link table is made from.
Link == [roleCommands |-> "commands", userRoles |-> "roles"]

Editable == {"packs", "roles", "users"}

Op == {"load", "add", "edit", "delete"}

Row == [table : Column, id : Nat, parent : Nat, link : Nat, stamp : Nat]

ASSUME UsersPageAssumption ==
    /\ Column \subseteq Table
    /\ \A t \in Column : /\ t \in DOMAIN Parent => Parent[t] \in Column
                         /\ t \in DOMAIN Link => Link[t] \in Column
    /\ InitialRows \subseteq Row /\ IsFiniteSet(InitialRows)
    /\ \A r \in InitialRows : r.table \notin DOMAIN Parent => r.parent = 0
    /\ \A r, s \in InitialRows : r.table = s.table /\ r.id = s.id => r = s
    /\ NoRow \notin Row
    /\ Awaited \subseteq Op
    /\ MaxClicks \in Nat /\ MaxOpen \in Nat \ {0}

VARIABLES db,        \* the rows of all tables
          lists,     \* lists[t]: packs.value, classes.value, ...
          selected,  \* selected[t]: selectedPack.value, selectedClass.value, ...
          sent,      \* requests on their way to the web process
          answers,   \* answers on their way back
          stray,     \* requests the page was told had failed, not carried out so far
          denied,    \* history: columns whose last load was denied
          behind,    \* history: columns changed by such a request since they were read
          clicks     \* how often add, edit and delete were clicked

pageVars == <<lists, selected, denied>>
tableVars == <<db, stray, behind>>
vars == <<tableVars, pageVars, sent, answers, clicks>>

\* `of` is the parent's id for load and add, the row's for edit and delete;
\* `row` is the selection it was read from. The stamp stands for the name typed.
Request(op, t, of, link, row, stamp) ==
    [op |-> op, table |-> t, of |-> of, link |-> link, row |-> row, stamp |-> stamp]

Load(t, of) == Request("load", t, of, 0, NoRow, 0)

\* The load of a list that is nobody's child, if its column is in use.
First(t) == IF t \in Column THEN <<Load(t, 0)>> ELSE <<>>

\* onMounted.
Init == /\ db = InitialRows
        /\ lists = [t \in Column |-> <<>>]
        /\ selected = [t \in Column |-> NoRow]
        /\ sent = First("roles") \o First("packs") \o First("users")
        /\ answers = <<>>
        /\ stray = {}
        /\ denied = {}
        /\ behind = {}
        /\ clicks = 0
-----------------------------------------------------------------------------
(* Clicks.                                                                 *)

Open == Range(sent) \cup {a.request : a \in Range(answers)}

MayClick == /\ Len(sent) + Len(answers) < MaxOpen
            /\ \A q \in Open : q.op \notin Awaited

Children(t) == {u \in DOMAIN Parent \cap Column : Parent[u] = t}

\* Mutant of LoadChildren: what belongs to roles and users is not loaded.
LoadPackTree(t, r) ==
    sent' = sent \o SetToSeq({Load(u, r.id) : u \in Children(t) \ DOMAIN Link})

LoadChildren(t, r) == sent' = sent \o SetToSeq({Load(u, r.id) : u \in Children(t)})

\* Mutant of SelectPack: the commands of the class selected before stay.
KeepCommands(r) ==
    /\ selected' = [t \in Column |-> CASE t = "packs" -> r
                                       [] t \in {"classes", "commands"} -> NoRow
                                       [] OTHER -> selected[t]]
    /\ UNCHANGED lists

\* Mutant of SelectPack: the class selected before stays selected.
KeepClass(r) ==
    /\ selected' = [t \in Column |-> IF t = "packs" THEN r ELSE selected[t]]
    /\ lists' = [t \in Column |-> IF t = "commands" THEN <<>> ELSE lists[t]]

\* selectPack: a new pack has no class selected and shows no commands.
SelectPack(r) ==
    /\ selected' = [t \in Column |-> CASE t = "packs" -> r
                                       [] t \in {"classes", "commands"} -> NoRow
                                       [] OTHER -> selected[t]]
    /\ lists' = [t \in Column |-> IF t = "commands" THEN <<>> ELSE lists[t]]

\* selectRole, selectClass, selectUser, and the columns without a child.
SelectOther(r) ==
    /\ selected' = [selected EXCEPT ![r.table] = r]
    /\ UNCHANGED lists

Select(t) == /\ MayClick
             /\ \E r \in Range(lists[t]) :
                   /\ IF t = "packs" THEN SelectPack(r) ELSE SelectOther(r)
                   /\ LoadChildren(t, r)
             /\ UNCHANGED <<tableVars, answers, denied, clicks>>

Command(q) == /\ MayClick
              /\ clicks < MaxClicks
              /\ clicks' = clicks + 1
              /\ sent' = Append(sent, q)
              /\ UNCHANGED <<tableVars, pageVars, answers>>

\* What a new row of t is made from, 0 where nothing is needed.
IdIn(t, columns) == IF t \in DOMAIN columns THEN selected[columns[t]].id ELSE 0

Add(t) == /\ t \in DOMAIN Parent => selected[Parent[t]] # NoRow
          /\ t \in DOMAIN Link => selected[Link[t]] # NoRow
          /\ Command(Request("add", t, IdIn(t, Parent), IdIn(t, Link), NoRow, clicks + 1))

Edit(t) == /\ t \in Editable
           /\ selected[t] # NoRow
           /\ Command(Request("edit", t, selected[t].id, 0, selected[t], clicks + 1))

Delete(t) == /\ selected[t] # NoRow
             /\ Command(Request("delete", t, selected[t].id, 0, selected[t], clicks + 1))
-----------------------------------------------------------------------------
(* The routes of api/users.py and the tables behind them.                  *)

RowsOf(t) == {r \in db : r.table = t}

\* r was made from a row of S.
DependsOn(r, S) == \E s \in S :
    \/ r.table \in DOMAIN Parent /\ s.table = Parent[r.table] /\ s.id = r.parent
    \/ r.table \in DOMAIN Link /\ s.table = Link[r.table] /\ s.id = r.link

WithDependents(S) == S \cup {r \in db : DependsOn(r, S)}

\* ON DELETE CASCADE: packs, classes, commands, roleCommands are four deep.
Cascade(S) == WithDependents(WithDependents(WithDependents(S)))

Known(t, id) == \E r \in RowsOf(t) : r.id = id

\* INTEGER PRIMARY KEY without AUTOINCREMENT.
NewId(t) == IF RowsOf(t) = {} THEN 1 ELSE Max({r.id : r \in RowsOf(t)}) + 1

\* The row an edit or delete is about.
Target(q) == {r \in RowsOf(q.table) : r.id = q.of}

NewRow(q) == [table |-> q.table, id |-> NewId(q.table), parent |-> q.of,
              link |-> q.link, stamp |-> q.stamp]

Renamed(r, q) == [r EXCEPT !.stamp = q.stamp]

\* A link is made once (UNIQUE), and only between rows that are there.
MayCreate(q) ==
    /\ q.table \in DOMAIN Parent => Known(Parent[q.table], q.of)
    /\ q.table \in DOMAIN Link => Known(Link[q.table], q.link)
    /\ \A s \in RowsOf(q.table) : q.link # 0 => <<s.parent, s.link>> # <<q.of, q.link>>

\* What the tables become and what the page gets. Rows are read in some order.
Read(q) == {[tables |-> db, rows |-> SetToSeq({r \in RowsOf(q.table) : r.parent = q.of})]}

Create(q) == {[tables |-> db \cup {r}, rows |-> <<r>>] : r \in {NewRow(q)}}

Update(q) == {[tables |-> (db \ {r}) \cup {Renamed(r, q)}, rows |-> <<Renamed(r, q)>>] :
                 r \in Target(q)}

Destroy(q) == {[tables |-> db \ Cascade({r}), rows |-> <<>>] : r \in Target(q)}

\* How a request can be carried out, if it can.
Outcomes(q) == CASE q.op = "load" -> Read(q)
                 [] q.op = "add" -> IF MayCreate(q) THEN Create(q) ELSE {}
                 [] q.op = "edit" -> Update(q)
                 [] q.op = "delete" -> Destroy(q)

\* The i-th request is answered: rows are what the page gets.
Answer(i, ok, rows) ==
    /\ sent' = RemoveAt(sent, i)
    /\ answers' = Append(answers, [request |-> sent[i], ok |-> ok, rows |-> rows])

Serve(i) == \E o \in Outcomes(sent[i]) :
    /\ db' = o.tables
    /\ behind' = behind \ {t \in {sent[i].table} : sent[i].op = "load"}
    /\ Answer(i, TRUE, o.rows)
    /\ UNCHANGED stray

\* integrity_error, existence_error or access_denied, or a load that fails on its
\* way: nothing is changed.
Refuse(i) == /\ Answer(i, FALSE, <<>>)
             /\ UNCHANGED tableVars

\* The route fails because zmq_client.client.ask raised, or fetch does: the tables
\* may have got the request, or may get it yet.
Lose(i) == /\ sent[i].op # "load"
           /\ Answer(i, FALSE, <<>>)
           /\ stray' = stray \cup {sent[i]}
           /\ UNCHANGED <<db, behind>>

\* The routes of one table: those it has, one request at a time.
Routes(t, ops) ==
    \E i \in DOMAIN sent :
        /\ sent[i].table = t
        /\ sent[i].op \in ops
        /\ Serve(i) \/ Refuse(i) \/ Lose(i)
        /\ UNCHANGED <<pageVars, clicks>>

\* The lists a delete empties, as the script has it.
Emptied == [packs |-> {"classes", "commands"}, classes |-> {"commands"}, commands |-> {},
            roles |-> {"roleCommands"}, roleCommands |-> {},
            users |-> {"userRoles"}, userRoles |-> {}]

\* A request the page was told had failed is carried out after all. What it changes
\* the page does not know of, and what is nested under that.
CarryOut ==
    \E q \in stray : \E o \in Outcomes(q) :
        /\ db' = o.tables
        /\ stray' = stray \ {q}
        /\ behind' = behind \cup {q.table} \cup (Emptied[q.table] \cap Column)
        /\ UNCHANGED <<pageVars, sent, answers, clicks>>

PackRoutes == Routes("packs", {"load", "add", "edit", "delete"})
ClassRoutes == Routes("classes", {"load", "add", "delete"})
CommandRoutes == Routes("commands", {"load", "add", "delete"})
RoleRoutes == Routes("roles", {"load", "add", "edit", "delete"})
RoleCommandRoutes == Routes("roleCommands", {"load", "add", "delete"})
UserRoutes == Routes("users", {"load", "add", "edit", "delete"})
UserRoleRoutes == Routes("userRoles", {"load", "add", "delete"})
-----------------------------------------------------------------------------
(* What the functions of the script do when their answer is there.         *)

LoadDone(t, a) == /\ lists' = [lists EXCEPT ![t] = a.rows]
                  /\ UNCHANGED selected

\* Mutant of AddDone: what is pushed is not there yet.
PushTooEarly(t, a) == /\ lists' = [lists EXCEPT ![t] = Append(@, NoRow)]
                      /\ UNCHANGED selected

AddDone(t, a) == /\ lists' = [lists EXCEPT ![t] = Append(@, a.rows[1])]
                 /\ UNCHANGED selected

\* findIndex(): s with r in the place of the first row that has its id.
Replace(s, r) ==
    [i \in DOMAIN s |-> IF s[i].id = r.id /\ \A j \in 1 .. i - 1 : s[j].id # r.id
                        THEN r ELSE s[i]]

\* Mutant of EditDone: the selection keeps the row as it was.
ReplaceInList(t, a) == /\ lists' = [lists EXCEPT ![t] = Replace(@, a.rows[1])]
                       /\ UNCHANGED selected

EditDone(t, a) == /\ lists' = [lists EXCEPT ![t] = Replace(@, a.rows[1])]
                  /\ selected' = [selected EXCEPT ![t] = a.rows[1]]

\* What a delete deselects.
Deselected == [packs |-> {"packs", "classes"}, classes |-> {"classes", "commands"},
               commands |-> {"commands"}, roles |-> {"roles"},
               roleCommands |-> {"roleCommands"}, users |-> {"users"},
               userRoles |-> {"userRoles"}]

\* filter(): what the first i rows of s leave of it without those that have this id.
Kept(s, id) ==
    LET kept[i \in 0 .. Len(s)] ==
            IF i = 0 THEN <<>>
            ELSE IF s[i].id = id THEN kept[i - 1] ELSE Append(kept[i - 1], s[i])
    IN  kept

Without(s, id) == Kept(s, id)[Len(s)]

\* deleteX filters by the id of selectedX.value as it is now, not as it was when the
\* request was sent. Nothing selected and a list that is not empty: TypeError,
\* nothing is done.
DeleteDone(t, a) ==
    IF selected[t] = NoRow /\ lists[t] # <<>>
    THEN UNCHANGED <<lists, selected>>
    ELSE /\ lists' = [u \in Column |-> IF u = t /\ lists[t] # <<>>
                                        THEN Without(lists[t], selected[t].id)
                                        ELSE IF u \in Emptied[t] THEN <<>> ELSE lists[u]]
         /\ selected' = [u \in Column |-> IF u \in Deselected[t] THEN NoRow ELSE selected[u]]

\* The columns whose list is not known to be denied any more.
Refreshed(q) == CASE q.op = "load" -> {q.table}
                  [] q.op = "delete" -> Emptied[q.table]
                  [] OTHER -> {}

\* An answer arrives; of a request that failed only the status line tells.
Receive == \E i \in DOMAIN answers :
    LET q == answers[i].request
        a == answers[i]
    IN  /\ \/ /\ ~a.ok
              /\ denied' = denied \cup {t \in {q.table} : q.op = "load"}
              /\ UNCHANGED <<lists, selected>>
           \/ /\ a.ok
              /\ denied' = denied \ Refreshed(q)
              /\ \/ q.op = "load" /\ LoadDone(q.table, a)
                 \/ q.op = "add" /\ AddDone(q.table, a)
                 \/ q.op = "edit" /\ EditDone(q.table, a)
                 \/ q.op = "delete" /\ DeleteDone(q.table, a)
        /\ answers' = RemoveAt(answers, i)
        /\ UNCHANGED <<tableVars, sent, clicks>>
-----------------------------------------------------------------------------
Click(t) == Select(t) \/ Add(t) \/ Edit(t) \/ Delete(t)

WebProcess == \/ PackRoutes \/ ClassRoutes \/ CommandRoutes \/ RoleRoutes
              \/ RoleCommandRoutes \/ UserRoutes \/ UserRoleRoutes

Next == (\E t \in Column : Click(t)) \/ WebProcess \/ CarryOut \/ Receive

Spec == Init /\ [][Next]_vars
-----------------------------------------------------------------------------
(* Properties.                                                             *)

TypeOK == /\ db \subseteq Row
          /\ \A t \in Column : lists[t] \in Seq(Row)
          /\ \A t \in Column : selected[t] \in Row \cup {NoRow}
          /\ \A q \in Open : q.op \in Op /\ q.table \in Column
          /\ \A q \in stray : q.op \in Op \ {"load"} /\ q.table \in Column
          /\ denied \subseteq Column
          /\ behind \subseteq Column
          /\ clicks \in 0 .. MaxClicks

Quiet == sent = <<>> /\ answers = <<>>

\* The rows of t that belong to what is selected.
View(t) == {r \in RowsOf(t) :
              t \in DOMAIN Parent => /\ selected[Parent[t]] # NoRow
                                     /\ r.parent = selected[Parent[t]].id}

\* When no request is open each list shows what the tables hold for the rows that
\* are selected now, every row once: nothing of the pack, class, role or user
\* selected before, and nothing missing. A list whose last load was denied may be
\* that of an earlier selection. A request that was carried out though the page was
\* told it failed spoils the column it was for, and after a delete those nested under
\* it, and no other, until they are read again; what the user does in the meantime,
\* with rows that are gone too, does not spread it. (Links: see LinksAgree.)
ListsAgree == Quiet => \A t \in Column \ (DOMAIN Link \cup denied \cup behind) :
    Range(lists[t]) = View(t) /\ IsInjective(lists[t])

\* The lists of links are never reloaded when a cascade deletes their rows: they
\* may show rows that are gone, but never one of another role or user than the
\* selected, gone or not, and they miss none. Denied loads and lost answers count as
\* in ListsAgree.
LinksAgree == Quiet => \A t \in (Column \cap DOMAIN Link) \ (denied \cup behind) :
    /\ Range(lists[t]) \cap db = View(t)
    /\ \A r \in Range(lists[t]) : /\ selected[Parent[t]] # NoRow
                                 /\ r.parent = selected[Parent[t]].id

\* A selected pack, class, role or user is one of the rows shown, as it is shown:
\* addX makes the new row under a parent the user can see. Lost answers do not
\* change that.
SelectionShown == Quiet => \A t \in Column \cap Range(Parent) :
    selected[t] # NoRow => selected[t] \in Range(lists[t])

\* An edit or delete that reaches the tables meets the row as the user saw it when
\* clicking, although it only carries an id, and ids come back: no rename in
\* between, and never a later row under the same id. Only in a column that a lost
\* answer spoiled, and that was not read again, it may meet another row.
MeetsRowSeen == \A i \in DOMAIN sent :
    sent[i].op \in {"edit", "delete"} /\ sent[i].table \in Range(Parent) \ behind
        => \A r \in RowsOf(sent[i].table) : r.id = sent[i].of => r = sent[i].row
=============================================================================
