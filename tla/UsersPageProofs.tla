-------------------------- MODULE UsersPageProofs --------------------------
(***************************************************************************)
(* Proofs about UsersPage, for any columns, tables and numbers of clicks   *)
(* and requests. The types and keys hold for every user. The agreement of  *)
(* page and tables is proved for the patient user, who waits for every     *)
(* answer before the next click, while answers overtake each other or are  *)
(* lost: in the columns that no lost answer spoiled (PatientInv).          *)
(***************************************************************************)
EXTENDS UsersPage, SequenceFacts

-----------------------------------------------------------------------------
(* What filter() computes.                                                 *)

\* What Kept is, from its last step.
KeptStep(s, id, kept, i) ==
    IF i = 0 THEN <<>>
    ELSE IF s[i].id = id THEN kept[i - 1] ELSE Append(kept[i - 1], s[i])

\* The recursion of Kept is sound.
LEMMA KeptUnfolds ==
    ASSUME NEW s, NEW id, Len(s) \in Nat
    PROVE  Kept(s, id) = [i \in 0 .. Len(s) |-> KeptStep(s, id, Kept(s, id), i)]
<1> DEFINE Some == {n \in 0 .. Len(s) : \E g : g = [i \in 0 .. n |-> KeptStep(s, id, g, i)]}
<1>1. 0 \in Some
  <2> DEFINE g == [i \in 0 .. 0 |-> <<>>]
  <2>1. g = [i \in 0 .. 0 |-> KeptStep(s, id, g, i)]
    BY DEF KeptStep
  <2> HIDE DEF g
  <2> QED
    BY <2>1
<1>2. ASSUME NEW n \in 1 .. Len(s), n - 1 \in Some PROVE n \in Some
  <2>1. PICK h : h = [i \in 0 .. n - 1 |-> KeptStep(s, id, h, i)]
    BY <1>2
  <2> DEFINE g == [i \in 0 .. n |-> IF i = n THEN KeptStep(s, id, h, n) ELSE h[i]]
  <2>2. \A i \in 0 .. n : KeptStep(s, id, g, i) = KeptStep(s, id, h, i)
    BY DEF KeptStep
  <2>3. \A i \in 0 .. n - 1 : h[i] = KeptStep(s, id, h, i)
    BY <2>1
  <2>4. \A i \in 0 .. n : i # n => i \in 0 .. n - 1
    OBVIOUS
  <2>5. g = [i \in 0 .. n |-> KeptStep(s, id, g, i)]
    BY <2>2, <2>3, <2>4
  <2>6. n \in 0 .. Len(s)
    OBVIOUS
  <2> HIDE DEF g
  <2> QED
    BY <2>5, <2>6
<1>3. Len(s) \in Some
  <2> HIDE DEF Some
  <2>1. 0 .. Len(s) \subseteq Some
    BY <1>1, <1>2, UpToN
  <2>2. Len(s) \in 0 .. Len(s)
    OBVIOUS
  <2> QED
    BY <2>1, <2>2
<1>4. Kept(s, id) = CHOOSE g : g = [i \in 0 .. Len(s) |-> KeptStep(s, id, g, i)]
  BY DEF Kept, KeptStep
<1> QED
  BY <1>3, <1>4

\* filter() leaves the rows of another id, and doubles nothing.
LEMMA WithoutFacts ==
    ASSUME NEW s \in Seq(Row), NEW id
    PROVE  /\ Without(s, id) \in Seq(Row)
           /\ Range(Without(s, id)) = {r \in Range(s) : r.id # id}
           /\ IsInjective(s) => IsInjective(Without(s, id))
<1> DEFINE k == Kept(s, id)
           FirstRows(i) == {s[j] : j \in 1 .. i}
           Good == {i \in 0 .. Len(s) : /\ k[i] \in Seq(Row)
                                        /\ Range(k[i]) = {r \in FirstRows(i) : r.id # id}
                                        /\ IsInjective(s) => IsInjective(k[i])}
<1>1. Len(s) \in Nat /\ DOMAIN s = 1 .. Len(s) /\ \A i \in 1 .. Len(s) : s[i] \in Row
  BY LenProperties, ElementOfSeq
<1>2. \A i \in 0 .. Len(s) : k[i] = KeptStep(s, id, k, i)
  BY <1>1, KeptUnfolds
<1>3. 0 \in Good
  <2>1. k[0] = <<>> /\ 0 \in 0 .. Len(s)
    BY <1>1, <1>2 DEF KeptStep
  <2>2. <<>> \in Seq(Row) /\ Range(<<>>) = {} /\ IsInjective(<<>>)
    BY DEF Range, IsInjective
  <2>3. FirstRows(0) = {}
    OBVIOUS
  <2> HIDE DEF FirstRows, k
  <2> QED
    BY <2>1, <2>2, <2>3
<1>4. ASSUME NEW i \in 1 .. Len(s), i - 1 \in Good PROVE i \in Good
  <2>1. k[i] = IF s[i].id = id THEN k[i - 1] ELSE Append(k[i - 1], s[i])
    BY <1>1, <1>2 DEF KeptStep
  <2>2. FirstRows(i) = FirstRows(i - 1) \cup {s[i]} /\ i \in 0 .. Len(s) /\ s[i] \in Row
    <3>1. 1 .. i = (1 .. i - 1) \cup {i}
      BY <1>1
    <3> QED
      BY <1>1, <3>1
  <2>3. CASE s[i].id = id
    BY <1>4, <2>1, <2>2, <2>3
  <2>4. CASE s[i].id # id
    <3>1. k[i] = Append(k[i - 1], s[i])
      BY <2>1, <2>4
    <3>2. /\ k[i - 1] \in Seq(Row) /\ Range(k[i - 1]) = {r \in FirstRows(i - 1) : r.id # id}
          /\ IsInjective(s) => IsInjective(k[i - 1])
      BY <1>4
    <3>3. IsInjective(s) => s[i] \notin FirstRows(i - 1)
      <4>1. \A j \in 1 .. i - 1 : j # i /\ j \in 1 .. Len(s) /\ i \in 1 .. Len(s)
        BY <1>1
      <4> QED
        BY <1>1, <4>1 DEF IsInjective
    <3>4. /\ k[i] \in Seq(Row) /\ Range(k[i]) = Range(k[i - 1]) \cup {s[i]}
          /\ IsInjective(k[i - 1]) /\ s[i] \notin Range(k[i - 1]) => IsInjective(k[i])
      BY <2>2, <3>1, <3>2, AppendFacts
    <3>5. Range(k[i]) = {r \in FirstRows(i) : r.id # id}
      BY <2>2, <2>4, <3>2, <3>4
    <3>6. IsInjective(s) => IsInjective(k[i])
      BY <3>2, <3>3, <3>4
    <3> QED
      BY <2>2, <3>4, <3>5, <3>6
  <2> QED
    BY <2>3, <2>4
<1>5. Len(s) \in Good
  <2> HIDE DEF Good
  <2>1. 0 .. Len(s) \subseteq Good
    BY <1>1, <1>3, <1>4, UpToN
  <2>2. Len(s) \in 0 .. Len(s)
    BY <1>1
  <2> QED
    BY <2>1, <2>2
<1>6. FirstRows(Len(s)) = Range(s) /\ Without(s, id) = k[Len(s)]
  BY <1>1 DEF Range, Without
<1> QED
  BY <1>5, <1>6
-----------------------------------------------------------------------------
(* The columns and how they depend on each other.                          *)

\* Which column is nested in which.
LEMMA ColumnFacts ==
    /\ DOMAIN Parent = {"classes", "commands", "roleCommands", "userRoles"}
    /\ Parent["classes"] = "packs" /\ Parent["commands"] = "classes"
    /\ Parent["roleCommands"] = "roles" /\ Parent["userRoles"] = "users"
    /\ Range(Parent) = {"packs", "classes", "roles", "users"}
    /\ DOMAIN Link = {"roleCommands", "userRoles"}
    /\ Link["roleCommands"] = "commands" /\ Link["userRoles"] = "roles"
    /\ Column \subseteq Table
    /\ \A t \in Column : /\ t \in DOMAIN Parent => Parent[t] \in Column
                         /\ t \in DOMAIN Link => Link[t] \in Column
<1>1. /\ DOMAIN Parent = {"classes", "commands", "roleCommands", "userRoles"}
      /\ Parent["classes"] = "packs" /\ Parent["commands"] = "classes"
      /\ Parent["roleCommands"] = "roles" /\ Parent["userRoles"] = "users"
  BY DEF Parent
<1>2. Range(Parent) = {"packs", "classes", "roles", "users"}
  BY <1>1 DEF Range
<1> QED
  BY <1>1, <1>2, UsersPageAssumption DEF Link

\* What a delete empties and deselects, table by table.
LEMMA ResetFacts ==
    /\ Emptied["packs"] = {"classes", "commands"} /\ Emptied["classes"] = {"commands"}
    /\ Emptied["commands"] = {} /\ Emptied["roles"] = {"roleCommands"}
    /\ Emptied["roleCommands"] = {} /\ Emptied["users"] = {"userRoles"}
    /\ Emptied["userRoles"] = {}
    /\ Deselected["packs"] = {"packs", "classes"}
    /\ Deselected["classes"] = {"classes", "commands"}
    /\ Deselected["commands"] = {"commands"} /\ Deselected["roles"] = {"roles"}
    /\ Deselected["roleCommands"] = {"roleCommands"} /\ Deselected["users"] = {"users"}
    /\ Deselected["userRoles"] = {"userRoles"}
  BY DEF Emptied, Deselected
-----------------------------------------------------------------------------
(* Types and keys: for any user, and answers in any order.                 *)

\* The requests of the page.
Query == [op : Op, table : Column, of : Nat, link : Nat, row : Row \cup {NoRow}, stamp : Nat]

\* The answers to them.
Reply == [request : Query, ok : BOOLEAN, rows : Seq(Row)]

\* A list that is nobody's child is loaded, and its rows are made, for parent 0.
RootQuery(q) == q.op \in {"load", "add"} /\ q.table \notin DOMAIN Parent => q.of = 0

\* What is open and listed is of its type; answers to add and edit bring one row.
TypeInv == /\ db \in SUBSET Row /\ IsFiniteSet(db)
           /\ lists \in [Column -> Seq(Row)]
           /\ selected \in [Column -> Row \cup {NoRow}]
           /\ sent \in Seq(Query) /\ \A i \in DOMAIN sent : RootQuery(sent[i])
           /\ answers \in Seq(Reply)
           /\ \A i \in DOMAIN answers :
                 answers[i].ok /\ answers[i].request.op \in {"add", "edit"}
                     => \E r \in Row : answers[i].rows = <<r>>
           /\ stray \in SUBSET Query
           /\ \A q \in stray : RootQuery(q) /\ q.op # "load"
           /\ denied \subseteq Column /\ behind \subseteq Column
           /\ clicks \in 0 .. MaxClicks

\* Primary keys, and no parent where none is needed, in the tables d.
Keys(d) == /\ \A r, s \in d : r.table = s.table /\ r.id = s.id => r = s
           /\ \A r \in d : r.table \notin DOMAIN Parent => r.parent = 0

KeyInv == Keys(db)

\* A load is a request.
LEMMA LoadType ==
    ASSUME NEW t \in Column, NEW id \in Nat
    PROVE  Load(t, id) \in Query /\ Load(t, id).op = "load"
           /\ Load(t, id).table = t /\ Load(t, id).of = id
  BY DEF Load, Request, Query, Op

\* So is each load of onMounted.
LEMMA FirstType ==
    ASSUME NEW t \in Table
    PROVE  /\ First(t) \in Seq(Query)
           /\ \A i \in DOMAIN First(t) : First(t)[i] = Load(t, 0) /\ t \in Column
  BY LoadType DEF First

\* Three sequences of at most one element have one place each when put together.
LEMMA ThreePlaces ==
    ASSUME NEW a \in 0 .. 1, NEW b \in 0 .. 1, NEW c \in 0 .. 1, NEW i \in Nat, NEW j \in Nat,
           i >= 1, j >= 1, i <= a + b + c, j <= a + b + c,
           \/ i <= a /\ j <= a
           \/ i > a /\ i <= a + b /\ j > a /\ j <= a + b
           \/ i > a + b /\ j > a + b
    PROVE  i = j
  OBVIOUS

\* onMounted asks for roles, packs and users, each once.
LEMMA InitSent ==
    ASSUME Init
    PROVE  /\ sent \in Seq(Query)
           /\ \A i \in DOMAIN sent :
                 \E t \in Column : t \in {"roles", "packs", "users"} /\ sent[i] = Load(t, 0)
           /\ \A i, j \in DOMAIN sent : i # j => sent[i].table # sent[j].table
<1> DEFINE roles == First("roles")
           packs == First("packs")
           users == First("users")
<1>1. /\ roles \in Seq(Query) /\ packs \in Seq(Query) /\ users \in Seq(Query)
      /\ \A i \in DOMAIN roles : roles[i] = Load("roles", 0) /\ "roles" \in Column
      /\ \A i \in DOMAIN packs : packs[i] = Load("packs", 0) /\ "packs" \in Column
      /\ \A i \in DOMAIN users : users[i] = Load("users", 0) /\ "users" \in Column
  BY FirstType DEF Table
<1>2. Len(roles) \in 0 .. 1 /\ Len(packs) \in 0 .. 1 /\ Len(users) \in 0 .. 1
  BY DEF First
<1>3. sent = roles \o packs \o users
  BY DEF Init
<1> HIDE DEF roles, packs, users
<1>4. /\ roles \o packs \in Seq(Query) /\ Len(roles \o packs) = Len(roles) + Len(packs)
      /\ \A i \in 1 .. Len(roles) + Len(packs) :
            (roles \o packs)[i] = IF i <= Len(roles) THEN roles[i] ELSE packs[i - Len(roles)]
  BY <1>1, ConcatProperties
<1> DEFINE both == roles \o packs
<1>5. both \in Seq(Query) /\ Len(both) \in Nat
  BY <1>2, <1>4
<1> HIDE DEF both
<1>6. /\ both \o users \in Seq(Query) /\ Len(both \o users) = Len(both) + Len(users)
      /\ \A i \in 1 .. Len(both) + Len(users) :
            (both \o users)[i] = IF i <= Len(both) THEN both[i] ELSE users[i - Len(both)]
  BY <1>1, <1>5, ConcatProperties
<1>7. /\ DOMAIN roles = 1 .. Len(roles) /\ DOMAIN packs = 1 .. Len(packs)
      /\ DOMAIN users = 1 .. Len(users)
      /\ DOMAIN sent = 1 .. Len(roles) + Len(packs) + Len(users)
  BY <1>1, <1>3, <1>4, <1>6, LenProperties DEF both
<1>8. ASSUME NEW i \in DOMAIN sent
      PROVE  \/ i <= Len(roles) /\ sent[i] = Load("roles", 0) /\ "roles" \in Column
             \/ /\ i > Len(roles) /\ i <= Len(roles) + Len(packs)
                /\ sent[i] = Load("packs", 0) /\ "packs" \in Column
             \/ i > Len(roles) + Len(packs) /\ sent[i] = Load("users", 0) /\ "users" \in Column
  <2>1. CASE i <= Len(roles)
    <3>1. i \in 1 .. Len(roles) /\ i \in 1 .. Len(roles) + Len(packs) /\ i <= Len(both)
          /\ i \in 1 .. Len(both) + Len(users)
      BY <1>2, <1>4, <1>7, <2>1 DEF both
    <3> QED
      BY <1>1, <1>3, <1>4, <1>6, <1>7, <2>1, <3>1 DEF both
  <2>2. CASE i > Len(roles) /\ i <= Len(roles) + Len(packs)
    <3>1. /\ i - Len(roles) \in 1 .. Len(packs) /\ i \in 1 .. Len(roles) + Len(packs)
          /\ i <= Len(both) /\ ~(i <= Len(roles)) /\ i \in 1 .. Len(both) + Len(users)
      BY <1>2, <1>4, <1>7, <2>2 DEF both
    <3> QED
      BY <1>1, <1>3, <1>4, <1>6, <1>7, <2>2, <3>1 DEF both
  <2>3. CASE i > Len(roles) + Len(packs)
    <3>1. /\ i - Len(both) \in 1 .. Len(users) /\ ~(i <= Len(both))
          /\ i \in 1 .. Len(both) + Len(users)
      BY <1>2, <1>4, <1>7, <2>3 DEF both
    <3> QED
      BY <1>1, <1>3, <1>4, <1>6, <1>7, <2>3, <3>1 DEF both
  <2> QED
    BY <1>2, <1>7, <2>1, <2>2, <2>3
<1>9. \A i \in DOMAIN sent :
          \E t \in Column : t \in {"roles", "packs", "users"} /\ sent[i] = Load(t, 0)
  BY <1>8
<1>10. ASSUME NEW i \in DOMAIN sent, NEW j \in DOMAIN sent, sent[i].table = sent[j].table
       PROVE  i = j
  <2>1. \A t \in Column : Load(t, 0).table = t
    BY LoadType
  <2>2. \/ i <= Len(roles) /\ j <= Len(roles)
        \/ /\ i > Len(roles) /\ i <= Len(roles) + Len(packs)
           /\ j > Len(roles) /\ j <= Len(roles) + Len(packs)
        \/ i > Len(roles) + Len(packs) /\ j > Len(roles) + Len(packs)
    BY <1>8, <1>10, <2>1
  <2>3. /\ i \in Nat /\ i >= 1 /\ i <= Len(roles) + Len(packs) + Len(users)
        /\ j \in Nat /\ j >= 1 /\ j <= Len(roles) + Len(packs) + Len(users)
    BY <1>2, <1>7
  <2> QED
    BY <1>2, <2>2, <2>3, ThreePlaces
<1> QED
  BY <1>3, <1>6, <1>9, <1>10 DEF both

\* Before anything is clicked all is of its type.
LEMMA InitTypes == ASSUME Init PROVE TypeInv /\ KeyInv
<1>1. sent \in Seq(Query) /\ \A i \in DOMAIN sent : RootQuery(sent[i])
  <2>1. \A t \in Column : Load(t, 0).of = 0
    BY LoadType
  <2> QED
    BY <2>1, InitSent DEF RootQuery
<1>2. lists \in [Column -> Seq(Row)] /\ selected \in [Column -> Row \cup {NoRow}]
  BY DEF Init
<1>3. answers \in Seq(Reply) /\ DOMAIN answers = {}
  BY DEF Init
<1> QED
  BY <1>1, <1>2, <1>3, UsersPageAssumption DEF Init, TypeInv, KeyInv, Keys

Loads(t, id) == {Load(u, id) : u \in Children(t)}

\* selectX loads the lists of the children of its column, each once.
LEMMA ChildLoads ==
    ASSUME NEW t \in Column, NEW id \in Nat
    PROVE  /\ SetToSeq(Loads(t, id)) \in Seq(Query)
           /\ Range(SetToSeq(Loads(t, id))) = Loads(t, id)
           /\ IsInjective(SetToSeq(Loads(t, id)))
           /\ \A q \in Loads(t, id) : /\ q.op = "load" /\ q.of = id /\ q.table \in Column
                                      /\ q.table \in DOMAIN Parent /\ Parent[q.table] = t
           /\ \A q, p \in Loads(t, id) : q.table = p.table => q = p
<1> DEFINE S == Loads(t, id)
           All == ((({Load("classes", id)} \cup {Load("commands", id)})
                    \cup {Load("roleCommands", id)}) \cup {Load("userRoles", id)})
<1>1. Children(t) \subseteq {"classes", "commands", "roleCommands", "userRoles"}
      /\ \A u \in Children(t) : u \in Column /\ u \in DOMAIN Parent /\ Parent[u] = t
  BY ColumnFacts DEF Children
<1>2. IsFiniteSet(All)
  <2>1. IsFiniteSet({Load("classes", id)})
    BY FS_Singleton
  <2>2. IsFiniteSet({Load("classes", id)} \cup {Load("commands", id)})
    BY <2>1, FS_AddElement
  <2>3. IsFiniteSet(({Load("classes", id)} \cup {Load("commands", id)})
                    \cup {Load("roleCommands", id)})
    BY <2>2, FS_AddElement
  <2> QED
    BY <2>3, FS_AddElement
<1>3. S \subseteq All
  BY <1>1 DEF Loads
<1>4. IsFiniteSet(S)
  BY <1>2, <1>3, FS_Subset
<1>5. \A u \in Children(t) : /\ Load(u, id) \in Query /\ Load(u, id).op = "load"
                             /\ Load(u, id).table = u /\ Load(u, id).of = id
  BY <1>1, LoadType
<1>6. SetToSeq(S) \in Seq(Query)
  <2>1. S \subseteq Query
    BY <1>5 DEF Loads
  <2> QED
    BY <1>4, <2>1, SetToSeqFacts, SeqMonotonic
<1>7. Range(SetToSeq(S)) = S /\ IsInjective(SetToSeq(S))
  BY <1>4, SetToSeqFacts
<1> QED
  BY <1>1, <1>5, <1>6, <1>7 DEF Loads

\* selectX keeps the types.
LEMMA SelectTypes == ASSUME TypeInv, NEW t \in Column, Select(t) PROVE TypeInv'
<1>1. PICK r \in Range(lists[t]) : /\ IF t = "packs" THEN SelectPack(r) ELSE SelectOther(r)
                                   /\ LoadChildren(t, r)
  BY DEF Select
<1>2. r \in Row /\ r.id \in Nat /\ r.table \in Column
  <2>1. lists[t] \in Seq(Row)
    BY DEF TypeInv
  <2> QED
    <3>1. r \in Row
      BY <1>1, <2>1, RangeOfSeq
    <3> QED
      BY <3>1 DEF Row
<1>3. lists' \in [Column -> Seq(Row)] /\ selected' \in [Column -> Row \cup {NoRow}]
  <2>1. CASE t = "packs"
    <3>1. /\ selected' = [u \in Column |-> CASE u = "packs" -> r
                                             [] u \in {"classes", "commands"} -> NoRow
                                             [] OTHER -> selected[u]]
          /\ lists' = [u \in Column |-> IF u = "commands" THEN <<>> ELSE lists[u]]
      BY <1>1, <2>1 DEF SelectPack
    <3>2. \A u \in Column : lists[u] \in Seq(Row) /\ selected[u] \in Row \cup {NoRow}
      BY DEF TypeInv
    <3>3. lists' \in [Column -> Seq(Row)]
      BY <3>1, <3>2
    <3>4. selected' \in [Column -> Row \cup {NoRow}]
      BY <1>2, <3>1, <3>2
    <3> QED
      BY <3>3, <3>4
  <2>2. CASE t # "packs"
    BY <1>1, <1>2, <2>2 DEF SelectOther, TypeInv
  <2> QED
    BY <2>1, <2>2
<1>4. sent' \in Seq(Query) /\ \A i \in DOMAIN sent' : RootQuery(sent'[i])
  <2> DEFINE more == SetToSeq(Loads(t, r.id))
  <2>1. /\ more \in Seq(Query)
        /\ \A i \in DOMAIN more : more[i].table \in DOMAIN Parent
    <3>1. /\ more \in Seq(Query) /\ Range(more) = Loads(t, r.id)
          /\ \A q \in Loads(t, r.id) : q.table \in DOMAIN Parent
      BY <1>2, ChildLoads
    <3> HIDE DEF more
    <3>2. \A i \in DOMAIN more : more[i] \in Range(more)
      BY DEF Range
    <3> QED
      BY <3>1, <3>2
  <2>2. sent' = sent \o more /\ sent \in Seq(Query)
    BY <1>1 DEF LoadChildren, Loads, TypeInv
  <2> HIDE DEF more
  <2>3. /\ sent' \in Seq(Query) /\ Len(sent') = Len(sent) + Len(more)
        /\ \A i \in 1 .. Len(sent) + Len(more) :
              sent'[i] = IF i <= Len(sent) THEN sent[i] ELSE more[i - Len(sent)]
    BY <2>1, <2>2, ConcatProperties
  <2>4. /\ DOMAIN sent = 1 .. Len(sent) /\ DOMAIN more = 1 .. Len(more)
        /\ DOMAIN sent' = 1 .. Len(sent) + Len(more)
        /\ Len(sent) \in Nat /\ Len(more) \in Nat
    BY <2>1, <2>2, <2>3, LenProperties
  <2>5. ASSUME NEW i \in DOMAIN sent' PROVE RootQuery(sent'[i])
    <3>1. CASE i <= Len(sent)
      <4>1. i \in DOMAIN sent /\ sent'[i] = sent[i]
        BY <2>3, <2>4, <3>1
      <4> QED
        BY <4>1 DEF TypeInv
    <3>2. CASE ~(i <= Len(sent))
      <4>1. i - Len(sent) \in DOMAIN more /\ sent'[i] = more[i - Len(sent)]
        BY <2>3, <2>4, <3>2
      <4> QED
        BY <2>1, <4>1 DEF RootQuery
    <3> QED
      BY <3>1, <3>2
  <2> QED
    BY <2>3, <2>5
<1> QED
  BY <1>3, <1>4 DEF TypeInv, Select, tableVars

\* What a click on add, edit or delete sends.
LEMMA CommandQuery ==
    ASSUME TypeInv, NEW t \in Column, Add(t) \/ Edit(t) \/ Delete(t)
    PROVE  \E q \in Query :
               /\ Command(q) /\ q.table = t /\ RootQuery(q)
               /\ \/ /\ q.op = "add"
                     /\ t \in DOMAIN Parent => /\ selected[Parent[t]] # NoRow
                                               /\ q.of = selected[Parent[t]].id
                     /\ t \in DOMAIN Link => /\ selected[Link[t]] # NoRow
                                             /\ q.link = selected[Link[t]].id
                     /\ q.stamp = clicks + 1
                  \/ /\ q.op \in {"edit", "delete"} /\ (q.op = "edit" => t \in Editable)
                     /\ selected[t] # NoRow /\ q.of = selected[t].id /\ q.row = selected[t]
                     /\ q.op = "edit" => q.stamp = clicks + 1
<1>1. /\ \A u \in Column : selected[u] # NoRow => selected[u] \in Row /\ selected[u].id \in Nat
      /\ clicks + 1 \in Nat
  BY UsersPageAssumption DEF TypeInv, Row
<1>2. CASE Add(t)
  <2> DEFINE q == Request("add", t, IdIn(t, Parent), IdIn(t, Link), NoRow, clicks + 1)
  <2>1. /\ t \in DOMAIN Parent => selected[Parent[t]] # NoRow /\ Parent[t] \in Column
        /\ t \in DOMAIN Link => selected[Link[t]] # NoRow /\ Link[t] \in Column
        /\ Command(q)
    BY <1>2, ColumnFacts DEF Add
  <2>2. /\ IdIn(t, Parent) \in Nat
        /\ t \in DOMAIN Parent => IdIn(t, Parent) = selected[Parent[t]].id
        /\ t \notin DOMAIN Parent => IdIn(t, Parent) = 0
    BY <1>1, <2>1 DEF IdIn
  <2>3. /\ IdIn(t, Link) \in Nat
        /\ t \in DOMAIN Link => IdIn(t, Link) = selected[Link[t]].id
    BY <1>1, <2>1 DEF IdIn
  <2>4. q \in Query /\ q.table = t /\ q.op = "add" /\ q.of = IdIn(t, Parent)
        /\ q.link = IdIn(t, Link) /\ q.stamp = clicks + 1
    BY <1>1, <2>2, <2>3 DEF Request, Query, Op
  <2> HIDE DEF q
  <2> QED
    BY <2>1, <2>2, <2>3, <2>4 DEF RootQuery
<1>3. CASE Edit(t)
  <2> DEFINE q == Request("edit", t, selected[t].id, 0, selected[t], clicks + 1)
  <2>1. q \in Query /\ q.table = t /\ q.op = "edit" /\ q.of = selected[t].id
        /\ q.row = selected[t] /\ q.stamp = clicks + 1
    BY <1>1, <1>3 DEF Edit, Request, Query, Op
  <2> QED
    BY <1>3, <2>1 DEF Edit, RootQuery
<1>4. CASE Delete(t)
  <2> DEFINE q == Request("delete", t, selected[t].id, 0, selected[t], clicks + 1)
  <2>1. q \in Query /\ q.table = t /\ q.op = "delete" /\ q.of = selected[t].id
        /\ q.row = selected[t]
    BY <1>1, <1>4 DEF Delete, Request, Query, Op
  <2> QED
    BY <1>4, <2>1 DEF Delete, RootQuery
<1> QED
  BY <1>2, <1>3, <1>4

\* So do the clicks on add, edit and delete.
LEMMA CommandTypes ==
    ASSUME TypeInv, NEW t \in Column, Add(t) \/ Edit(t) \/ Delete(t) PROVE TypeInv'
<1>1. PICK q \in Query : Command(q) /\ RootQuery(q)
  BY CommandQuery
<1>2. sent \in Seq(Query) /\ sent' = Append(sent, q)
  BY <1>1 DEF TypeInv, Command
<1>3. /\ sent' \in Seq(Query) /\ Len(sent') = Len(sent) + 1
      /\ \A i \in 1 .. Len(sent) : sent'[i] = sent[i]
      /\ sent'[Len(sent) + 1] = q
  BY <1>2, AppendProperties
<1>4. /\ DOMAIN sent = 1 .. Len(sent) /\ DOMAIN sent' = 1 .. Len(sent) + 1
      /\ Len(sent) \in Nat
  BY <1>2, <1>3, LenProperties
<1>5. \A i \in DOMAIN sent' : i \in DOMAIN sent \/ i = Len(sent) + 1
  BY <1>4
<1>6. \A i \in DOMAIN sent' : RootQuery(sent'[i])
  BY <1>1, <1>3, <1>4, <1>5 DEF TypeInv
<1>7. clicks' \in 0 .. MaxClicks
  BY <1>1, UsersPageAssumption DEF TypeInv, Command
<1> QED
  BY <1>1, <1>3, <1>6, <1>7 DEF TypeInv, Command, pageVars, tableVars

\* A route takes one request from those on their way and puts one answer behind the
\* others.
LEMMA AnswerFacts ==
    ASSUME TypeInv, NEW i \in DOMAIN sent, NEW ok \in BOOLEAN, NEW rows \in Seq(Row),
           Answer(i, ok, rows)
    PROVE  /\ sent' \in Seq(Query) /\ Len(sent') = Len(sent) - 1
           /\ \A j \in DOMAIN sent' : \E k \in DOMAIN sent : k # i /\ sent'[j] = sent[k]
           /\ \A k \in DOMAIN sent : k # i => \E j \in DOMAIN sent' : sent'[j] = sent[k]
           /\ \A j, l \in DOMAIN sent' : j # l =>
                 \E k, m \in DOMAIN sent : /\ k # m /\ k # i /\ m # i
                                           /\ sent'[j] = sent[k] /\ sent'[l] = sent[m]
           /\ answers' \in Seq(Reply) /\ Len(answers') = Len(answers) + 1
           /\ \A j \in DOMAIN answers : j \in DOMAIN answers' /\ answers'[j] = answers[j]
           /\ Len(answers) + 1 \in DOMAIN answers' /\ Len(answers) + 1 \notin DOMAIN answers
           /\ \A j \in DOMAIN answers' : j \in DOMAIN answers \/ j = Len(answers) + 1
           /\ answers'[Len(answers) + 1] = [request |-> sent[i], ok |-> ok, rows |-> rows]
<1>1. /\ sent \in Seq(Query) /\ i \in 1 .. Len(sent) /\ sent' = RemoveAt(sent, i)
      /\ sent[i] \in Query
  BY LenProperties, ElementOfSeq DEF TypeInv, Answer
<1>2. /\ sent' \in Seq(Query) /\ Len(sent') = Len(sent) - 1
      /\ \A j \in DOMAIN sent' : \E k \in DOMAIN sent : k # i /\ sent'[j] = sent[k]
      /\ \A k \in DOMAIN sent : k # i => \E j \in DOMAIN sent' : sent'[j] = sent[k]
      /\ \A j, l \in DOMAIN sent' : j # l =>
            \E k, m \in DOMAIN sent : /\ k # m /\ k # i /\ m # i
                                      /\ sent'[j] = sent[k] /\ sent'[l] = sent[m]
  <2>1. sent' \in Seq(Query) /\ Len(sent') = Len(sent) - 1
    BY <1>1, RemoveAtFacts
  <2>2. \A j \in DOMAIN sent' : \E k \in DOMAIN sent : k # i /\ sent'[j] = sent[k]
    BY <1>1, RemoveAtKeeps
  <2>3. \A k \in DOMAIN sent : k # i => \E j \in DOMAIN sent' : sent'[j] = sent[k]
    BY <1>1, RemoveAtKeeps
  <2>4. \A j, l \in DOMAIN sent' : j # l =>
            \E k, m \in DOMAIN sent : /\ k # m /\ k # i /\ m # i
                                      /\ sent'[j] = sent[k] /\ sent'[l] = sent[m]
    BY <1>1, RemoveAtKeeps
  <2> QED
    BY <2>1, <2>2, <2>3, <2>4
<1> DEFINE a == [request |-> sent[i], ok |-> ok, rows |-> rows]
<1>3. a \in Reply /\ answers \in Seq(Reply) /\ answers' = Append(answers, a)
  BY <1>1 DEF Reply, TypeInv, Answer
<1> HIDE DEF a
<1>4. /\ answers' \in Seq(Reply) /\ Len(answers') = Len(answers) + 1
      /\ \A j \in 1 .. Len(answers) : answers'[j] = answers[j]
      /\ answers'[Len(answers) + 1] = a
  BY <1>3, AppendProperties
<1>5. /\ DOMAIN answers = 1 .. Len(answers) /\ DOMAIN answers' = 1 .. Len(answers) + 1
      /\ Len(answers) \in Nat
  BY <1>3, <1>4, LenProperties
<1>6. /\ \A j \in DOMAIN answers : j \in DOMAIN answers' /\ answers'[j] = answers[j]
      /\ Len(answers) + 1 \in DOMAIN answers' /\ Len(answers) + 1 \notin DOMAIN answers
      /\ \A j \in DOMAIN answers' : j \in DOMAIN answers \/ j = Len(answers) + 1
  BY <1>4, <1>5
<1> QED
  BY <1>2, <1>4, <1>6 DEF a

\* What a route makes of the i-th request.
Handle(i) == Serve(i) \/ Refuse(i) \/ Lose(i)

\* Every route of api/users.py handles one request and leaves the page alone.
LEMMA RoutesHandle ==
    ASSUME WebProcess
    PROVE  UNCHANGED <<lists, selected, denied, clicks>> /\ \E i \in DOMAIN sent : Handle(i)
<1>1. ASSUME NEW t, NEW ops, Routes(t, ops)
      PROVE  UNCHANGED <<lists, selected, denied, clicks>> /\ \E i \in DOMAIN sent : Handle(i)
  BY <1>1 DEF Routes, Handle, pageVars
<1> QED
  BY <1>1 DEF WebProcess, PackRoutes, ClassRoutes, CommandRoutes, RoleRoutes,
     RoleCommandRoutes, UserRoutes, UserRoleRoutes

\* A new row gets an id that no row of its table has.
LEMMA NewIdFacts ==
    ASSUME TypeInv, NEW t \in Column
    PROVE  NewId(t) \in Nat /\ \A r \in RowsOf(t) : r.id # NewId(t)
<1> DEFINE S == RowsOf(t)
           ids == {r.id : r \in S}
           f == [r \in S |-> r.id]
<1>1. S \subseteq db /\ IsFiniteSet(S) /\ ids \subseteq Nat
  <2>1. S \subseteq db
    BY DEF RowsOf
  <2>2. \A r \in db : r.id \in Nat
    BY DEF TypeInv, Row
  <2> QED
    BY <2>1, <2>2, FS_Subset DEF TypeInv
<1>2. f \in Surjection(S, ids)
  BY DEF Surjection
<1>3. IsFiniteSet(ids)
  <2> HIDE DEF S, ids, f
  <2> QED
    BY <1>1, <1>2, FS_Surjection
<1>4. CASE S = {}
  BY <1>4 DEF NewId
<1>5. CASE S # {}
  <2>1. ids # {} /\ NewId(t) = Max(ids) + 1
    BY <1>5 DEF NewId
  <2>2. Max(ids) \in ids /\ \A n \in ids : n <= Max(ids)
    <3> HIDE DEF ids
    <3> QED
      BY <1>1, <1>3, <2>1, MaxFacts
  <2>3. \A n \in ids : n # Max(ids) + 1
    <3> HIDE DEF ids
    <3>1. \A m \in Nat : ~(m + 1 <= m)
      OBVIOUS
    <3>2. Max(ids) \in Nat
      BY <1>1, <2>2
    <3> QED
      BY <2>2, <3>1, <3>2
  <2> QED
    BY <1>1, <2>1, <2>2, <2>3
<1> QED
  BY <1>4, <1>5

\* A request leaves the tables what they are, and an answer to add or edit is one row.
LEMMA OutcomeFacts ==
    ASSUME TypeInv, KeyInv, NEW q \in Query, RootQuery(q), NEW o \in Outcomes(q)
    PROVE  /\ o.tables \in SUBSET Row /\ IsFiniteSet(o.tables) /\ Keys(o.tables)
           /\ o.rows \in Seq(Row)
           /\ q.op \in {"add", "edit"} => \E r \in Row : o.rows = <<r>>
<1>1. /\ db \subseteq Row /\ IsFiniteSet(db)
      /\ q.table \in Column /\ q.of \in Nat /\ q.link \in Nat /\ q.stamp \in Nat /\ q.op \in Op
  BY DEF TypeInv, Query
<1>2. CASE q.op = "load"
  <2> DEFINE S == {r \in RowsOf(q.table) : r.parent = q.of}
  <2>1. S \subseteq db /\ S \subseteq Row /\ IsFiniteSet(S)
    BY <1>1, FS_Subset DEF RowsOf
  <2>2. SetToSeq(S) \in Seq(Row)
    <3> HIDE DEF S
    <3> QED
      BY <2>1, SetToSeqFacts, SeqMonotonic
  <2>3. o.tables = db /\ o.rows = SetToSeq(S)
    BY <1>2 DEF Outcomes, Read
  <2> QED
    BY <1>1, <1>2, <2>2, <2>3 DEF KeyInv
<1>3. CASE q.op = "add"
  <2> DEFINE r == NewRow(q)
  <2>1. NewId(q.table) \in Nat /\ \A s \in RowsOf(q.table) : s.id # NewId(q.table)
    BY <1>1, NewIdFacts
  <2>2. r \in Row /\ r.table = q.table /\ r.id = NewId(q.table) /\ r.parent = q.of
    BY <1>1, <2>1 DEF NewRow, Row
  <2>3. o.tables = db \cup {r} /\ o.rows = <<r>>
    BY <1>3 DEF Outcomes, Create
  <2> HIDE DEF r
  <2>4. Keys(o.tables)
    <3>1. \A s \in db : ~(s.table = r.table /\ s.id = r.id)
      BY <2>1, <2>2 DEF RowsOf
    <3>2. r.table \notin DOMAIN Parent => r.parent = 0
      BY <1>3, <2>2 DEF RootQuery
    <3> QED
      BY <2>3, <3>1, <3>2 DEF KeyInv, Keys
  <2>5. IsFiniteSet(o.tables)
    BY <1>1, <2>3, FS_AddElement
  <2>6. <<r>> \in Seq(Row)
    BY <2>2
  <2> QED
    BY <1>1, <2>2, <2>3, <2>4, <2>5, <2>6
<1>4. CASE q.op = "edit"
  <2>1. PICK r \in Target(q) :
            o.tables = (db \ {r}) \cup {Renamed(r, q)} /\ o.rows = <<Renamed(r, q)>>
    BY <1>4 DEF Outcomes, Update
  <2> DEFINE e == Renamed(r, q)
  <2>2. r \in db /\ r \in Row
    BY <1>1, <2>1 DEF Target, RowsOf
  <2>3. e \in Row /\ e.table = r.table /\ e.id = r.id /\ e.parent = r.parent
    BY <1>1, <2>2 DEF Renamed, Row
  <2>4. o.tables = (db \ {r}) \cup {e} /\ o.rows = <<e>>
    BY <2>1
  <2> HIDE DEF e
  <2>5. Keys(o.tables)
    BY <2>2, <2>3, <2>4 DEF KeyInv, Keys
  <2>6. IsFiniteSet(o.tables)
    <3>1. IsFiniteSet(db \ {r})
      BY <1>1, FS_RemoveElement
    <3> QED
      BY <2>4, <3>1, FS_AddElement
  <2>7. <<e>> \in Seq(Row)
    BY <2>3
  <2> QED
    BY <1>1, <2>3, <2>4, <2>5, <2>6, <2>7
<1>5. CASE q.op = "delete"
  <2>1. PICK r \in Target(q) : o.tables = db \ Cascade({r}) /\ o.rows = <<>>
    <3>1. o \in Destroy(q)
      BY <1>5 DEF Outcomes
    <3>2. PICK r \in Target(q) : o = [tables |-> db \ Cascade({r}), rows |-> <<>>]
      BY <3>1, Zenon DEF Destroy
    <3> QED
      BY <3>2
  <2>2. o.tables \subseteq db /\ IsFiniteSet(o.tables)
    <3> DEFINE gone == Cascade({r})
    <3>1. o.tables \subseteq db
      <4>1. o.tables = db \ gone
        BY <2>1
      <4> HIDE DEF gone
      <4> QED
        BY <4>1
    <3> QED
      BY <1>1, <3>1, FS_Subset
  <2>3. <<>> \in Seq(Row)
    OBVIOUS
  <2> QED
    BY <1>1, <1>5, <2>1, <2>2, <2>3 DEF KeyInv, Keys
<1> QED
  BY <1>1, <1>2, <1>3, <1>4, <1>5 DEF Op

\* What a route does to the tables, and that they stay what they are.
LEMMA HandleTables ==
    ASSUME TypeInv, KeyInv, NEW i \in DOMAIN sent, Handle(i)
    PROVE  /\ db' \in SUBSET Row /\ IsFiniteSet(db') /\ KeyInv'
           /\ stray' \in SUBSET Query /\ \A q \in stray' : RootQuery(q) /\ q.op # "load"
           /\ behind' \subseteq Column
           /\ \E ok \in BOOLEAN, rows \in Seq(Row) :
                 /\ Answer(i, ok, rows)
                 /\ ok /\ sent[i].op \in {"add", "edit"} => \E r \in Row : rows = <<r>>
<1>1. sent[i] \in Query /\ RootQuery(sent[i]) /\ <<>> \in Seq(Row)
  BY ElementOfSeq, LenProperties DEF TypeInv
<1>2. CASE Serve(i)
  <2>1. PICK o \in Outcomes(sent[i]) :
            db' = o.tables /\ Answer(i, TRUE, o.rows) /\ stray' = stray /\ behind' \subseteq behind
    BY <1>2 DEF Serve
  <2>2. /\ o.tables \in SUBSET Row /\ IsFiniteSet(o.tables) /\ Keys(o.tables)
        /\ o.rows \in Seq(Row)
        /\ sent[i].op \in {"add", "edit"} => \E r \in Row : o.rows = <<r>>
    BY <1>1, OutcomeFacts
  <2> QED
    BY <2>1, <2>2 DEF TypeInv, KeyInv
<1>3. CASE Refuse(i)
  BY <1>1, <1>3 DEF Refuse, tableVars, TypeInv, KeyInv
<1>4. CASE Lose(i)
  BY <1>1, <1>4 DEF Lose, TypeInv, KeyInv
<1> QED
  BY <1>2, <1>3, <1>4 DEF Handle

\* The routes keep the types, and no two rows of a table get one key.
LEMMA RouteTypes == ASSUME TypeInv, KeyInv, WebProcess PROVE TypeInv' /\ KeyInv'
<1>1. UNCHANGED <<lists, selected, denied, clicks>>
  BY RoutesHandle
<1>2. PICK i \in DOMAIN sent : Handle(i)
  BY RoutesHandle
<1>3. /\ db' \in SUBSET Row /\ IsFiniteSet(db') /\ KeyInv'
      /\ stray' \in SUBSET Query /\ \A q \in stray' : RootQuery(q) /\ q.op # "load"
      /\ behind' \subseteq Column
  BY <1>2, HandleTables
<1>4. PICK ok \in BOOLEAN, rows \in Seq(Row) :
          /\ Answer(i, ok, rows)
          /\ ok /\ sent[i].op \in {"add", "edit"} => \E r \in Row : rows = <<r>>
  BY <1>2, HandleTables
<1>5. /\ sent' \in Seq(Query) /\ answers' \in Seq(Reply)
      /\ \A j \in DOMAIN sent' : \E k \in DOMAIN sent : sent'[j] = sent[k]
      /\ \A j \in DOMAIN answers : answers'[j] = answers[j]
      /\ \A j \in DOMAIN answers' : j \in DOMAIN answers \/ j = Len(answers) + 1
      /\ answers'[Len(answers) + 1] = [request |-> sent[i], ok |-> ok, rows |-> rows]
  BY <1>4, AnswerFacts
<1>6. \A j \in DOMAIN sent' : RootQuery(sent'[j])
  BY <1>5 DEF TypeInv
<1>7. ASSUME NEW j \in DOMAIN answers',
             answers'[j].ok, answers'[j].request.op \in {"add", "edit"}
      PROVE  \E r \in Row : answers'[j].rows = <<r>>
  <2>1. CASE j \in DOMAIN answers
    BY <1>5, <1>7, <2>1 DEF TypeInv
  <2>2. CASE j = Len(answers) + 1
    BY <1>4, <1>5, <1>7, <2>2
  <2> QED
    BY <1>5, <2>1, <2>2
<1> QED
  BY <1>1, <1>3, <1>5, <1>6, <1>7 DEF TypeInv

\* So does a request that is carried out after the page was told it failed.
LEMMA StrayTypes == ASSUME TypeInv, KeyInv, CarryOut PROVE TypeInv' /\ KeyInv'
<1>1. PICK q \in stray : \E o \in Outcomes(q) :
          /\ db' = o.tables /\ stray' = stray \ {q}
          /\ behind' = behind \cup {q.table} \cup (Emptied[q.table] \cap Column)
          /\ UNCHANGED <<lists, selected, denied, sent, answers, clicks>>
  BY DEF CarryOut, pageVars
<1>2. q \in Query /\ RootQuery(q) /\ q.table \in Column
  BY DEF TypeInv, Query
<1>3. db' \in SUBSET Row /\ IsFiniteSet(db') /\ Keys(db')
  BY <1>1, <1>2, OutcomeFacts
<1> QED
  BY <1>1, <1>2, <1>3 DEF TypeInv, KeyInv

-----------------------------------------------------------------------------
(* Answers.                                                                *)

\* What deleteX leaves of the lists l and of the selection s.
Filtered(l, s, t) ==
    [u \in Column |-> IF u = t /\ l[t] # <<>> THEN Without(l[t], s[t].id)
                      ELSE IF u \in Emptied[t] THEN <<>> ELSE l[u]]

Unpicked(s, t) == [u \in Column |-> IF u \in Deselected[t] THEN NoRow ELSE s[u]]

\* The lists l and the selection s when the good answer a has been received.
ListsAfter(l, s, a) ==
    LET t == a.request.table
    IN  CASE a.request.op = "load" -> [l EXCEPT ![t] = a.rows]
          [] a.request.op = "add" -> [l EXCEPT ![t] = Append(@, a.rows[1])]
          [] a.request.op = "edit" -> [l EXCEPT ![t] = Replace(@, a.rows[1])]
          [] a.request.op = "delete" -> Filtered(l, s, t)

SelectedAfter(s, a) ==
    LET t == a.request.table
    IN  CASE a.request.op = "edit" -> [s EXCEPT ![t] = a.rows[1]]
          [] a.request.op = "delete" -> Unpicked(s, t)
          [] OTHER -> s

\* What the arrival of the i-th answer does.
Take(i) ==
    /\ i \in DOMAIN answers
    /\ answers' = RemoveAt(answers, i)
    /\ UNCHANGED <<tableVars, sent, clicks>>
    /\ \/ /\ ~answers[i].ok
          /\ denied' = denied \cup {t \in {answers[i].request.table} :
                                      answers[i].request.op = "load"}
          /\ UNCHANGED <<lists, selected>>
       \/ /\ answers[i].ok
          /\ denied' = denied \ Refreshed(answers[i].request)
          /\ \/ /\ lists' = ListsAfter(lists, selected, answers[i])
                /\ selected' = SelectedAfter(selected, answers[i])
             \/ /\ answers[i].request.op = "delete"
                /\ selected[answers[i].request.table] = NoRow
                /\ UNCHANGED <<lists, selected>>

\* What the functions of the script do is what Take says.
LEMMA ReceiveTakes == ASSUME Receive PROVE \E i \in DOMAIN answers : Take(i)
<1>1. PICK i \in DOMAIN answers :
        /\ \/ /\ ~answers[i].ok
              /\ denied' = denied \cup {t \in {answers[i].request.table} :
                                          answers[i].request.op = "load"}
              /\ UNCHANGED <<lists, selected>>
           \/ /\ answers[i].ok
              /\ denied' = denied \ Refreshed(answers[i].request)
              /\ \/ answers[i].request.op = "load"
                    /\ LoadDone(answers[i].request.table, answers[i])
                 \/ answers[i].request.op = "add"
                    /\ AddDone(answers[i].request.table, answers[i])
                 \/ answers[i].request.op = "edit"
                    /\ EditDone(answers[i].request.table, answers[i])
                 \/ answers[i].request.op = "delete"
                    /\ DeleteDone(answers[i].request.table, answers[i])
        /\ answers' = RemoveAt(answers, i)
        /\ UNCHANGED <<tableVars, sent, clicks>>
  BY DEF Receive
<1> DEFINE a == answers[i]
           t == a.request.table
<1>2. i \in DOMAIN answers
  BY <1>1
<1>3. CASE a.request.op = "load" /\ LoadDone(t, a)
  <2>1. lists' = ListsAfter(lists, selected, a) /\ selected' = SelectedAfter(selected, a)
    BY <1>3 DEF LoadDone, ListsAfter, SelectedAfter
  <2> QED
    BY <1>1, <1>2, <2>1 DEF Take
<1>4. CASE a.request.op = "add" /\ AddDone(t, a)
  <2>1. lists' = ListsAfter(lists, selected, a) /\ selected' = SelectedAfter(selected, a)
    BY <1>4 DEF AddDone, ListsAfter, SelectedAfter
  <2> QED
    BY <1>1, <1>2, <2>1 DEF Take
<1>5. CASE a.request.op = "edit" /\ EditDone(t, a)
  <2>1. lists' = ListsAfter(lists, selected, a) /\ selected' = SelectedAfter(selected, a)
    BY <1>5 DEF EditDone, ListsAfter, SelectedAfter
  <2> QED
    BY <1>1, <1>2, <2>1 DEF Take
<1>6. CASE a.request.op = "delete" /\ DeleteDone(t, a)
  <2>1. \/ lists' = ListsAfter(lists, selected, a) /\ selected' = SelectedAfter(selected, a)
        \/ selected[t] = NoRow /\ UNCHANGED <<lists, selected>>
    BY <1>6 DEF DeleteDone, ListsAfter, SelectedAfter, Filtered, Unpicked
  <2> QED
    BY <1>1, <1>2, <1>6, <2>1 DEF Take
<1>7. CASE ~a.ok
  BY <1>1, <1>2, <1>7 DEF Take
<1> QED
  BY <1>1, <1>3, <1>4, <1>5, <1>6, <1>7

\* No id is listed twice.
Single(s) == \A i, j \in DOMAIN s : s[i].id = s[j].id => i = j

\* The row that findIndex() finds is the only one with its id if no id is listed twice.
LEMMA ReplaceFacts ==
    ASSUME NEW s \in Seq(Row), NEW r \in Row
    PROVE  /\ Replace(s, r) \in Seq(Row) /\ DOMAIN Replace(s, r) = DOMAIN s
           /\ \A i \in DOMAIN s : Replace(s, r)[i].id = s[i].id
           /\ Single(s) =>
                 \A i \in DOMAIN s : Replace(s, r)[i] = IF s[i].id = r.id THEN r ELSE s[i]
<1>1. Len(s) \in Nat /\ DOMAIN s = 1 .. Len(s) /\ \A i \in 1 .. Len(s) : s[i] \in Row
  BY LenProperties, ElementOfSeq
<1>2. Replace(s, r) \in [1 .. Len(s) -> Row]
  BY <1>1 DEF Replace
<1>3. \A i \in DOMAIN s : Replace(s, r)[i].id = s[i].id
  BY <1>1 DEF Replace
<1>4. ASSUME Single(s), NEW i \in DOMAIN s
      PROVE  Replace(s, r)[i] = IF s[i].id = r.id THEN r ELSE s[i]
  <2>1. \A j \in 1 .. i - 1 : j \in DOMAIN s /\ j # i
    BY <1>1
  <2>2. s[i].id = r.id => \A j \in 1 .. i - 1 : s[j].id # r.id
    BY <1>4, <2>1 DEF Single
  <2> QED
    BY <2>2 DEF Replace
<1> QED
  BY <1>1, <1>2, <1>3, <1>4

\* Replace brings the row in, if there is one with its id, and no other.
LEMMA ReplaceRange ==
    ASSUME NEW s \in Seq(Row), NEW r \in Row, \E i \in DOMAIN s : s[i].id = r.id
    PROVE  Range(Replace(s, r)) \subseteq Range(s) \cup {r} /\ r \in Range(Replace(s, r))
<1> DEFINE with == {i \in DOMAIN s : s[i].id = r.id}
<1>1. Len(s) \in Nat /\ DOMAIN s = 1 .. Len(s) /\ DOMAIN Replace(s, r) = DOMAIN s
  BY LenProperties DEF Replace
<1>2. PICK i \in with : \A j \in with : i <= j
  <2>1. with \subseteq Nat /\ with # {}
    BY <1>1
  <2> HIDE DEF with
  <2> QED
    BY <2>1, LeastNumber
<1>3. Replace(s, r)[i] = r
  <2>1. \A j \in 1 .. i - 1 : j \in DOMAIN s /\ ~(i <= j)
    BY <1>1, <1>2
  <2>2. \A j \in 1 .. i - 1 : s[j].id # r.id
    BY <1>2, <2>1
  <2> QED
    BY <1>2, <2>2 DEF Replace
<1>4. \A j \in DOMAIN s : Replace(s, r)[j] \in {s[j], r}
  BY DEF Replace
<1> QED
  BY <1>1, <1>2, <1>3, <1>4 DEF Range

\* The lists and the selection are of their types after an answer.
LEMMA AfterTypes ==
    ASSUME TypeInv, NEW i \in DOMAIN answers, answers[i].ok
    PROVE  /\ ListsAfter(lists, selected, answers[i]) \in [Column -> Seq(Row)]
           /\ SelectedAfter(selected, answers[i]) \in [Column -> Row \cup {NoRow}]
<1> DEFINE a == answers[i]
           t == a.request.table
<1>1. a \in Reply /\ a.request.op \in Op /\ t \in Column /\ a.rows \in Seq(Row)
  <2>1. a \in Reply
    BY ElementOfSeq, LenProperties DEF TypeInv
  <2> QED
    BY <2>1 DEF Reply, Query
<1>2. /\ lists \in [Column -> Seq(Row)] /\ lists[t] \in Seq(Row)
      /\ selected \in [Column -> Row \cup {NoRow}]
  BY <1>1 DEF TypeInv
<1>3. CASE a.request.op = "load"
  BY <1>1, <1>2, <1>3 DEF ListsAfter, SelectedAfter
<1>4. CASE a.request.op = "add"
  <2>1. a.rows[1] \in Row
    BY <1>4 DEF TypeInv
  <2>2. Append(lists[t], a.rows[1]) \in Seq(Row)
    BY <1>2, <2>1, AppendFacts
  <2> QED
    BY <1>1, <1>2, <1>4, <2>2 DEF ListsAfter, SelectedAfter
<1>5. CASE a.request.op = "edit"
  <2>1. a.rows[1] \in Row
    BY <1>5 DEF TypeInv
  <2>2. Replace(lists[t], a.rows[1]) \in Seq(Row)
    BY <1>2, <2>1, ReplaceFacts
  <2> QED
    BY <1>1, <1>2, <1>5, <2>1, <2>2 DEF ListsAfter, SelectedAfter
<1>6. CASE a.request.op = "delete"
  <2>1. Without(lists[t], selected[t].id) \in Seq(Row)
    BY <1>2, WithoutFacts
  <2>2. <<>> \in Seq(Row)
    OBVIOUS
  <2>3. ListsAfter(lists, selected, a) = [u \in Column |-> IF u = t /\ lists[t] # <<>>
                                         THEN Without(lists[t], selected[t].id)
                                         ELSE IF u \in Emptied[t] THEN <<>> ELSE lists[u]]
    BY <1>6 DEF ListsAfter, Filtered
  <2>4. SelectedAfter(selected, a) =
            [u \in Column |-> IF u \in Deselected[t] THEN NoRow ELSE selected[u]]
    BY <1>6 DEF SelectedAfter, Unpicked
  <2>5. ListsAfter(lists, selected, a) \in [Column -> Seq(Row)]
    BY <1>2, <2>1, <2>2, <2>3
  <2>6. SelectedAfter(selected, a) \in [Column -> Row \cup {NoRow}]
    BY <1>2, <2>4
  <2> QED
    BY <2>5, <2>6
<1> QED
  BY <1>1, <1>3, <1>4, <1>5, <1>6 DEF Op

\* The arrival of an answer keeps the types.
LEMMA TakeTypes == ASSUME TypeInv, NEW i, Take(i) PROVE TypeInv'
<1>1. i \in DOMAIN answers /\ i \in 1 .. Len(answers) /\ answers \in Seq(Reply)
      /\ answers' = RemoveAt(answers, i)
  BY LenProperties DEF Take, TypeInv
<1>2. answers' \in Seq(Reply)
  BY <1>1, RemoveAtFacts
<1>3. \A j \in DOMAIN answers' : \E k \in DOMAIN answers : answers'[j] = answers[k]
  BY <1>1, RemoveAtKeeps
<1>4. \A j \in DOMAIN answers' :
          answers'[j].ok /\ answers'[j].request.op \in {"add", "edit"}
              => \E r \in Row : answers'[j].rows = <<r>>
  BY <1>3 DEF TypeInv
<1>5. answers[i].request.table \in Column
  <2>1. answers[i] \in Reply
    BY <1>1, ElementOfSeq
  <2> QED
    BY <2>1 DEF Reply, Query
<1>6. denied' \subseteq Column
  BY <1>5 DEF Take, TypeInv
<1>7. lists' \in [Column -> Seq(Row)] /\ selected' \in [Column -> Row \cup {NoRow}]
  <2>1. CASE UNCHANGED <<lists, selected>>
    BY <2>1 DEF TypeInv
  <2>2. CASE /\ answers[i].ok
             /\ lists' = ListsAfter(lists, selected, answers[i])
             /\ selected' = SelectedAfter(selected, answers[i])
    BY <1>1, <2>2, AfterTypes
  <2> QED
    BY <2>1, <2>2 DEF Take
<1>8. UNCHANGED <<tableVars, sent, clicks>>
  BY DEF Take
<1> QED
  BY <1>2, <1>4, <1>6, <1>7, <1>8 DEF TypeInv, tableVars

\* Whatever the user waits for and whatever overtakes what, no two rows of a table
\* share a key, and what is listed, selected and on its way is of its type.
LEMMA NextTypes == ASSUME TypeInv, KeyInv, [Next]_vars PROVE TypeInv' /\ KeyInv'
<1>1. ASSUME NEW t \in Column, Select(t) PROVE TypeInv' /\ KeyInv'
  BY <1>1, SelectTypes DEF Select, KeyInv, tableVars
<1>2. ASSUME NEW t \in Column, Add(t) \/ Edit(t) \/ Delete(t) PROVE TypeInv' /\ KeyInv'
  <2>1. UNCHANGED db
    BY <1>2 DEF Add, Edit, Delete, Command, tableVars
  <2> QED
    BY <1>2, <2>1, CommandTypes DEF KeyInv
<1>3. CASE WebProcess
  BY <1>3, RouteTypes
<1>4. CASE CarryOut
  BY <1>4, StrayTypes
<1>5. CASE Receive
  BY <1>5, ReceiveTakes, TakeTypes DEF Take, KeyInv, tableVars
<1>6. CASE UNCHANGED vars
  BY <1>6 DEF vars, tableVars, pageVars, TypeInv, KeyInv
<1> QED
  BY <1>1, <1>2, <1>3, <1>4, <1>5, <1>6 DEF Next, Click

\* For every user and any order of answers: what is listed, selected and open is of
\* its type, and the primary keys of the tables are kept.
THEOREM TypesSafe == Spec => [](TypeInv /\ KeyInv)
<1>1. Init => TypeInv /\ KeyInv
  BY InitTypes
<1>2. TypeInv /\ KeyInv /\ [Next]_vars => TypeInv' /\ KeyInv'
  BY NextTypes
<1> QED
  BY <1>1, <1>2, PTL DEF Spec

\* The variables have their types (the page, the requests and the tables).
THEOREM TypeCorrect == Spec => []TypeOK
<1>1. TypeInv => TypeOK
  <2> SUFFICES ASSUME TypeInv PROVE TypeOK
    OBVIOUS
  <2>1. \A q \in Range(sent) : q.op \in Op /\ q.table \in Column
    <3>1. Range(sent) \subseteq Query
      BY RangeOfSeq DEF TypeInv
    <3> QED
      BY <3>1 DEF Query
  <2>2. \A a \in Range(answers) : a.request.op \in Op /\ a.request.table \in Column
    <3>1. Range(answers) \subseteq Reply
      BY RangeOfSeq DEF TypeInv
    <3> QED
      BY <3>1 DEF Reply, Query
  <2>3. \A q \in Open : q.op \in Op /\ q.table \in Column
    BY <2>1, <2>2 DEF Open
  <2>4. \A q \in stray : q.op \in Op \ {"load"} /\ q.table \in Column
    BY DEF TypeInv, Query
  <2> QED
    BY <2>3, <2>4 DEF TypeOK, TypeInv
<1> QED
  BY <1>1, TypesSafe, PTL

-----------------------------------------------------------------------------
(* The page and the tables: what each operation does to both. Tables d,    *)
(* lists l and selection s are parameters, so that the page can be looked  *)
(* at before and after an answer; the columns of x need not be up to date, *)
(* and those of y may show rows that are gone.                             *)

PageTypes(d, l, s) == /\ d \subseteq Row
                      /\ \A r, e \in d : r.table = e.table /\ r.id = e.id => r = e
                      /\ l \in [Column -> Seq(Row)]
                      /\ s \in [Column -> Row \cup {NoRow}]

Belongs(r, s) == r.table \in DOMAIN Parent =>
    s[Parent[r.table]] # NoRow /\ r.parent = s[Parent[r.table]].id

\* Each list has rows of its column only.
InColumn(l) == \A t \in Column : \A r \in Range(l[t]) : r.table = t

\* What parents are selected from is there, and listed once.
Shown(d, l, y) == \A t \in (Column \cap Range(Parent)) \ y :
    Range(l[t]) \subseteq d /\ IsInjective(l[t])

\* The rows listed for t belong to the selection, and none that does is missing; only
\* a list of links may have rows that are gone, or a row twice.
Fits(d, s, t, rows) == /\ \A r \in Range(rows) : Belongs(r, s)
                       /\ \A r \in d : r.table = t /\ Belongs(r, s) => r \in Range(rows)
                       /\ t \notin DOMAIN Link => Range(rows) \subseteq d /\ IsInjective(rows)

Agrees(d, l, s, x) == \A t \in Column \ x : Fits(d, s, t, l[t])

\* What is selected is shown.
Picked(l, s) == \A t \in Column \cap Range(Parent) : s[t] # NoRow => s[t] \in Range(l[t])

PageIn(d, l, s, x, y) ==
    InColumn(l) /\ Shown(d, l, y) /\ Agrees(d, l, s, x) /\ Picked(l, s)

\* A row made for what is selected, under a new id, is pushed.
LEMMA PageAdd ==
    ASSUME NEW d, NEW l, NEW s, NEW x, NEW y,
           PageTypes(d, l, s), PageIn(d, l, s, x, y),
           NEW r \in Row, Belongs(r, s), \A e \in d : e.table = r.table => e.id # r.id
    PROVE  PageIn(d \cup {r}, [l EXCEPT ![r.table] = Append(@, r)], s, x, y)
<1> DEFINE t == r.table
           m == [l EXCEPT ![t] = Append(@, r)]
<1>1. t \in Column /\ DOMAIN l = Column /\ l[t] \in Seq(Row)
  BY DEF Row, PageTypes
<1>2. /\ Range(m[t]) = Range(l[t]) \cup {r}
      /\ IsInjective(l[t]) /\ r \notin Range(l[t]) => IsInjective(m[t])
  BY <1>1, AppendFacts
<1>3. \A u \in Column : u # t => m[u] = l[u]
  BY <1>1
<1>4. r \notin d
  OBVIOUS
<1> HIDE DEF m
<1>5. InColumn(m)
  BY <1>2, <1>3 DEF InColumn, PageIn
<1>6. Shown(d \cup {r}, m, y)
  <2>1. ASSUME NEW u \in (Column \cap Range(Parent)) \ y
        PROVE  Range(m[u]) \subseteq d \cup {r} /\ IsInjective(m[u])
    <3>1. Range(l[u]) \subseteq d /\ IsInjective(l[u])
      BY DEF Shown, PageIn
    <3> QED
      BY <1>2, <1>3, <1>4, <3>1
  <2> QED
    BY <2>1 DEF Shown
<1>7. Picked(m, s)
  BY <1>2, <1>3 DEF Picked, PageIn
<1>8. ASSUME NEW u \in Column \ x PROVE Fits(d \cup {r}, s, u, m[u])
  <2>1. Fits(d, s, u, l[u])
    BY DEF Agrees, PageIn
  <2> QED
    BY <1>2, <1>3, <1>4, <2>1 DEF Fits
<1>9. Agrees(d \cup {r}, m, s, x)
  BY <1>8 DEF Agrees
<1> QED
  BY <1>5, <1>6, <1>7, <1>9 DEF PageIn, m

\* The selected row is renamed in the table, in the list and in the selection. In a
\* column of y the list may show other rows, but one with the id of the selected.
LEMMA PageEdit ==
    ASSUME NEW d, NEW l, NEW s, NEW x, NEW y,
           PageTypes(d, l, s), PageIn(d, l, s, x, y), y \subseteq x,
           NEW t \in Column \cap Editable, s[t] # NoRow,
           NEW r \in d, r.table = t, r.id = s[t].id,
           NEW e \in Row, e.table = t, e.id = r.id, e.parent = r.parent
    PROVE  PageIn((d \ {r}) \cup {e}, [l EXCEPT ![t] = Replace(@, e)],
                  [s EXCEPT ![t] = e], x, y)
<1> DEFINE c == (d \ {r}) \cup {e}
           m == [l EXCEPT ![t] = Replace(@, e)]
           p == [s EXCEPT ![t] = e]
<1>1. /\ t \in {"packs", "roles", "users"} /\ t \in Column
      /\ t \in Range(Parent) /\ t \notin DOMAIN Parent /\ t \notin DOMAIN Link
      /\ DOMAIN l = Column /\ l[t] \in Seq(Row) /\ DOMAIN s = Column
  BY ColumnFacts DEF Editable, PageTypes
<1>2. /\ m[t] = Replace(l[t], e) /\ p[t] = e /\ e # NoRow
      /\ \A u \in Column : u # t => m[u] = l[u] /\ p[u] = s[u]
  BY <1>1, UsersPageAssumption
<1>3. s[t] \in Range(l[t]) /\ \A a \in Range(l[t]) : a.table = t
  BY <1>1 DEF PageIn, Picked, InColumn
<1> HIDE DEF m, p
<1>4. Range(m[t]) \subseteq Range(l[t]) \cup {e} /\ e \in Range(m[t])
  <2>1. \E i \in DOMAIN l[t] : l[t][i].id = e.id
    BY <1>3 DEF Range
  <2> QED
    BY <1>1, <1>2, <2>1, ReplaceRange
<1>5. ASSUME t \notin y
      PROVE  /\ Range(m[t]) = (Range(l[t]) \ {r}) \cup {e} /\ Range(l[t]) \subseteq d
             /\ IsInjective(m[t])
  <2>1. Range(l[t]) \subseteq d /\ IsInjective(l[t])
    BY <1>1, <1>5 DEF PageIn, Shown
  <2>2. \A i \in DOMAIN l[t] : l[t][i] \in Range(l[t])
    BY DEF Range
  <2>3. \A i, j \in DOMAIN l[t] : l[t][i].id = l[t][j].id => l[t][i] = l[t][j]
    BY <1>3, <2>1, <2>2 DEF PageTypes
  <2>4. Single(l[t])
    BY <2>1, <2>3 DEF Single, IsInjective
  <2>5. /\ DOMAIN m[t] = DOMAIN l[t]
        /\ \A i \in DOMAIN l[t] : m[t][i] = IF l[t][i].id = r.id THEN e ELSE l[t][i]
    BY <1>1, <1>2, <2>4, ReplaceFacts
  <2>6. r \in Range(l[t])
    BY <1>3, <2>1 DEF PageTypes
  <2>7. \A i \in DOMAIN l[t] : l[t][i].id = r.id <=> l[t][i] = r
    BY <1>3, <2>1, <2>2 DEF PageTypes
  <2>8. Range(m[t]) = (Range(l[t]) \ {r}) \cup {e}
    <3>1. Range(m[t]) = {m[t][i] : i \in DOMAIN l[t]}
      BY <2>5 DEF Range
    <3>2. PICK k \in DOMAIN l[t] : l[t][k] = r
      BY <2>6 DEF Range
    <3>3. \A i \in DOMAIN l[t] : m[t][i] = IF l[t][i] = r THEN e ELSE l[t][i]
      BY <2>5, <2>7
    <3> QED
      BY <3>1, <3>2, <3>3 DEF Range
  <2>9. IsInjective(m[t])
    <3>1. \A i, j \in DOMAIN l[t] : l[t][i] = l[t][j] => i = j
      BY <2>1 DEF IsInjective
    <3>2. \A i, j \in DOMAIN l[t] : m[t][i] = m[t][j] => i = j
      BY <2>3, <2>5, <3>1
    <3> QED
      BY <2>5, <3>2 DEF IsInjective
  <2> QED
    BY <2>1, <2>8, <2>9
<1>6. \A a \in Row : Belongs(a, p) <=> Belongs(a, s)
  <2>1. \A u \in Column : (s[u] # NoRow <=> p[u] # NoRow) /\ (s[u] # NoRow => p[u].id = s[u].id)
    BY <1>2
  <2>2. \A a \in Row : a.table \in DOMAIN Parent => Parent[a.table] \in Column
    BY ColumnFacts DEF Row
  <2> QED
    BY <2>1, <2>2 DEF Belongs
<1>7. \A a \in c : a \in Row /\ (a.table # t => a \in d /\ a # e)
  BY DEF PageTypes
<1>8. \A u \in Column : Range(l[u]) \subseteq Row /\ \A a \in Range(l[u]) : a.table = u
  BY RangeOfSeq DEF PageTypes, PageIn, InColumn
<1>9. InColumn(m)
  BY <1>2, <1>4 DEF InColumn, PageIn
<1>10. Shown(c, m, y)
  <2>1. ASSUME NEW u \in (Column \cap Range(Parent)) \ y, u # t
        PROVE  Range(m[u]) \subseteq c /\ IsInjective(m[u])
    BY <1>2, <1>8, <2>1 DEF PageIn, Shown
  <2>2. t \notin y => Range(m[t]) \subseteq c /\ IsInjective(m[t])
    BY <1>5
  <2> QED
    BY <2>1, <2>2 DEF Shown
<1>11. Picked(m, p)
  BY <1>2, <1>4 DEF PageIn, Picked
<1>12. ASSUME NEW u \in Column \ x PROVE Fits(c, p, u, m[u])
  <2>1. Fits(d, s, u, l[u])
    BY DEF Agrees, PageIn
  <2>2. CASE u # t
    <3>1. m[u] = l[u] /\ \A a \in Range(l[u]) : a # r
      BY <1>2, <1>8, <2>2
    <3>2. \A a \in c : a.table = u => a \in d /\ a \in Row
      BY <1>7, <2>2
    <3>3. \A a \in Range(l[u]) : a \in Row
      BY <1>8
    <3> QED
      BY <1>6, <2>1, <3>1, <3>2, <3>3 DEF Fits
  <2>3. CASE u = t
    <3>1. \A a \in Row : a.table = t => Belongs(a, p) /\ Belongs(a, s)
      BY <1>1 DEF Belongs
    <3>2. t \notin y
      BY <2>3
    <3>3. /\ Range(m[t]) = (Range(l[t]) \ {r}) \cup {e} /\ Range(l[t]) \subseteq d
          /\ IsInjective(m[t])
      BY <1>5, <3>2
    <3>4. \A a \in Range(m[t]) : Belongs(a, p)
      BY <1>8, <3>1, <3>3
    <3>5. \A a \in c : a.table = t => a \in Range(m[t])
      <4>1. \A a \in d : a.table = t => a \in Range(l[t])
        BY <2>1, <2>3, <3>1 DEF Fits, PageTypes
      <4> QED
        BY <3>3, <4>1
    <3> QED
      BY <2>3, <3>3, <3>4, <3>5 DEF Fits
  <2> QED
    BY <2>2, <2>3
<1>13. Agrees(c, m, p, x)
  BY <1>12 DEF Agrees
<1> QED
  BY <1>9, <1>10, <1>11, <1>13 DEF PageIn, m, p

\* The tables that may lose rows with a row of t, besides t.
Below == [packs |-> {"classes", "commands", "roleCommands"},
          classes |-> {"commands", "roleCommands"}, commands |-> {"roleCommands"},
          roles |-> {"roleCommands", "userRoles"}, roleCommands |-> {},
          users |-> {"userRoles"}, userRoles |-> {}]

\* What deleteX empties and deselects is what a cascade reaches, except lists of links.
LEMMA ResetReaches ==
    ASSUME NEW t \in Table, NEW u \in Table
    PROVE  /\ t \in Deselected[t] /\ t \notin Emptied[t] /\ t \notin Below[t]
           /\ u \in Emptied[t] => u \in DOMAIN Parent /\ Parent[u] \in Deselected[t]
           /\ u \in DOMAIN Parent /\ Parent[u] \in Deselected[t] => u \in Emptied[t]
           /\ u \in Emptied[t] /\ u \in Range(Parent) => u \in Deselected[t]
           /\ u \in Below[t] /\ u \notin DOMAIN Link => u \in Emptied[t]
<1>1. /\ Below["packs"] = {"classes", "commands", "roleCommands"}
      /\ Below["classes"] = {"commands", "roleCommands"}
      /\ Below["commands"] = {"roleCommands"}
      /\ Below["roles"] = {"roleCommands", "userRoles"} /\ Below["roleCommands"] = {}
      /\ Below["users"] = {"userRoles"} /\ Below["userRoles"] = {}
  BY DEF Below
<1>2. CASE t = "packs"
  BY <1>1, <1>2, ColumnFacts, ResetFacts DEF Table
<1>3. CASE t = "classes"
  BY <1>1, <1>3, ColumnFacts, ResetFacts DEF Table
<1>4. CASE t = "commands"
  BY <1>1, <1>4, ColumnFacts, ResetFacts DEF Table
<1>5. CASE t = "roles"
  BY <1>1, <1>5, ColumnFacts, ResetFacts DEF Table
<1>6. CASE t = "roleCommands"
  BY <1>1, <1>6, ColumnFacts, ResetFacts DEF Table
<1>7. CASE t = "users"
  BY <1>1, <1>7, ColumnFacts, ResetFacts DEF Table
<1>8. CASE t = "userRoles"
  BY <1>1, <1>8, ColumnFacts, ResetFacts DEF Table
<1> QED
  BY <1>2, <1>3, <1>4, <1>5, <1>6, <1>7, <1>8 DEF Table

\* The selected row is deleted with what depends on it; the lists below it are emptied.
LEMMA PageDelete ==
    ASSUME NEW d, NEW l, NEW s, NEW x, NEW y,
           PageTypes(d, l, s), PageIn(d, l, s, x, y),
           NEW t \in Column, s[t] # NoRow,
           NEW r \in d, r.table = t, r.id = s[t].id,
           NEW gone, r \in gone, \A e \in gone : e = r \/ e.table \in Below[t]
    PROVE  PageIn(d \ gone, Filtered(l, s, t), Unpicked(s, t), x \ Emptied[t], y)
<1> DEFINE id == s[t].id
           m == Filtered(l, s, t)
           p == Unpicked(s, t)
<1>0. /\ m = [u \in Column |-> IF u = t /\ l[t] # <<>> THEN Without(l[t], id)
                               ELSE IF u \in Emptied[t] THEN <<>> ELSE l[u]]
      /\ p = [u \in Column |-> IF u \in Deselected[t] THEN NoRow ELSE s[u]]
      /\ r.id = id
  BY DEF Filtered, Unpicked
<1> HIDE DEF id, m, p
<1>1. /\ t \in Table /\ \A u \in Column : u \in Table /\ l[u] \in Seq(Row)
      /\ \A u \in Column : u \in DOMAIN Parent => Parent[u] \in Column
  BY ColumnFacts DEF PageTypes
<1>2. /\ t \in Deselected[t] /\ t \notin Emptied[t] /\ t \notin Below[t]
      /\ \A u \in Column :
            /\ u \in Emptied[t] => u \in DOMAIN Parent /\ Parent[u] \in Deselected[t]
            /\ u \in DOMAIN Parent /\ Parent[u] \in Deselected[t] => u \in Emptied[t]
            /\ u \in Emptied[t] /\ u \in Range(Parent) => u \in Deselected[t]
            /\ u \in Below[t] /\ u \notin DOMAIN Link => u \in Emptied[t]
  BY <1>1, ResetReaches
<1>3. /\ Range(m[t]) = {e \in Range(l[t]) : e.id # id}
      /\ IsInjective(l[t]) => IsInjective(m[t])
  <2>1. CASE l[t] # <<>>
    BY <1>0, <1>1, <2>1, WithoutFacts
  <2>2. CASE l[t] = <<>>
    <3>1. m[t] = <<>> /\ Range(<<>>) = {}
      BY <1>0, <1>2, <2>2 DEF Range
    <3> QED
      BY <2>2, <3>1
  <2> QED
    BY <2>1, <2>2
<1>4. \A u \in Column : u \in Emptied[t] => Range(m[u]) = {} /\ IsInjective(m[u])
  <2>1. \A u \in Column : u \in Emptied[t] => m[u] = <<>>
    BY <1>0, <1>2
  <2>2. Range(<<>>) = {} /\ IsInjective(<<>>)
    BY DEF Range, IsInjective
  <2> QED
    BY <2>1, <2>2
<1>5. \A u \in Column : u \notin Emptied[t] /\ u # t => m[u] = l[u]
  BY <1>0
<1>6. \A u \in Column : p[u] = IF u \in Deselected[t] THEN NoRow ELSE s[u]
  BY <1>0
<1>7. \A e \in d : e.table = t /\ e.id = id => e = r
  BY <1>0 DEF PageTypes
<1>8. InColumn(m)
  BY <1>3, <1>4, <1>5 DEF InColumn, PageIn
<1>9. \A e \in d : e.table = t => (e \in gone <=> e.id = id)
  BY <1>0, <1>2, <1>7
<1>10. \A u \in Column : u \notin Emptied[t] /\ u # t /\ u \notin DOMAIN Link =>
           \A e \in d : e.table = u => e \notin gone
  BY <1>2
<1>11. Range(Parent) \cap DOMAIN Link = {}
  BY ColumnFacts
<1>12. Shown(d \ gone, m, y)
  <2>1. ASSUME NEW u \in (Column \cap Range(Parent)) \ y
        PROVE  Range(m[u]) \subseteq d \ gone /\ IsInjective(m[u])
    <3>1. /\ Range(l[u]) \subseteq d /\ IsInjective(l[u])
          /\ \A e \in Range(l[u]) : e.table = u
      BY DEF PageIn, Shown, InColumn
    <3>2. CASE u \in Emptied[t]
      BY <1>4, <3>2
    <3>3. CASE u = t
      BY <1>3, <1>9, <3>1, <3>3
    <3>4. CASE u # t /\ u \notin Emptied[t]
      BY <1>5, <1>10, <1>11, <3>1, <3>4
    <3> QED
      BY <3>2, <3>3, <3>4
  <2> QED
    BY <2>1 DEF Shown
<1>13. Picked(m, p)
  <2>1. ASSUME NEW u \in Column \cap Range(Parent), p[u] # NoRow PROVE p[u] \in Range(m[u])
    <3>1. u \notin Deselected[t] /\ p[u] = s[u]
      BY <1>6, <2>1
    <3>2. u # t /\ u \notin Emptied[t]
      BY <1>2, <3>1
    <3> QED
      BY <1>5, <2>1, <3>1, <3>2 DEF PageIn, Picked
  <2> QED
    BY <2>1 DEF Picked
<1>14. ASSUME NEW e \in Row, e.table \notin Emptied[t]
       PROVE  Belongs(e, p) <=> Belongs(e, s)
  <2>1. e.table \in Column
    BY DEF Row
  <2>2. e.table \in DOMAIN Parent =>
           Parent[e.table] \in Column /\ Parent[e.table] \notin Deselected[t]
    BY <1>1, <1>2, <1>14, <2>1
  <2> QED
    BY <1>6, <2>2 DEF Belongs
<1>15. ASSUME NEW u \in Column \ (x \ Emptied[t]) PROVE Fits(d \ gone, p, u, m[u])
  <2>1. CASE u \in Emptied[t]
    <3>1. u \in DOMAIN Parent /\ Parent[u] \in Column /\ p[Parent[u]] = NoRow
      BY <1>1, <1>2, <1>6, <2>1
    <3>2. \A e \in d : e.table = u => ~Belongs(e, p)
      BY <3>1 DEF Belongs
    <3> QED
      BY <1>4, <2>1, <3>2 DEF Fits
  <2>2. CASE u \notin Emptied[t]
    <3>1. Fits(d, s, u, l[u])
      BY <2>2 DEF PageIn, Agrees
    <3>2. \A e \in Row : e.table = u => (Belongs(e, p) <=> Belongs(e, s))
      BY <1>14, <2>2
    <3>3. Range(l[u]) \subseteq Row /\ \A e \in Range(l[u]) : e.table = u
      BY <1>1, RangeOfSeq DEF PageIn, InColumn
    <3>4. d \subseteq Row
      BY DEF PageTypes
    <3>5. CASE u = t
      BY <1>3, <1>9, <3>1, <3>2, <3>3, <3>4, <3>5 DEF Fits
    <3>6. CASE u # t
      BY <1>5, <1>10, <2>2, <3>1, <3>2, <3>3, <3>4, <3>6 DEF Fits
    <3> QED
      BY <3>5, <3>6
  <2> QED
    BY <2>1, <2>2
<1>16. Agrees(d \ gone, m, p, x \ Emptied[t])
  BY <1>15 DEF Agrees
<1> QED
  BY <1>8, <1>12, <1>13, <1>16 DEF PageIn, m, p

\* A list that has been read is shown; what changed since, in the columns of b, it does
\* not have.
LEMMA PageLoad ==
    ASSUME NEW d, NEW l, NEW s, NEW x, NEW y, NEW b,
           PageTypes(d, l, s), PageIn(d, l, s, x, y),
           NEW t \in Column, NEW rows \in Seq(Row), \A r \in Range(rows) : r.table = t,
           t \notin b => Fits(d, s, t, rows),
           t \in Range(Parent) => s[t] = NoRow
    PROVE  PageIn(d, [l EXCEPT ![t] = rows], s, (x \ {t}) \cup b, (y \ {t}) \cup b)
<1> DEFINE m == [l EXCEPT ![t] = rows]
<1>1. m[t] = rows /\ \A u \in Column : u # t => m[u] = l[u]
  BY DEF PageTypes
<1> HIDE DEF m
<1>2. InColumn(m)
  BY <1>1 DEF PageIn, InColumn
<1>3. Shown(d, m, (y \ {t}) \cup b)
  <2>1. t \in Range(Parent) => t \notin DOMAIN Link
    BY ColumnFacts
  <2> QED
    BY <1>1, <2>1 DEF PageIn, Shown, Fits
<1>4. Picked(m, s)
  BY <1>1 DEF PageIn, Picked
<1>5. Agrees(d, m, s, (x \ {t}) \cup b)
  BY <1>1 DEF PageIn, Agrees
<1> QED
  BY <1>2, <1>3, <1>4, <1>5 DEF PageIn, m

\* The page does not learn of a change: the columns z in which rows came or went are not
\* up to date any more.
LEMMA PageStray ==
    ASSUME NEW d, NEW l, NEW s, NEW x, NEW y, PageIn(d, l, s, x, y), NEW c, NEW z,
           \A u \in Column \ z : /\ \A r \in c : r.table = u => r \in d
                                 /\ u \notin DOMAIN Link => \A r \in d : r.table = u => r \in c
    PROVE  PageIn(c, l, s, x \cup z, y \cup z)
<1>1. InColumn(l) /\ Picked(l, s)
  BY DEF PageIn
<1>2. Shown(c, l, y \cup z)
  <2>1. Range(Parent) \cap DOMAIN Link = {}
    BY ColumnFacts
  <2> QED
    BY <2>1 DEF PageIn, Shown, InColumn
<1>3. ASSUME NEW u \in Column \ (x \cup z) PROVE Fits(c, s, u, l[u])
  <2>1. Fits(d, s, u, l[u]) /\ \A r \in Range(l[u]) : r.table = u
    BY DEF PageIn, Agrees, InColumn
  <2> QED
    BY <2>1 DEF Fits
<1> QED
  BY <1>1, <1>2, <1>3 DEF PageIn, Agrees

\* A row is selected; the lists of its children wait for their rows.
LEMMA PageSelect ==
    ASSUME NEW d, NEW l, NEW s, NEW x, NEW y,
           PageTypes(d, l, s), PageIn(d, l, s, x, y),
           NEW t \in Column, NEW r \in Range(l[t]),
           NEW m \in [Column -> Seq(Row)], NEW p \in [Column -> Row \cup {NoRow}],
           p[t] = r, \A u \in Column : u # t => p[u] = s[u] \/ p[u] = NoRow,
           \A u \in Column : p[u] # s[u] /\ u # t => t = "packs" /\ u \in {"classes", "commands"},
           t = "packs" => \A u \in Column : u \in {"classes", "commands"} => p[u] = NoRow,
           \A u \in Column : m[u] = IF t = "packs" /\ u = "commands" THEN <<>> ELSE l[u]
    PROVE  PageIn(d, m, p, x \cup Children(t), y)
<1>1. Range(<<>>) = {} /\ IsInjective(<<>>)
  BY DEF Range, IsInjective
<1>2. InColumn(m)
  BY <1>1 DEF InColumn, PageIn
<1>3. Shown(d, m, y)
  BY <1>1 DEF Shown, PageIn
<1>4. Picked(m, p)
  <2>1. ASSUME NEW u \in Column \cap Range(Parent), p[u] # NoRow PROVE p[u] \in Range(m[u])
    <3>1. u # "commands" /\ m[u] = l[u]
      BY ColumnFacts
    <3>2. CASE u = t
      BY <3>1, <3>2
    <3>3. CASE u # t
      BY <2>1, <3>1, <3>3 DEF PageIn, Picked
    <3> QED
      BY <3>2, <3>3
  <2> QED
    BY <2>1 DEF Picked
<1>5. ASSUME NEW u \in Column \ (x \cup Children(t)) PROVE Fits(d, p, u, m[u])
  <2>1. Fits(d, s, u, l[u]) /\ \A e \in Range(l[u]) : e.table = u
    BY DEF PageIn, Agrees, InColumn
  <2>2. u \in DOMAIN Parent => Parent[u] # t /\ Parent[u] \in Column
    BY ColumnFacts DEF Children
  <2>3. CASE t = "packs" /\ u = "commands"
    <3>1. \A e \in d : e.table = u => ~Belongs(e, p)
      BY <2>2, <2>3, ColumnFacts DEF Belongs
    <3> QED
      BY <1>1, <2>3, <3>1 DEF Fits
  <2>4. CASE ~(t = "packs" /\ u = "commands")
    <3>1. m[u] = l[u]
      BY <2>4
    <3>2. u \in DOMAIN Parent => p[Parent[u]] = s[Parent[u]]
      BY <2>2, <2>4, ColumnFacts
    <3>3. \A e : e.table = u => (Belongs(e, p) <=> Belongs(e, s))
      BY <3>2 DEF Belongs
    <3> QED
      BY <2>1, <3>1, <3>3 DEF Fits
  <2> QED
    BY <2>3, <2>4
<1>6. Agrees(d, m, p, x \cup Children(t))
  BY <1>5 DEF Agrees
<1> QED
  BY <1>2, <1>3, <1>4, <1>6 DEF PageIn

\* A cascade reaches the row itself and rows of the tables below, nothing else.
LEMMA CascadeFacts ==
    ASSUME db \subseteq Row, NEW t \in Table, NEW r \in db, r.table = t
    PROVE  r \in Cascade({r}) /\ \A e \in Cascade({r}) : e = r \/ e.table \in Below[t]
<1> DEFINE Within(S) == r \in S /\ \A e \in S : e = r \/ e.table \in Below[t]
<1>1. ASSUME NEW u \in Table
      PROVE  /\ u \in DOMAIN Parent /\ (Parent[u] = t \/ Parent[u] \in Below[t]) => u \in Below[t]
             /\ u \in DOMAIN Link /\ (Link[u] = t \/ Link[u] \in Below[t]) => u \in Below[t]
  <2>1. /\ Below["packs"] = {"classes", "commands", "roleCommands"}
        /\ Below["classes"] = {"commands", "roleCommands"}
        /\ Below["commands"] = {"roleCommands"}
        /\ Below["roles"] = {"roleCommands", "userRoles"} /\ Below["roleCommands"] = {}
        /\ Below["users"] = {"userRoles"} /\ Below["userRoles"] = {}
    BY DEF Below
  <2>2. CASE u \in {"classes", "commands"}
    BY <2>1, <2>2, ColumnFacts DEF Table
  <2>3. CASE u = "roleCommands"
    BY <2>1, <2>3, ColumnFacts DEF Table
  <2>4. CASE u = "userRoles"
    BY <2>1, <2>4, ColumnFacts DEF Table
  <2>5. CASE u \in {"packs", "roles", "users"}
    BY <2>5, ColumnFacts
  <2> QED
    BY <2>2, <2>3, <2>4, <2>5 DEF Table
<1>2. \A e \in db : e.table \in Table
  BY ColumnFacts DEF Row
<1>3. ASSUME NEW S, Within(S) PROVE Within(WithDependents(S))
  <2>1. ASSUME NEW e \in db, DependsOn(e, S) PROVE e.table \in Below[t]
    <3>1. PICK a \in S : \/ e.table \in DOMAIN Parent /\ a.table = Parent[e.table]
                         \/ e.table \in DOMAIN Link /\ a.table = Link[e.table]
      BY <2>1 DEF DependsOn
    <3>2. a.table = t \/ a.table \in Below[t]
      BY <1>3
    <3> QED
      BY <1>1, <1>2, <3>1, <3>2
  <2> QED
    BY <1>3, <2>1 DEF WithDependents
<1>4. Within({r})
  OBVIOUS
<1> HIDE DEF Within
<1>5. Within(Cascade({r}))
  BY <1>3, <1>4 DEF Cascade
<1> QED
  BY <1>5 DEF Within
-----------------------------------------------------------------------------
(* A patient user clicks when no request is open.                          *)

\* No two open requests are about the same column.
Distinct == /\ \A i, j \in DOMAIN sent : i # j => sent[i].table # sent[j].table
            /\ \A i, j \in DOMAIN answers :
                  i # j => answers[i].request.table # answers[j].request.table
            /\ \A i \in DOMAIN sent, j \in DOMAIN answers :
                  sent[i].table # answers[j].request.table

\* An open add, edit or delete is the only open request.
Alone == \A p, q \in Open : q.op # "load" => p = q

\* An open request is about what is selected.
Aimed(q) ==
    /\ q.op \in {"load", "add"} /\ q.table \in DOMAIN Parent
          => selected[Parent[q.table]] # NoRow /\ q.of = selected[Parent[q.table]].id
    /\ q.op = "load" /\ q.table \in Range(Parent) => selected[q.table] = NoRow
    /\ q.op \in {"edit", "delete"} => /\ selected[q.table] # NoRow
                                      /\ q.row = selected[q.table] /\ q.of = q.row.id
    /\ q.op = "edit" => q.table \in Editable

\* The columns that wait for their list.
Loading == {t \in Column : \E q \in Open : q.op = "load" /\ q.table = t}

\* The columns whose list is on its way.
Arriving == {t \in Column : \E i \in DOMAIN answers :
                answers[i].ok /\ answers[i].request.op = "load" /\ answers[i].request.table = t}

\* A list on its way is up to date, if its column is not spoiled.
LoadTrue(a) == a.ok /\ a.request.op = "load" =>
    /\ \A r \in Range(a.rows) : r.table = a.request.table
    /\ a.request.table \notin behind => Fits(db, selected, a.request.table, a.rows)

\* The tables have changed, and with the answer the page will.
PageThen(a) == a.ok /\ a.request.op # "load" =>
    PageIn(db, ListsAfter(lists, selected, a), SelectedAfter(selected, a),
           (denied \ Refreshed(a.request)) \cup behind, behind)

\* The tables are what the page has been told, but for the columns that are spoiled.
PageNow == (\A i \in DOMAIN answers : answers[i].ok => answers[i].request.op = "load")
               => PageIn(db, lists, selected, denied \cup behind \cup Loading,
                         behind \cup Arriving)

\* Between two clicks of a patient user.
PatientInv == /\ Distinct /\ Alone
              /\ \A q \in Open : Aimed(q)
              /\ \A i \in DOMAIN answers : LoadTrue(answers[i]) /\ PageThen(answers[i])
              /\ PageNow

\* Where the open requests are, and that there is one of a column.
LEMMA OpenFacts ==
    ASSUME TypeInv, Distinct
    PROVE  /\ Open \subseteq Query
           /\ \A i \in DOMAIN sent : sent[i] \in Open
           /\ \A i \in DOMAIN answers : answers[i].request \in Open /\ answers[i] \in Reply
           /\ \A q \in Open : \/ \E i \in DOMAIN sent : sent[i] = q
                              \/ \E i \in DOMAIN answers : answers[i].request = q
           /\ \A p, q \in Open : p.table = q.table => p = q
<1>1. \A i \in DOMAIN sent : sent[i] \in Query
  BY ElementOfSeq, LenProperties DEF TypeInv
<1>2. \A i \in DOMAIN answers : answers[i] \in Reply
  BY ElementOfSeq, LenProperties DEF TypeInv
<1>3. \A q : q \in Open <=> \/ \E i \in DOMAIN sent : sent[i] = q
                            \/ \E i \in DOMAIN answers : answers[i].request = q
  BY DEF Open, Range
<1>4. \A i \in DOMAIN answers : answers[i].request \in Query
  BY <1>2 DEF Reply
<1>5. \A p, q \in Open : p.table = q.table => p = q
  BY <1>3 DEF Distinct
<1> QED
  BY <1>1, <1>2, <1>3, <1>4, <1>5

\* A route changes where a request is, not which are open.
LEMMA AnswerOpen ==
    ASSUME TypeInv, Distinct, NEW i \in DOMAIN sent, NEW ok \in BOOLEAN, NEW rows \in Seq(Row),
           Answer(i, ok, rows)
    PROVE  Open' = Open /\ Distinct'
<1> DEFINE n == Len(answers) + 1
<1>1. /\ \A j \in DOMAIN sent' : \E k \in DOMAIN sent : k # i /\ sent'[j] = sent[k]
      /\ \A k \in DOMAIN sent : k # i => \E j \in DOMAIN sent' : sent'[j] = sent[k]
      /\ \A j, l \in DOMAIN sent' : j # l =>
            \E k, m \in DOMAIN sent : /\ k # m /\ k # i /\ m # i
                                      /\ sent'[j] = sent[k] /\ sent'[l] = sent[m]
  <2>1. \A j \in DOMAIN sent' : \E k \in DOMAIN sent : k # i /\ sent'[j] = sent[k]
    BY AnswerFacts
  <2>2. \A k \in DOMAIN sent : k # i => \E j \in DOMAIN sent' : sent'[j] = sent[k]
    BY AnswerFacts
  <2>3. \A j, l \in DOMAIN sent' : j # l =>
            \E k, m \in DOMAIN sent : /\ k # m /\ k # i /\ m # i
                                      /\ sent'[j] = sent[k] /\ sent'[l] = sent[m]
    BY AnswerFacts
  <2> QED
    BY <2>1, <2>2, <2>3
<1>2. /\ \A j \in DOMAIN answers : j \in DOMAIN answers' /\ answers'[j] = answers[j]
      /\ n \in DOMAIN answers' /\ answers'[n].request = sent[i]
      /\ \A j \in DOMAIN answers' : j \in DOMAIN answers \/ j = n
  <2>1. \A j \in DOMAIN answers : j \in DOMAIN answers' /\ answers'[j] = answers[j]
    BY AnswerFacts
  <2>2. n \in DOMAIN answers' /\ \A j \in DOMAIN answers' : j \in DOMAIN answers \/ j = n
    BY AnswerFacts
  <2>3. answers'[n] = [request |-> sent[i], ok |-> ok, rows |-> rows]
    BY AnswerFacts
  <2> QED
    BY <2>1, <2>2, <2>3
<1> HIDE DEF n
<1>3. \A q : q \in Open <=> \/ \E j \in DOMAIN sent : sent[j] = q
                            \/ \E j \in DOMAIN answers : answers[j].request = q
  BY DEF Open, Range
<1>4. \A q : q \in Open' <=> \/ \E j \in DOMAIN sent' : sent'[j] = q
                             \/ \E j \in DOMAIN answers' : answers'[j].request = q
  BY DEF Open, Range
<1>5. ASSUME NEW q \in Open PROVE q \in Open'
  <2>1. CASE \E j \in DOMAIN sent : sent[j] = q
    BY <1>1, <1>2, <1>4, <2>1
  <2>2. CASE \E j \in DOMAIN answers : answers[j].request = q
    BY <1>2, <1>4, <2>2
  <2> QED
    BY <1>3, <2>1, <2>2
<1>6. ASSUME NEW q \in Open' PROVE q \in Open
  <2>1. CASE \E j \in DOMAIN sent' : sent'[j] = q
    BY <1>1, <1>3, <2>1
  <2>2. CASE \E j \in DOMAIN answers' : answers'[j].request = q
    BY <1>2, <1>3, <2>2
  <2> QED
    BY <1>4, <2>1, <2>2
<1>7. \A j, l \in DOMAIN sent' : j # l => sent'[j].table # sent'[l].table
  BY <1>1 DEF Distinct
<1>8. \A j, l \in DOMAIN answers' : j # l => answers'[j].request.table # answers'[l].request.table
  BY <1>2 DEF Distinct
<1>9. \A j \in DOMAIN sent', l \in DOMAIN answers' : sent'[j].table # answers'[l].request.table
  BY <1>1, <1>2 DEF Distinct
<1> QED
  BY <1>5, <1>6, <1>7, <1>8, <1>9 DEF Distinct

\* The page takes one request from those that are open.
LEMMA TakeOpen ==
    ASSUME TypeInv, Distinct, NEW i, Take(i)
    PROVE  /\ Distinct'
           /\ Open' = {q \in Open : q.table # answers[i].request.table}
           /\ \A j \in DOMAIN answers' : \E k \in DOMAIN answers : k # i /\ answers'[j] = answers[k]
           /\ \A k \in DOMAIN answers : k # i => \E j \in DOMAIN answers' : answers'[j] = answers[k]
<1>1. /\ i \in DOMAIN answers /\ i \in 1 .. Len(answers) /\ answers \in Seq(Reply)
      /\ answers' = RemoveAt(answers, i) /\ sent' = sent
  BY LenProperties DEF Take, TypeInv
<1>2. \A j \in DOMAIN answers' : \E k \in DOMAIN answers : k # i /\ answers'[j] = answers[k]
  BY <1>1, RemoveAtKeeps
<1>3. \A k \in DOMAIN answers : k # i => \E j \in DOMAIN answers' : answers'[j] = answers[k]
  BY <1>1, RemoveAtKeeps
<1>4. \A j, l \in DOMAIN answers' : j # l =>
          \E k, m \in DOMAIN answers : /\ k # m /\ k # i /\ m # i
                                       /\ answers'[j] = answers[k] /\ answers'[l] = answers[m]
  BY <1>1, RemoveAtKeeps
<1>5. \A q : q \in Open <=> \/ \E j \in DOMAIN sent : sent[j] = q
                            \/ \E j \in DOMAIN answers : answers[j].request = q
  BY DEF Open, Range
<1>6. \A q : q \in Open' <=> \/ \E j \in DOMAIN sent : sent[j] = q
                             \/ \E j \in DOMAIN answers' : answers'[j].request = q
  BY <1>1 DEF Open, Range
<1>7. ASSUME NEW q \in Open' PROVE q \in Open /\ q.table # answers[i].request.table
  <2>1. CASE \E j \in DOMAIN sent : sent[j] = q
    BY <1>1, <1>5, <2>1 DEF Distinct
  <2>2. CASE \E j \in DOMAIN answers' : answers'[j].request = q
    BY <1>1, <1>2, <1>5, <2>2 DEF Distinct
  <2> QED
    BY <1>6, <2>1, <2>2
<1>8. ASSUME NEW q \in Open, q.table # answers[i].request.table PROVE q \in Open'
  <2>1. CASE \E j \in DOMAIN sent : sent[j] = q
    BY <1>6, <2>1
  <2>2. CASE \E j \in DOMAIN answers : answers[j].request = q
    <3>1. PICK k \in DOMAIN answers : answers[k].request = q
      BY <2>2
    <3>2. k # i
      BY <1>8, <3>1
    <3> QED
      BY <1>3, <1>6, <3>1, <3>2
  <2> QED
    BY <1>5, <2>1, <2>2
<1>9. Distinct'
  <2>1. \A j, l \in DOMAIN sent' : j # l => sent'[j].table # sent'[l].table
    BY <1>1 DEF Distinct
  <2>2. \A j, l \in DOMAIN answers' :
            j # l => answers'[j].request.table # answers'[l].request.table
    BY <1>4 DEF Distinct
  <2>3. \A j \in DOMAIN sent', l \in DOMAIN answers' :
            sent'[j].table # answers'[l].request.table
    BY <1>1, <1>2 DEF Distinct
  <2> QED
    BY <2>1, <2>2, <2>3 DEF Distinct
<1> QED
  BY <1>2, <1>3, <1>7, <1>8, <1>9

\* An open add, edit or delete leaves no place for another request.
LEMMA SentAlone ==
    ASSUME TypeInv, Distinct, Alone, NEW i \in DOMAIN sent, sent[i].op # "load"
    PROVE  DOMAIN answers = {} /\ Open = {sent[i]}
<1>1. \A q \in Open : q = sent[i]
  BY OpenFacts DEF Alone
<1>2. \A j \in DOMAIN answers : FALSE
  BY <1>1, OpenFacts DEF Distinct
<1> QED
  BY <1>1, <1>2, OpenFacts

\* And such an answer is the only thing open.
LEMMA AnswerAlone ==
    ASSUME TypeInv, Distinct, Alone, NEW i \in DOMAIN answers, answers[i].request.op # "load"
    PROVE  DOMAIN sent = {} /\ DOMAIN answers = {i} /\ Open = {answers[i].request}
<1>1. \A q \in Open : q = answers[i].request
  BY OpenFacts DEF Alone
<1>2. \A j \in DOMAIN sent : FALSE
  BY <1>1, OpenFacts DEF Distinct
<1>3. \A j \in DOMAIN answers : j = i
  BY <1>1, OpenFacts DEF Distinct
<1> QED
  BY <1>1, <1>2, <1>3, OpenFacts

\* A list that need not be up to date may be.
LEMMA PageWeaker ==
    ASSUME NEW d, NEW l, NEW s, NEW x, NEW y, NEW v, NEW w, PageIn(d, l, s, x, y),
           x \cap Column \subseteq v, y \cap Column \subseteq w
    PROVE  PageIn(d, l, s, v, w)
  BY DEF PageIn, Agrees, Shown

\* Reading, refusing and losing change no table; a column that is read is not spoiled.
LEMMA PatientRead ==
    ASSUME TypeInv, KeyInv, PatientInv, NEW i \in DOMAIN sent,
           UNCHANGED <<db, lists, selected, denied>>,
           NEW ok \in BOOLEAN, NEW rows \in Seq(Row), Answer(i, ok, rows),
           ~ok => behind' = behind,
           ok => /\ sent[i].op = "load" /\ behind' = behind \ {sent[i].table}
                 /\ \A r \in Range(rows) : r.table = sent[i].table
                 /\ Fits(db, selected, sent[i].table, rows)
    PROVE  PatientInv'
<1>1. Open' = Open /\ Distinct'
  BY AnswerOpen DEF PatientInv
<1>2. Alone' /\ \A q \in Open' : Aimed(q)'
  BY <1>1 DEF PatientInv, Alone, Aimed
<1>3. /\ \A j \in DOMAIN answers : j \in DOMAIN answers' /\ answers'[j] = answers[j]
      /\ \A j \in DOMAIN answers' : j \in DOMAIN answers \/ j = Len(answers) + 1
      /\ answers'[Len(answers) + 1] = [request |-> sent[i], ok |-> ok, rows |-> rows]
      /\ Len(answers) + 1 \in DOMAIN answers'
  <2>1. \A j \in DOMAIN answers : j \in DOMAIN answers' /\ answers'[j] = answers[j]
    BY AnswerFacts
  <2>2. \A j \in DOMAIN answers' : j \in DOMAIN answers \/ j = Len(answers) + 1
    BY AnswerFacts
  <2>3. answers'[Len(answers) + 1] = [request |-> sent[i], ok |-> ok, rows |-> rows]
    BY AnswerFacts
  <2>4. Len(answers) + 1 \in DOMAIN answers'
    BY AnswerFacts
  <2> QED
    BY <2>1, <2>2, <2>3, <2>4
<1>4. ASSUME NEW j \in DOMAIN answers
      PROVE  answers[j].request.table # sent[i].table /\ answers[j].request.op = "load"
  <2>1. answers[j].request.table # sent[i].table
    BY DEF PatientInv, Distinct
  <2>2. answers[j].request.op # "load" => DOMAIN sent = {}
    BY AnswerAlone DEF PatientInv
  <2> QED
    BY <2>1, <2>2
<1>5. ASSUME NEW j \in DOMAIN answers'
      PROVE  LoadTrue(answers[j])' /\ PageThen(answers[j])'
  <2>1. CASE j \in DOMAIN answers
    <3>1. answers'[j] = answers[j] /\ answers[j].request.op = "load"
          /\ (answers[j].request.table \in behind' <=> answers[j].request.table \in behind)
      BY <1>3, <1>4, <2>1
    <3>2. LoadTrue(answers[j])
      BY <2>1 DEF PatientInv
    <3> QED
      BY <3>1, <3>2 DEF LoadTrue, PageThen
  <2>2. CASE j = Len(answers) + 1
    <3> DEFINE a == [request |-> sent[i], ok |-> ok, rows |-> rows]
    <3>1. answers'[j] = a
      BY <1>3, <2>2
    <3>2. a.ok = ok /\ a.request = sent[i] /\ a.rows = rows
      OBVIOUS
    <3> HIDE DEF a
    <3> QED
      BY <3>1, <3>2 DEF LoadTrue, PageThen
  <2> QED
    BY <1>3, <2>1, <2>2
<1>6. Loading' = Loading
  BY <1>1 DEF Loading
<1>7. PageNow'
  <2>1. SUFFICES PageIn(db, lists, selected, denied \cup behind' \cup Loading,
                        behind' \cup Arriving')
    BY <1>6 DEF PageNow
  <2> DEFINE x == denied \cup behind \cup Loading
             y == behind \cup Arriving
             v == denied \cup behind' \cup Loading
             w == behind' \cup Arriving'
  <2>2. PageIn(db, lists, selected, x, y)
    BY <1>4 DEF PatientInv, PageNow
  <2>3. ASSUME NEW t \in Arriving PROVE t \in Arriving'
    BY <1>3 DEF Arriving
  <2>4. ASSUME ok, sent[i].table \in Column
        PROVE  sent[i].table \in Loading /\ sent[i].table \in Arriving'
    <3>1. sent[i] \in Open
      BY OpenFacts DEF PatientInv
    <3>2. sent[i].table \in Loading
      BY <2>4, <3>1 DEF Loading
    <3> DEFINE a == [request |-> sent[i], ok |-> ok, rows |-> rows]
    <3>3. a.ok /\ a.request = sent[i] /\ answers'[Len(answers) + 1] = a
      BY <1>3, <2>4
    <3> HIDE DEF a
    <3>4. sent[i].table \in Arriving'
      BY <1>3, <2>4, <3>3 DEF Arriving
    <3> QED
      BY <3>2, <3>4
  <2>5. behind' = behind \/ (ok /\ behind' = behind \ {sent[i].table})
    OBVIOUS
  <2>6. x \cap Column \subseteq v /\ y \cap Column \subseteq w
    BY <2>3, <2>4, <2>5
  <2> HIDE DEF x, y, v, w
  <2>7. PageIn(db, lists, selected, v, w)
    BY <2>2, <2>6, PageWeaker
  <2> QED
    BY <2>7 DEF v, w
<1> QED
  BY <1>1, <1>2, <1>5, <1>7 DEF PatientInv

\* The answer to a command is the only one.
LEMMA PatientDone ==
    ASSUME TypeInv, KeyInv, PatientInv, NEW i \in DOMAIN sent, sent[i].op # "load",
           UNCHANGED <<lists, selected, denied, behind>>,
           NEW rows \in Seq(Row), Answer(i, TRUE, rows),
           NEW a, a = [request |-> sent[i], ok |-> TRUE, rows |-> rows],
           PageIn(db', ListsAfter(lists, selected, a), SelectedAfter(selected, a),
                  (denied \ Refreshed(sent[i])) \cup behind, behind)
    PROVE  PatientInv'
<1>1. Open' = Open /\ Distinct'
  BY AnswerOpen DEF PatientInv
<1>2. Alone' /\ \A q \in Open' : Aimed(q)'
  BY <1>1 DEF PatientInv, Alone, Aimed
<1>3. DOMAIN answers = {}
  BY SentAlone DEF PatientInv
<1>4. \A j \in DOMAIN answers' : j \in DOMAIN answers \/ j = Len(answers) + 1
  BY AnswerFacts
<1>5. /\ answers'[Len(answers) + 1] = a
      /\ Len(answers) + 1 \in DOMAIN answers'
  <2>1. answers'[Len(answers) + 1] = [request |-> sent[i], ok |-> TRUE, rows |-> rows]
    BY AnswerFacts
  <2>2. Len(answers) + 1 \in DOMAIN answers'
    BY AnswerFacts
  <2> QED
    BY <2>1, <2>2
<1>6. a.ok /\ a.request = sent[i]
  OBVIOUS
<1>7. ASSUME NEW j \in DOMAIN answers'
      PROVE  LoadTrue(answers[j])' /\ PageThen(answers[j])'
  <2>1. answers'[j] = a
    BY <1>3, <1>4, <1>5
  <2> QED
    BY <1>6, <2>1 DEF LoadTrue, PageThen
<1>8. PageNow'
  BY <1>5, <1>6 DEF PageNow
<1> QED
  BY <1>1, <1>2, <1>7, <1>8 DEF PatientInv

\* What a delete takes from the tables, in terms of its row.
LEMMA DestroyFacts ==
    ASSUME TypeInv, NEW q \in Query, q.op = "delete", NEW o \in Outcomes(q)
    PROVE  /\ o.tables \subseteq db /\ o.rows = <<>>
           /\ \E r \in db \ o.tables :
                 /\ r.table = q.table /\ r.id = q.of
                 /\ \A e \in db \ o.tables : e = r \/ e.table \in Below[q.table]
<1>1. o \in Destroy(q)
  BY DEF Outcomes
<1>2. PICK r \in Target(q) : o = [tables |-> db \ Cascade({r}), rows |-> <<>>]
  BY <1>1, Zenon DEF Destroy
<1>3. r \in db /\ r.table = q.table /\ r.id = q.of
  BY DEF Target, RowsOf
<1>4. q.table \in Table /\ db \subseteq Row
  BY ColumnFacts DEF TypeInv, Query
<1>5. r \in Cascade({r}) /\ \A e \in Cascade({r}) : e = r \/ e.table \in Below[q.table]
  BY <1>3, <1>4, CascadeFacts
<1> DEFINE gone == Cascade({r})
<1>6. o.tables = db \ gone /\ o.rows = <<>>
  BY <1>2
<1>7. r \in gone /\ \A e \in gone : e = r \/ e.table \in Below[q.table]
  BY <1>5
<1> HIDE DEF gone
<1> QED
  BY <1>3, <1>6, <1>7

\* A command changes its own table and what its answer empties; of other tables it takes
\* rows of links at most.
LEMMA StrayReaches ==
    ASSUME TypeInv, KeyInv, NEW q \in Query, RootQuery(q), q.op # "load", NEW o \in Outcomes(q),
           NEW u \in Column, u # q.table, u \notin Emptied[q.table]
    PROVE  /\ \A r \in o.tables : r.table = u => r \in db
           /\ u \notin DOMAIN Link => \A r \in db : r.table = u => r \in o.tables
<1>1. q.table \in Column /\ q.table \in Table /\ u \in Table /\ q.op \in Op
  BY ColumnFacts DEF Query
<1>2. CASE q.op = "add"
  <2> DEFINE r == NewRow(q)
  <2>1. r.table = q.table
    BY DEF NewRow
  <2>2. o.tables = db \cup {r}
    BY <1>2 DEF Outcomes, Create
  <2> HIDE DEF r
  <2> QED
    BY <2>1, <2>2
<1>3. CASE q.op = "edit"
  <2>1. PICK r \in Target(q) : o.tables = (db \ {r}) \cup {Renamed(r, q)}
    BY <1>3 DEF Outcomes, Update
  <2> DEFINE e == Renamed(r, q)
  <2>2. r.table = q.table /\ r \in Row
    BY DEF Target, RowsOf, TypeInv
  <2>3. e.table = q.table
    BY <2>2 DEF Renamed, Row
  <2>4. o.tables = (db \ {r}) \cup {e}
    BY <2>1
  <2> HIDE DEF e
  <2> QED
    BY <2>2, <2>3, <2>4
<1>4. CASE q.op = "delete"
  <2>1. PICK r \in db :
            /\ r.table = q.table /\ o.tables \subseteq db
            /\ \A e \in db \ o.tables : e = r \/ e.table \in Below[q.table]
    BY <1>4, DestroyFacts
  <2>2. u \in Below[q.table] /\ u \notin DOMAIN Link => u \in Emptied[q.table]
    BY <1>1, ResetReaches
  <2> QED
    BY <2>1, <2>2
<1> QED
  BY <1>1, <1>2, <1>3, <1>4 DEF Op

\* A request that is carried out after the page was told it failed keeps the invariant:
\* what it changes is spoiled.
LEMMA PatientStray == ASSUME TypeInv, KeyInv, PatientInv, CarryOut PROVE PatientInv'
<1>0. PICK q \in stray : \E o \in Outcomes(q) :
          /\ db' = o.tables
          /\ behind' = behind \cup {q.table} \cup (Emptied[q.table] \cap Column)
          /\ UNCHANGED <<lists, selected, denied, sent, answers>>
  BY DEF CarryOut, pageVars
<1>1. PICK o \in Outcomes(q) :
          /\ db' = o.tables
          /\ behind' = behind \cup {q.table} \cup (Emptied[q.table] \cap Column)
          /\ UNCHANGED <<lists, selected, denied, sent, answers>>
  BY <1>0
<1>2. q \in Query /\ RootQuery(q) /\ q.op # "load"
  BY DEF TypeInv
<1> DEFINE z == {q.table} \cup (Emptied[q.table] \cap Column)
<1>3. behind' = behind \cup z
  BY <1>1
<1>4. \A u \in Column \ z : /\ \A r \in db' : r.table = u => r \in db
                            /\ u \notin DOMAIN Link => \A r \in db : r.table = u => r \in db'
  BY <1>1, <1>2, StrayReaches
<1> HIDE DEF z
<1>5. Open' = Open /\ Loading' = Loading /\ Arriving' = Arriving
  BY <1>1 DEF Open, Loading, Arriving
<1>6. Distinct' /\ Alone' /\ \A p \in Open' : Aimed(p)'
  BY <1>1, <1>5 DEF PatientInv, Distinct, Alone, Aimed
<1>7. ASSUME NEW l, NEW s, NEW x, NEW y, NEW v, NEW w, PageIn(db, l, s, x, y),
             x \cup z \subseteq v, y \cup z \subseteq w
      PROVE  PageIn(db', l, s, v, w)
  <2>1. PageIn(db', l, s, x \cup z, y \cup z)
    BY <1>4, <1>7, PageStray
  <2> DEFINE xz == x \cup z
             yz == y \cup z
  <2>2. PageIn(db', l, s, xz, yz) /\ xz \cap Column \subseteq v /\ yz \cap Column \subseteq w
    BY <1>7, <2>1
  <2> HIDE DEF xz, yz
  <2> QED
    BY <2>2, PageWeaker
<1>8. ASSUME NEW j \in DOMAIN answers'
      PROVE  LoadTrue(answers[j])' /\ PageThen(answers[j])'
  <2>1. answers' = answers /\ LoadTrue(answers[j]) /\ PageThen(answers[j]) /\ answers[j] \in Reply
    BY <1>1, OpenFacts DEF PatientInv
  <2> DEFINE a == answers[j]
             t == a.request.table
  <2>2. t \in Column
    BY <2>1 DEF Reply, Query
  <2>3. LoadTrue(answers[j])'
    <3>1. ASSUME a.ok, a.request.op = "load", t \notin behind' PROVE Fits(db', selected, t, a.rows)
      <4>1. /\ Fits(db, selected, t, a.rows) /\ \A r \in Range(a.rows) : r.table = t
            /\ t \notin z
        BY <1>3, <2>1, <3>1 DEF LoadTrue
      <4> QED
        BY <1>4, <2>2, <4>1 DEF Fits
    <3> QED
      BY <1>1, <2>1, <3>1 DEF LoadTrue
  <2>4. PageThen(answers[j])'
    <3>1. ASSUME a.ok, a.request.op # "load"
          PROVE  PageIn(db', ListsAfter(lists, selected, a), SelectedAfter(selected, a),
                        (denied \ Refreshed(a.request)) \cup behind', behind')
      <4>1. PageIn(db, ListsAfter(lists, selected, a), SelectedAfter(selected, a),
                   (denied \ Refreshed(a.request)) \cup behind, behind)
        BY <2>1, <3>1 DEF PageThen
      <4> DEFINE l == ListsAfter(lists, selected, a)
                 s == SelectedAfter(selected, a)
                 x == (denied \ Refreshed(a.request)) \cup behind
                 v == (denied \ Refreshed(a.request)) \cup behind'
      <4>2. PageIn(db, l, s, x, behind) /\ x \cup z \subseteq v /\ behind \cup z \subseteq behind'
        BY <1>3, <4>1
      <4> HIDE DEF l, s, x, v
      <4>3. PageIn(db', l, s, v, behind')
        BY <1>7, <4>2
      <4> QED
        BY <4>3 DEF l, s, v
    <3>2. ListsAfter(lists', selected', a) = ListsAfter(lists, selected, a)
          /\ SelectedAfter(selected', a) = SelectedAfter(selected, a)
      BY <1>1
    <3> QED
      BY <1>1, <2>1, <3>1, <3>2 DEF PageThen
  <2> QED
    BY <2>3, <2>4
<1>9. PageNow'
  <2>1. SUFFICES ASSUME \A i \in DOMAIN answers : answers[i].ok => answers[i].request.op = "load"
                 PROVE  PageIn(db', lists, selected, denied \cup behind' \cup Loading,
                               behind' \cup Arriving)
    BY <1>1, <1>5 DEF PageNow
  <2> DEFINE x == denied \cup behind \cup Loading
             y == behind \cup Arriving
             v == denied \cup behind' \cup Loading
             w == behind' \cup Arriving
  <2>2. PageIn(db, lists, selected, x, y) /\ x \cup z \subseteq v /\ y \cup z \subseteq w
    BY <1>3, <2>1 DEF PatientInv, PageNow
  <2> HIDE DEF x, y, v, w
  <2>3. PageIn(db', lists, selected, v, w)
    BY <1>7, <2>2
  <2> QED
    BY <2>3 DEF v, w
<1> QED
  BY <1>6, <1>8, <1>9 DEF PatientInv

\* A list that is read is the one of what is selected.
LEMMA PatientLoad ==
    ASSUME TypeInv, KeyInv, PatientInv, NEW i \in DOMAIN sent, Serve(i), sent[i].op = "load",
           UNCHANGED <<lists, selected, denied>>
    PROVE  PatientInv'
<1> DEFINE q == sent[i]
           t == q.table
           S == {r \in RowsOf(t) : r.parent = q.of}
           rows == SetToSeq(S)
<1>1. q \in Query /\ t \in Column /\ RootQuery(q) /\ Aimed(q)
  <2>1. q \in Query
    BY OpenFacts DEF PatientInv
  <2> QED
    BY <2>1, OpenFacts DEF PatientInv, TypeInv, Query
<1>2. S \subseteq db /\ S \subseteq Row /\ IsFiniteSet(S)
  <2>1. S \subseteq db
    BY DEF RowsOf
  <2> QED
    BY <2>1, FS_Subset DEF TypeInv
<1>3. S = {r \in db : r.table = t /\ Belongs(r, selected)}
  <2>1. CASE t \in DOMAIN Parent
    <3>1. selected[Parent[t]] # NoRow /\ q.of = selected[Parent[t]].id
      BY <1>1, <2>1 DEF Aimed
    <3> QED
      BY <2>1, <3>1 DEF RowsOf, Belongs
  <2>2. CASE t \notin DOMAIN Parent
    <3>1. q.of = 0 /\ \A r \in db : r.table = t => r.parent = 0
      BY <1>1, <2>2 DEF RootQuery, KeyInv, Keys
    <3> QED
      BY <2>2, <3>1 DEF RowsOf, Belongs
  <2> QED
    BY <2>1, <2>2
<1>4. UNCHANGED db /\ behind' = behind \ {t} /\ Answer(i, TRUE, rows)
  <2>1. PICK o \in Outcomes(q) : /\ db' = o.tables /\ Answer(i, TRUE, o.rows)
                                 /\ behind' = behind \ {u \in {t} : q.op = "load"}
    BY DEF Serve
  <2>2. o.tables = db /\ o.rows = rows
    BY DEF Outcomes, Read
  <2> HIDE DEF rows
  <2> QED
    BY <2>1, <2>2
<1>5. rows \in Seq(Row) /\ Range(rows) = S /\ IsInjective(rows)
  <2> HIDE DEF S
  <2> QED
    BY <1>2, SetToSeqFacts, SeqMonotonic
<1> HIDE DEF S, rows
<1>6. Fits(db, selected, t, rows) /\ \A r \in Range(rows) : r.table = t
  BY <1>2, <1>3, <1>5 DEF Fits
<1> QED
  BY <1>4, <1>5, <1>6, PatientRead

\* A route that answers a patient user keeps the invariant.
LEMMA PatientHandle ==
    ASSUME TypeInv, KeyInv, PatientInv, NEW i \in DOMAIN sent, Handle(i),
           UNCHANGED <<lists, selected, denied>>
    PROVE  PatientInv'
<1> DEFINE q == sent[i]
           t == q.table
           x == denied \cup behind
<1>1. q \in Query /\ t \in Column /\ RootQuery(q) /\ Aimed(q) /\ q.op \in Op
  <2>1. q \in Query
    BY OpenFacts DEF PatientInv
  <2> QED
    BY <2>1, OpenFacts DEF PatientInv, TypeInv, Query
<1>2. PageTypes(db, lists, selected)
  BY DEF TypeInv, KeyInv, Keys, PageTypes
<1>3. CASE Refuse(i) \/ Lose(i)
  <2>1. Answer(i, FALSE, <<>>) /\ UNCHANGED <<db, behind>>
    BY <1>3 DEF Refuse, Lose, tableVars
  <2>2. <<>> \in Seq(Row)
    OBVIOUS
  <2> QED
    BY <2>1, <2>2, PatientRead
<1>4. CASE Serve(i) /\ q.op = "load"
  BY <1>4, PatientLoad
<1>5. ASSUME Serve(i), q.op # "load"
      PROVE  /\ PageIn(db, lists, selected, x, behind)
             /\ q.op # "delete" => Refreshed(q) = {}
             /\ q.op = "delete" => Refreshed(q) = Emptied[t]
             /\ behind' = behind
             /\ \E o \in Outcomes(q) : db' = o.tables /\ Answer(i, TRUE, o.rows)
  <2>1. DOMAIN answers = {} /\ Open = {q}
    BY <1>5, SentAlone DEF PatientInv
  <2>2. Loading = {} /\ Arriving = {}
    BY <1>5, <2>1 DEF Loading, Arriving
  <2>3. PageIn(db, lists, selected, denied \cup behind \cup Loading, behind \cup Arriving)
    BY <2>1 DEF PatientInv, PageNow
  <2>4. PageIn(db, lists, selected, x, behind)
    <3>1. denied \cup behind \cup Loading = x /\ behind \cup Arriving = behind
      BY <2>2
    <3> QED
      BY <2>3, <3>1
  <2>5. behind' = behind /\ \E o \in Outcomes(q) : db' = o.tables /\ Answer(i, TRUE, o.rows)
    BY <1>5 DEF Serve
  <2> QED
    BY <1>5, <2>4, <2>5 DEF Refreshed
<1>6. behind \subseteq x
  OBVIOUS
<1>7. ASSUME Serve(i), q.op # "load",
             NEW v, v \cap Column \subseteq (denied \ Refreshed(q)) \cup behind,
             NEW o \in Outcomes(q), db' = o.tables, Answer(i, TRUE, o.rows), o.rows \in Seq(Row),
             NEW a, a = [request |-> q, ok |-> TRUE, rows |-> o.rows],
             PageIn(db', ListsAfter(lists, selected, a), SelectedAfter(selected, a), v, behind)
      PROVE  PatientInv'
  <2> DEFINE l == ListsAfter(lists, selected, a)
             s == SelectedAfter(selected, a)
             w == (denied \ Refreshed(q)) \cup behind
  <2>1. PageIn(db', l, s, v, behind) /\ v \cap Column \subseteq w /\ behind \cap Column \subseteq behind
    BY <1>7
  <2> HIDE DEF l, s, w
  <2>2. PageIn(db', l, s, w, behind)
    BY <2>1, PageWeaker
  <2>3. PageIn(db', ListsAfter(lists, selected, a), SelectedAfter(selected, a),
               (denied \ Refreshed(sent[i])) \cup behind, behind)
    BY <2>2 DEF l, s, w
  <2> QED
    BY <1>5, <1>7, <2>3, PatientDone
<1> HIDE DEF x
<1>8. CASE Serve(i) /\ q.op = "add"
  <2>1. PICK o \in Outcomes(q) : db' = o.tables /\ Answer(i, TRUE, o.rows)
    BY <1>5, <1>8
  <2> DEFINE r == NewRow(q)
             a == [request |-> q, ok |-> TRUE, rows |-> o.rows]
  <2>2. NewId(t) \in Nat /\ \A e \in RowsOf(t) : e.id # NewId(t)
    BY <1>1, NewIdFacts
  <2>3. r \in Row /\ r.table = t /\ r.id = NewId(t) /\ r.parent = q.of
    BY <1>1, <2>2 DEF NewRow, Row, Query
  <2>4. o.tables = db \cup {r} /\ o.rows = <<r>>
    BY <1>8 DEF Outcomes, Create
  <2>5. a.request = q /\ a.rows = <<r>> /\ a.ok
    BY <2>4
  <2> HIDE DEF r
  <2>6. o.rows \in Seq(Row) /\ a.rows[1] = r
    BY <2>3, <2>4, <2>5
  <2>7. a = [request |-> q, ok |-> TRUE, rows |-> o.rows]
    OBVIOUS
  <2> HIDE DEF a
  <2>8. Belongs(r, selected)
    BY <1>1, <1>8, <2>3 DEF Aimed, Belongs
  <2>9. \A e \in db : e.table = r.table => e.id # r.id
    BY <2>2, <2>3 DEF RowsOf
  <2>10. PageIn(db \cup {r}, [lists EXCEPT ![r.table] = Append(@, r)], selected, x, behind)
    BY <1>2, <1>5, <1>8, <2>3, <2>8, <2>9, PageAdd
  <2>11. /\ ListsAfter(lists, selected, a) = [lists EXCEPT ![r.table] = Append(@, r)]
         /\ SelectedAfter(selected, a) = selected
    BY <1>8, <2>3, <2>5, <2>6 DEF ListsAfter, SelectedAfter
  <2>12. x \cap Column \subseteq (denied \ Refreshed(q)) \cup behind
    BY <1>5, <1>8 DEF x
  <2>13. PageIn(db', ListsAfter(lists, selected, a), SelectedAfter(selected, a), x, behind)
    BY <2>1, <2>4, <2>10, <2>11
  <2> QED
    BY <1>7, <1>8, <2>1, <2>6, <2>7, <2>12, <2>13
<1>9. CASE Serve(i) /\ q.op = "edit"
  <2>1. PICK o \in Outcomes(q) : db' = o.tables /\ Answer(i, TRUE, o.rows)
    BY <1>5, <1>9
  <2>2. PICK r \in Target(q) :
            o.tables = (db \ {r}) \cup {Renamed(r, q)} /\ o.rows = <<Renamed(r, q)>>
    BY <1>9 DEF Outcomes, Update
  <2> DEFINE e == Renamed(r, q)
             a == [request |-> q, ok |-> TRUE, rows |-> o.rows]
  <2>3. r \in db /\ r \in Row /\ r.table = t /\ r.id = q.of
    BY DEF Target, RowsOf, TypeInv
  <2>4. e \in Row /\ e.table = t /\ e.id = r.id /\ e.parent = r.parent
    BY <1>1, <2>3 DEF Renamed, Row, Query
  <2>5. o.tables = (db \ {r}) \cup {e} /\ o.rows = <<e>>
    BY <2>2
  <2>6. a.request = q /\ a.rows = <<e>> /\ a.ok
    BY <2>5
  <2> HIDE DEF e
  <2>7. o.rows \in Seq(Row) /\ a.rows[1] = e
    BY <2>4, <2>5, <2>6
  <2>8. a = [request |-> q, ok |-> TRUE, rows |-> o.rows]
    OBVIOUS
  <2> HIDE DEF a
  <2>9. t \in Column \cap Editable /\ selected[t] # NoRow /\ r.id = selected[t].id
    BY <1>1, <1>9, <2>3 DEF Aimed
  <2>10. PageIn((db \ {r}) \cup {e}, [lists EXCEPT ![t] = Replace(@, e)],
               [selected EXCEPT ![t] = e], x, behind)
    <3>1. PageIn(db, lists, selected, x, behind) /\ behind \subseteq x
      BY <1>5, <1>6, <1>9
    <3> HIDE DEF t
    <3> QED
      BY <1>2, <2>3, <2>4, <2>9, <3>1, PageEdit
  <2>11. /\ ListsAfter(lists, selected, a) = [lists EXCEPT ![t] = Replace(@, e)]
         /\ SelectedAfter(selected, a) = [selected EXCEPT ![t] = e]
    BY <1>9, <2>6, <2>7 DEF ListsAfter, SelectedAfter
  <2>12. x \cap Column \subseteq (denied \ Refreshed(q)) \cup behind
    BY <1>5, <1>9 DEF x
  <2>13. PageIn(db', ListsAfter(lists, selected, a), SelectedAfter(selected, a), x, behind)
    BY <2>1, <2>5, <2>10, <2>11
  <2> QED
    BY <1>7, <1>9, <2>1, <2>7, <2>8, <2>12, <2>13
<1>10. CASE Serve(i) /\ q.op = "delete"
  <2>1. PICK o \in Outcomes(q) : db' = o.tables /\ Answer(i, TRUE, o.rows)
    BY <1>5, <1>10
  <2>2. /\ o.tables \subseteq db /\ o.rows = <<>>
        /\ \E r \in db \ o.tables :
              /\ r.table = t /\ r.id = q.of
              /\ \A e \in db \ o.tables : e = r \/ e.table \in Below[t]
    BY <1>1, <1>10, DestroyFacts
  <2>3. PICK r \in db \ o.tables :
            /\ r.table = t /\ r.id = q.of
            /\ \A e \in db \ o.tables : e = r \/ e.table \in Below[t]
    BY <2>2
  <2> DEFINE gone == db \ o.tables
             a == [request |-> q, ok |-> TRUE, rows |-> o.rows]
             l == ListsAfter(lists, selected, a)
             s == SelectedAfter(selected, a)
  <2>4. a.request = q /\ a.ok
    OBVIOUS
  <2>5. o.rows \in Seq(Row) /\ a = [request |-> q, ok |-> TRUE, rows |-> o.rows]
    BY <2>2
  <2>6. /\ r \in gone /\ \A e \in gone : e = r \/ e.table \in Below[t]
        /\ o.tables = db \ gone
    BY <2>2, <2>3
  <2> HIDE DEF a, gone
  <2>7. selected[t] # NoRow /\ r.id = selected[t].id
    BY <1>1, <1>10, <2>3 DEF Aimed
  <2>8. l = Filtered(lists, selected, t) /\ s = Unpicked(selected, t)
    BY <1>10, <2>4 DEF ListsAfter, SelectedAfter
  <2> HIDE DEF l, s
  <2>9. PageIn(db \ gone, l, s, x \ Emptied[t], behind)
    <3>1. PageIn(db, lists, selected, x, behind) /\ r \in db /\ r.table = t
      BY <1>5, <1>10, <2>3
    <3> HIDE DEF t
    <3> QED
      BY <1>1, <1>2, <2>6, <2>7, <2>8, <3>1, PageDelete
  <2>10. (x \ Emptied[t]) \cap Column \subseteq (denied \ Refreshed(q)) \cup behind
    BY <1>5, <1>10 DEF x
  <2>11. PageIn(db', ListsAfter(lists, selected, a), SelectedAfter(selected, a),
                x \ Emptied[t], behind)
    BY <2>1, <2>6, <2>9 DEF l, s
  <2> QED
    BY <1>7, <1>10, <2>1, <2>5, <2>10, <2>11
<1> QED
  BY <1>1, <1>3, <1>4, <1>8, <1>9, <1>10 DEF Handle, Op

\* The arrival of an answer keeps it, in whatever order the answers come.
LEMMA PatientTake ==
    ASSUME TypeInv, KeyInv, PatientInv, NEW i, Take(i) PROVE PatientInv'
<1> DEFINE a == answers[i]
           q == a.request
           t == q.table
<1>1. /\ i \in DOMAIN answers /\ UNCHANGED <<db, behind, sent>>
      /\ a \in Reply /\ q \in Open /\ t \in Column /\ Aimed(q)
  <2>1. i \in DOMAIN answers /\ UNCHANGED <<db, behind, sent>>
    BY DEF Take, tableVars
  <2>2. a \in Reply /\ q \in Open
    BY <2>1, OpenFacts DEF PatientInv
  <2> QED
    BY <2>1, <2>2 DEF Reply, Query, PatientInv
<1>2. Distinct' /\ Open' = {p \in Open : p.table # t}
  BY TakeOpen DEF PatientInv
<1>3. \A j \in DOMAIN answers' : \E k \in DOMAIN answers : k # i /\ answers'[j] = answers[k]
  BY TakeOpen DEF PatientInv
<1>4. \A p \in Open : p.table = t => p = q
  BY <1>1, OpenFacts DEF PatientInv
<1>5. Alone'
  BY <1>2 DEF PatientInv, Alone
<1>6. \A j \in DOMAIN answers' : answers'[j].request.op = "load"
  <2>1. ASSUME NEW k \in DOMAIN answers, k # i PROVE answers[k].request.op = "load"
    BY <1>1, <2>1, AnswerAlone DEF PatientInv
  <2> QED
    BY <1>3, <2>1
<1>7. \A k \in DOMAIN answers : k # i => answers[k].request.op = "load"
  BY <1>1, AnswerAlone DEF PatientInv
<1>8. PageTypes(db, lists, selected)
  BY DEF TypeInv, KeyInv, Keys, PageTypes
<1>14. ASSUME NEW u \in Arriving PROVE u \in Arriving' \/ (a.ok /\ q.op = "load" /\ u = t)
  <2>1. PICK k \in DOMAIN answers : /\ answers[k].ok /\ answers[k].request.op = "load"
                                    /\ answers[k].request.table = u /\ u \in Column
    BY DEF Arriving
  <2>2. CASE k = i
    BY <2>1, <2>2
  <2>3. CASE k # i
    <3>1. \E j \in DOMAIN answers' : answers'[j] = answers[k]
      BY <2>3, TakeOpen DEF PatientInv
    <3> QED
      BY <2>1, <3>1 DEF Arriving
  <2> QED
    BY <2>2, <2>3
<1> HIDE DEF q, t
<1>9. ASSUME UNCHANGED selected
      PROVE  /\ \A p \in Open' : Aimed(p)'
             /\ \A j \in DOMAIN answers' : LoadTrue(answers[j])' /\ PageThen(answers[j])'
  <2>1. \A p \in Open' : Aimed(p)'
    BY <1>2, <1>9 DEF PatientInv, Aimed
  <2>2. ASSUME NEW j \in DOMAIN answers' PROVE LoadTrue(answers[j])'
    <3>1. PICK k \in DOMAIN answers : answers'[j] = answers[k]
      BY <1>3
    <3>2. LoadTrue(answers[k])
      BY DEF PatientInv
    <3> QED
      BY <1>1, <1>9, <3>1, <3>2 DEF LoadTrue
  <2>3. \A j \in DOMAIN answers' : PageThen(answers[j])'
    BY <1>6 DEF PageThen
  <2> QED
    BY <2>1, <2>2, <2>3
<1>10. CASE /\ ~a.ok /\ denied' = denied \cup {u \in {t} : q.op = "load"}
            /\ UNCHANGED <<lists, selected>>
  <2>1. PageIn(db, lists, selected, denied \cup behind \cup Loading, behind \cup Arriving)
    BY <1>7, <1>10 DEF PatientInv, PageNow
  <2>2. ASSUME NEW u \in Loading PROVE u \in denied' \cup Loading'
    <3>1. PICK p \in Open : p.op = "load" /\ p.table = u
      BY DEF Loading
    <3>2. CASE u = t
      BY <1>4, <1>10, <3>1, <3>2
    <3>3. CASE u # t
      <4>1. p \in Open'
        BY <1>2, <3>1, <3>3
      <4> QED
        BY <3>1, <4>1 DEF Loading
    <3> QED
      BY <3>2, <3>3
  <2>3. Arriving \subseteq Arriving'
    BY <1>10, <1>14
  <2>4. PageIn(db, lists, selected, denied' \cup behind \cup Loading', behind \cup Arriving')
    <3> DEFINE x == denied \cup behind \cup Loading
               y == behind \cup Arriving
               v == denied' \cup behind \cup Loading'
               w == behind \cup Arriving'
    <3>1. x \cap Column \subseteq v /\ y \cap Column \subseteq w /\ PageIn(db, lists, selected, x, y)
      BY <1>10, <2>1, <2>2, <2>3
    <3> HIDE DEF x, y, v, w
    <3>2. PageIn(db, lists, selected, v, w)
      BY <3>1, PageWeaker
    <3> QED
      BY <3>2 DEF v, w
  <2>5. PageNow'
    BY <1>1, <1>10, <2>4 DEF PageNow
  <2> QED
    BY <1>2, <1>5, <1>9, <1>10, <2>5 DEF PatientInv
<1>11. CASE /\ a.ok /\ denied' = denied \ Refreshed(q) /\ q.op = "load"
            /\ lists' = ListsAfter(lists, selected, a) /\ selected' = SelectedAfter(selected, a)
  <2>1. lists' = [lists EXCEPT ![t] = a.rows] /\ selected' = selected
    BY <1>11 DEF ListsAfter, SelectedAfter, q, t
  <2>2. PageIn(db, lists, selected, denied \cup behind \cup Loading, behind \cup Arriving)
    BY <1>7, <1>11 DEF PatientInv, PageNow, q
  <2>3. /\ a.rows \in Seq(Row) /\ \A r \in Range(a.rows) : r.table = t
        /\ t \notin behind => Fits(db, selected, t, a.rows)
    <3>1. LoadTrue(a)
      BY <1>1 DEF PatientInv
    <3> QED
      BY <1>1, <1>11, <3>1 DEF LoadTrue, Reply, q, t
  <2>4. t \in Range(Parent) => selected[t] = NoRow
    BY <1>1, <1>11 DEF Aimed, t
  <2> DEFINE x == denied \cup behind \cup Loading
             y == behind \cup Arriving
             xt == (x \ {t}) \cup behind
             yt == (y \ {t}) \cup behind
  <2>5. PageIn(db, lists', selected, xt, yt)
    <3> DEFINE rows == a.rows
    <3>1. PageIn(db, lists, selected, x, y) /\ rows \in Seq(Row)
          /\ (\A r \in Range(rows) : r.table = t)
          /\ (t \notin behind => Fits(db, selected, t, rows))
          /\ lists' = [lists EXCEPT ![t] = rows]
      BY <2>1, <2>2, <2>3
    <3> HIDE DEF x, y, rows
    <3>2. PageIn(db, [lists EXCEPT ![t] = rows], selected,
                 (x \ {t}) \cup behind, (y \ {t}) \cup behind)
      BY <1>1, <1>8, <2>4, <3>1, PageLoad
    <3> QED
      BY <3>1, <3>2
  <2>6. ASSUME NEW u \in Loading, u # t PROVE u \in Loading'
    <3>1. PICK p \in Open : p.op = "load" /\ p.table = u
      BY DEF Loading
    <3>2. p \in Open'
      BY <1>2, <2>6, <3>1
    <3> QED
      BY <3>1, <3>2 DEF Loading
  <2>7. denied' = denied \ {t}
    BY <1>11 DEF Refreshed, t
  <2>8. PageIn(db, lists', selected, denied' \cup behind \cup Loading', behind \cup Arriving')
    <3> DEFINE v == denied' \cup behind \cup Loading'
               w == behind \cup Arriving'
    <3>1. xt \cap Column \subseteq v /\ yt \cap Column \subseteq w
      BY <1>14, <2>6, <2>7
    <3> HIDE DEF xt, yt, v, w
    <3>2. PageIn(db, lists', selected, v, w)
      BY <2>5, <3>1, PageWeaker
    <3> QED
      BY <3>2 DEF v, w
  <2>9. PageNow'
    BY <1>1, <2>1, <2>8 DEF PageNow
  <2> QED
    BY <1>2, <1>5, <1>9, <2>1, <2>9 DEF PatientInv
<1>12. CASE a.ok /\ denied' = denied \ Refreshed(q) /\ q.op # "load"
  <2>1. lists' = ListsAfter(lists, selected, a) /\ selected' = SelectedAfter(selected, a)
    <3>1. ~(q.op = "delete" /\ selected[t] = NoRow)
      BY <1>1 DEF Aimed, t
    <3> QED
      BY <1>12, <3>1 DEF Take, q, t
  <2>2. DOMAIN answers = {i} /\ Open = {q}
    BY <1>1, <1>12, AnswerAlone DEF PatientInv, q
  <2>3. DOMAIN answers' = {} /\ Open' = {}
    BY <1>2, <1>3, <2>2 DEF t
  <2>4. PageIn(db, lists', selected', denied' \cup behind, behind)
    <3>1. PageThen(a)
      BY <1>1 DEF PatientInv
    <3> QED
      BY <1>12, <2>1, <3>1 DEF PageThen, q
  <2>5. Loading' = {} /\ Arriving' = {}
    BY <2>3 DEF Loading, Arriving
  <2>6. PageNow'
    <3>1. denied' \cup behind \cup Loading' = denied' \cup behind /\ behind \cup Arriving' = behind
      BY <2>5
    <3> QED
      BY <1>1, <2>4, <3>1 DEF PageNow
  <2> QED
    BY <1>2, <1>5, <2>3, <2>6 DEF PatientInv
<1>13. CASE a.ok /\ denied' = denied \ Refreshed(q) /\ q.op = "load"
  BY <1>11, <1>13 DEF Take, q, t
<1> QED
  BY <1>10, <1>12, <1>13 DEF Take, q, t

\* The user waits for every answer.
Patient == Awaited = Op

\* Nothing is open when a patient user clicks.
LEMMA NothingOpen ==
    ASSUME TypeInv, Distinct, Patient, MayClick
    PROVE  /\ Open = {} /\ DOMAIN sent = {} /\ DOMAIN answers = {}
           /\ Loading = {} /\ Arriving = {} /\ sent = <<>>
<1>1. Open = {}
  <2>1. \A q \in Open : q.op \in Op
    BY OpenFacts DEF Query
  <2> QED
    BY <2>1 DEF MayClick, Patient
<1>2. DOMAIN sent = {} /\ DOMAIN answers = {}
  BY <1>1, OpenFacts
<1>3. sent = <<>>
  <2>1. sent \in Seq(Query) /\ DOMAIN sent = 1 .. Len(sent) /\ Len(sent) \in Nat
    BY LenProperties DEF TypeInv
  <2>2. Len(sent) = 0
    BY <1>2, <2>1
  <2> QED
    BY <2>1, <2>2, EmptySeq
<1> QED
  BY <1>1, <1>2, <1>3 DEF Loading, Arriving

\* A click on add, edit or delete keeps it.
LEMMA PatientCommand ==
    ASSUME TypeInv, KeyInv, PatientInv, Patient,
           NEW t \in Column, Add(t) \/ Edit(t) \/ Delete(t)
    PROVE  PatientInv'
<1>1. PICK q \in Query :
          /\ Command(q) /\ q.table = t /\ RootQuery(q)
          /\ \/ /\ q.op = "add"
                /\ t \in DOMAIN Parent => /\ selected[Parent[t]] # NoRow
                                          /\ q.of = selected[Parent[t]].id
                /\ t \in DOMAIN Link => /\ selected[Link[t]] # NoRow
                                        /\ q.link = selected[Link[t]].id
                /\ q.stamp = clicks + 1
             \/ /\ q.op \in {"edit", "delete"} /\ (q.op = "edit" => t \in Editable)
                /\ selected[t] # NoRow /\ q.of = selected[t].id /\ q.row = selected[t]
                /\ q.op = "edit" => q.stamp = clicks + 1
  BY CommandQuery
<1>2. /\ Open = {} /\ DOMAIN sent = {} /\ DOMAIN answers = {}
      /\ Loading = {} /\ Arriving = {} /\ sent = <<>>
      /\ UNCHANGED <<db, behind, lists, selected, denied, answers>> /\ sent' = Append(sent, q)
  <2>1. MayClick /\ UNCHANGED <<db, behind, lists, selected, denied, answers>>
        /\ sent' = Append(sent, q)
    BY <1>1 DEF Command, pageVars, tableVars
  <2> QED
    BY <2>1, NothingOpen DEF PatientInv
<1>3. sent' = <<q>>
  BY <1>2
<1>4. DOMAIN sent' = {1} /\ sent'[1] = q /\ answers' = answers
  BY <1>2, <1>3
<1>5. Open' = {q}
  BY <1>2, <1>4 DEF Open, Range
<1>6. Distinct'
  BY <1>2, <1>4 DEF Distinct
<1>7. Alone'
  BY <1>5 DEF Alone
<1>8. Aimed(q)'
  BY <1>1, <1>2 DEF Aimed
<1>9. Loading' = {} /\ Arriving' = {}
  BY <1>1, <1>2, <1>4, <1>5 DEF Loading, Arriving
<1>10. PageIn(db, lists, selected, denied \cup behind \cup Loading, behind \cup Arriving)
  BY <1>2 DEF PatientInv, PageNow
<1>11. PageNow'
  BY <1>2, <1>9, <1>10 DEF PageNow
<1> QED
  BY <1>2, <1>4, <1>5, <1>6, <1>7, <1>8, <1>11 DEF PatientInv

\* selectX keeps it: the lists it loads are those it makes out of date.
LEMMA PatientSelect ==
    ASSUME TypeInv, KeyInv, PatientInv, Patient, NEW t \in Column, Select(t)
    PROVE  PatientInv'
<1>1. PICK r \in Range(lists[t]) : /\ IF t = "packs" THEN SelectPack(r) ELSE SelectOther(r)
                                   /\ LoadChildren(t, r)
  BY DEF Select
<1>2. MayClick /\ UNCHANGED <<db, behind, answers, denied>>
  BY DEF Select, tableVars
<1>3. /\ Open = {} /\ DOMAIN sent = {} /\ DOMAIN answers = {}
      /\ Loading = {} /\ Arriving = {} /\ sent = <<>>
  BY <1>2, NothingOpen DEF PatientInv
<1> DEFINE x == denied \cup behind
<1>4. PageIn(db, lists, selected, x, behind)
  <2>1. PageIn(db, lists, selected, denied \cup behind \cup Loading, behind \cup Arriving)
    BY <1>3 DEF PatientInv, PageNow
  <2>2. denied \cup behind \cup Loading = x /\ behind \cup Arriving = behind
    BY <1>3
  <2> QED
    BY <2>1, <2>2
<1>5. PageTypes(db, lists, selected)
  BY DEF TypeInv, KeyInv, Keys, PageTypes
<1> HIDE DEF x
<1>6. r \in Row /\ r.table = t /\ r # NoRow /\ r.id \in Nat
  <2>1. r.table = t
    BY <1>4 DEF PageIn, InColumn
  <2>2. r \in Row
    <3>1. lists[t] \in Seq(Row)
      BY DEF TypeInv
    <3> QED
      BY <3>1, RangeOfSeq
  <2> QED
    BY <2>1, <2>2, UsersPageAssumption DEF Row
<1>7. lists' \in [Column -> Seq(Row)] /\ selected' \in [Column -> Row \cup {NoRow}]
  BY SelectTypes DEF TypeInv
<1>8. /\ selected'[t] = r
      /\ \A u \in Column : u # t => selected'[u] = selected[u] \/ selected'[u] = NoRow
      /\ \A u \in Column : selected'[u] # selected[u] /\ u # t
            => t = "packs" /\ u \in {"classes", "commands"}
      /\ t = "packs" => \A u \in Column : u \in {"classes", "commands"} => selected'[u] = NoRow
      /\ \A u \in Column : lists'[u] = IF t = "packs" /\ u = "commands" THEN <<>> ELSE lists[u]
  <2>1. CASE t = "packs"
    BY <1>1, <2>1 DEF SelectPack
  <2>2. CASE t # "packs"
    <3>1. selected' = [selected EXCEPT ![t] = r] /\ lists' = lists
      BY <1>1, <1>6, <2>2 DEF SelectOther
    <3> QED
      BY <2>2, <3>1 DEF TypeInv
  <2> QED
    BY <2>1, <2>2
<1>9. PageIn(db, lists', selected', x \cup Children(t), behind)
  BY <1>4, <1>5, <1>7, <1>8, PageSelect
<1> DEFINE more == SetToSeq(Loads(t, r.id))
<1>10. /\ more \in Seq(Query) /\ Range(more) = Loads(t, r.id) /\ IsInjective(more)
       /\ \A q \in Loads(t, r.id) : /\ q.op = "load" /\ q.of = r.id /\ q.table \in Column
                                    /\ q.table \in DOMAIN Parent /\ Parent[q.table] = t
       /\ \A q, p \in Loads(t, r.id) : q.table = p.table => q = p
  BY <1>6, ChildLoads
<1>11. sent' = more
  <2>1. sent' = <<>> \o more
    BY <1>1, <1>3 DEF LoadChildren, Loads
  <2> HIDE DEF more
  <2> QED
    BY <1>10, <2>1
<1> HIDE DEF more
<1>12. \A i \in DOMAIN sent' : sent'[i] \in Loads(t, r.id)
  BY <1>10, <1>11 DEF Range
<1>13. Open' = Loads(t, r.id)
  <2>1. Range(answers') = {}
    BY <1>2, <1>3 DEF Range
  <2>2. Open' = Range(sent') \cup {a.request : a \in Range(answers')}
    BY DEF Open
  <2> QED
    BY <1>10, <1>11, <2>1, <2>2
<1>14. Distinct'
  <2>1. ASSUME NEW i \in DOMAIN sent', NEW j \in DOMAIN sent', i # j
        PROVE  sent'[i].table # sent'[j].table
    BY <1>10, <1>11, <1>12, <2>1 DEF IsInjective
  <2> QED
    BY <1>2, <1>3, <2>1 DEF Distinct
<1>15. Alone'
  BY <1>10, <1>13 DEF Alone
<1>16. ASSUME NEW q \in Open' PROVE Aimed(q)'
  <2>1. q.op = "load" /\ q.of = r.id /\ q.table \in Column
        /\ q.table \in DOMAIN Parent /\ Parent[q.table] = t
    BY <1>10, <1>13
  <2>2. q.table \in Range(Parent) => t = "packs" /\ q.table = "classes"
    BY <2>1, ColumnFacts
  <2> QED
    BY <1>6, <1>8, <2>1, <2>2 DEF Aimed
<1>17. ASSUME NEW u \in Children(t) PROVE u \in Loading'
  <2>1. u \in Column /\ Load(u, r.id) \in Loads(t, r.id)
    BY DEF Children, Loads
  <2>2. Load(u, r.id).op = "load" /\ Load(u, r.id).table = u
    BY <1>6, <2>1, LoadType
  <2>3. Load(u, r.id) \in Open'
    BY <1>13, <2>1
  <2> QED
    BY <2>1, <2>2, <2>3 DEF Loading
<1>18. PageIn(db, lists', selected', denied \cup behind \cup Loading', behind \cup Arriving')
  <2> DEFINE v == denied \cup behind \cup Loading'
             w == behind \cup Arriving'
             xc == x \cup Children(t)
  <2>1. PageIn(db, lists', selected', xc, behind)
    BY <1>9
  <2>2. xc \cap Column \subseteq v /\ behind \cap Column \subseteq w
    BY <1>17 DEF x
  <2> HIDE DEF xc, v, w
  <2>3. PageIn(db, lists', selected', v, w)
    BY <2>1, <2>2, PageWeaker
  <2> QED
    BY <2>3 DEF v, w
<1>19. PageNow'
  BY <1>2, <1>18 DEF PageNow
<1> QED
  BY <1>2, <1>3, <1>14, <1>15, <1>16, <1>19 DEF PatientInv

\* The page that has just been opened satisfies it.
LEMMA InitPatient == ASSUME Init PROVE PatientInv
<1>1. /\ sent \in Seq(Query)
      /\ \A i \in DOMAIN sent :
            \E t \in Column : t \in {"roles", "packs", "users"} /\ sent[i] = Load(t, 0)
      /\ \A i, j \in DOMAIN sent : i # j => sent[i].table # sent[j].table
  BY InitSent
<1>2. answers = <<>> /\ DOMAIN answers = {} /\ Range(answers) = {}
  BY DEF Init, Range
<1>3. Open = Range(sent)
  BY <1>2 DEF Open
<1>4. \A q \in Open : \E t \in Column : t \in {"roles", "packs", "users"} /\ q = Load(t, 0)
  BY <1>1, <1>3 DEF Range
<1>5. \A t \in Column : Load(t, 0).op = "load" /\ Load(t, 0).table = t
  BY LoadType
<1>6. \A t \in Column : t \in {"roles", "packs", "users"} => Load(t, 0) \in Open
  <2> DEFINE roles == First("roles")
             packs == First("packs")
             users == First("users")
  <2>1. roles \in Seq(Query) /\ packs \in Seq(Query) /\ users \in Seq(Query)
    BY FirstType DEF Table
  <2>2. sent = roles \o packs \o users
    BY DEF Init
  <2>3. ASSUME NEW t \in Column PROVE Load(t, 0) \in Range(First(t))
    BY DEF First, Range
  <2> HIDE DEF roles, packs, users
  <2>4. roles \o packs \in Seq(Query) /\ Range(roles \o packs) = Range(roles) \cup Range(packs)
    BY <2>1, RangeConcatenation, ConcatProperties
  <2>5. Range(sent) = Range(roles \o packs) \cup Range(users)
    <3> DEFINE both == roles \o packs
    <3>1. both \in Seq(Query) /\ sent = both \o users
      BY <2>2, <2>4
    <3> HIDE DEF both
    <3>2. Range(sent) = Range(both) \cup Range(users)
      BY <2>1, <3>1, RangeConcatenation
    <3> QED
      BY <3>2 DEF both
  <2> QED
    BY <1>3, <2>3, <2>4, <2>5 DEF roles, packs, users
<1>7. Distinct
  BY <1>1, <1>2 DEF Distinct
<1>8. Alone
  BY <1>4, <1>5 DEF Alone
<1>9. ASSUME NEW q \in Open PROVE Aimed(q)
  <2>1. PICK t \in Column : t \in {"roles", "packs", "users"} /\ q = Load(t, 0)
    BY <1>4
  <2>2. q.op = "load" /\ q.table = t /\ t \notin DOMAIN Parent
    BY <1>5, <2>1, ColumnFacts
  <2>3. selected[t] = NoRow
    BY DEF Init
  <2> QED
    BY <2>2, <2>3 DEF Aimed
<1>10. ASSUME NEW t \in Column \ Loading PROVE t \in DOMAIN Parent /\ Parent[t] \in Column
  <2>1. t \notin {"roles", "packs", "users"}
    BY <1>5, <1>6 DEF Loading
  <2> QED
    BY <2>1, ColumnFacts DEF Table
<1>11. PageIn(db, lists, selected, denied \cup behind \cup Loading, behind \cup Arriving)
  <2>1. Range(<<>>) = {} /\ IsInjective(<<>>)
    BY DEF Range, IsInjective
  <2>2. \A t \in Column : lists[t] = <<>> /\ selected[t] = NoRow
    BY DEF Init
  <2>3. \A t \in Column \ Loading : \A r \in db : r.table = t => ~Belongs(r, selected)
    BY <1>10, <2>2 DEF Belongs
  <2>4. InColumn(lists) /\ Shown(db, lists, behind \cup Arriving) /\ Picked(lists, selected)
    BY <2>1, <2>2 DEF InColumn, Shown, Picked
  <2>5. Agrees(db, lists, selected, denied \cup behind \cup Loading)
    BY <2>1, <2>2, <2>3 DEF Agrees, Fits
  <2> QED
    BY <2>4, <2>5 DEF PageIn
<1> QED
  BY <1>2, <1>7, <1>8, <1>9, <1>11 DEF PatientInv, PageNow

\* Every step keeps the invariant of a patient user.
LEMMA PatientNext ==
    ASSUME TypeInv, KeyInv, PatientInv, Patient, [Next]_vars PROVE PatientInv'
<1>1. ASSUME NEW t \in Column, Click(t) PROVE PatientInv'
  BY <1>1, PatientSelect, PatientCommand DEF Click
<1>2. CASE WebProcess
  BY <1>2, RoutesHandle, PatientHandle
<1>3. CASE CarryOut
  BY <1>3, PatientStray
<1>4. CASE Receive
  BY <1>4, ReceiveTakes, PatientTake
<1>5. CASE UNCHANGED vars
  <2>1. UNCHANGED <<db, behind, lists, selected, sent, answers, denied>>
    BY <1>5 DEF vars, tableVars, pageVars
  <2>2. Open' = Open /\ Loading' = Loading /\ Arriving' = Arriving
    BY <2>1 DEF Open, Loading, Arriving
  <2> QED
    BY <2>1, <2>2 DEF PatientInv, Distinct, Alone, Aimed, LoadTrue, PageThen, PageNow
<1> QED
  BY <1>1, <1>2, <1>3, <1>4, <1>5 DEF Next

\* When the user waits for all answers, the page is always what the tables say, but for
\* the lists that are being loaded, those whose last load was denied and those that a
\* request with a lost answer spoiled, and a spoiled column never spoils another.
THEOREM PatientSafe == ASSUME Patient PROVE Spec => []PatientInv
<1>1. Init => PatientInv
  BY InitPatient
<1>2. (TypeInv /\ KeyInv) /\ PatientInv /\ [Next]_vars => PatientInv'
  BY PatientNext
<1> QED
  BY <1>1, <1>2, TypesSafe, PTL DEF Spec

\* With nothing open, page and tables agree.
LEMMA QuietPage ==
    ASSUME TypeInv, PatientInv, Quiet
    PROVE  PageIn(db, lists, selected, denied \cup behind, behind)
<1>1. DOMAIN answers = {} /\ Range(sent) = {} /\ Range(answers) = {}
  BY DEF Quiet, Range
<1>2. denied \cup behind \cup Loading = denied \cup behind /\ behind \cup Arriving = behind
  BY <1>1 DEF Open, Loading, Arriving
<1>3. PageIn(db, lists, selected, denied \cup behind \cup Loading, behind \cup Arriving)
  BY <1>1 DEF PatientInv, PageNow
<1> QED
  BY <1>2, <1>3

\* The two ways to say which rows belong to the selection are one.
LEMMA ViewFacts ==
    ASSUME NEW t \in Column
    PROVE  View(t) = {r \in db : r.table = t /\ Belongs(r, selected)}
  BY DEF View, RowsOf, Belongs

\* For a patient user, each list that is not one of links shows, when nothing is open,
\* exactly the rows of what is selected: no answer that comes late puts the list of an
\* earlier selection back, and a change whose answer was lost spoils its own column and
\* the lists under it only (the load, add, edit and delete functions of users_vue.html).
THEOREM ListsAgreePatient == ASSUME Patient PROVE Spec => []ListsAgree
<1>1. TypeInv /\ PatientInv => ListsAgree
  <2> SUFFICES ASSUME TypeInv, PatientInv, Quiet,
                      NEW t \in Column \ (DOMAIN Link \cup denied \cup behind)
               PROVE  Range(lists[t]) = View(t) /\ IsInjective(lists[t])
    BY DEF ListsAgree
  <2>1. PageIn(db, lists, selected, denied \cup behind, behind)
    BY QuietPage
  <2>2. Fits(db, selected, t, lists[t]) /\ \A r \in Range(lists[t]) : r.table = t
    BY <2>1 DEF PageIn, Agrees, InColumn
  <2> QED
    BY <2>2, ViewFacts DEF Fits
<1> QED
  BY <1>1, TypesSafe, PatientSafe, PTL

\* For a patient user, the lists of links show no row of another role or user, gone or
\* not, and miss none, although a cascade does not reload them; changes whose answer was
\* lost count as in ListsAgreePatient.
THEOREM LinksAgreePatient == ASSUME Patient PROVE Spec => []LinksAgree
<1>1. TypeInv /\ PatientInv => LinksAgree
  <2> SUFFICES ASSUME TypeInv, PatientInv, Quiet,
                      NEW t \in (Column \cap DOMAIN Link) \ (denied \cup behind)
               PROVE  /\ Range(lists[t]) \cap db = View(t)
                      /\ \A r \in Range(lists[t]) : /\ selected[Parent[t]] # NoRow
                                                   /\ r.parent = selected[Parent[t]].id
    BY DEF LinksAgree
  <2>1. PageIn(db, lists, selected, denied \cup behind, behind)
    BY QuietPage
  <2>2. Fits(db, selected, t, lists[t]) /\ \A r \in Range(lists[t]) : r.table = t
    BY <2>1 DEF PageIn, Agrees, InColumn
  <2>3. t \in DOMAIN Parent
    BY ColumnFacts
  <2>4. Range(lists[t]) \cap db = View(t)
    BY <2>2, ViewFacts DEF Fits
  <2> QED
    BY <2>2, <2>3, <2>4 DEF Fits, Belongs
<1> QED
  BY <1>1, TypesSafe, PatientSafe, PTL

\* For a patient user, what is selected is one of the rows shown, as it is shown.
THEOREM SelectionShownPatient == ASSUME Patient PROVE Spec => []SelectionShown
<1>1. TypeInv /\ PatientInv => SelectionShown
  BY QuietPage DEF SelectionShown, PageIn, Picked
<1> QED
  BY <1>1, TypesSafe, PatientSafe, PTL

\* For a patient user, an edit or delete meets the row the user saw, although it only
\* carries an id and ids are given again: unless its column was spoiled by a lost answer
\* and not read again.
THEOREM MeetsRowSeenPatient == ASSUME Patient PROVE Spec => []MeetsRowSeen
<1>1. TypeInv /\ KeyInv /\ PatientInv => MeetsRowSeen
  <2> SUFFICES ASSUME TypeInv, KeyInv, PatientInv, NEW i \in DOMAIN sent,
                      sent[i].op \in {"edit", "delete"},
                      sent[i].table \in Range(Parent) \ behind,
                      NEW r \in RowsOf(sent[i].table), r.id = sent[i].of
               PROVE  r = sent[i].row
    BY DEF MeetsRowSeen
  <2> DEFINE t == sent[i].table
  <2>1. sent[i] \in Open /\ t \in Column
    BY OpenFacts DEF PatientInv, Query
  <2>2. DOMAIN answers = {} /\ Arriving = {}
    <3>1. DOMAIN answers = {}
      BY SentAlone DEF PatientInv
    <3> QED
      BY <3>1 DEF Arriving
  <2>3. PageIn(db, lists, selected, denied \cup behind \cup Loading, behind \cup Arriving)
    BY <2>2 DEF PatientInv, PageNow
  <2>4. selected[t] # NoRow /\ sent[i].row = selected[t] /\ sent[i].of = selected[t].id
    BY <2>1 DEF PatientInv, Aimed
  <2>5. selected[t] \in db /\ selected[t].table = t
    BY <2>1, <2>2, <2>3, <2>4 DEF PageIn, Picked, Shown, InColumn
  <2> QED
    BY <2>4, <2>5 DEF RowsOf, KeyInv, Keys
<1> QED
  BY <1>1, TypesSafe, PatientSafe, PTL

=============================================================================
