------------------------- MODULE TelegramBotProofs -------------------------
(***************************************************************************)
(* Proofs about TelegramBot, for any chats, updates, menus and faults: a   *)
(* click is never taken for another button, the bot remembers only buttons *)
(* its message showed, it edits only messages that exist, and users who    *)
(* wait find the newest menu alive.                                        *)
(***************************************************************************)
EXTENDS TelegramBot, SequenceTheorems, FiniteSetTheorems, TLAPS

USE BotAssumption

\* The initial states satisfy the inductive invariant.
LEMMA InitIInv == Init => IInv
<1> SUFFICES ASSUME Init PROVE IInv
  OBVIOUS
<1> USE DEF Init
<1>1. NoEntry \in Entry
  BY DEF NoEntry, Entry, Request
<1>2. NoTask \in Task
  BY DEF NoTask, Task, TaskState, Request
<1>3. shown \in [Chat -> Seq(Menu)] /\ \A c \in Chat : Len(shown[c]) <= MaxMessages
  OBVIOUS
<1>4. ClickMeansWhatItSays
  BY DEF ClickMeansWhatItSays, NoTask
<1>5. EntryWasShown
  BY DEF EntryWasShown, Known
<1>6. \A u \in Update : task[u].at = "new" /\ task[u].kind = "none"
  BY DEF NoTask
<1> QED
  BY <1>1, <1>2, <1>3, <1>4, <1>5, <1>6 DEF IInv

\* What IInv says of one handler, and of the handler in isolation.
TaskInv(t) ==
    /\ t \in Task
    /\ t.kind = "query" /\ t.at \notin {"queued", "done"} => t.request = t.seen
    /\ t.at # "new" => t.chat \in Chat
    /\ t.kind = "query" => t.seen \in Member
    /\ t.kind = "query" => t.data = Key(t.seen)
    /\ t.at = "sending" => t.menu \in Menu
    /\ t.at = "storing" => t.menu \in Menu

\* A step that changes one handler only has to be checked for that handler.
LEMMA OneTask ==
    ASSUME IInv, NEW u \in Update, NEW t, TaskInv(t), t.at # "storing",
           task' = [task EXCEPT ![u] = t], UNCHANGED <<chats, shown, past>>
    PROVE  IInv'
<1>1. task' \in [Update -> Task]
  BY DEF IInv, TaskInv
<1>2. \A v \in Update : task'[v] = IF v = u THEN t ELSE task[v]
  BY DEF IInv
<1>3. ClickMeansWhatItSays'
  BY <1>2 DEF IInv, ClickMeansWhatItSays, TaskInv
<1>4. EntryWasShown'
  BY DEF IInv, EntryWasShown, Known
<1> QED
  BY <1>1, <1>2, <1>3, <1>4 DEF IInv, TaskInv

\* Every handler satisfies its part.
LEMMA TaskInvHolds == ASSUME IInv, NEW u \in Update PROVE TaskInv(task[u])
  BY DEF IInv, TaskInv, ClickMeansWhatItSays

\* A handler that ends keeps the invariant.
LEMMA DoneIInv ==
    ASSUME IInv, NEW u \in Update, task[u].at # "new", Move(u, "done"),
           UNCHANGED <<chats, shown, past>>
    PROVE  IInv'
<1> DEFINE n == [task[u] EXCEPT !.at = "done"]
<1>1. TaskInv(n) /\ n.at # "storing"
  BY TaskInvHolds DEF TaskInv, Task, TaskState
<1>2. task' = [task EXCEPT ![u] = n]
  BY DEF Move
<1> HIDE DEF n
<1> QED
  BY <1>1, <1>2, OneTask

\* A handler that has not begun.
LEMMA NoTaskType == NoTask \in Task
  BY DEF NoTask, Task, TaskState, Request

\* An update arrives.
LEMMA ArriveIInv ==
    ASSUME IInv, NEW u \in Update, NEW c \in Chat,
           SendStart(u, c) \/ Click(u, c) \/ SendCommand(u, c)
    PROVE  IInv'
<1> USE DEF Arrive
<1>1. CASE SendStart(u, c)
  <2> DEFINE t == [NoTask EXCEPT !.kind = "start", !.chat = c, !.at = "asking"]
  <2>1. t \in Task
    BY NoTaskType DEF Task, TaskState
  <2>2. TaskInv(t) /\ t.at # "storing"
    BY <2>1 DEF TaskInv, NoTask
  <2> QED
    BY <1>1, <2>2, OneTask DEF SendStart
<1>2. CASE Click(u, c)
  <2>1. PICK m \in DOMAIN shown[c] : \E b \in shown[c][m] :
            Arrive(u, c, [NoTask EXCEPT !.kind = "query", !.chat = c, !.at = "queued",
                                        !.message = m, !.data = Key(b), !.seen = b])
    BY <1>2 DEF Click
  <2>2. PICK b \in shown[c][m] :
            Arrive(u, c, [NoTask EXCEPT !.kind = "query", !.chat = c, !.at = "queued",
                                        !.message = m, !.data = Key(b), !.seen = b])
    BY <2>1
  <2> DEFINE t == [NoTask EXCEPT !.kind = "query", !.chat = c, !.at = "queued",
                                 !.message = m, !.data = Key(b), !.seen = b]
  <2>3. shown[c] \in Seq(Menu) /\ Len(shown[c]) <= MaxMessages
    BY DEF IInv
  <2>4. m \in 0 .. MaxMessages /\ b \in Member
    BY <2>3
  <2>5. t \in Task
    BY <2>4, NoTaskType DEF Task, TaskState, Request
  <2>6. TaskInv(t) /\ t.at # "storing"
    BY <2>4, <2>5 DEF TaskInv, NoTask
  <2> QED
    BY <2>2, <2>6, OneTask
<1>3. CASE SendCommand(u, c)
  <2> DEFINE t == [NoTask EXCEPT !.kind = "refresh", !.chat = c, !.at = "queued"]
  <2>1. t \in Task
    BY NoTaskType DEF Task, TaskState
  <2>2. TaskInv(t) /\ t.at # "storing"
    BY <2>1 DEF TaskInv, NoTask
  <2> QED
    BY <1>3, <2>2, OneTask DEF SendCommand
<1> QED
  BY <1>1, <1>2, <1>3

\* The lookup of a click finds the very member that was clicked: keys differ.
LEMMA LookupClickIInv ==
    ASSUME IInv, NEW u \in Update, LookupClick(u) PROVE IInv'
<1> DEFINE t == task[u]
           found == {b \in Found(t) : b.level # None}
<1>1. TaskInv(t) /\ t.at = "queued" /\ t.kind = "query" /\ t.chat \in Chat
  BY TaskInvHolds DEF LookupClick, TaskInv
<1>2. CASE found = {}
  BY <1>1, <1>2, DoneIInv DEF LookupClick
<1>3. CASE found # {}
  <2>1. PICK b \in found : task' = [task EXCEPT ![u].at = "asking", ![u].request = b]
    BY <1>3 DEF LookupClick
  <2>2. b \in Member /\ Key(b) = t.data
    BY <1>1 DEF Found, IInv, Entry
  <2>3. b = t.seen
    BY <1>1, <2>2, KeysDiffer DEF TaskInv
  <2> DEFINE n == [t EXCEPT !.at = "asking", !.request = b]
  <2>4. task' = [task EXCEPT ![u] = n]
    BY <2>1
  <2>5. TaskInv(n)
    BY <1>1, <2>2, <2>3 DEF TaskInv, Task, TaskState, Request
  <2>6. n.at # "storing"
    BY <1>1 DEF TaskInv, Task
  <2> HIDE DEF n
  <2> QED
    BY <2>4, <2>5, <2>6, OneTask DEF LookupClick
<1> QED
  BY <1>2, <1>3

\* The lookup for a refresh takes a request the bot remembers.
LEMMA LookupRefreshIInv ==
    ASSUME IInv, NEW u \in Update, LookupRefresh(u) PROVE IInv'
<1> DEFINE t == task[u]
           entry == chats[t.chat]
<1>1. TaskInv(t) /\ t.at = "queued" /\ t.kind = "refresh" /\ t.chat \in Chat
  BY TaskInvHolds DEF LookupRefresh, TaskInv
<1>2. CASE entry = NoEntry
  BY <1>1, <1>2, DoneIInv DEF LookupRefresh
<1>3. CASE entry # NoEntry
  <2> DEFINE n == [t EXCEPT !.at = "asking", !.request = entry.request]
  <2>1. task' = [task EXCEPT ![u] = n]
    BY <1>3 DEF LookupRefresh
  <2>2. entry.request \in Request
    BY <1>1 DEF IInv, Entry
  <2>3. TaskInv(n) /\ n.at # "storing"
    BY <1>1, <2>2 DEF TaskInv, Task, TaskState
  <2> HIDE DEF n
  <2> QED
    BY <2>1, <2>3, OneTask DEF LookupRefresh
<1> QED
  BY <1>2, <1>3

\* The members arrive.
LEMMA AnswerIInv ==
    ASSUME IInv, NEW u \in Update, Answer(u) PROVE IInv'
<1> DEFINE t == task[u]
           entry == chats[t.chat]
<1>1. TaskInv(t) /\ t.at = "asking" /\ t.chat \in Chat
  BY TaskInvHolds DEF Answer, TaskInv
<1>2. PICK menu \in Menu :
          \/ task' = [task EXCEPT ![u].at = "sending", ![u].menu = menu]
          \/ Move(u, "done")
          \/ task' = [task EXCEPT ![u].at = "sending", ![u].menu = menu,
                                  ![u].message = entry.message]
  BY <1>1 DEF Answer
<1>3. entry.message \in 0 .. MaxMessages
  BY <1>1 DEF IInv, Entry
<1>4. CASE task' = [task EXCEPT ![u].at = "sending", ![u].menu = menu]
  <2> DEFINE n == [t EXCEPT !.at = "sending", !.menu = menu]
  <2>1. task' = [task EXCEPT ![u] = n]
    BY <1>4
  <2>2. TaskInv(n) /\ n.at # "storing"
    BY <1>1 DEF TaskInv, Task, TaskState
  <2> HIDE DEF n
  <2> QED
    BY <2>1, <2>2, OneTask DEF Answer
<1>5. CASE Move(u, "done")
  BY <1>1, <1>5, DoneIInv DEF Answer
<1>6. CASE task' = [task EXCEPT ![u].at = "sending", ![u].menu = menu,
                                ![u].message = entry.message]
  <2> DEFINE n == [t EXCEPT !.at = "sending", !.menu = menu, !.message = entry.message]
  <2>1. task' = [task EXCEPT ![u] = n]
    BY <1>6
  <2>2. TaskInv(n) /\ n.at # "storing"
    BY <1>1, <1>3 DEF TaskInv, Task, TaskState
  <2> HIDE DEF n
  <2> QED
    BY <2>1, <2>2, OneTask DEF Answer
<1> QED
  BY <1>2, <1>4, <1>5, <1>6

\* Updating a sequence outside its domain changes nothing.
LEMMA ExceptOutside ==
    ASSUME NEW S, NEW seq \in Seq(S), NEW i, i \notin DOMAIN seq, NEW e
    PROVE  [seq EXCEPT ![i] = e] = seq
<1>1. seq = [j \in DOMAIN seq |-> seq[j]]
  OBVIOUS
<1>2. [seq EXCEPT ![i] = e] = [j \in DOMAIN seq |-> seq[j]]
  OBVIOUS
<1> QED
  BY <1>1, <1>2

\* A menu is shown: it becomes part of the history, nothing stored changes.
LEMMA ShowsIInv ==
    ASSUME IInv, NEW u \in Update, NEW at \in {"storing", "done"}, Shows(u, at)
    PROVE  IInv'
<1> DEFINE t == task[u]
<1>1. TaskInv(t) /\ t.at = "sending" /\ t.chat \in Chat /\ t.menu \in Menu
  BY TaskInvHolds DEF Shows, TaskInv
<1>2. shown[t.chat] \in Seq(Menu) /\ Len(shown[t.chat]) <= MaxMessages
  BY <1>1 DEF IInv
<1>3. PICK n \in Task :
          /\ task' = [task EXCEPT ![u] = n]
          /\ n.at = at /\ n.chat = t.chat /\ n.kind = t.kind /\ n.menu = t.menu
          /\ n.request = t.request /\ n.seen = t.seen /\ n.data = t.data
          /\ past' = past \cup {<<n.chat, n.message, n.menu>>}
          /\ UNCHANGED chats
  <2>1. CASE t.kind = "start"
    <3> DEFINE n == [t EXCEPT !.at = at, !.message = Len(shown[t.chat]) + 1]
    <3>1. Len(shown[t.chat]) + 1 \in 0 .. MaxMessages
      BY <1>2, <2>1 DEF Shows
    <3>2. n \in Task
      BY <1>1, <3>1 DEF TaskInv, Task, TaskState
    <3>3. task' = [task EXCEPT ![u] = n]
      BY <2>1 DEF Shows
    <3>4. /\ n.at = at /\ n.chat = t.chat /\ n.kind = t.kind /\ n.menu = t.menu
          /\ n.request = t.request /\ n.seen = t.seen /\ n.data = t.data
          /\ n.message = Len(shown[t.chat]) + 1
      BY <1>1 DEF TaskInv, Task
    <3> HIDE DEF n
    <3> QED
      BY <3>2, <3>3, <3>4, <2>1 DEF Shows
  <2>2. CASE t.kind # "start"
    <3> DEFINE n == [t EXCEPT !.at = at]
    <3>1. n \in Task
      BY <1>1 DEF TaskInv, Task, TaskState
    <3>2. task' = [task EXCEPT ![u] = n]
      BY <2>2 DEF Shows, Move
    <3>3. /\ n.at = at /\ n.chat = t.chat /\ n.kind = t.kind /\ n.menu = t.menu
          /\ n.request = t.request /\ n.seen = t.seen /\ n.data = t.data
          /\ n.message = t.message
      BY <1>1 DEF TaskInv, Task
    <3> HIDE DEF n
    <3> QED
      BY <3>1, <3>2, <3>3, <2>2 DEF Shows
  <2> QED
    BY <2>1, <2>2
<1>4. /\ shown' \in [Chat -> Seq(Menu)]
      /\ \A c \in Chat : Len(shown'[c]) <= MaxMessages
  <2>1. CASE t.kind = "start"
    <3>1. shown' = [shown EXCEPT ![t.chat] = Append(shown[t.chat], t.menu)]
      BY <2>1 DEF Shows
    <3>2. Append(shown[t.chat], t.menu) \in Seq(Menu)
      BY <1>1, <1>2
    <3>3. Len(Append(shown[t.chat], t.menu)) <= MaxMessages
      BY <1>2, <2>1 DEF Shows
    <3> QED
      BY <3>1, <3>2, <3>3, <1>1 DEF IInv
  <2>2. CASE t.kind # "start"
    <3> DEFINE s == [shown[t.chat] EXCEPT ![t.message] = t.menu]
    <3>1. shown' = [shown EXCEPT ![t.chat] = s]
      BY <2>2 DEF Shows
    <3>2. s \in Seq(Menu) /\ Len(s) = Len(shown[t.chat])
      <4>1. CASE t.message \in 1 .. Len(shown[t.chat])
        BY <4>1, <1>1, <1>2, ExceptSeq
      <4>2. CASE t.message \notin 1 .. Len(shown[t.chat])
        <5>1. DOMAIN shown[t.chat] = 1 .. Len(shown[t.chat])
          BY <1>2
        <5> QED
          BY <4>2, <5>1, <1>2, ExceptOutside
      <4> QED
        BY <4>1, <4>2
    <3> HIDE DEF s
    <3> QED
      BY <3>1, <3>2, <1>1, <1>2 DEF IInv
  <2> QED
    BY <2>1, <2>2
<1>5. TaskInv(n)
  BY <1>1, <1>3 DEF TaskInv
<1>6. <<n.chat, n.message, n.menu>> \in past' /\ past \subseteq past'
  BY <1>3
<1>7. \A v \in Update : task'[v] = IF v = u THEN n ELSE task[v]
  BY <1>3 DEF IInv
<1>8. task' \in [Update -> Task]
  BY <1>3 DEF IInv
<1>9. ClickMeansWhatItSays'
  BY <1>5, <1>7 DEF IInv, ClickMeansWhatItSays, TaskInv
<1>10. EntryWasShown'
  BY <1>3, <1>6 DEF IInv, EntryWasShown, Known
<1> QED
  BY <1>3, <1>4, <1>5, <1>6, <1>7, <1>8, <1>9, <1>10 DEF IInv, TaskInv

\* The end of process: what is stored was shown in the message it is stored for.
LEMMA StoreIInv ==
    ASSUME IInv, NEW u \in Update, Store(u) PROVE IInv'
<1> DEFINE t == task[u]
           e == [message |-> t.message, buttons |-> t.menu, request |-> t.request]
           n == [t EXCEPT !.at = "done"]
<1>1. /\ TaskInv(t) /\ t.at = "storing" /\ t.chat \in Chat /\ t.menu \in Menu
      /\ <<t.chat, t.message, t.menu>> \in past
  BY TaskInvHolds DEF Store, TaskInv, IInv
<1>2. e \in Entry
  BY <1>1 DEF TaskInv, Task, Entry
<1>3. chats' = [chats EXCEPT ![t.chat] = e] /\ task' = [task EXCEPT ![u] = n]
  BY DEF Store, Move
<1>4. TaskInv(n) /\ n.at = "done"
  BY <1>1 DEF TaskInv, Task, TaskState
<1>5. chats' \in [Chat -> Entry]
  BY <1>1, <1>2, <1>3 DEF IInv
<1>6. EntryWasShown'
  <2> SUFFICES ASSUME NEW c \in Chat, chats'[c] # NoEntry
               PROVE  <<c, chats'[c].message, chats'[c].buttons>> \in past
    BY DEF EntryWasShown, Known, Store
  <2>1. CASE c = t.chat
    BY <1>1, <1>3, <2>1 DEF IInv
  <2>2. CASE c # t.chat
    BY <1>3, <2>2 DEF IInv, EntryWasShown, Known
  <2> QED
    BY <2>1, <2>2
<1> HIDE DEF n
<1>7. \A v \in Update : task'[v] = IF v = u THEN n ELSE task[v]
  BY <1>3 DEF IInv
<1>8. task' \in [Update -> Task]
  BY <1>3, <1>4 DEF IInv, TaskInv
<1>9. ClickMeansWhatItSays'
  BY <1>4, <1>7 DEF IInv, ClickMeansWhatItSays, TaskInv
<1> QED
  BY <1>4, <1>5, <1>6, <1>7, <1>8, <1>9 DEF IInv, Store, TaskInv

\* Every step keeps the inductive invariant.
LEMMA NextIInv == IInv /\ [Next]_vars => IInv'
<1> SUFFICES ASSUME IInv, [Next]_vars PROVE IInv'
  OBVIOUS
<1>1. ASSUME NEW u \in Update, NEW c \in Chat,
             SendStart(u, c) \/ Click(u, c) \/ SendCommand(u, c)
      PROVE  IInv'
  BY <1>1, ArriveIInv
<1>2. ASSUME NEW u \in Update, Handle(u) PROVE IInv'
  <2>1. CASE LookupClick(u)
    BY <2>1, LookupClickIInv
  <2>2. CASE LookupRefresh(u)
    BY <2>2, LookupRefreshIInv
  <2>3. CASE Answer(u)
    BY <2>3, AnswerIInv
  <2>4. CASE AskFails(u)
    BY <2>4, DoneIInv DEF AskFails
  <2>5. CASE Show(u)
    BY <2>5, ShowsIInv DEF Show
  <2>6. CASE NotModified(u)
    BY <2>6, DoneIInv DEF NotModified
  <2>7. CASE SendFails(u)
    <3>1. CASE Shows(u, "done")
      BY <3>1, ShowsIInv
    <3>2. CASE task[u].at = "sending" /\ Move(u, "done") /\ UNCHANGED <<chats, shown, past>>
      BY <3>2, DoneIInv
    <3> QED
      BY <2>7, <3>1, <3>2 DEF SendFails
  <2>8. CASE Store(u)
    BY <2>8, StoreIInv
  <2> QED
    BY <1>2, <2>1, <2>2, <2>3, <2>4, <2>5, <2>6, <2>7, <2>8 DEF Handle
<1>3. CASE Exit \/ UNCHANGED vars
  BY <1>3 DEF Exit, ExitBegins, Notify, StopPolling, ExitAborts, vars, IInv,
              ClickMeansWhatItSays, EntryWasShown, Known
<1> QED
  BY <1>1, <1>2, <1>3 DEF Next

\* The inductive invariant holds in every reachable state.
THEOREM Invariance == Spec => []IInv
  BY InitIInv, NextIInv, PTL DEF Spec

\* However updates interleave, a click is never taken for another button.
THEOREM BotClickMeansWhatItSays == Spec => []ClickMeansWhatItSays
<1>1. IInv => ClickMeansWhatItSays
  BY DEF IInv
<1> QED
  BY Invariance, <1>1, PTL

\* The bot remembers only buttons that the message it remembers showed.
THEOREM BotEntryWasShown == Spec => []EntryWasShown
<1>1. IInv => EntryWasShown
  BY DEF IInv
<1> QED
  BY Invariance, <1>1, PTL
-----------------------------------------------------------------------------
\* What is said of messages: those that were shown are there, a click came from one
\* of them, and a refresh that is under way is of a chat with an entry.
TaskMessage(t) ==
    /\ t.at # "new" => t.kind # "none"
    /\ t.kind = "query" => t.chat \in Chat /\ t.message \in 1 .. Len(shown[t.chat])
    /\ t.kind = "refresh" /\ t.at = "asking" => t.chat \in Known
    /\ t.kind = "refresh" /\ t.at = "sending" => t.message \in 1 .. Len(shown[t.chat])

PastInv == /\ past \subseteq Chat \X (1 .. MaxMessages) \X Menu
           /\ \A p \in past : p[2] <= Len(shown[p[1]])

ExitType == /\ exit \in {"running", "notifying", "stopped", "aborted"}
            /\ notified \subseteq Chat
            /\ missed \subseteq Chat
            /\ size \in Nat
            /\ IsFiniteSet(Known)

MessageInv == PastInv /\ ExitType /\ \A u \in Update : TaskMessage(task[u])

\* The initial states satisfy it.
LEMMA MessageStarts == Init => MessageInv
<1> SUFFICES ASSUME Init PROVE MessageInv
  OBVIOUS
<1>1. Known = {}
  BY DEF Init, Known
<1>2. PastInv
  BY DEF Init, PastInv
<1>3. ExitType
  BY <1>1, FS_EmptySet DEF Init, ExitType
<1>4. ASSUME NEW u \in Update PROVE TaskMessage(task[u])
  BY DEF Init, NoTask, TaskMessage
<1> QED
  BY <1>2, <1>3, <1>4 DEF MessageInv

\* Showing a menu adds at most a message, and it is part of the history then.
LEMMA ShowsMessage ==
    ASSUME IInv, MessageInv, NEW u \in Update, NEW at, Shows(u, at)
    PROVE  /\ \A c \in Chat : Len(shown'[c]) \in Nat /\ Len(shown[c]) <= Len(shown'[c])
           /\ PastInv'
<1> DEFINE t == task[u]
           c == t.chat
<1>1. /\ t \in Task /\ c \in Chat /\ t.menu \in Menu /\ t.at = "sending"
      /\ t.kind # "start" => t.message \in 1 .. Len(shown[c])
  BY DEF Shows, IInv, MessageInv, TaskMessage, Task
<1>2. \A d \in Chat : shown[d] \in Seq(Menu) /\ Len(shown[d]) \in Nat /\ Len(shown[d]) <= MaxMessages
  BY LenProperties DEF IInv
<1>3. PICK n \in 1 .. MaxMessages, s \in Seq(Menu) :
          /\ shown' = [shown EXCEPT ![c] = s]
          /\ past' = past \cup {<<c, n, t.menu>>}
          /\ n <= Len(s) /\ Len(s) \in Nat /\ Len(shown[c]) <= Len(s)
  <2>1. CASE t.kind = "start"
    <3> DEFINE s == Append(shown[c], t.menu)
    <3>1. s \in Seq(Menu) /\ Len(s) = Len(shown[c]) + 1
      BY <1>1, <1>2
    <3>2. /\ Len(shown[c]) < MaxMessages
          /\ shown' = [shown EXCEPT ![c] = s]
          /\ past' = past \cup {<<c, Len(shown[c]) + 1, t.menu>>}
      BY <2>1 DEF Shows
    <3> HIDE DEF s
    <3>3. /\ Len(shown[c]) + 1 \in 1 .. MaxMessages
          /\ Len(shown[c]) + 1 <= Len(s) /\ Len(s) \in Nat /\ Len(shown[c]) <= Len(s)
      BY <1>1, <1>2, <3>1, <3>2
    <3>4. s \in Seq(Menu)
      BY <3>1
    <3> QED
      BY <3>2, <3>3, <3>4
  <2>2. CASE t.kind # "start"
    <3> DEFINE s == [shown[c] EXCEPT ![t.message] = t.menu]
    <3>1. s \in Seq(Menu) /\ Len(s) = Len(shown[c])
      BY <1>1, <1>2, <2>2, ExceptSeq
    <3>2. /\ shown' = [shown EXCEPT ![c] = s]
          /\ past' = past \cup {<<c, t.message, t.menu>>}
      BY <2>2 DEF Shows
    <3> HIDE DEF s
    <3>3. /\ t.message \in 1 .. MaxMessages
          /\ t.message <= Len(s) /\ Len(s) \in Nat /\ Len(shown[c]) <= Len(s)
      BY <1>1, <1>2, <2>2, <3>1
    <3>4. s \in Seq(Menu)
      BY <3>1
    <3> QED
      BY <3>2, <3>3, <3>4
  <2> QED
    BY <2>1, <2>2
<1> HIDE DEF t, c
<1>4. \A d \in Chat : shown'[d] = IF d = c THEN s ELSE shown[d]
  BY <1>3 DEF IInv
<1>5. \A d \in Chat : Len(shown'[d]) \in Nat /\ Len(shown[d]) <= Len(shown'[d])
  BY <1>2, <1>3, <1>4
<1>6. PastInv'
  <2>1. past' \subseteq Chat \X (1 .. MaxMessages) \X Menu
    BY <1>1, <1>3 DEF MessageInv, PastInv
  <2>2. ASSUME NEW p \in past' PROVE p[2] <= Len(shown'[p[1]])
    <3>1. CASE p \in past
      <4>1. p[1] \in Chat /\ p[2] \in 1 .. MaxMessages /\ p[2] <= Len(shown[p[1]])
        BY <3>1 DEF MessageInv, PastInv
      <4> QED
        BY <1>2, <1>5, <4>1
    <3>2. CASE p = <<c, n, t.menu>>
      BY <1>1, <1>3, <1>4, <3>2
    <3> QED
      BY <1>3, <3>1, <3>2
  <2> QED
    BY <2>1, <2>2 DEF PastInv
<1> QED
  BY <1>5, <1>6

\* What a step of a handler does to its own record, by its message.
LEMMA HandlerMoves ==
    ASSUME IInv, MessageInv, NEW u \in Update, Handle(u)
    PROVE  /\ \A v \in Update \ {u} : task'[v] = task[v]
           /\ task[u].at # "new"
           /\ task'[u].kind = task[u].kind /\ task'[u].chat = task[u].chat
           /\ \/ task'[u].at = "done" /\ (task[u].kind = "start" \/ task'[u].message = task[u].message)
              \/ /\ task'[u].at = "asking" /\ task'[u].message = task[u].message
                 /\ task[u].kind = "refresh" => task[u].chat \in Known
              \/ /\ task[u].at = "asking" /\ task'[u].at = "sending"
                 /\ task'[u].message = IF task[u].kind = "refresh" THEN chats[task[u].chat].message
                                                                 ELSE task[u].message
              \/ /\ task'[u].at = "storing"
                 /\ task[u].kind = "start" \/ task'[u].message = task[u].message
<1> DEFINE t == task[u]
<1>1. t \in Task /\ task \in [Update -> Task] /\ (t.at # "new" => t.chat \in Chat)
  BY DEF IInv
<1>a. t.at # "new"
  BY DEF Handle, LookupClick, LookupRefresh, Answer, AskFails, Show, Shows, NotModified, SendFails, Store
<1>2. ASSUME NEW at, Move(u, at)
      PROVE  /\ \A v \in Update \ {u} : task'[v] = task[v]
             /\ task'[u].kind = t.kind /\ task'[u].chat = t.chat
             /\ task'[u].at = at /\ task'[u].message = t.message
  BY <1>1, <1>2 DEF Move, Task
<1>3. ASSUME NEW r, task' = [task EXCEPT ![u].at = "asking", ![u].request = r]
      PROVE  /\ \A v \in Update \ {u} : task'[v] = task[v]
             /\ task'[u].kind = t.kind /\ task'[u].chat = t.chat
             /\ task'[u].at = "asking" /\ task'[u].message = t.message
  BY <1>1, <1>3 DEF Task
<1>4. ASSUME NEW menu, task' = [task EXCEPT ![u].at = "sending", ![u].menu = menu]
      PROVE  /\ \A v \in Update \ {u} : task'[v] = task[v]
             /\ task'[u].kind = t.kind /\ task'[u].chat = t.chat
             /\ task'[u].at = "sending" /\ task'[u].message = t.message
  BY <1>1, <1>4 DEF Task
<1>5. ASSUME NEW menu, NEW m,
             task' = [task EXCEPT ![u].at = "sending", ![u].menu = menu, ![u].message = m]
      PROVE  /\ \A v \in Update \ {u} : task'[v] = task[v]
             /\ task'[u].kind = t.kind /\ task'[u].chat = t.chat
             /\ task'[u].at = "sending" /\ task'[u].message = m
  BY <1>1, <1>5 DEF Task
<1>6. ASSUME NEW at, NEW m, task' = [task EXCEPT ![u].at = at, ![u].message = m]
      PROVE  /\ \A v \in Update \ {u} : task'[v] = task[v]
             /\ task'[u].kind = t.kind /\ task'[u].chat = t.chat /\ task'[u].at = at
  BY <1>1, <1>6 DEF Task
<1>7. CASE LookupClick(u)
  BY <1>2, <1>3, <1>7 DEF LookupClick
<1>8. CASE LookupRefresh(u)
  BY <1>1, <1>2, <1>3, <1>8 DEF LookupRefresh, Known
<1>9. CASE Answer(u)
  <2> DEFINE entry == chats[t.chat]
  <2>1. PICK menu \in Menu :
            \/ t.kind # "refresh" /\ task' = [task EXCEPT ![u].at = "sending", ![u].menu = menu]
            \/ Move(u, "done")
            \/ /\ t.kind = "refresh"
               /\ task' = [task EXCEPT ![u].at = "sending", ![u].menu = menu,
                                       ![u].message = entry.message]
    BY <1>9 DEF Answer
  <2>2. t.at = "asking"
    BY <1>9 DEF Answer
  <2> HIDE DEF t
  <2>3. CASE t.kind # "refresh" /\ task' = [task EXCEPT ![u].at = "sending", ![u].menu = menu]
    BY <1>4, <2>2, <2>3 DEF t
  <2>4. CASE Move(u, "done")
    BY <1>2, <1>a, <2>4 DEF t
  <2>5. CASE /\ t.kind = "refresh"
             /\ task' = [task EXCEPT ![u].at = "sending", ![u].menu = menu,
                                     ![u].message = entry.message]
    BY <1>5, <2>2, <2>5 DEF t
  <2> QED
    BY <2>1, <2>3, <2>4, <2>5
<1>10. CASE AskFails(u) \/ NotModified(u) \/ Store(u)
  BY <1>2, <1>10 DEF AskFails, NotModified, Store
<1>11. ASSUME NEW at \in {"storing", "done"}, Shows(u, at)
       PROVE  /\ \A v \in Update \ {u} : task'[v] = task[v]
              /\ task'[u].kind = t.kind /\ task'[u].chat = t.chat
              /\ task'[u].at = at /\ (t.kind = "start" \/ task'[u].message = t.message)
  <2>1. CASE t.kind = "start"
    BY <1>6, <1>11, <2>1 DEF Shows
  <2>2. CASE t.kind # "start"
    BY <1>2, <1>11, <2>2 DEF Shows
  <2> QED
    BY <2>1, <2>2
<1>12. CASE Show(u) \/ SendFails(u)
  <2>1. CASE Shows(u, "storing")
    BY <1>11, <1>a, <2>1
  <2>2. CASE Shows(u, "done")
    BY <1>11, <1>a, <2>2
  <2>3. CASE Move(u, "done")
    BY <1>2, <1>a, <2>3
  <2> QED
    BY <1>12, <2>1, <2>2, <2>3 DEF Show, SendFails
<1> QED
  BY <1>7, <1>8, <1>9, <1>10, <1>12, <1>a DEF Handle

\* No step takes a message or an entry away, and the history follows.
LEMMA MessagesGrow ==
    ASSUME IInv, MessageInv, [Next]_vars
    PROVE  /\ \A c \in Chat : Len(shown'[c]) \in Nat /\ Len(shown[c]) <= Len(shown'[c])
           /\ Known \subseteq Known'
           /\ PastInv'
<1>1. \A c \in Chat : Len(shown[c]) \in Nat
  BY LenProperties DEF IInv
<1>2. CASE UNCHANGED <<chats, shown, past>>
  BY <1>1, <1>2 DEF Known, MessageInv, PastInv
<1>3. ASSUME NEW u \in Update, NEW at, Shows(u, at)
      PROVE  /\ \A c \in Chat : Len(shown'[c]) \in Nat /\ Len(shown[c]) <= Len(shown'[c])
             /\ Known \subseteq Known' /\ PastInv'
  BY <1>3, ShowsMessage DEF Shows, Known
<1>4. ASSUME NEW u \in Update, Store(u)
      PROVE  UNCHANGED <<shown, past>> /\ Known \subseteq Known'
  <2> DEFINE t == task[u]
             e == [message |-> t.message, buttons |-> t.menu, request |-> t.request]
  <2>1. <<t.chat, t.message, t.menu>> \in past /\ chats' = [chats EXCEPT ![t.chat] = e]
    BY <1>4 DEF Store, IInv
  <2>2. t.message \in 1 .. MaxMessages
    BY <2>1 DEF MessageInv, PastInv
  <2>3. e # NoEntry
    BY <2>2 DEF NoEntry
  <2> HIDE DEF e
  <2>4. \A c \in Chat : chats'[c] = chats[c] \/ chats'[c] = e
    BY <2>1 DEF IInv
  <2> QED
    BY <1>4, <2>3, <2>4 DEF Known, Store
<1>5. CASE \E u \in Update : Store(u)
  BY <1>1, <1>4, <1>5 DEF MessageInv, PastInv
<1>6. CASE \E u \in Update, at \in {"storing", "done"} : Shows(u, at)
  BY <1>3, <1>6
<1> QED
  BY <1>2, <1>5, <1>6 DEF Next, vars, SendStart, Click, SendCommand, Arrive, Handle, LookupClick,
     LookupRefresh, Answer, AskFails, Show, NotModified, SendFails, Exit, ExitBegins, Notify,
     StopPolling, ExitAborts

\* What is said of a handler goes on to hold while messages and entries grow.
LEMMA TaskMessageLasts ==
    ASSUME IInv, MessageInv, [Next]_vars, NEW v \in Update, task'[v] = task[v]
    PROVE  TaskMessage(task[v])'
<1>1. /\ \A c \in Chat : /\ Len(shown'[c]) \in Nat /\ Len(shown[c]) \in Nat
                        /\ Len(shown[c]) <= Len(shown'[c])
      /\ Known \subseteq Known'
  BY MessagesGrow, LenProperties DEF IInv
<1>2. TaskMessage(task[v]) /\ (task[v].at # "new" => task[v].chat \in Chat)
  BY DEF MessageInv, IInv
<1>3. \A c \in Chat : \A m : m \in 1 .. Len(shown[c]) => m \in 1 .. Len(shown'[c])
  BY <1>1
<1> QED
  BY <1>1, <1>2, <1>3 DEF TaskMessage

\* An arriving update keeps it: a click is on a message that is there.
LEMMA ArriveMessage ==
    ASSUME IInv, MessageInv, NEW u \in Update, NEW c \in Chat,
           SendStart(u, c) \/ Click(u, c) \/ SendCommand(u, c)
    PROVE  /\ \A v \in Update \ {u} : task'[v] = task[v]
           /\ TaskMessage(task[u])'
<1> USE DEF Arrive, IInv, TaskMessage, NoTask
<1>1. CASE SendStart(u, c)
  BY <1>1 DEF SendStart
<1>2. CASE Click(u, c)
  <2>1. PICK m \in DOMAIN shown[c] : \E b \in shown[c][m] :
            Arrive(u, c, [NoTask EXCEPT !.kind = "query", !.chat = c, !.at = "queued",
                                        !.message = m, !.data = Key(b), !.seen = b])
    BY <1>2 DEF Click
  <2>2. m \in 1 .. Len(shown[c])
    BY LenProperties
  <2> QED
    BY <2>1, <2>2
<1>3. CASE SendCommand(u, c)
  BY <1>3 DEF SendCommand
<1> QED
  BY <1>1, <1>2, <1>3

\* A step of a handler keeps it: a refresh edits the message of an entry.
LEMMA HandleMessage ==
    ASSUME IInv, MessageInv, [Next]_vars, NEW u \in Update, Handle(u) PROVE TaskMessage(task[u])'
<1> DEFINE t == task[u]
<1>1. /\ \A c \in Chat : /\ Len(shown'[c]) \in Nat /\ Len(shown[c]) \in Nat
                        /\ Len(shown[c]) <= Len(shown'[c])
      /\ Known \subseteq Known'
  BY MessagesGrow, LenProperties DEF IInv
<1>2. TaskMessage(t) /\ t.kind \in {"none", "start", "query", "refresh"}
  BY DEF MessageInv, IInv, Task
<1>3. \A c \in Chat : \A m : m \in 1 .. Len(shown[c]) => m \in 1 .. Len(shown'[c])
  BY <1>1
<1>4. ASSUME NEW c \in Known PROVE chats[c].message \in 1 .. Len(shown[c])
  <2>1. <<c, chats[c].message, chats[c].buttons>> \in past
    BY DEF IInv, EntryWasShown
  <2>2. chats[c].message \in 1 .. MaxMessages /\ chats[c].message <= Len(shown[c]) /\ c \in Chat
    BY <2>1 DEF MessageInv, PastInv, Known
  <2> QED
    BY <1>1, <2>2
<1>5. Known \subseteq Chat
  BY DEF Known
<1> QED
  BY <1>1, <1>2, <1>3, <1>4, <1>5, HandlerMoves DEF TaskMessage

\* exit() and the entries it counts.
LEMMA ExitMessage == ASSUME IInv, MessageInv, [Next]_vars PROVE ExitType'
<1> USE DEF MessageInv, ExitType
<1>1. ASSUME NEW u \in Update, Store(u) PROVE ExitType'
  <2>1. Known' \subseteq Known \cup {task[u].chat}
    BY <1>1 DEF Known, Store, IInv
  <2>2. IsFiniteSet(Known \cup {task[u].chat})
    BY FS_AddElement
  <2>3. IsFiniteSet(Known')
    BY <2>1, <2>2, FS_Subset
  <2> QED
    BY <1>1, <2>3 DEF Store
<1>2. CASE UNCHANGED <<chats, exit, notified, missed, size>>
  BY <1>2 DEF Known
<1>3. CASE Exit
  <2>1. Cardinality(Known) \in Nat
    BY FS_CardinalityType
  <2>2. chats' = chats /\ Known \subseteq Chat
    BY <1>3 DEF Exit, ExitBegins, Notify, StopPolling, ExitAborts, Known
  <2>3. exit' \in {"running", "notifying", "stopped", "aborted"} /\ notified' \subseteq Chat
        /\ missed' \subseteq Chat /\ size' \in Nat
    BY <1>3, <2>1, <2>2 DEF Exit, ExitBegins, Notify, StopPolling, ExitAborts
  <2> QED
    BY <2>2, <2>3 DEF Known
<1> QED
  BY <1>1, <1>2, <1>3 DEF Next, vars, SendStart, Click, SendCommand, Arrive, Handle, LookupClick,
     LookupRefresh, Answer, AskFails, Show, Shows, NotModified, SendFails

\* The messages are as said in every reachable state.
THEOREM MessageInvariance == Spec => []MessageInv
<1>1. IInv /\ MessageInv /\ [Next]_vars => MessageInv'
  <2> SUFFICES ASSUME IInv, MessageInv, [Next]_vars PROVE MessageInv'
    OBVIOUS
  <2>1. PastInv' /\ ExitType'
    BY MessagesGrow, ExitMessage
  <2>2. ASSUME NEW v \in Update PROVE TaskMessage(task[v])'
    <3>1. CASE task'[v] = task[v]
      BY <3>1, TaskMessageLasts
    <3>2. ASSUME NEW u \in Update, NEW c \in Chat,
                 SendStart(u, c) \/ Click(u, c) \/ SendCommand(u, c)
          PROVE  TaskMessage(task[v])'
      BY <3>1, <3>2, ArriveMessage
    <3>3. ASSUME NEW u \in Update, Handle(u) PROVE TaskMessage(task[v])'
      <4>1. CASE v = u
        BY <3>3, <4>1, HandleMessage
      <4>2. CASE v # u
        BY <3>1, <3>3, <4>2, HandlerMoves
      <4> QED
        BY <4>1, <4>2
    <3>4. CASE task' = task
      BY <3>1, <3>4
    <3> QED
      BY <3>2, <3>3, <3>4 DEF Next, vars, Exit, ExitBegins, Notify, StopPolling, ExitAborts
  <2> QED
    BY <2>1, <2>2 DEF MessageInv
<1> QED
  BY <1>1, MessageStarts, Invariance, PTL DEF Spec

\* Every variable stays in its type.
THEOREM BotTypesKept == Spec => []TypeOK
<1>1. IInv /\ MessageInv => TypeOK
  BY DEF IInv, MessageInv, PastInv, ExitType, TypeOK
<1> QED
  BY <1>1, Invariance, MessageInvariance, PTL

\* A message that is edited, or stored after an edit, exists.
THEOREM BotEditsExist == Spec => []EditsExist
<1>1. ASSUME IInv, MessageInv PROVE EditsExist
  <2> SUFFICES ASSUME NEW u \in Update, task[u].kind # "start", task[u].at \in {"sending", "storing"}
               PROVE  task[u].message \in DOMAIN shown[task[u].chat]
    BY DEF EditsExist
  <2> DEFINE t == task[u]
  <2>1. /\ t.chat \in Chat /\ TaskMessage(t) /\ t.kind \in {"none", "start", "query", "refresh"}
        /\ t.at = "storing" => <<t.chat, t.message, t.menu>> \in past
    BY <1>1 DEF IInv, MessageInv, Task
  <2>2. Len(shown[t.chat]) \in Nat /\ DOMAIN shown[t.chat] = 1 .. Len(shown[t.chat])
    BY <1>1, <2>1, LenProperties DEF IInv
  <2>3. CASE t.at = "storing"
    <3>1. t.message \in 1 .. MaxMessages /\ t.message <= Len(shown[t.chat])
      BY <1>1, <2>1, <2>3 DEF MessageInv, PastInv
    <3> QED
      BY <2>2, <3>1
  <2>4. CASE t.at = "sending" /\ t.kind \in {"query", "refresh"}
    BY <2>1, <2>2, <2>4 DEF TaskMessage
  <2> QED
    BY <2>1, <2>3, <2>4 DEF TaskMessage
<1> QED
  BY <1>1, Invariance, MessageInvariance, PTL
-----------------------------------------------------------------------------
\* Users who wait, and calls of Telegram that do not fail.
Busy(u) == task[u].at \notin {"new", "done"}

\* The bot's entry for c is the newest menu of c.
Alive(c) == shown[c] # <<>> => /\ chats[c].message = Len(shown[c])
                               /\ chats[c].buttons = shown[c][Len(shown[c])]

\* A menu about to be stored is the newest; what is edited is the entry's message.
TaskAlive(t) ==
    /\ t.at = "storing" => /\ t.message = Len(shown[t.chat])
                           /\ t.menu = shown[t.chat][t.message]
    /\ t.kind = "query" /\ t.at \in {"asking", "sending"} => t.message = chats[t.chat].message
    /\ t.kind = "refresh" /\ t.at = "sending" => t.message = chats[t.chat].message

\* One handler at a time is at work in a chat, and only while it stores the newest
\* menu may the entry be another one.
OneByOne == \A u, v \in Update : u # v /\ Busy(u) /\ Busy(v) => task[u].chat # task[v].chat

PatientInv ==
    /\ OneByOne
    /\ \A c \in Chat : Alive(c) \/ \E u \in Update : task[u].at = "storing" /\ task[u].chat = c
    /\ \A u \in Update : TaskAlive(task[u])

\* A step that shows and stores nothing keeps it, if it keeps it for its own handler.
LEMMA StillAlive ==
    ASSUME PatientInv, NEW u \in Update, UNCHANGED <<chats, shown>>,
           \A v \in Update \ {u} : task'[v] = task[v],
           task[u].at # "storing",
           Busy(u)' => \A v \in Update \ {u} : Busy(v) => task[v].chat # task'[u].chat,
           TaskAlive(task[u])'
    PROVE  PatientInv'
<1>1. OneByOne'
  BY DEF PatientInv, OneByOne, Busy
<1>2. ASSUME NEW c \in Chat
      PROVE  (Alive(c) \/ \E v \in Update : task[v].at = "storing" /\ task[v].chat = c)'
  <2>1. CASE Alive(c)
    BY <2>1 DEF Alive
  <2>2. ASSUME NEW v \in Update, task[v].at = "storing", task[v].chat = c
        PROVE  task'[v].at = "storing" /\ task'[v].chat = c
    BY <2>2
  <2> QED
    BY <2>1, <2>2 DEF PatientInv
<1>3. ASSUME NEW v \in Update PROVE TaskAlive(task[v])'
  BY DEF PatientInv, TaskAlive
<1> QED
  BY <1>1, <1>2, <1>3 DEF PatientInv

\* An update that arrives finds no handler at work in its chat.
LEMMA ArriveAlive ==
    ASSUME IInv, PatientInv, Patient, NEW u \in Update, NEW c \in Chat,
           SendStart(u, c) \/ Click(u, c) \/ SendCommand(u, c)
    PROVE  PatientInv'
<1>1. PICK t : /\ Arrive(u, c, t)
               /\ t.chat = c /\ t.at \in {"queued", "asking"}
               /\ t.at = "asking" => t.kind = "start"
  <2>1. CASE SendStart(u, c)
    <3> DEFINE r == [NoTask EXCEPT !.kind = "start", !.chat = c, !.at = "asking"]
    <3>1. r.chat = c /\ r.at = "asking" /\ r.kind = "start"
      BY DEF NoTask
    <3>2. Arrive(u, c, r)
      BY <2>1 DEF SendStart
    <3> HIDE DEF r
    <3> QED
      BY <3>1, <3>2
  <2>2. CASE Click(u, c)
    <3>1. PICK m \in DOMAIN shown[c] : \E b \in shown[c][m] :
              Arrive(u, c, [NoTask EXCEPT !.kind = "query", !.chat = c, !.at = "queued",
                                          !.message = m, !.data = Key(b), !.seen = b])
      BY <2>2 DEF Click
    <3>2. PICK b \in shown[c][m] :
              Arrive(u, c, [NoTask EXCEPT !.kind = "query", !.chat = c, !.at = "queued",
                                          !.message = m, !.data = Key(b), !.seen = b])
      BY <3>1
    <3> DEFINE r == [NoTask EXCEPT !.kind = "query", !.chat = c, !.at = "queued",
                                   !.message = m, !.data = Key(b), !.seen = b]
    <3>3. r.chat = c /\ r.at = "queued"
      BY DEF NoTask
    <3>4. Arrive(u, c, r)
      BY <3>2
    <3> HIDE DEF r
    <3> QED
      BY <3>3, <3>4
  <2>3. CASE SendCommand(u, c)
    <3> DEFINE r == [NoTask EXCEPT !.kind = "refresh", !.chat = c, !.at = "queued"]
    <3>1. r.chat = c /\ r.at = "queued"
      BY DEF NoTask
    <3>2. Arrive(u, c, r)
      BY <2>3 DEF SendCommand
    <3> HIDE DEF r
    <3> QED
      BY <3>1, <3>2
  <2> QED
    BY <2>1, <2>2, <2>3
<1>2. /\ UNCHANGED <<chats, shown>> /\ task[u].at = "new"
      /\ \A v \in Update \ {u} : task'[v] = task[v]
      /\ task'[u] = t
  BY <1>1 DEF Arrive, IInv
<1>3. \A v \in Update \ {u} : Busy(v) => task[v].chat # task'[u].chat
  BY <1>1, <1>2 DEF Arrive, Active, Busy
<1>4. TaskAlive(task[u])'
  BY <1>1, <1>2 DEF TaskAlive
<1> QED
  BY <1>2, <1>3, <1>4, StillAlive

\* The handlers keep it.
LEMMA HandleAlive ==
    ASSUME IInv, MessageInv, PatientInv, "sendFails" \notin Faults, NEW u \in Update, Handle(u)
    PROVE  PatientInv'
<1> DEFINE t == task[u]
           c == t.chat
<1>1. /\ t \in Task /\ task \in [Update -> Task] /\ c \in Chat
      /\ \A v \in Update \ {u} : task'[v] = task[v]
      /\ t.at # "new" /\ task'[u].kind = t.kind /\ task'[u].chat = c
  BY HandlerMoves DEF IInv
<1>2. t.kind \in {"start", "query", "refresh"} /\ TaskMessage(t) /\ TaskAlive(t)
  BY <1>1 DEF MessageInv, TaskMessage, Task, PatientInv
<1>3. ASSUME t.at \in {"queued", "asking", "sending"} PROVE Alive(c)
  BY <1>1, <1>3 DEF PatientInv, OneByOne, Busy
<1>4. ASSUME t.at \in {"queued", "asking", "sending"}, UNCHANGED <<chats, shown>>,
             TaskAlive(task[u])'
      PROVE  PatientInv'
  <2>1. \A v \in Update \ {u} : Busy(v) => task[v].chat # task'[u].chat
    BY <1>1, <1>4 DEF PatientInv, OneByOne, Busy
  <2> QED
    BY <1>1, <1>4, <2>1, StillAlive
<1>5. ASSUME t.at \in {"queued", "asking", "sending"}, UNCHANGED <<chats, shown>>,
             Move(u, "done")
      PROVE  PatientInv'
  <2>1. task'[u].at = "done"
    BY <1>1, <1>5 DEF Move, Task
  <2>2. TaskAlive(task[u])'
    BY <2>1 DEF TaskAlive
  <2> QED
    BY <1>4, <1>5, <2>2
<1>6. CASE LookupClick(u)
  <2>1. CASE Move(u, "done")
    BY <1>5, <1>6, <2>1 DEF LookupClick
  <2>2. ASSUME NEW b \in Found(t), task' = [task EXCEPT ![u].at = "asking", ![u].request = b]
        PROVE  PatientInv'
    <3>1. t.message = chats[c].message /\ UNCHANGED <<chats, shown>> /\ t.at = "queued"
      BY <1>6, <2>2 DEF Found, LookupClick
    <3>2. task'[u].at = "asking" /\ task'[u].message = t.message
      BY <1>1, <2>2 DEF Task
    <3>3. TaskAlive(task[u])'
      BY <1>1, <3>1, <3>2 DEF TaskAlive
    <3> QED
      BY <1>4, <3>1, <3>3
  <2> QED
    BY <1>6, <2>1, <2>2 DEF LookupClick
<1>7. CASE LookupRefresh(u)
  <2>1. CASE Move(u, "done")
    BY <1>5, <1>7, <2>1 DEF LookupRefresh
  <2>2. ASSUME task' = [task EXCEPT ![u].at = "asking", ![u].request = chats[c].request]
        PROVE  PatientInv'
    <3>1. t.kind = "refresh" /\ UNCHANGED <<chats, shown>> /\ t.at = "queued"
      BY <1>7 DEF LookupRefresh
    <3>2. task'[u].at = "asking"
      BY <1>1, <2>2 DEF Task
    <3>3. TaskAlive(task[u])'
      BY <1>1, <3>1, <3>2 DEF TaskAlive
    <3> QED
      BY <1>4, <3>1, <3>3
  <2> QED
    BY <1>7, <2>1, <2>2 DEF LookupRefresh
<1>8. CASE Answer(u)
  <2>1. t.at = "asking" /\ UNCHANGED <<chats, shown>>
    BY <1>8 DEF Answer
  <2>2. PICK menu \in Menu :
            \/ t.kind # "refresh" /\ task' = [task EXCEPT ![u].at = "sending", ![u].menu = menu]
            \/ Move(u, "done")
            \/ /\ t.kind = "refresh"
               /\ task' = [task EXCEPT ![u].at = "sending", ![u].menu = menu,
                                       ![u].message = chats[t.chat].message]
    BY <1>8 DEF Answer
  <2>3. CASE t.kind # "refresh" /\ task' = [task EXCEPT ![u].at = "sending", ![u].menu = menu]
    <3>1. task'[u].at = "sending" /\ task'[u].message = t.message
      BY <1>1, <2>3 DEF Task
    <3>2. TaskAlive(task[u])'
      BY <1>1, <1>2, <2>1, <2>3, <3>1 DEF TaskAlive
    <3> QED
      BY <1>4, <2>1, <3>2
  <2>4. CASE Move(u, "done")
    BY <1>5, <2>1, <2>4
  <2>5. CASE /\ t.kind = "refresh"
             /\ task' = [task EXCEPT ![u].at = "sending", ![u].menu = menu,
                                     ![u].message = chats[t.chat].message]
    <3>1. task'[u].at = "sending" /\ task'[u].message = chats[c].message
      BY <1>1, <2>5 DEF Task
    <3>2. TaskAlive(task[u])'
      BY <1>1, <2>1, <2>5, <3>1 DEF TaskAlive
    <3> QED
      BY <1>4, <2>1, <3>2
  <2> QED
    BY <2>2, <2>3, <2>4, <2>5
<1>9. CASE AskFails(u) \/ NotModified(u)
  BY <1>5, <1>9 DEF AskFails, NotModified
<1>10. CASE Show(u)
  <2>1. chats' = chats /\ t.at = "sending"
    BY <1>10 DEF Show, Shows
  <2>2. /\ shown[c] \in Seq(Menu) /\ Len(shown[c]) \in Nat /\ DOMAIN shown[c] = 1 .. Len(shown[c])
        /\ t.menu \in Menu
    BY <1>1, <2>1, LenProperties DEF IInv
  <2>3. /\ task'[u].at = "storing" /\ task'[u].menu = t.menu
        /\ \E s \in Seq(Menu) : /\ shown' = [shown EXCEPT ![c] = s]
                                /\ task'[u].message = Len(s) /\ s[Len(s)] = t.menu
    <3>1. CASE t.kind = "start"
      <4> DEFINE s == Append(shown[c], t.menu)
      <4>1. shown' = [shown EXCEPT ![c] = s]
            /\ task' = [task EXCEPT ![u].at = "storing", ![u].message = Len(shown[c]) + 1]
        BY <1>10, <3>1 DEF Show, Shows
      <4>2. s \in Seq(Menu) /\ Len(s) = Len(shown[c]) + 1 /\ s[Len(s)] = t.menu
        BY <2>2
      <4>3. /\ task'[u].at = "storing" /\ task'[u].menu = t.menu
            /\ task'[u].message = Len(shown[c]) + 1
        BY <1>1, <4>1 DEF Task
      <4> HIDE DEF s
      <4> QED
        BY <4>1, <4>2, <4>3
    <3>2. CASE t.kind # "start"
      <4> DEFINE s == [shown[c] EXCEPT ![t.message] = t.menu]
      <4>1. shown' = [shown EXCEPT ![c] = s] /\ task' = [task EXCEPT ![u].at = "storing"]
        BY <1>10, <3>2 DEF Show, Shows, Move
      <4>2. t.message = chats[c].message /\ t.message \in 1 .. Len(shown[c])
        BY <1>2, <2>1, <3>2 DEF TaskAlive, TaskMessage
      <4>3. t.message = Len(shown[c])
        BY <1>3, <2>1, <2>2, <4>2 DEF Alive
      <4>4. s \in Seq(Menu) /\ Len(s) = Len(shown[c])
        BY <2>2, <4>2, ExceptSeq
      <4>5. s[t.message] = t.menu
        BY <2>2, <4>2
      <4>6. /\ task'[u].at = "storing" /\ task'[u].menu = t.menu
            /\ task'[u].message = t.message
        BY <1>1, <4>1 DEF Task
      <4> HIDE DEF s
      <4> QED
        BY <4>1, <4>3, <4>4, <4>5, <4>6
    <3> QED
      BY <3>1, <3>2
  <2>4. PICK s \in Seq(Menu) : /\ shown' = [shown EXCEPT ![c] = s]
                               /\ task'[u].message = Len(s) /\ s[Len(s)] = t.menu
    BY <2>3
  <2> HIDE DEF t, c
  <2>5. shown'[c] = s /\ \A d \in Chat \ {c} : shown'[d] = shown[d]
    BY <1>1, <2>4 DEF IInv
  <2>6. OneByOne'
    BY <1>1, <2>1 DEF PatientInv, OneByOne, Busy, t, c
  <2>7. ASSUME NEW d \in Chat
        PROVE  (Alive(d) \/ \E v \in Update : task[v].at = "storing" /\ task[v].chat = d)'
    <3>1. CASE d = c
      BY <1>1, <2>3, <3>1
    <3>2. CASE d # c /\ Alive(d)
      BY <2>1, <2>5, <3>2 DEF Alive
    <3>3. ASSUME NEW v \in Update, task[v].at = "storing", task[v].chat = d
          PROVE  task'[v].at = "storing" /\ task'[v].chat = d
      BY <1>1, <2>1, <3>3 DEF t
    <3> QED
      BY <3>1, <3>2, <3>3 DEF PatientInv
  <2>8. ASSUME NEW v \in Update PROVE TaskAlive(task[v])'
    <3>1. CASE v = u
      BY <1>1, <2>3, <2>4, <2>5, <3>1 DEF TaskAlive
    <3>2. CASE v # u /\ ~Busy(v)
      BY <1>1, <3>2 DEF TaskAlive, Busy
    <3>3. CASE v # u /\ Busy(v)
      <4>1. task'[v] = task[v] /\ task[v].chat \in Chat \ {c} /\ TaskAlive(task[v])
        BY <1>1, <2>1, <3>3 DEF PatientInv, OneByOne, Busy, IInv, t, c
      <4> QED
        BY <2>1, <2>5, <4>1 DEF TaskAlive
    <3> QED
      BY <3>1, <3>2, <3>3
  <2> QED
    BY <2>6, <2>7, <2>8 DEF PatientInv
<1>11. CASE Store(u)
  <2> DEFINE e == [message |-> t.message, buttons |-> t.menu, request |-> t.request]
  <2>1. /\ t.at = "storing" /\ shown' = shown /\ chats' = [chats EXCEPT ![c] = e]
        /\ Move(u, "done")
    BY <1>11 DEF Store
  <2>2. task'[u].at = "done"
    BY <1>1, <2>1 DEF Move, Task
  <2>3. e.message = Len(shown[c]) /\ e.buttons = shown[c][Len(shown[c])]
    BY <1>2, <2>1 DEF TaskAlive
  <2> HIDE DEF e
  <2>4. chats'[c] = e /\ \A d \in Chat \ {c} : chats'[d] = chats[d]
    BY <1>1, <2>1 DEF IInv
  <2>5. OneByOne'
    BY <1>1, <2>2 DEF PatientInv, OneByOne, Busy
  <2>6. ASSUME NEW d \in Chat
        PROVE  (Alive(d) \/ \E v \in Update : task[v].at = "storing" /\ task[v].chat = d)'
    <3>1. CASE d = c
      BY <2>1, <2>3, <2>4, <3>1 DEF Alive
    <3>2. CASE d # c /\ Alive(d)
      BY <2>1, <2>4, <3>2 DEF Alive
    <3>3. ASSUME d # c, NEW v \in Update, task[v].at = "storing", task[v].chat = d
          PROVE  task'[v].at = "storing" /\ task'[v].chat = d
      BY <1>1, <3>3
    <3> QED
      BY <3>1, <3>2, <3>3 DEF PatientInv
  <2>7. ASSUME NEW v \in Update PROVE TaskAlive(task[v])'
    <3>1. CASE v = u
      BY <2>2, <3>1 DEF TaskAlive
    <3>2. CASE v # u /\ ~Busy(v)
      BY <1>1, <3>2 DEF TaskAlive, Busy
    <3>3. CASE v # u /\ Busy(v)
      <4>1. task'[v] = task[v] /\ task[v].chat \in Chat \ {c} /\ TaskAlive(task[v])
        BY <1>1, <2>1, <3>3 DEF PatientInv, OneByOne, Busy, IInv
      <4> QED
        BY <2>1, <2>4, <4>1 DEF TaskAlive
    <3> QED
      BY <3>1, <3>2, <3>3
  <2> QED
    BY <2>5, <2>6, <2>7 DEF PatientInv
<1>12. ~SendFails(u)
  BY DEF SendFails
<1> QED
  BY <1>6, <1>7, <1>8, <1>9, <1>10, <1>11, <1>12 DEF Handle

\* Users who wait always find the newest menu of their chat alive.
THEOREM BotNewestMenuIsAlive ==
    ASSUME Patient, "sendFails" \notin Faults PROVE Spec => []NewestMenuIsAlive
<1>1. Init => PatientInv
  BY DEF Init, NoTask, PatientInv, OneByOne, Busy, Alive, TaskAlive
<1>2. IInv /\ MessageInv /\ PatientInv /\ [Next]_vars => PatientInv'
  <2> SUFFICES ASSUME IInv, MessageInv, PatientInv, [Next]_vars PROVE PatientInv'
    OBVIOUS
  <2>1. CASE UNCHANGED <<chats, shown, task>>
    BY <2>1 DEF PatientInv, OneByOne, Busy, Alive, TaskAlive
  <2>2. CASE Exit
    BY <2>1, <2>2 DEF Exit, ExitBegins, Notify, StopPolling, ExitAborts
  <2> QED
    BY <2>1, <2>2, ArriveAlive, HandleAlive DEF Next, vars
<1>3. PatientInv => NewestMenuIsAlive
  BY DEF PatientInv, Alive, NewestMenuIsAlive, Active
<1> QED
  BY <1>1, <1>2, <1>3, Invariance, MessageInvariance, PTL DEF Spec
-----------------------------------------------------------------------------
(* Whom exit() tells.                                                      *)

\* The bot does not forget a chat: an entry is only replaced, by one of a message
\* that was shown.
LEMMA KnownGrows == ASSUME IInv, MessageInv, [Next]_vars PROVE Known \subseteq Known'
<1>1. ASSUME NEW u \in Update, Store(u) PROVE Known \subseteq Known'
  <2> DEFINE t == task[u]
             e == [message |-> t.message, buttons |-> t.menu, request |-> t.request]
  <2>1. t.chat \in Chat /\ <<t.chat, t.message, t.menu>> \in past
    BY <1>1 DEF Store, IInv
  <2>2. t.message \in 1 .. MaxMessages
    BY <2>1 DEF MessageInv, PastInv
  <2>3. e # NoEntry
    BY <2>2 DEF NoEntry
  <2>4. chats' = [chats EXCEPT ![t.chat] = e]
    BY <1>1 DEF Store
  <2> HIDE DEF e
  <2> QED
    BY <2>1, <2>3, <2>4 DEF Known, IInv
<1>2. CASE chats' = chats
  BY <1>2 DEF Known
<1> QED
  BY <1>1, <1>2 DEF Next, vars, SendStart, Click, SendCommand, Arrive, Handle, LookupClick,
     LookupRefresh, Answer, AskFails, Show, Shows, NotModified, SendFails,
     Exit, ExitBegins, Notify, StopPolling, ExitAborts

\* exit() sends to chats the bot knows only.
ToldInv == Tried \subseteq Known

\* exit() stops polling only after every chat the bot knows by then was told or had a
\* send_message of its own raise: it has gone through as many as there are, and
\* through none that is not there.
THEOREM BotEveryChatIsTold == Spec => EveryChatIsTold
<1>1. Init => ToldInv
  BY DEF Init, ToldInv, Tried
<1>2. IInv /\ MessageInv /\ ToldInv /\ [Next]_vars => ToldInv'
  <2> SUFFICES ASSUME IInv, MessageInv, ToldInv, [Next]_vars PROVE Tried' \subseteq Known'
    BY DEF ToldInv
  <2>1. ASSUME ~Notify PROVE Tried' \subseteq Known
    <3>1. ASSUME NEW u \in Update, NEW c \in Chat,
                 SendStart(u, c) \/ Click(u, c) \/ SendCommand(u, c)
          PROVE  notified' = notified /\ missed' = missed
      BY <3>1 DEF SendStart, Click, SendCommand, Arrive
    <3>2. ASSUME NEW u \in Update, Handle(u) PROVE notified' = notified /\ missed' = missed
      BY <3>2 DEF Handle, LookupClick, LookupRefresh, Answer, AskFails, Show, Shows,
         NotModified, SendFails, Store
    <3>3. ASSUME Exit PROVE notified' = notified /\ missed' = missed
      BY <2>1, <3>3 DEF Exit, ExitBegins, StopPolling, ExitAborts
    <3>4. notified' = notified /\ missed' = missed
      <4>1. CASE Next
        BY <3>1, <3>2, <3>3, <4>1 DEF Next
      <4>2. CASE UNCHANGED vars
        BY <4>2 DEF vars
      <4> QED
        BY <4>1, <4>2
    <3> QED
      BY <3>4 DEF ToldInv, Tried
  <2>2. ASSUME Notify PROVE Tried' \subseteq Known
    BY <2>2 DEF ToldInv, Tried, Notify
  <2> QED
    BY <2>1, <2>2, KnownGrows
<1>3. MessageInv /\ ToldInv /\ [Next]_vars
        => [exit = "notifying" /\ exit' = "stopped" => Known \subseteq Tried]_vars
  <2> SUFFICES ASSUME MessageInv, ToldInv, Next, exit = "notifying", exit' = "stopped"
               PROVE  Known \subseteq Tried
    OBVIOUS
  <2>1. StopPolling
    <3>1. ASSUME NEW u \in Update, NEW c \in Chat,
                 SendStart(u, c) \/ Click(u, c) \/ SendCommand(u, c)
          PROVE  UNCHANGED exit
      BY <3>1 DEF SendStart, Click, SendCommand, Arrive
    <3>2. ASSUME NEW u \in Update, Handle(u) PROVE UNCHANGED exit
      BY <3>2 DEF Handle, LookupClick, LookupRefresh, Answer, AskFails, Show, Shows,
         NotModified, SendFails, Store
    <3>3. Exit
      BY <3>1, <3>2 DEF Next
    <3> QED
      BY <3>3 DEF Exit, ExitBegins, Notify, ExitAborts
  <2>2. Cardinality(Known) = Cardinality(Tried)
    BY <2>1 DEF StopPolling
  <2>3. IsFiniteSet(Known) /\ Tried \subseteq Known
    BY DEF MessageInv, ExitType, ToldInv
  <2> QED
    BY <2>2, <2>3, FS_Subset
<1> QED
  BY <1>1, <1>2, <1>3, Invariance, MessageInvariance, PTL DEF Spec, EveryChatIsTold
=============================================================================
