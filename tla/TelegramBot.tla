---------------------------- MODULE TelegramBot ----------------------------
(***************************************************************************)
(* SimpleTelegramActor (simple_telegram_actor.py): menus of the actor      *)
(* system shown in Telegram chats.                                         *)
(*                                                                         *)
(* aiogram runs the handler of every update as a task of its own, so the   *)
(* handlers of one chat interleave at every await: at the ask for the      *)
(* members, at the call that shows the menu, and between Telegram showing  *)
(* it and the handler going on. What the bot remembers of a chat (_chats:  *)
(* its message, the buttons in it and the request they answer) is written  *)
(* after the menu is shown and read when a button is clicked.              *)
(*                                                                         *)
(* A member of a menu is [level, recipient, id], each a sequence of        *)
(* symbols (None is the symbol "None", as str() makes it); the request a   *)
(* button stands for has the same three fields.                            *)
(***************************************************************************)
EXTENDS Naturals, Sequences, FiniteSets

CONSTANTS Chat,         \* chats
          NoChat,       \* not a chat
          Update,       \* updates Telegram sends, each handled by one task
          Member,       \* members of menus
          Menu,         \* menus get_members may answer with: sets of members
          MaxMessages,  \* bound: menu messages in a chat
          Patient,      \* users await the end of an update before the next one
          Faults        \* what may go wrong in a run

FaultKinds == {"askFails",   \* adaptor.ask raises in make_menu
               "sendFails"}  \* a call of Telegram raises, done or not

None == <<"None">>

\* What get_hash hashes: the concatenation of the three strings.
Key(mbr) == mbr.level \o mbr.recipient \o mbr.id

ASSUME BotAssumption ==
    /\ NoChat \notin Chat
    /\ Member \subseteq [level : Seq(STRING), recipient : Seq(STRING), id : Seq(STRING)]
    /\ Menu \subseteq SUBSET Member
    /\ MaxMessages \in Nat
    /\ Patient \in BOOLEAN
    /\ Faults \subseteq FaultKinds

\* The menus of a system whose names never make two members read the same.
ASSUME KeysDiffer == \A m, n \in Member : Key(m) = Key(n) => m = n

\* The request of /start: the head of the system.
Root == [level |-> None, recipient |-> <<"head">>, id |-> None]
Request == Member \cup {Root}

NoEntry == [message |-> 0, buttons |-> {}, request |-> Root]
Entry == [message : 0 .. MaxMessages, buttons : SUBSET Member, request : Request]

VARIABLES chats,     \* chats[c]: the bot's entry for the chat, or NoEntry
          shown,     \* shown[c]: the menus in the chat's messages, by number
          past,      \* history: every menu ever shown, with its chat and message
          task,      \* task[u]: the handler of update u
          exit,      \* where exit() is
          notified,  \* chats exit() has sent its message to
          missed,    \* chats that call of exit() raised for
          size       \* the size of _chats when exit() began to iterate

vars == <<chats, shown, past, task, exit, notified, missed, size>>

NoTask == [kind |-> "none", chat |-> NoChat, at |-> "new",
           message |-> 0, data |-> <<>>, seen |-> Root, request |-> Root, menu |-> {}]

Known == {c \in Chat : chats[c] # NoEntry}

Active(c) == {u \in Update : task[u].chat = c /\ task[u].at \notin {"new", "done"}}

Init == /\ chats = [c \in Chat |-> NoEntry]
        /\ shown = [c \in Chat |-> <<>>]
        /\ past = {}
        /\ task = [u \in Update |-> NoTask]
        /\ exit = "running"
        /\ notified = {}
        /\ missed = {}
        /\ size = 0
-----------------------------------------------------------------------------
(* The user. Polling goes on until exit() has ended without an error.      *)

Arrive(u, c, t) == /\ task[u].at = "new"
                   /\ exit # "stopped"
                   /\ Patient => Active(c) = {}
                   /\ task' = [task EXCEPT ![u] = t]
                   /\ UNCHANGED <<chats, shown, past, exit, notified, missed, size>>

\* /start: command_start_handler asks for the members of the head.
SendStart(u, c) ==
    Arrive(u, c, [NoTask EXCEPT !.kind = "start", !.chat = c, !.at = "asking"])

\* A button of some menu message of the chat is clicked.
Click(u, c) ==
    \E m \in DOMAIN shown[c] : \E b \in shown[c][m] :
        Arrive(u, c, [NoTask EXCEPT !.kind = "query", !.chat = c, !.at = "queued",
                                    !.message = m, !.data = Key(b), !.seen = b])

\* /ask, /send or /quit: the command is done, process(chat id) is about to run.
SendCommand(u, c) ==
    Arrive(u, c, [NoTask EXCEPT !.kind = "refresh", !.chat = c, !.at = "queued"])
-----------------------------------------------------------------------------
(* SimpleTelegramActor.process.                                            *)

Move(u, at) == task' = [task EXCEPT ![u].at = at]

\* Mutant of Found: the button is looked up by its place in the menu.
FoundByPlace(t) == IF chats[t.chat].message = t.message THEN chats[t.chat].buttons ELSE {}

\* get_request_for_query: the button with the clicked key, in the bot's entry for
\* the clicked message. None there is AttributeError or 'Not handled'.
Found(t) == {b \in chats[t.chat].buttons : /\ chats[t.chat].message = t.message
                                           /\ Key(b) = t.data}

\* A click is looked up; a button without a level is inert.
LookupClick(u) ==
    /\ task[u].at = "queued" /\ task[u].kind = "query"
    /\ LET found == {b \in Found(task[u]) : b.level # None}
       IN  IF found = {} THEN Move(u, "done")
           ELSE \E b \in found :
                   task' = [task EXCEPT ![u].at = "asking", ![u].request = b]
    /\ UNCHANGED <<chats, shown, past, exit, notified, missed, size>>

\* Mutant of LookupRefresh: a chat without an entry is refreshed, too.
LookupRefreshUnchecked(u) ==
    /\ task[u].at = "queued" /\ task[u].kind = "refresh"
    /\ task' = [task EXCEPT ![u].at = "asking",
                            ![u].request = chats[task[u].chat].request]
    /\ UNCHANGED <<chats, shown, past, exit, notified, missed, size>>

\* get_request_for_refresh: the request of the bot's entry as it is now.
LookupRefresh(u) ==
    /\ task[u].at = "queued" /\ task[u].kind = "refresh"
    /\ LET entry == chats[task[u].chat]
       IN  IF entry = NoEntry THEN Move(u, "done")
           ELSE task' = [task EXCEPT ![u].at = "asking", ![u].request = entry.request]
    /\ UNCHANGED <<chats, shown, past, exit, notified, missed, size>>

\* make_menu: the members arrive. A refresh compares them with the buttons and
\* takes the message of the bot's entry as it is by now.
Answer(u) ==
    /\ task[u].at = "asking"
    /\ \E menu \in Menu :
          LET entry == chats[task[u].chat]
              same == {Key(b) : b \in entry.buttons} = {Key(b) : b \in menu}
          IN  CASE task[u].kind # "refresh" ->
                     task' = [task EXCEPT ![u].at = "sending", ![u].menu = menu]
                [] task[u].kind = "refresh" /\ same -> Move(u, "done")
                [] OTHER ->
                     task' = [task EXCEPT ![u].at = "sending", ![u].menu = menu,
                                          ![u].message = entry.message]
    /\ UNCHANGED <<chats, shown, past, exit, notified, missed, size>>

AskFails(u) ==
    /\ "askFails" \in Faults
    /\ task[u].at = "asking"
    /\ Move(u, "done")
    /\ UNCHANGED <<chats, shown, past, exit, notified, missed, size>>

\* Telegram shows the menu, for /start in a new message, and the handler is about
\* to learn of it.
Shows(u, at) ==
    LET t == task[u] IN
    /\ t.at = "sending"
    /\ IF t.kind = "start"
       THEN /\ Len(shown[t.chat]) < MaxMessages
            /\ shown' = [shown EXCEPT ![t.chat] = Append(@, t.menu)]
            /\ past' = past \cup {<<t.chat, Len(shown[t.chat]) + 1, t.menu>>}
            /\ task' = [task EXCEPT ![u].at = at, ![u].message = Len(shown[t.chat]) + 1]
       ELSE /\ shown[t.chat][t.message] # t.menu
            /\ shown' = [shown EXCEPT ![t.chat][t.message] = t.menu]
            /\ past' = past \cup {<<t.chat, t.message, t.menu>>}
            /\ Move(u, at)
    /\ UNCHANGED <<chats, exit, notified, missed, size>>

Show(u) == Shows(u, "storing")

\* An edit that changes nothing is refused by Telegram: the handler fails.
NotModified(u) ==
    LET t == task[u] IN
    /\ t.at = "sending" /\ t.kind # "start"
    /\ shown[t.chat][t.message] = t.menu
    /\ Move(u, "done")
    /\ UNCHANGED <<chats, shown, past, exit, notified, missed, size>>

\* The call of Telegram raises, before or after the menu was shown.
SendFails(u) ==
    /\ "sendFails" \in Faults
    /\ \/ Shows(u, "done")
       \/ /\ task[u].at = "sending"
          /\ Move(u, "done")
          /\ UNCHANGED <<chats, shown, past, exit, notified, missed, size>>

\* Mutant of Store: the entry keeps its message and takes the new buttons.
StoreButtons(u) ==
    LET t == task[u] IN
    /\ t.at = "storing"
    /\ chats' = [chats EXCEPT ![t.chat] =
                    [message |-> IF @ = NoEntry THEN t.message ELSE @.message,
                     buttons |-> t.menu, request |-> t.request]]
    /\ Move(u, "done")
    /\ UNCHANGED <<shown, past, exit, notified, missed, size>>

\* Mutant of Store: only what the user asked for is remembered.
StoreUnlessRefresh(u) ==
    LET t == task[u] IN
    /\ t.at = "storing"
    /\ chats' = IF t.kind = "refresh" THEN chats
                ELSE [chats EXCEPT ![t.chat] = [message |-> t.message, buttons |-> t.menu,
                                                request |-> t.request]]
    /\ Move(u, "done")
    /\ UNCHANGED <<shown, past, exit, notified, missed, size>>

\* The end of process: the entry is replaced as a whole.
Store(u) ==
    LET t == task[u] IN
    /\ t.at = "storing"
    /\ chats' = [chats EXCEPT ![t.chat] = [message |-> t.message, buttons |-> t.menu,
                                           request |-> t.request]]
    /\ Move(u, "done")
    /\ UNCHANGED <<shown, past, exit, notified, missed, size>>
-----------------------------------------------------------------------------
(* SimpleTelegramActor.exit, called ten minutes after the start (timer) or *)
(* by whoever removes the actor.                                           *)

ExitBegins == /\ exit = "running"
              /\ exit' = "notifying"
              /\ size' = Cardinality(Known)
              /\ UNCHANGED <<chats, shown, past, task, notified, missed>>

\* What the loop of exit() has done with.
Tried == notified \cup missed

\* Mutant of Notify: a chat that can not be told is tried again and again.
NotifyAgain == /\ exit = "notifying"
               /\ Cardinality(Known) = size
               /\ Known \ Tried # {}
               /\ UNCHANGED vars

\* The next chat of `for chat_id in self._chats` is told, or its send_message raises,
\* which is logged.
Notify == /\ exit = "notifying"
          /\ Cardinality(Known) = size
          /\ \E c \in Known \ Tried :
                \/ notified' = notified \cup {c} /\ UNCHANGED missed
                \/ "sendFails" \in Faults /\ missed' = missed \cup {c} /\ UNCHANGED notified
          /\ UNCHANGED <<chats, shown, past, task, exit, size>>

\* Mutant of StopPolling: the loop ran over a copy taken when it began.
StopAfterCopy == /\ exit = "notifying"
                 /\ Cardinality(Tried) = size
                 /\ exit' = "stopped"
                 /\ UNCHANGED <<chats, shown, past, task, notified, missed, size>>

\* Mutant of StopPolling: the loop stands in the try, so an error ends it.
StopAfterError == /\ exit = "notifying"
                  /\ Cardinality(Known) = size
                  /\ Cardinality(Tried) = size \/ missed # {}
                  /\ exit' = "stopped"
                  /\ UNCHANGED <<chats, shown, past, task, notified, missed, size>>

\* The iterator has given as many chats as there were, and none was added: polling
\* is stopped.
StopPolling == /\ exit = "notifying"
               /\ Cardinality(Known) = size
               /\ Cardinality(Tried) = size
               /\ exit' = "stopped"
               /\ UNCHANGED <<chats, shown, past, task, notified, missed, size>>

\* A chat was added while the loop awaited: RuntimeError, and polling goes on.
ExitAborts == /\ exit = "notifying"
              /\ Cardinality(Known) # size
              /\ exit' = "aborted"
              /\ UNCHANGED <<chats, shown, past, task, notified, missed, size>>
-----------------------------------------------------------------------------
Handle(u) == \/ LookupClick(u) \/ LookupRefresh(u) \/ Answer(u) \/ AskFails(u)
             \/ Show(u) \/ NotModified(u) \/ SendFails(u) \/ Store(u)

Exit == ExitBegins \/ Notify \/ StopPolling \/ ExitAborts

Next == \/ \E u \in Update : \/ \E c \in Chat : \/ SendStart(u, c)
                                                \/ Click(u, c)
                                                \/ SendCommand(u, c)
                             \/ Handle(u)
        \/ Exit

Spec == Init /\ [][Next]_vars

\* exit() goes on once it has begun; its calls of Telegram end.
FairSpec == Spec /\ WF_vars(Notify \/ StopPolling \/ ExitAborts)
-----------------------------------------------------------------------------
(* Properties.                                                             *)

TaskState == {"new", "queued", "asking", "sending", "storing", "done"}

Task == [kind : {"none", "start", "query", "refresh"}, chat : Chat \cup {NoChat},
         at : TaskState, message : 0 .. MaxMessages,
         data : {Key(m) : m \in Member} \cup {<<>>}, seen : Request,
         request : Request, menu : Menu \cup {{}}]

TypeOK == /\ chats \in [Chat -> Entry]
          /\ shown \in [Chat -> Seq(Menu)]
          /\ past \subseteq Chat \X (1 .. MaxMessages) \X Menu
          /\ task \in [Update -> Task]
          /\ exit \in {"running", "notifying", "stopped", "aborted"}
          /\ notified \subseteq Chat
          /\ missed \subseteq Chat
          /\ size \in Nat

\* However updates interleave, a click is never taken for another button: the
\* request that is sent is the one the clicked button showed, even if the menu
\* was replaced, shown or stored, between the click and its handler.
ClickMeansWhatItSays == \A u \in Update :
    task[u].kind = "query" /\ task[u].at \notin {"queued", "done"}
        => task[u].request = task[u].seen

\* The bot never remembers buttons that the message it remembers did not show at
\* some time: message and buttons of an entry come from one and the same process.
EntryWasShown == \A c \in Known : <<c, chats[c].message, chats[c].buttons>> \in past

\* The inductive invariant behind the two: a click's key is the key of what was
\* clicked, and a menu about to be stored was shown in the message it is stored for.
IInv == /\ chats \in [Chat -> Entry]
        /\ task \in [Update -> Task]
        /\ shown \in [Chat -> Seq(Menu)]
        /\ \A c \in Chat : Len(shown[c]) <= MaxMessages
        /\ ClickMeansWhatItSays
        /\ EntryWasShown
        /\ \A u \in Update :
              /\ task[u].at # "new" => task[u].chat \in Chat
              /\ task[u].kind = "query" => task[u].seen \in Member
              /\ task[u].kind = "query" => task[u].data = Key(task[u].seen)
              /\ task[u].at = "sending" => task[u].menu \in Menu
              /\ task[u].at = "storing" => /\ task[u].menu \in Menu
                                           /\ <<task[u].chat, task[u].message,
                                                task[u].menu>> \in past

\* Users who wait, and a Telegram that does not fail, always find the newest menu
\* of a chat alive: it is the one the bot remembers, with the same buttons.
NewestMenuIsAlive == \A c \in Chat :
    Active(c) = {} /\ shown[c] # <<>> =>
        /\ chats[c].message = Len(shown[c])
        /\ chats[c].buttons = shown[c][Len(shown[c])]

\* A message that is edited exists: a refresh takes its message from the entry the
\* chat has when the answer arrives, not from the one it took the request from.
EditsExist == \A u \in Update :
    task[u].kind # "start" /\ task[u].at \in {"sending", "storing"}
        => task[u].message \in DOMAIN shown[task[u].chat]

\* exit() stops polling only after every chat the bot knows, the ones added while it
\* was telling them included, was told or had a send_message of its own raise: the
\* error of one chat costs no other its message.
EveryChatIsTold ==
    [][exit = "notifying" /\ exit' = "stopped" => Known \subseteq Tried]_vars

\* exit() comes to an end, by stopping or by an error.
ExitEnds == exit = "notifying" ~> exit \in {"stopped", "aborted"}
=============================================================================
