# peacepie_web in TLA+

Models, model checks and proofs for the programs of this repository: three
actors for the peacepie framework that give it a face (a web dashboard, a small
web page, a Telegram bot), and the scripts that start them.

The code is `src/packages/source/simple_fastapi_dashboard-0.0.2`,
`simple_telegram_bot-0.0.4`, `simple_web_face-0.0.10`, `src/config` and
`src/main.py`; everything else under `src/packages` is released third-party
software. The peacepie framework itself is not in the repository. What the code
relies on in it is assumed, and called *external* below:

- an actor's `handle` is given one message at a time, and `exit()` is called
  between two of them;
- `adaptor.ask` ends with an answer or an exception (it has a timeout);
- the actor `account_admin` answers the commands of the accounts page from the
  tables of `databases/users.db`, whose schema is known.

## 1. Inventory

| Component | Where | State | Operations |
|---|---|---|---|
| zmq bridge | `core/zmq_client.py`, `zmq_server.py` | REQ and REP socket, the server's task, what is on its way | `ZMQClient.ask`, `_reconnect`, `ZmqServer.run`, `server_handle`, `exit` |
| dashboard lifecycle | `fastapi_actor.py`, `fastapi_server.py`, `core/config.py` | `_proc`, `_zmq_server`, the web process | `start`, `stop`, `exit`, `lifespan`, `config.init`; `set_params`, `get_params`, `get_base_dir` |
| accounts page | `templates/users_vue.html`, `api/users.py` | seven lists, seven selections, open requests | load, select, add, edit, delete per column; 24 routes |
| dashboard sessions | `api/auth.py`, `core/security.py` | `revoked_tokens`, cookies | login, logout, authentication of a request |
| dashboard menu and websocket | `api/actors.py` | `context` (cached domain, sockets) | `index`, `websocket_endpoint` |
| dashboard file pages | `api/files.py`, `templates/files.html` | cached base directory; path, list, viewer | listing, reading of files; open, click, close |
| Telegram bot | `simple_telegram_actor.py`, aiogram's `dispatcher.py` | `_chats`: per chat its message, buttons and request; `_telegram`, the Dispatcher's lock and events, the poller's offset | `process` for /start, clicks, refreshes; /ask, /send, /quit; `start`, polling, `exit` |
| web face | `web_face.py` | `_sockets`, `_runner` | `start`, `websocket_handler`, `close_websockets`, `exit`; menu page |
| file browser | `file_browser_handler.py` | none | listing and paging |
| starters | `src/config/app_starter_*.py`, `src/main.py` | none | create, set_params and start an actor |

How they interact:

- A starter asks the framework to create an actor, to set its parameters and to
  start it.
- `SimpleFastapiActor.start` opens a `ZmqServer` in its own event loop and runs
  uvicorn as a child process, which is told the server's port in an environment
  variable. Every web handler, and `config.init` at start-up, calls
  `zmq_client.client.ask`, which blocks the event loop of the web process until
  the actor system has answered. `SimpleFastapiActor.exit` in turn blocks the
  event loop of the bridge until the process has ended.
- The pages run in browsers. The accounts page has several requests open at a
  time and lets the user click meanwhile.
- The bot and the web face run in the actor's event loop: their handlers
  interleave at every `await`.

What is hard: a request/reply protocol with errors on either side; two processes
that can wait for each other; handlers that read state before an `await` and
write it after; lists iterated while others change them; pages whose answers
arrive when the selection is another one, or the session has ended; a Dispatcher
that all actors of a process share. `PROJECT.json` lists these hazards line
by line, with the properties that speak about them.

What makes each component correct:

- bridge: no command runs twice, no answer goes to the wrong caller, no request
  is lost without a fault on the server's side, every call ends unless the
  server is stuck;
- lifecycle: no web process is forgotten alive, `exit()` ends and leaves nothing,
  nobody is left waiting on a closed bridge;
- accounts page: lists, selections and tables agree; edits and deletes hit the
  row that was seen;
- bot: a click means what the button said; what the bot remembers was shown; the
  newest menu works; no update is lost or handled twice without need; `exit()`
  tells every chat and leaves nothing polling;
- web face: the list of sockets is the set of live handlers, but for those an
  exception ended; `exit()` ends and leaves no socket open;
- sessions: a session ends by logout or expiry and not otherwise;
- file pages: path, list, viewer and tree belong together.

## 2. Modules

| Module | Models | Composition |
|---|---|---|
| `Rpc` | abstract: an at-most-once remote call, one at a time | |
| `ZmqBridge` | both ends of the bridge and the queues between | implements `Rpc` (`ImplementsRpc`) |
| `Dashboard` | the actor, its web processes and bridges over several starts | the bridge as its ends see it: free, busy, stuck, closed |
| `UsersPage` | browser, routes and tables of the accounts page | relies on one command at a time (`Rpc`) |
| `TelegramBot` | chats, handlers of updates, `exit()` | |
| `BotPolling` | starts, polling and stopping of the bot, Telegram's queue of updates | the handlers of `TelegramBot` as tasks that end and may add a chat |
| `WebFace` | HTTP servers, websocket handlers, their list, `exit()` | |
| `WebSession` | logins, logouts, tokens, expiry, restarts | |
| `FilesPage` | routes and page of the file browser of the dashboard | extends `WebSession`: every load carries a token, a restart takes both |
| `MC...` | constants for TLC, where a cfg can not give them | extends its module |
| `...Proofs` | theorems and proofs | extends its module and TLAPS |
| `SequenceFacts` | lemmas on sequences and least numbers | used by `WebFaceProofs` and `UsersPageProofs` |

A definition whose comment starts with "Mutant of" is a plausible bug, kept to
show that a property can fail; no specification uses it.

### ZmqBridge

A request is a frame `[conn, call]`: `conn` counts the client's sockets, since
`_reconnect` makes a new one and what was on its way to the old one is lost.
`requests` and `replies` are the two directions. A REQ socket sends one request
at a time, so order does not matter. `loop` is the call the web process's event
loop is blocked in. On the server `srv` is the place of the task `run`
(listening in `recv()`; resolved: `recv()` has completed, the task has not
resumed; forwarding: in `adaptor.ask`; dead), and `owed` is the request the REP
socket has handed out and not had a reply to. The actions are the lines of
`ask` and `server_handle` between two awaits, with each exception an action of
its own: `ClientSend`, `ClientSendError`, `ClientRecvError`, `ClientRecv`,
`ServerRecv`, `RecvTimeoutRace`, `ServerForward`, `AdaptorAnswers`,
`AskTimesOut`, `ServerFails`, `ServerExit`.

Two facts of the code shape the model. After an error the client reconnects and
"resends" the message object, not its serialized form: `socket.send` raises
TypeError, so in fact nothing is ever sent twice (`ReconnectAndRaise`). And
`except TimeoutError: pass` covers the ask as well as the `recv()` it was written
for: after a timed out ask the server loops without replying, its socket owes a
reply, and the asyncio REP socket then never completes a `recv()`. `Stuck` names
that state; `StuckForEver` shows that there is no way out of it.

### Dashboard

Bridge and process of the n-th start are numbered n. `actor` is where
`SimpleFastapiActor` is; `current` and `bridge` are `_proc` and `_zmq_server`; `web[n]`
goes from booting (no signal handlers yet) over loading, asking (blocked in
`config.init`) and binding the port to serving and calling; `term[n]` remembers SIGTERM.
uvicorn then waits, without a limit, for the open connections and their tasks
("ending"): they may make more calls ("lastCall"), and a client may hold its connection
as long as it likes ("held"). While `actor` is "waiting" (`Popen.wait` in `exit()`) the
event loop is blocked and no bridge moves: `LoopRuns`.

### UsersPage

The page's functions are all alike, so there is one action per kind of function
and one operator per route group. `Parent` and `Link` say which column belongs to
which. `Emptied` and `Deselected` tabulate what each delete function resets, as
written. A request is `sent`, handled by the web process one at a time, answered
in `answers`, and received; the second half of a function (`LoadDone`, `AddDone`,
`EditDone`, `DeleteDone`) runs then, with the selection of that moment. The
tables are external: they may refuse any change, delete in cascades, and reuse
ids. A `stamp` stands for what was typed; it tells rows with one id apart.

A request can end in three ways: served (`Serve`), refused with nothing changed
(`Refuse`), or lost (`Lose`): `ZMQClient.ask` reconnects and raises, or `fetch`
fails, and the page shows an error, while the command may have been carried out, or
is carried out at any later time (`stray`, `CarryOut`). Such a change spoils the
column it was for and, after a delete, the columns nested below, until they are
read again (history variable `behind`).

`findIndex` replaces the first row that has the id (`Replace`), `filter` drops all
that have it (`Without`, a recursive function). Several children are loaded in
some fixed order, and a list is read in some fixed order (`SetToSeq`): no property
depends on either, and the proofs use nothing of them.

### TelegramBot

`task[u]` is the handler of update u: queued, asking (for the members of the menu),
sending, storing, done. `exit()` goes through the chats; each is told (`notified`) or
its message fails (`missed`). `shown` is what Telegram shows, `chats` what the bot
remembers, `past` a history variable of all menus shown. A member of a menu is a record
of symbol sequences so that `Key`, the concatenation that `get_hash` hashes, is modelled
by what it does; the hash is taken as injective.

### BotPolling

`dispatcher` is a global of the module: its lock, `_stop_signal` and
`_stopped_signal` are shared by every start of every actor of the process. A
start is numbered; `run[s]` is where its `start_polling` task is: created, waiting
for the lock, in `bot.me()`, listening, ending, ended. `telegram` is the actor's
`_telegram`, the last start's task: `start()` forgets the one before without
ending it. `call`, `offset` and `requests` are the poller's side of `getUpdates`;
`arrived` and `confirmed` Telegram's. A call that failed for the poller may still
reach Telegram, also after the process has died and a later start has begun.
`handed`, `tasks` and `handled` follow the updates.

One fact of asyncio shapes the model: `start_polling` sets `_stopped_signal` before
it releases the lock, and both only schedule their waiters, so `exit()` goes on
before the next start has the lock (`Granted`). `CancelsNoPoller` depends on it.

### WebSession and FilesPage

A token is the user and the second it expires in, which is all the code signs: two
logins in one second give one token, recorded in `twins`. `revoked` is lost in a
restart, the secret is not. Requests and answers of a browser overtake each other.
`FilesPage` adds one browser, `Reader`, with the page open. A load notes the
directory, the listing it was clicked in, its cookie, and, when answered, the
process's life and base directory it was served from. `get_current_user` is a plain
function and runs in a thread before the route, so a logout may come between
(`Check`, `Serve`). `fetch` follows the redirect to the login page: for the listing
that is an error (no JSON), for the viewer it is a text like any other.

### WebFace

`sockets` is `_sockets`; `pos` is the index Python's `for` keeps into the list,
so an element that leaves the list moves the rest under the loop, and
neighbours are skipped, as in the code. A handler is preparing, open (awaiting a
message), busy with one, leaving (in the `close()` that `receive()` awaits, without
a limit, when the other side has closed or is gone), or over; `closed` is
`ws.closed`, which `exit()` or the other side sets while the handler is elsewhere.
An exception ends a handler before `list.remove` in three places: twice in
`prepare`, and in `receive()` when a pong can not be sent any more (`PongFails`);
its entry stays. `Slow` are the connections whose other side may neither read nor
go. `start` may be called twice: the runner it replaces is remembered in `replaced`
only for the properties, since `exit()` does not know it any more.

## 3. Runs

The properties a run checks are in its cfg. The type invariant of `UsersPage` is
checked in `users_patient`; those of the other modules are parts of inductive
invariants that are proved, so no run repeats them. All safety properties of the
runs are proved as well (section 4); the runs show them on instances in which the
hard cases are known to happen.

| Run | Question | Bounds |
|---|---|---|
| `bridge` | custody, at most once, stuck for ever; do calls end; is it an `Rpc` (which includes that every answer is that of its call) | 4 calls, 2 reconnections, every fault, fairness |
| `bridge_client_faults` | do calls end when only the client's socket fails | same |
| `dashboard_safety` | orphans, bridges closed too early, complete exits | 3 starts, every fault, orderly commands |
| `dashboard_live` | does `exit()` end, do processes end or settle | 2 starts, any order of commands, fairness |
| `users_patient` | do page and tables agree for a user who waits, whatever answers are lost | 5 columns, one row in each, 2 commands |
| `users_roles` | do edits and deletes meet the rows that were seen, do the links agree | 3 columns, one row in each, 3 commands |
| `bot_safety` | clicks, memory, edits under interleaving and faults | 1 chat, 3 updates, 2 messages |
| `bot_patient` | the newest menu is alive | 1 chat, 4 updates, 3 messages |
| `bot_exit` | does `exit()` end, is every chat told or at least tried | 2 chats, 2 updates, every fault, fairness |
| `face` | the list is right, nothing stays open, `exit()` and handlers end | 3 connections, one of them slow, 2 ports, fairness |
| `bot_polling` | are updates lost or doubled, what does stopping leave, does it end | 2 updates, 3 starts, 2 actors, 1 crash, fairness |
| `files_page` | do sessions last and end, does the page show what it says | 2 browsers, 1 user, 3 logins and logouts, 2 seconds, 1 restart, 3 clicks, 2 directories |

Why these bounds. Bridge: the interesting cases need a call given up, its late answer, a
second call and a stuck server; three calls reach them all, the fourth shows that
nothing grows. Dashboard: a process of an earlier start, the current one and one more.
Users page: the ids come back after one delete and one add, and a third command can then
hit the wrong row, hence three in `users_roles`; the row added gives the parent columns
a second one, between which the selection moves. The five columns of `users_patient` are
as deep as cascades and resets go; two commands there give one whose answer is lost and
one that follows it. Bot: three updates give every order of showing and storing around a
click; chats are independent but for `exit()`, which gets two. Web face: skipping a
neighbour takes three connections, and a replaced runner two starts. Polling: three
starts are one that polls, one that waits and one of the next actor; two updates give a
batch and an update after it. Files page: a twin takes two logins, and a logout that the
other browser could feel one more request; three clicks are the page and two loads that
overtake each other.

Both runs of the page are about a user who waits for every answer before the next
click. Waiting less is not enough: `selectPack` keeps the old classes on screen until
the new ones are there, and one of them can be clicked meanwhile; nothing keeps the
answers of two loads in their order; and edits and deletes read the selection again
when their answer arrives. For the same reason a list whose load was denied is exempt
from `ListsAgree` until it is loaded or emptied again (variable `denied`): it still is
the list of an earlier selection. And a column in which the user has missed a change
is exempt until it is read again (`behind`). What the properties say of lost answers
is that they go no further: whatever the user then does with rows that are gone, or
are shown under an id that has come back, no other column is wrong.

Every run explores its whole state space; deadlock is not
checked where the system stops (every call made, `exit()` over), and each cfg
says so.

**Fairness.** Bridge: event loops run what is ready, `adaptor.ask` has a timeout,
zmq delivers; faults are never forced. Dashboard: what was begun goes on
(processes run, the wait has a timeout, bridges serve while the loop runs); nobody
has to send a command, make a call or let a connection go (`Release` is not fair, and
`StopEnds` admits a process that is held for ever). `Terminate` and `End` are strongly
fair: the ticks of uvicorn that notice SIGTERM and look for open connections are timers
in the loop the handlers run in, so a blocked call delays them but no number of calls
can keep them out. Bot and web face: `exit()` goes on once it
has begun, since all it awaits ends or times out; users do as they like. The
handler of a websocket that is closed goes on, too, unless it is `Slow`: `receive`
returns or raises at once then, what it asks has a timeout, and what it writes, the
`close()` in `receive` included, ends when the other side reads it or goes. Of a side
that does neither nothing is assumed. Polling: tasks that are ready run; the
call of `getUpdates` is answered, and its answer received, if it is made again and
again (strong fairness: the aiogram loop retries for ever, and Telegram does not
fail for ever). `FilesPage` has no liveness: a page need not be answered.

## 4. Proofs

For every value of the constants that satisfies the modules' assumptions.

**ZmqBridgeProofs.** `IInv` says that the frames in transit (on their way, owed,
or replied) belong to calls in progress or lost, at most one per call, and to the
current socket exactly when they belong to the blocked call; the place of a frame
tells how often its command was passed on. `AtMostOnce` alone is not inductive: a
frame on its way with `served = 1` would break it, and only the place/count
correspondence excludes that. From `IInv` follow `BridgeAtMostOnce`,
`BridgeAnswerMatches`, `BridgeCustody`; `BridgeStuckForEver` is an action property
from the same invariant; `BridgeImplementsRpc` maps every step of the bridge to
a step of `Rpc` or a stutter, given `IInv`.

**DashboardProofs.** `IInv` adds to the three properties that bridges are numbered
before processes, that `_proc` is the last process launched, and that only a
completed `exit()` closes a bridge. That last part is what makes
`BridgeOutlivesProcess` inductive.

**TelegramBotProofs.** `IInv` ties the key carried by a click to what was clicked, and a
menu about to be stored to the message it was shown in. Assumption `KeysDiffer`: no two
members have the same concatenated key. Without it the theorem is false, as is the code.
`MessageInv`, proved relative to `IInv`, says that messages and entries only grow in
number: a refresh reads the message of the entry after its ask, and `BotEditsExist`
needs that the entry did not vanish and the message was shown. `BotNewestMenuIsAlive`
assumes users who wait and a Telegram that does not fail; `PatientInv` says that a chat
has one handler at work at a time and that only between showing and storing may its
entry be another than the newest menu. `BotEveryChatIsTold` is an argument about
numbers: Python's iterator over `_chats` only compares sizes, so that all were told, or
tried in vain, follows from counting, given that only known chats were tried (`ToldInv`)
and that no entry is ever taken out (`KnownGrows`).

**BotPollingProofs.** `IInv` has three parts. `FetchInv`: all below a poller's
offset was handed on, nothing from there on was, and a call on its way carries the
poller's offset; `confirmed` alone would not be inductive, since a late call
confirms. `LockInv`: who holds the lock is the one that polls, and whoever has had
it came after all that have ended and before all that wait, so the start that
`exit()` awaits is the last. `TaskInv`: without a crash a task that was made is at
work or done. From these `UpdatesNotLost`, `UpdatesOnce`, `NoPollerCancelled` and
`SilentAfterExit`.

**FilesPageProofs.** `SessionInv`: whoever holds, sends or has given up a token was
issued it; a token issued once has one browser and is on its way to it once. The
last part is what `LogoutsStick` needs: an answer that overtakes a logout can bring
back only a twin. `PageKeepsSessions` shows that the file pages implement
`SessionSpec`, so all that is proved of the sessions holds in `FilesPage`. `IInv`
adds that what came from this life of the process came from the base directory it
keeps (`BaseInv`), that nothing loads beside the load the viewer was opened for
(`ViewerInv`), and that a refused load had a reason (`ReasonInv`). `PageAgrees`,
which the run checks, is `PathIsListed` and `ViewerMatches`.

**WebFaceProofs.** `IInv`: `ListedOnce` (the entries are those of handlers at work and
of those an exception ended, once each), and handlers at work belong to servers that
listen, all of which but the runner's were replaced. `ListedOnce` is proved with
lemmas on what removing an element does to a sequence without repetitions.

**UsersPageProofs.** `TypesSafe` holds for any user: rows, requests and answers keep
their types, and keys stay unique although ids come back (`KeyInv`). The rest is proved
for a user who waits for every answer (`Awaited = Op`), while requests and answers
overtake each other and some are lost. None of the four properties is inductive: three
speak only of moments when nothing is open, the fourth only of one request.
`PatientInv` says what holds meanwhile:

- no two open requests are about one column (`Distinct`), a change is open alone
  (`Alone`), and what is open is about the present selection (`Aimed`). Opening the page
  loads three columns at once, answered in any order, hence `Distinct`;
- a column fits the tables unless it is denied, behind, or loading (`Fits`, `PageNow`),
  or will fit them when the one answer is there (`PageThen`); a list on its way is true
  unless its column is behind again (`LoadTrue`, `Arriving`);
- what is carried out after the page was told it failed leaves all this as it is
  (`PageStray`, `PatientStray`): what it changes, its own column and, a delete, the nested
  ones, is behind from then on.

The step that costs most is that a spoiled column never spoils another: an add, edit or
delete read from a row that is gone, or from a row whose id was given away, is either
refused or changes its own column and what is nested under it. From `PatientInv` follow
`ListsAgree`, `LinksAgree`, `SelectionShown` and `MeetsRowSeen`.

TLC finds `PatientInv` to hold on the instances of the two runs, too.
What `filter()` leaves is proved by an induction over the length with `UpToN` (below),
since the library's induction theorems can not be instantiated.

**SequenceFacts.** A set of numbers has a least one (`LeastNumber`), hence what holds of 0
and is passed on holds up to n (`UpToN`); the largest of a finite set of numbers;
what `SetToSeq` lists; what removing or appending an element leaves in place.

Only model-checked: the liveness properties, since TLAPS does not handle ENABLED. They
are `Ends` and `EndsOrStuck` of the bridge, `ExitEnds`, `StartSettles` and `StopEnds`
of the lifecycle, `ExitEnds` and `Served` of the bot and its polling, `ClosedEnds` and
`ExitEnds` of the web face. `ListsAgree`, `SelectionShown`, `LinksAgree` and
`MeetsRowSeen` are proved for the user who waits only: for one who does not they are
false.

## 5. Not modelled, and why

- The menu page of the dashboard and its websocket, the menu page of the web face:
  HTML made of one answer. What they keep is a list of sockets nothing reads but
  its own handlers, and the cached domain (a hazard in `PROJECT.json`).
- The file browser of the web face: each request lists a directory, and no two
  requests depend on each other.
- The starters: sequences of asks whose answers are not looked at.
- `set_params`, `get_params`, and the texts of /ask, /send and /quit in the bot.
- HTML, layout, wording, logging: no property is about them.
- Names typed, filters and the status line of the accounts page; so a user's list
  of roles showing a role's old name after a rename is outside the model.
- The framework, which is not in the repository.
- The vendored packages, but for what the actors lean on: the polling of aiogram's
  Dispatcher, start-up and shutdown of uvicorn's server, and prepare, receive, close
  and cleanup in aiohttp. They are nearly
  all of the 313 thousand lines under `src`, so what is modelled is a very small
  share of them, though it is most of the actors' own handlers.

## 6. Plan

1. `Rpc`, `ZmqBridge`, their runs and proofs. *Done.*
2. `Dashboard`, runs and proofs. *Done.*
3. `TelegramBot`, runs and proofs; `WebFace`, run; `UsersPage`, runs. *Done.*
4. `BotPolling`: the life of the bot around its menus. *Done, with proofs.*
5. `WebSession` and `FilesPage`: sessions, and a page that uses them while they
   end. *Done, with proofs.*
6. `WebFace` with starts, messages and busy handlers, and its proofs. *Done.*
7. `UsersPage` with lost answers, and its proofs for the user who waits. *Done.*
8. Open: the websocket of the menu page over `WebSession`, which outlives its
   session; the starters over the actors they start; pure operators for paging
   and menus (`nav`, `are_buttons_equal`) against reference definitions; the
   bridge inside `Dashboard` as an abstraction of `ZmqBridge`.
