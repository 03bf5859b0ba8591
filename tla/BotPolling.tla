----------------------------- MODULE BotPolling -----------------------------
(***************************************************************************)
(* The life of SimpleTelegramActor around its menus: start() makes a task  *)
(* of aiogram's Dispatcher.start_polling, exit() stops it, and meanwhile   *)
(* the poller fetches updates from Telegram and hands each to a task.      *)
(*                                                                         *)
(* The Dispatcher is a global of the module, so all starts of all actors   *)
(* of a process share its lock and its two events: a start waits until the *)
(* polling before it has ended.  Telegram keeps an update until a later    *)
(* getUpdates names a higher offset; a new start knows no offset.          *)
(***************************************************************************)
EXTENDS Naturals, FiniteSets

CONSTANTS MaxUpdates,  \* bound: updates users send
          MaxStarts,   \* bound: commands "start", over all actors
          MaxLives,    \* bound: actors, one after the other
          MaxCrashes   \* bound: crashes of the process

ASSUME PollingAssumption == /\ MaxUpdates \in Nat
                            /\ MaxStarts \in Nat
                            /\ MaxLives \in Nat
                            /\ MaxCrashes \in Nat

Start == 1 .. MaxStarts
Life == 1 .. MaxLives
Sent == 1 .. MaxUpdates
None == 0

VARIABLES life,      \* the actor dispatcher['actor'] is, counted from 1
          telegram,  \* its _telegram: the last start's task, or None
          exit,      \* where its exit() is
          size,      \* the size of _chats when exit() began to iterate
          chats,     \* chats[a]: _chats of actor a, a chat named by its update
          run,       \* run[s]: where the task start_polling of start s is
          started,   \* starts so far
          holder,    \* the start that holds _running_lock, or None
          stop,      \* _stop_signal
          call,      \* call[s]: where getUpdates of s's poller is
          offset,    \* offset[s]: the offset s's poller will send
          requests,  \* calls of getUpdates on their way to Telegram
          arrived,   \* updates Telegram has received from users
          confirmed, \* updates Telegram will not send again
          handed,    \* history: <<start, update>> handed to a task
          tasks,     \* tasks that handle an update: [actor, update]
          handled,   \* history: updates whose task has ended
          crashes    \* crashes so far

actorVars == <<life, telegram, exit, size, chats>>
dispatcherVars == <<run, started, holder, stop>>
fetchVars == <<call, offset, requests>>
telegramVars == <<arrived, confirmed>>
taskVars == <<handed, tasks, handled>>
vars == <<actorVars, dispatcherVars, fetchVars, telegramVars, taskVars, crashes>>

\* exit() is over: in order; by RuntimeError of the loop over _chats; because
\* stop_polling found no polling; or by what awaiting _telegram raised.
Over == {"clean", "aborted", "refused", "raised"}

\* "me", "listening": the start's poller is at work. "closing", "breaking": the
\* poller has ended, cancelled or by an error, and the session is being closed.
Polls == {"me", "listening"}
Ending == {"closing", "breaking"}
NotEnded == {"created", "waiting"} \cup Polls \cup Ending

NoCall == [at |-> "idle", first |-> 0, last |-> 0]

Init == /\ life = 0 /\ telegram = None /\ exit = "absent" /\ size = 0
        /\ chats = [a \in Life |-> {}]
        /\ run = [s \in Start |-> "new"]
        /\ started = 0 /\ holder = None /\ stop = FALSE
        /\ call = [s \in Start |-> NoCall]
        /\ offset = [s \in Start |-> 0]
        /\ requests = {}
        /\ arrived = 0 /\ confirmed = 0
        /\ handed = {} /\ tasks = {} /\ handled = {}
        /\ crashes = 0
-----------------------------------------------------------------------------
(* The framework: actors and commands.                                     *)

\* A new actor enters itself in the dispatcher; the one before it is gone.
Create == /\ exit \in Over \cup {"absent"}
          /\ life < MaxLives
          /\ life' = life + 1
          /\ telegram' = None
          /\ exit' = "idle"
          /\ size' = 0
          /\ UNCHANGED <<chats, dispatcherVars, fetchVars, telegramVars, taskVars, crashes>>

\* start(): a task is made for start_polling and runs later. Whatever task the
\* actor had is forgotten, not ended.
StartCommand == /\ exit = "idle"
                /\ started < MaxStarts
                /\ started' = started + 1
                /\ run' = [run EXCEPT ![started + 1] = "created"]
                /\ telegram' = started + 1
                /\ UNCHANGED <<life, exit, size, chats, holder, stop, fetchVars,
                               telegramVars, taskVars, crashes>>

\* The process dies and takes actor, dispatcher and tasks with it; what is on its
\* way to Telegram stays on its way.
Crash == /\ life # 0 /\ exit # "absent"
         /\ crashes < MaxCrashes
         /\ crashes' = crashes + 1
         /\ exit' = "absent" /\ telegram' = None /\ size' = 0
         /\ run' = [s \in Start |-> IF run[s] \in NotEnded THEN "lost" ELSE run[s]]
         /\ holder' = None /\ stop' = FALSE
         /\ call' = [s \in Start |-> NoCall]
         /\ tasks' = {}
         /\ UNCHANGED <<life, chats, started, offset, requests, telegramVars, handed, handled>>
-----------------------------------------------------------------------------
(* Dispatcher.start_polling.                                               *)

\* The lock is taken and the events are cleared; the poller first asks who it is.
Acquire(s) == /\ holder' = s
              /\ stop' = FALSE
              /\ run' = [run EXCEPT ![s] = "me"]

\* Mutant of Granted: the waiters of the lock run before the waiter of the event.
GrantedAtOnce(s) ==
    /\ run[s] = "waiting"
    /\ holder = None
    /\ \A r \in Start : run[r] = "waiting" => s <= r
    /\ Acquire(s)
    /\ UNCHANGED <<started, actorVars, fetchVars, telegramVars, taskVars, crashes>>

\* The lock was released and wakes its first waiter. End sets _stopped_signal
\* before it releases the lock, so an exit() that awaits it resumes earlier.
Granted(s) ==
    /\ run[s] = "waiting"
    /\ holder = None
    /\ exit # "woken"
    /\ \A r \in Start : run[r] = "waiting" => s <= r
    /\ Acquire(s)
    /\ UNCHANGED <<started, actorVars, fetchVars, telegramVars, taskVars, crashes>>

\* The task runs for the first time, in the order the tasks were made, and takes
\* the lock or queues for it.
Begin(s) ==
    /\ run[s] = "created"
    /\ \A r \in Start : run[r] = "created" => s <= r
    /\ IF holder = None /\ \A r \in Start : run[r] # "waiting"
       THEN Acquire(s)
       ELSE run' = [run EXCEPT ![s] = "waiting"] /\ UNCHANGED <<holder, stop>>
    /\ UNCHANGED <<started, actorVars, fetchVars, telegramVars, taskVars, crashes>>

\* bot.me() answers, or raises: that error ends start_polling.
Me(s) ==
    /\ run[s] = "me"
    /\ \E next \in {"listening", "breaking"} : run' = [run EXCEPT ![s] = next]
    /\ UNCHANGED <<started, holder, stop, actorVars, fetchVars, telegramVars, taskVars, crashes>>

\* asyncio.wait sees _stop_signal: the poller is cancelled, wherever it awaits.
NoticeStop(s) ==
    /\ run[s] \in Polls
    /\ stop
    /\ run' = [run EXCEPT ![s] = "closing"]
    /\ call' = [call EXCEPT ![s] = NoCall]
    /\ UNCHANGED <<started, holder, stop, offset, requests, actorVars, telegramVars,
                   taskVars, crashes>>

\* Mutant of End: the lock is released and _stopped_signal is not set after an error.
EndSilently(s) ==
    /\ run[s] \in Ending
    /\ run' = [run EXCEPT ![s] = IF @ = "closing" THEN "done" ELSE "failed"]
    /\ holder' = None
    /\ exit' = IF exit = "stopping" /\ run[s] = "closing" THEN "woken" ELSE exit
    /\ UNCHANGED <<life, telegram, size, chats, started, stop, fetchVars, telegramVars,
                   taskVars, crashes>>

\* The session is closed, _stopped_signal set, and then the lock released.
End(s) ==
    /\ run[s] \in Ending
    /\ run' = [run EXCEPT ![s] = IF @ = "closing" THEN "done" ELSE "failed"]
    /\ holder' = None
    /\ exit' = IF exit = "stopping" THEN "woken" ELSE exit
    /\ UNCHANGED <<life, telegram, size, chats, started, stop, fetchVars, telegramVars,
                   taskVars, crashes>>
-----------------------------------------------------------------------------
(* Dispatcher._polling and _listen_updates, and Telegram.                  *)

UserSends == /\ arrived < MaxUpdates
             /\ arrived' = arrived + 1
             /\ UNCHANGED <<actorVars, dispatcherVars, fetchVars, confirmed, taskVars, crashes>>

Fetch(s) == /\ run[s] = "listening"
            /\ call[s].at = "idle"
            /\ call' = [call EXCEPT ![s].at = "asked"]
            /\ requests' = requests \cup {[start |-> s, offset |-> offset[s]]}
            /\ UNCHANGED <<offset, actorVars, dispatcherVars, telegramVars, taskVars, crashes>>

\* Timeout or network error: after a sleep the same call is made again. Neither
\* what Telegram does with the first one nor its answer is known.
FetchFails(s) == /\ run[s] = "listening"
                 /\ call[s].at # "idle"
                 /\ call' = [call EXCEPT ![s] = NoCall]
                 /\ UNCHANGED <<offset, requests, actorVars, dispatcherVars, telegramVars,
                                taskVars, crashes>>

\* Mutant of Take: getUpdates confirms what it answers with.
TakeConfirms(s) ==
    /\ \E r \in requests : r.start = s /\ requests' = requests \ {r}
    /\ confirmed' = arrived
    /\ call' = IF call[s].at = "asked"
               THEN [call EXCEPT ![s] = [at |-> "answered", first |-> confirmed + 1,
                                         last |-> arrived]]
               ELSE call
    /\ UNCHANGED <<offset, actorVars, dispatcherVars, arrived, taskVars, crashes>>

\* Telegram confirms all below the offset and answers with what there is after it,
\* if the poller still waits for an answer.
Take(s) ==
    \E r \in requests :
        LET upTo == IF r.offset > confirmed + 1 THEN r.offset - 1 ELSE confirmed IN
        /\ r.start = s
        /\ requests' = requests \ {r}
        /\ confirmed' = upTo
        /\ call' = IF call[s].at = "asked"
                   THEN [call EXCEPT ![s] = [at |-> "answered", first |-> upTo + 1,
                                             last |-> arrived]]
                   ELSE call
        /\ UNCHANGED <<offset, actorVars, dispatcherVars, arrived, taskVars, crashes>>

Batch(s) == call[s].first .. call[s].last

\* Mutant of Receive: the offset of the last call is kept when the batch is handed on.
ReceiveKeepsOffset(s) ==
    /\ run[s] = "listening"
    /\ call[s].at = "answered"
    /\ handed' = handed \cup {<<s, u>> : u \in Batch(s)}
    /\ tasks' = tasks \cup {[actor |-> life, update |-> u] : u \in Batch(s)}
    /\ call' = [call EXCEPT ![s] = NoCall]
    /\ UNCHANGED <<offset, requests, actorVars, dispatcherVars, telegramVars, handled, crashes>>

\* Mutant of Receive: the poller goes on after the update that comes next.
ReceiveSkipsOne(s) ==
    /\ run[s] = "listening"
    /\ call[s].at = "answered"
    /\ handed' = handed \cup {<<s, u>> : u \in Batch(s)}
    /\ tasks' = tasks \cup {[actor |-> life, update |-> u] : u \in Batch(s)}
    /\ offset' = [offset EXCEPT ![s] = IF Batch(s) = {} THEN @ ELSE call[s].last + 2]
    /\ call' = [call EXCEPT ![s] = NoCall]
    /\ UNCHANGED <<requests, actorVars, dispatcherVars, telegramVars, handled, crashes>>

\* The answer arrives: without an await in between, each update gets a task, which
\* calls the actor the dispatcher names now, and the offset moves past it.
Receive(s) ==
    /\ run[s] = "listening"
    /\ call[s].at = "answered"
    /\ handed' = handed \cup {<<s, u>> : u \in Batch(s)}
    /\ tasks' = tasks \cup {[actor |-> life, update |-> u] : u \in Batch(s)}
    /\ offset' = [offset EXCEPT ![s] = IF Batch(s) = {} THEN @ ELSE call[s].last + 1]
    /\ call' = [call EXCEPT ![s] = NoCall]
    /\ UNCHANGED <<requests, actorVars, dispatcherVars, telegramVars, handled, crashes>>

\* A task ends, well or not; process() may have entered a new chat. Nobody awaits
\* these tasks and nothing cancels them.
Finish(t) ==
    /\ tasks' = tasks \ {t}
    /\ handled' = handled \cup {t.update}
    /\ \E new \in SUBSET {t.update} : chats' = [chats EXCEPT ![t.actor] = @ \cup new]
    /\ UNCHANGED <<life, telegram, exit, size, dispatcherVars, fetchVars, telegramVars,
                   handed, crashes>>
-----------------------------------------------------------------------------
(* SimpleTelegramActor.exit, after the timer or whenever the actor is      *)
(* removed; Dispatcher.stop_polling.                                       *)

\* Nothing was started; or no start has the lock (RuntimeError); or whoever has it
\* is told to stop, and exit() awaits _stopped_signal.
StopPolling == /\ \/ telegram = None /\ exit' = "clean" /\ UNCHANGED stop
                  \/ telegram # None /\ holder = None /\ exit' = "refused" /\ UNCHANGED stop
                  \/ telegram # None /\ holder # None /\ exit' = "stopping" /\ stop' = TRUE
               /\ UNCHANGED <<holder, run, started>>

\* Removing the actor takes messages of the framework's own, so a task that start()
\* made has run for the first time by then. Without a chat the loop does not await.
ExitBegins == /\ exit = "idle"
              /\ \A s \in Start : run[s] # "created"
              /\ size' = Cardinality(chats[life])
              /\ IF chats[life] = {}
                 THEN StopPolling
                 ELSE exit' = "telling" /\ UNCHANGED dispatcherVars
              /\ UNCHANGED <<life, telegram, chats, fetchVars, telegramVars, taskVars, crashes>>

\* The chats are told, one after the other; one more of them is a RuntimeError.
ExitTold == /\ exit = "telling"
            /\ IF Cardinality(chats[life]) = size
               THEN StopPolling
               ELSE exit' = "aborted" /\ UNCHANGED dispatcherVars
            /\ UNCHANGED <<life, telegram, size, chats, fetchVars, telegramVars, taskVars, crashes>>

\* Mutant of ExitCancels: errors of the cancelled task are suppressed.
ExitCancelsQuietly ==
    /\ exit = "woken"
    /\ run' = IF run[telegram] \in NotEnded
              THEN [run EXCEPT ![telegram] = "cancelled"] ELSE run
    /\ exit' = "clean"
    /\ UNCHANGED <<life, telegram, size, chats, started, holder, stop, fetchVars,
                   telegramVars, taskVars, crashes>>

\* _telegram is cancelled if it has not ended, and awaited, which raises unless it
\* ended well.
ExitCancels ==
    /\ exit = "woken"
    /\ run' = IF run[telegram] \in NotEnded
              THEN [run EXCEPT ![telegram] = "cancelled"] ELSE run
    /\ exit' = IF run[telegram] = "done" THEN "clean" ELSE "raised"
    /\ UNCHANGED <<life, telegram, size, chats, started, holder, stop, fetchVars,
                   telegramVars, taskVars, crashes>>
-----------------------------------------------------------------------------
Poller(s) == Fetch(s) \/ FetchFails(s) \/ Take(s) \/ Receive(s)

Polling(s) == Begin(s) \/ Granted(s) \/ Me(s) \/ NoticeStop(s) \/ End(s)

Exit == ExitBegins \/ ExitTold \/ ExitCancels

Next == \/ Create \/ StartCommand \/ Crash \/ UserSends \/ Exit
        \/ \E s \in Start : Polling(s) \/ Poller(s)
        \/ \E t \in tasks : Finish(t)

Spec == Init /\ [][Next]_vars

\* The event loop runs what is ready, and what exit() awaits ends. Telegram fails
\* now and then, not for ever: a call that is made again and again is answered.
Fairness == /\ WF_vars(ExitTold \/ ExitCancels)
            /\ WF_vars(\E s \in Start : Polling(s))
            /\ WF_vars(\E s \in Start : Fetch(s))
            /\ SF_vars(\E s \in Start : Take(s) /\ call[s].at = "asked")
            /\ SF_vars(\E s \in Start : Receive(s))

FairSpec == Spec /\ Fairness
-----------------------------------------------------------------------------
(* Properties.                                                             *)

RunState == {"new", "created", "waiting", "me", "listening", "closing", "breaking",
             "done", "failed", "cancelled", "lost"}

ActorType == /\ life \in 0 .. MaxLives
             /\ telegram \in 0 .. MaxStarts
             /\ exit \in {"absent", "idle", "telling", "stopping", "woken"} \cup Over
             /\ size \in Nat
             /\ chats \in [Life -> SUBSET Sent]

DispatcherType == /\ run \in [Start -> RunState]
                  /\ started \in 0 .. MaxStarts
                  /\ holder \in 0 .. MaxStarts
                  /\ stop \in BOOLEAN

Call == [at : {"idle", "asked", "answered"}, first : Nat, last : Nat]

FetchType == /\ call \in [Start -> Call]
             /\ offset \in [Start -> Nat]
             /\ requests \subseteq [start : Start, offset : Nat]

UpdateType == /\ arrived \in 0 .. MaxUpdates
              /\ confirmed \in 0 .. MaxUpdates
              /\ handed \subseteq Start \X Sent
              /\ tasks \subseteq [actor : Life, update : Sent]
              /\ handled \subseteq Sent
              /\ crashes \in 0 .. MaxCrashes

TypeOK == ActorType /\ DispatcherType /\ FetchType /\ UpdateType

\* Some start handed the update to a task.
Handed(u) == \E s \in Start : <<s, u>> \in handed

\* Telegram forgets an update only after a task was made for it, and stopping,
\* starting again and errors of the network lose none: only a crash ends a task.
NothingLost == \A u \in 1 .. confirmed :
    /\ Handed(u)
    /\ crashes = 0 => u \in handled \/ \E t \in tasks : t.update = u

\* Within one start no update is handed on twice: what is on its way to the poller
\* is new to it, whatever calls failed and were made again. (A later start may
\* handle again what was not yet confirmed.)
NeverTwice == \A s \in Start : call[s].at = "answered" =>
    \A u \in Batch(s) : <<s, u>> \notin handed

\* exit() cancels no start_polling at work: asyncio.wait would leave its poller
\* running without anyone to stop it. What it cancels waits for the lock.
CancelsNoPoller == exit = "woken" => run[telegram] \notin Polls \cup Ending

\* When the exit() of an actor that was started ends without an error nothing polls,
\* and nothing is about to: not its own starts, however many, nor what an earlier
\* actor left behind whose exit() failed.
CleanExitIsSilent == exit = "clean" /\ telegram # None =>
    \A s \in Start : run[s] \notin NotEnded

\* Why nothing is lost: whoever would name an offset has handed on nothing from
\* there on, and all below it is handed on.
OffsetInv ==
    /\ confirmed <= arrived
    /\ \A u \in Sent : u <= confirmed => Handed(u)
    /\ \A s \in Start : /\ offset[s] <= arrived + 1
                        /\ \A u \in Sent : u < offset[s] => Handed(u)
                        /\ \A u \in Sent : <<s, u>> \in handed => u < offset[s]

\* An answer starts where the poller is, and after what is confirmed by then.
AnswerInv ==
    \A s \in Start : call[s].at = "answered" => /\ 1 <= call[s].first
                                                /\ offset[s] <= call[s].first
                                                /\ call[s].first <= confirmed + 1
                                                /\ call[s].last <= arrived
                                                /\ \A r \in requests : r.start # s

RequestInv == \A r \in requests : r.offset = offset[r.start]

FetchInv == OffsetInv /\ AnswerInv /\ RequestInv

\* Who has the lock polls, or closes the session.
HolderInv == \A s \in Start : run[s] \in Polls \cup Ending <=> holder = s

\* Why the lock keeps the starts in order: whoever has had it came after all that
\* have ended and before all that wait.
OrderInv ==
    /\ \A s \in Start : run[s] = "new" <=> s > started
    /\ \A s, r \in Start : (s < r /\ run[s] = "created") => run[r] \in {"created", "new"}
    /\ \A s, r \in Start : (s < r /\ run[r] \in Polls \cup Ending \cup {"done"})
                              => run[s] \notin NotEnded

\* What exit() can rely on.
ExitInv ==
    /\ telegram # None => telegram = started
    /\ exit # "absent" \/ started # 0 => life # 0
    /\ exit = "woken" => holder = None
    /\ exit \in {"stopping", "woken"} => telegram # None
    /\ exit \in {"telling", "stopping", "woken"} => \A s \in Start : run[s] # "created"
    /\ exit = "clean" /\ telegram # None => run[telegram] = "done"

LockInv == HolderInv /\ OrderInv /\ ExitInv

\* Nothing but a crash ends a task that was made.
TaskInv == crashes = 0 =>
    \A u \in Sent : Handed(u) => u \in handled \/ \E t \in tasks : t.update = u

\* The inductive invariant.
IInv == TypeOK /\ FetchInv /\ LockInv /\ TaskInv

\* An update is handed on as long as someone listens.
Served == \A u \in Sent :
    (u <= arrived /\ \E s \in Start : run[s] = "listening")
        ~> \/ Handed(u)
           \/ \A s \in Start : run[s] # "listening"

\* exit() comes to an end, well or by an error, unless the process dies.
ExitEnds == exit \in {"telling", "stopping", "woken"} ~> exit \in Over \cup {"absent"}
=============================================================================
